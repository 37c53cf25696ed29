----------------------------- MODULE BoardCalls -----------------------------
(***************************************************************************)
(* The boards that main can be built for: a record each of its clock tree, *)
(* what hangs on it, and the sequence of calls that main makes on it.      *)
(***************************************************************************)
EXTENDS Integers, Sequences

CONSTANT Boards   \* name -> the board

ASSUME BoardsAssumption == \A name \in DOMAIN Boards : DOMAIN Boards[name].program \subseteq Nat

(* A board with its name.                                                  *)
Named(name) ==
    [x \in DOMAIN Boards[name] \cup {"name"} |-> IF x = "name" THEN name ELSE Boards[name][x]]

-----------------------------------------------------------------------------
(* The frequencies of the clocks of a board, with its registers set to t;  *)
(* 0 when a clock stands still.                                            *)
Names(b, t) == DOMAIN b.oscillators \cup DOMAIN t.rate \cup DOMAIN t.by
Eval(b, t, f, c) ==   \* from the frequencies f of the others
    IF c \in t.stopped THEN 0
    ELSE CASE c \in DOMAIN b.oscillators -> b.oscillators[c]
           [] c \in DOMAIN b.pfdOf -> (f[b.pfdOf[c]] * 18) \div t.rate[c]
           [] c \in DOMAIN t.rate \ DOMAIN b.pfdOf -> t.rate[c]
           [] c \in DOMAIN t.from -> f[t.from[c]] \div t.by[c]
           [] OTHER -> f[b.fixed[c]] \div t.by[c]
Frequencies(b, t) == LET f[c \in Names(b, t)] == Eval(b, t, f, c) IN f
=============================================================================
