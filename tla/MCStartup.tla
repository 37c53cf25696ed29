----------------------------- MODULE MCStartup -----------------------------
(***************************************************************************)
(* Startup for TLC: two intervals besides the first one, every step that   *)
(* reports errors allowed to fail.  Main has made its calls before: that   *)
(* they are in order on the boards there are is looked at here.            *)
(***************************************************************************)
EXTENDS Startup, CallOrder, BuiltBoards

MCSettings == {500, 5000}

MCBehind ==
    [name \in DOMAIN Boards |->
        LET b == Named(name)
            behind[c \in UNION {Clocks(b, s) : s \in b.starts}] ==
                {c} \cup UNION {behind[d] : d \in Sources(b, c)}
        IN behind]

(* Comparing makes TLC compute a value before it goes on to the next one.  *)
RECURSIVE Replay(_, _)
Replay(calls, ts) ==
    IF Len(ts) > Len(calls) THEN ts
    ELSE LET last == ts[Len(ts)]
             next == After(last, calls[Len(ts)])
         IN Replay(calls, Append(ts, IF next = last THEN last ELSE next))

MCTrace ==
    [name \in DOMAIN Boards |->
        [s \in Named(name).starts |-> Replay(Named(name).program, <<AtStart(s)>>)]]
=============================================================================
