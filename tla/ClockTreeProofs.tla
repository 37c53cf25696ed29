-------------------------- MODULE ClockTreeProofs --------------------------
(***************************************************************************)
(* The clocks of every board whose calls are in the order that CallOrder   *)
(* asks for: what the frequencies are, that they are not 0 where something *)
(* runs, nor higher than the core and the buses can bear, and what depends *)
(* on them.                                                                *)
(***************************************************************************)
EXTENDS BringupProofs, FiniteSetTheorems

-----------------------------------------------------------------------------
(* Frequencies                                                             *)

(* The equation that the frequencies solve, if it has a solution.          *)
Solves(b, t, f) == f = [c \in Names(b, t) |-> Eval(b, t, f, c)]

LEMMA FrequenciesSolve ==
    ASSUME NEW b, NEW t, NEW f, Solves(b, t, f)
    PROVE  Solves(b, t, Frequencies(b, t))
<1>1. Frequencies(b, t) = CHOOSE g : g = [c \in Names(b, t) |-> Eval(b, t, g, c)]
    BY DEF Frequencies
<1> QED
    BY <1>1 DEF Solves

(* The registers as the calls can set them, and what the frequency of a    *)
(* clock is computed from.                                                 *)
Possible(b, t) ==
    \E s \in b.starts :
        /\ DOMAIN t.from = DOMAIN s.from
        /\ DOMAIN t.by = DOMAIN s.by /\ DOMAIN t.rate = DOMAIN s.rate
        /\ \A c \in DOMAIN t.from : t.from[c] \in Sources(b, c)
HasSource(b, t, c) == c \in DOMAIN b.pfdOf \cup DOMAIN t.by
Source(b, t, c) ==
    IF c \in DOMAIN b.pfdOf THEN b.pfdOf[c]
    ELSE IF c \in DOMAIN t.from THEN t.from[c] ELSE b.fixed[c]

(* The names of the clocks do not depend on the state, there are finitely  *)
(* many, and fewer behind a clock's source than behind the clock itself.   *)
LEMMA NamesAreClocks ==
    ASSUME NEW b, NEW t, NEW behind, Tree(b, behind), Possible(b, t)
    PROVE  \E s \in b.starts : Names(b, t) = Clocks(b, s)
<1>1. PICK s \in b.starts :
        DOMAIN t.from = DOMAIN s.from /\ DOMAIN t.by = DOMAIN s.by /\ DOMAIN t.rate = DOMAIN s.rate
    BY DEF Possible
<1>2. DOMAIN b.pfdOf \subseteq DOMAIN s.rate /\ DOMAIN s.by = DOMAIN s.from \cup DOMAIN b.fixed
    BY DEF Tree
<1>3. Names(b, t) = Clocks(b, s)
    BY <1>1, <1>2 DEF Names, Clocks, Origins, Derived
<1> QED
    BY <1>3

LEMMA BehindIsFinite ==
    ASSUME NEW b, NEW t, NEW behind, Tree(b, behind), Possible(b, t)
    PROVE  /\ IsFiniteSet(Names(b, t)) /\ Cardinality(Names(b, t)) \in Nat
           /\ \A c \in Names(b, t) :
                /\ IsFiniteSet(behind[c]) /\ Cardinality(behind[c]) \in Nat
                /\ Cardinality(behind[c]) <= Cardinality(Names(b, t))
<1>1. PICK s \in b.starts : Names(b, t) = Clocks(b, s)
    BY NamesAreClocks
<1>2. IsFiniteSet(Names(b, t)) /\ \A c \in Names(b, t) : behind[c] \subseteq Names(b, t)
    BY <1>1 DEF Tree
<1> QED
    BY <1>2, FS_Subset, FS_CardinalityType

LEMMA SourceIsBehind ==
    ASSUME NEW b, NEW t, NEW behind, Tree(b, behind), Possible(b, t),
           NEW c \in Names(b, t), HasSource(b, t, c)
    PROVE  /\ Source(b, t, c) \in behind[c] /\ Source(b, t, c) \in Names(b, t)
           /\ Cardinality(behind[Source(b, t, c)]) < Cardinality(behind[c])
<1>1. PICK s \in b.starts :
        /\ DOMAIN t.from = DOMAIN s.from
        /\ DOMAIN t.by = DOMAIN s.by /\ DOMAIN t.rate = DOMAIN s.rate
        /\ \A d \in DOMAIN t.from : t.from[d] \in Sources(b, d)
    BY DEF Possible
<1>2. Names(b, t) = Clocks(b, s)
    BY <1>1 DEF Tree, Names, Clocks, Origins, Derived
<1>3. c \in Derived(b, s) /\ Source(b, t, c) \in Sources(b, c)
    BY <1>1 DEF Tree, HasSource, Derived, Source, Sources
<1>4. Source(b, t, c) \in behind[c] /\ c \notin behind[Source(b, t, c)]
    BY <1>3 DEF Tree
<1>5. Source(b, t, c) \in Names(b, t)
    BY <1>2, <1>4 DEF Tree
<1>6. behind[Source(b, t, c)] \subseteq behind[c] /\ behind[Source(b, t, c)] # behind[c]
    BY <1>2, <1>4 DEF Tree
<1>7. Cardinality(behind[Source(b, t, c)]) < Cardinality(behind[c])
    BY <1>5, <1>6, BehindIsFinite, FS_Subset
<1> QED
    BY <1>4, <1>5, <1>7

(* What is computed for a clock depends on its own registers and on its    *)
(* source alone.                                                           *)
LEMMA EvalOfSource ==
    ASSUME NEW b, NEW t, NEW u, NEW f, NEW g, NEW c \in Names(b, t), Possible(b, t),
           NEW behind, Tree(b, behind),
           DOMAIN t.from = DOMAIN u.from, DOMAIN t.rate = DOMAIN u.rate, DOMAIN t.by = DOMAIN u.by,
           c \in t.stopped <=> c \in u.stopped,
           c \in DOMAIN t.rate => t.rate[c] = u.rate[c],
           c \in DOMAIN t.from => t.from[c] = u.from[c],
           c \in DOMAIN t.by => t.by[c] = u.by[c],
           HasSource(b, t, c) => f[Source(b, t, c)] = g[Source(b, t, c)]
    PROVE  Eval(b, t, f, c) = Eval(b, u, g, c)
<1>1. PICK s \in b.starts :
        DOMAIN t.from = DOMAIN s.from /\ DOMAIN t.by = DOMAIN s.by /\ DOMAIN t.rate = DOMAIN s.rate
    BY DEF Possible
<1>2. /\ DOMAIN b.pfdOf \subseteq DOMAIN t.rate /\ DOMAIN t.by = DOMAIN t.from \cup DOMAIN b.fixed
      /\ DOMAIN b.oscillators \cap DOMAIN t.rate = {}
      /\ (DOMAIN b.oscillators \cup DOMAIN t.rate) \cap DOMAIN t.by = {}
    BY <1>1 DEF Tree
<1>3. CASE c \in DOMAIN b.oscillators
    BY <1>2, <1>3 DEF Eval
<1>4. CASE c \in DOMAIN b.pfdOf
    BY <1>2, <1>4 DEF Eval, HasSource, Source
<1>5. CASE c \in DOMAIN t.rate \ DOMAIN b.pfdOf
    BY <1>2, <1>5 DEF Eval
<1>6. CASE c \in DOMAIN t.from
    BY <1>2, <1>6 DEF Eval, HasSource, Source
<1>7. CASE c \in DOMAIN b.fixed \ DOMAIN t.from
    BY <1>2, <1>7 DEF Eval, HasSource, Source
<1> QED
    BY <1>2, <1>3, <1>4, <1>5, <1>6, <1>7 DEF Names

(* The equation has a solution: were there a number n such that no f       *)
(* satisfies it for the clocks with less than n behind them, a least one   *)
(* would be one more than a number for which there is an f, and computing  *)
(* once more from this f satisfies it for n as well.                       *)
LEMMA SolutionExists ==
    ASSUME NEW b, NEW t, NEW behind, Tree(b, behind), Possible(b, t)
    PROVE  \E f : Solves(b, t, f)
<1> DEFINE Rank(c) == Cardinality(behind[c])
           Upto(n, g) == \A c \in Names(b, t) : Rank(c) < n => g[c] = Eval(b, t, g, c)
           Short == {n \in Nat : \A g : ~Upto(n, g)}
<1>1. \A c \in Names(b, t) :
        /\ Rank(c) \in Nat /\ Cardinality(Names(b, t)) \in Nat
        /\ Rank(c) <= Cardinality(Names(b, t))
        /\ HasSource(b, t, c) =>
            Source(b, t, c) \in Names(b, t) /\ Rank(Source(b, t, c)) < Rank(c)
    BY BehindIsFinite, SourceIsBehind
<1>2. ASSUME NEW f, NEW g, NEW c \in Names(b, t),
             HasSource(b, t, c) => f[Source(b, t, c)] = g[Source(b, t, c)]
      PROVE  Eval(b, t, f, c) = Eval(b, t, g, c)
    BY <1>2, EvalOfSource
<1> HIDE DEF Rank
<1>3. Short = {}
    <2> SUFFICES ASSUME Short # {} PROVE FALSE
        OBVIOUS
    <2>1. PICK n \in Short : \A m \in Short : n <= m
        <3> HIDE DEF Short
        <3>1. Short \subseteq Nat
            BY DEF Short
        <3> QED
            BY <3>1, LeastNumber
    <2>2. n # 0
        BY <1>1, <2>1
    <2>3. n - 1 \in Nat /\ n - 1 \notin Short
        BY <2>1, <2>2
    <2>4. PICK g : Upto(n - 1, g)
        BY <2>3
    <2> DEFINE h == [c \in Names(b, t) |-> Eval(b, t, g, c)]
    <2>5. ASSUME NEW c \in Names(b, t), Rank(c) < n PROVE h[c] = Eval(b, t, h, c)
        <3>1. HasSource(b, t, c) => g[Source(b, t, c)] = h[Source(b, t, c)]
            BY <1>1, <2>1, <2>4, <2>5
        <3>2. Eval(b, t, h, c) = Eval(b, t, g, c)
            <4> HIDE DEF h
            <4> QED
                BY <1>2, <3>1
        <3> QED
            BY <3>2
    <2>6. Upto(n, h)
        BY <2>5
    <2> QED
        BY <2>1, <2>6
<1>4. PICK g : \A c \in Names(b, t) : g[c] = Eval(b, t, g, c)
    <2>1. Cardinality(Names(b, t)) + 1 \in Nat
        BY BehindIsFinite
    <2>2. PICK g : Upto(Cardinality(Names(b, t)) + 1, g)
        BY <1>3, <2>1
    <2> QED
        BY <1>1, <2>1, <2>2
<1> DEFINE f == [c \in Names(b, t) |-> g[c]]
<1>5. ASSUME NEW c \in Names(b, t) PROVE g[c] = Eval(b, t, f, c)
    <2>1. HasSource(b, t, c) => g[Source(b, t, c)] = f[Source(b, t, c)]
        BY <1>1
    <2> HIDE DEF f
    <2> QED
        BY <1>2, <1>4, <2>1
<1>6. f = [c \in Names(b, t) |-> Eval(b, t, f, c)]
    BY <1>5
<1> HIDE DEF f
<1> QED
    BY <1>6 DEF Solves

(* Registers that agree on all that is behind a clock give it the same     *)
(* frequency.                                                              *)
Agree(path, t, u) ==
    /\ DOMAIN t.from = DOMAIN u.from /\ DOMAIN t.rate = DOMAIN u.rate /\ DOMAIN t.by = DOMAIN u.by
    /\ \A c \in path :
        /\ c \in t.stopped <=> c \in u.stopped
        /\ c \in DOMAIN t.rate => t.rate[c] = u.rate[c]
        /\ c \in DOMAIN t.from => t.from[c] = u.from[c]
        /\ c \in DOMAIN t.by => t.by[c] = u.by[c]

(* Proved at the clock with the fewest behind it of those that differ.     *)
LEMMA SameFrequency ==
    ASSUME NEW b, NEW t, NEW u, NEW behind, Tree(b, behind), Possible(b, t), Possible(b, u),
           NEW clock \in Names(b, t), Agree(behind[clock], t, u),
           NEW f, Solves(b, t, f), NEW g, Solves(b, u, g)
    PROVE  f[clock] = g[clock]
<1> DEFINE Rank(c) == Cardinality(behind[c])
           Wrong == {c \in behind[clock] : f[c] # g[c]}
           Ranks == {n \in Nat : \E c \in Wrong : Rank(c) = n}
<1>1. /\ behind[clock] \subseteq Names(b, t) /\ clock \in behind[clock]
      /\ \A c \in behind[clock] : behind[c] \subseteq behind[clock]
    BY NamesAreClocks DEF Tree
<1>2. Names(b, t) = Names(b, u)
    BY DEF Agree, Names
<1>3. \A c \in behind[clock] :
        /\ Rank(c) \in Nat
        /\ HasSource(b, t, c) =>
            Source(b, t, c) \in behind[clock] /\ Rank(Source(b, t, c)) < Rank(c)
    BY <1>1, BehindIsFinite, SourceIsBehind
<1> SUFFICES ASSUME Wrong # {} PROVE FALSE
    BY <1>1
<1>4. PICK n \in Ranks : \A m \in Ranks : n <= m
    <2>1. Ranks # {} /\ Ranks \subseteq Nat
        BY <1>3
    <2> HIDE DEF Ranks
    <2> QED
        BY <2>1, LeastNumber
<1>5. PICK c \in Wrong : Rank(c) = n /\ n \in Nat
    BY <1>4
<1>6. HasSource(b, t, c) => f[Source(b, t, c)] = g[Source(b, t, c)]
    <2> SUFFICES ASSUME HasSource(b, t, c), f[Source(b, t, c)] # g[Source(b, t, c)] PROVE FALSE
        OBVIOUS
    <2>1. Source(b, t, c) \in Wrong /\ Rank(Source(b, t, c)) \in Nat /\ Rank(Source(b, t, c)) < n
        BY <1>3, <1>5
    <2>2. Rank(Source(b, t, c)) \in Ranks
        BY <2>1
    <2> HIDE DEF Rank, Ranks
    <2> QED
        BY <1>4, <1>5, <2>1, <2>2
<1>7. c \in Names(b, t)
    BY <1>1
<1>8. Eval(b, t, f, c) = Eval(b, u, g, c)
    BY <1>6, <1>7, EvalOfSource DEF Agree
<1>9. f[c] = Eval(b, t, f, c) /\ g[c] = Eval(b, u, g, c)
    <2>1. \A x \in Names(b, t) : [y \in Names(b, t) |-> Eval(b, t, f, y)][x] = Eval(b, t, f, x)
        OBVIOUS
    <2>2. \A x \in Names(b, u) : [y \in Names(b, u) |-> Eval(b, u, g, y)][x] = Eval(b, u, g, x)
        OBVIOUS
    <2> QED
        BY <1>2, <1>7, <2>1, <2>2 DEF Solves
<1> QED
    BY <1>8, <1>9

-----------------------------------------------------------------------------
(* The clocks of the flash and of the units                                *)

(* Every multiplexer is set to one of the sources that the calls give it,  *)
(* and what stands still is what is being set.                             *)
SourcesRight == \A c \in DOMAIN from : from[c] \in Sources(board, c)
StoppedRight == stopped = {} \/ (Calls("rate") /\ stopped = On)
ClocksInv == Here /\ Typed /\ SourcesRight /\ StoppedRight

LEMMA ClocksAtFirst == MainInit => ClocksInv
<1> SUFFICES ASSUME MainInit PROVE ClocksInv
    OBVIOUS
<1>1. SourcesRight
    BY DEF MainInit, ClockInit, SourcesRight, Sources
<1> QED
    BY <1>1, HereAtFirst, TypedAtFirst DEF ClocksInv, StoppedRight, MainInit, ClockInit

LEMMA ClocksNext ==
    ASSUME ClocksInv, [MainNext]_vars
    PROVE  ClocksInv'
<1>1. Here /\ Typed /\ Here' /\ Typed' /\ board' = board /\ Len(board.program) \in Nat
    BY HereNext, TypedNext, WhoChangesClocks, Assumed DEF ClocksInv, Here, CallsTyped
<1>2. \A op : Calls(op) => at \in Of(board, op)
    BY <1>1, ToCall DEF Here
<1>3. ASSUME NEW c \in DOMAIN from' PROVE from'[c] \in Sources(board, c)
    <2>1. CASE from' = from
        BY <2>1 DEF ClocksInv, SourcesRight
    <2>2. CASE CLOCK_SetMux
        <3>1. c \in On => To \in Sources(board, c)
            BY <1>2, <2>2 DEF CLOCK_SetMux, Sources, About, On, To
        <3> QED
            BY <2>2, <3>1 DEF CLOCK_SetMux, Set, ClocksInv, SourcesRight
    <2>3. CASE CLOCK_SetRootClock
        <3>1. c \in On => To.source \in Sources(board, c)
            BY <1>2, <2>3 DEF CLOCK_SetRootClock, Sources, About, On, To
        <3> QED
            BY <2>3, <3>1 DEF CLOCK_SetRootClock, ClocksInv, SourcesRight
    <2> QED
        BY <2>1, <2>2, <2>3, WhoChangesClocks
<1>4. StoppedRight'
    <2>1. CASE CLOCK_InitStop
        BY <2>1 DEF CLOCK_InitStop, StoppedRight, Calls, On
    <2>2. CASE CLOCK_InitLocked
        BY <2>2 DEF CLOCK_InitLocked, StoppedRight
    <2>3. CASE stopped' = stopped /\ stopped = {}
        BY <2>3 DEF StoppedRight
    <2>4. CASE stopped' = stopped /\ stopped # {}
        <3>1. Calls("rate") /\ stopped = On
            BY <2>4 DEF ClocksInv, StoppedRight
        <3>2. at' = at
            BY <2>4, <3>1, WhoStops
        <3> QED
            BY <1>1, <2>4, <3>1, <3>2 DEF StoppedRight, Calls, On
    <2> QED
        BY <2>1, <2>2, <2>3, <2>4, WhoChangesClocks
<1> QED
    BY <1>1, <1>3, <1>4 DEF ClocksInv, SourcesRight

(* Frequency is well defined in every state: what it is defined by does    *)
(* have a solution.                                                        *)
LEMMA ClocksOfNow ==
    ASSUME ClocksInv
    PROVE  /\ \E s \in board.starts : Names(board, Registers) = Clocks(board, s)
           /\ Solves(board, Registers, Frequency)
<1>1. Tree(board, Behind[board.name])
    BY Assumed DEF ClocksInv, Here
<1>2. Possible(board, Registers)
    BY DEF ClocksInv, Here, Started, SourcesRight, Possible, Registers
<1> QED
    BY <1>1, <1>2, NamesAreClocks, SolutionExists, FrequenciesSolve DEF Frequency

(* The frequencies of this state and of the next one.                      *)
LEMMA FrequencyKept ==
    ASSUME ClocksInv, ClocksInv', board' = board, NEW clock \in Names(board, Registers),
           Agree(Behind[board.name][clock], Registers, Registers')
    PROVE  Frequency'[clock] = Frequency[clock]
<1>1. Tree(board, Behind[board.name])
    BY Assumed DEF ClocksInv, Here
<1>2. Possible(board, Registers)
    BY DEF ClocksInv, Here, Started, SourcesRight, Possible, Registers
<1>3. Possible(board, Registers')
    BY DEF ClocksInv, Here, Started, SourcesRight, Possible, Registers
<1>4. Solves(board, Registers, Frequency) /\ Solves(board, Registers', Frequency')
    BY <1>1, <1>2, <1>3, SolutionExists, FrequenciesSolve DEF Frequency
<1> QED
    BY <1>1, <1>2, <1>3, <1>4, SameFrequency

(* The calls that change what a frequency depends on.                      *)
Changing ==
    CLOCK_SetMux \/ CLOCK_SetDiv \/ CLOCK_SetRootClock \/ CLOCK_InitStop \/ CLOCK_InitLocked

(* A step that sets none of the clocks in path leaves their registers.     *)
LEMMA PathKept ==
    ASSUME ClocksInv, [MainNext]_vars, NEW path, Changing => On \cap path = {}
    PROVE  Agree(path, Registers, Registers')
<1>1. DOMAIN from = DOMAIN from' /\ DOMAIN rate = DOMAIN rate' /\ DOMAIN by = DOMAIN by'
    BY WhoChangesClocks
    DEF CLOCK_SetMux, CLOCK_SetDiv, CLOCK_SetRootClock, CLOCK_InitLocked, Set
<1>2. ASSUME NEW c \in path PROVE c \in stopped <=> c \in stopped'
    BY WhoChangesClocks DEF Changing, ClocksInv, StoppedRight, CLOCK_InitStop, CLOCK_InitLocked
<1>3. ASSUME NEW c \in path
      PROVE  /\ c \in DOMAIN rate => rate[c] = rate'[c]
             /\ c \in DOMAIN from => from[c] = from'[c]
             /\ c \in DOMAIN by => by[c] = by'[c]
    BY WhoChangesClocks
    DEF Changing, CLOCK_SetMux, CLOCK_SetDiv, CLOCK_SetRootClock, CLOCK_InitLocked, Set
<1> QED
    BY <1>1, <1>2, <1>3 DEF Agree, Registers

(* The clocks behind the flash run, and a PLL among them that is set later *)
(* has its rate already.                                                   *)

FlashRight ==
    LET path == Behind[board.name][board.flash]
    IN /\ stopped \cap path = {}
       /\ \A i \in Of(board, "rate") : \A c \in board.program[i].on \cap path :
            rate[c] = board.program[i].to

LEMMA FlashStep ==
    ASSUME ClocksInv, FlashRight, [MainNext]_vars
    PROVE  FlashRight' /\ Frequency'[board.flash] = Frequency[board.flash]
<1> DEFINE path == Behind[board.name][board.flash]
<1>1. /\ board' = board /\ Len(board.program) \in Nat /\ FlashLeft(board, Behind[board.name])
      /\ Here /\ Typed /\ ArgumentsTyped(board) /\ ClocksInv'
    BY WhoChangesClocks, Assumed, ClocksNext DEF ClocksInv, Here, CallsTyped
<1>2. \A op : Calls(op) => at \in Of(board, op)
    BY <1>1, ToCall DEF Here
<1>3. ASSUME CLOCK_SetMux \/ CLOCK_SetDiv \/ CLOCK_SetRootClock PROVE On \cap path = {}
    BY <1>1, <1>2, <1>3
    DEF FlashLeft, Sets, CLOCK_SetMux, CLOCK_SetDiv, CLOCK_SetRootClock, On
<1>4. ASSUME CLOCK_InitStop PROVE On \cap path = {}
    <2> SUFFICES ASSUME On \cap path # {} PROVE FALSE
        OBVIOUS
    <2>1. at \in Of(board, "rate")
        BY <1>2, <1>4 DEF CLOCK_InitStop
    <2>2. board.keepsSame /\ On \subseteq path
        BY <1>1, <2>1 DEF FlashLeft, On
    <2>3. \A c \in On : rate[c] = To
        BY <2>1, <2>2 DEF FlashRight, On, To
    <2>4. rate = Set(rate)
        BY <1>1, <2>3 DEF Typed, ClocksTyped, Set
    <2> QED
        BY <1>4, <2>2, <2>4 DEF CLOCK_InitStop
<1>5. ASSUME CLOCK_InitLocked PROVE On \cap path = {}
    BY <1>5 DEF ClocksInv, StoppedRight, FlashRight, CLOCK_InitLocked
<1>6. Agree(path, Registers, Registers')
    BY <1>3, <1>4, <1>5, PathKept DEF Changing
<1>7. board.flash \in Names(board, Registers)
    BY <1>1, ClocksOfNow DEF FlashLeft
<1>8. Frequency'[board.flash] = Frequency[board.flash]
    BY <1>1, <1>6, <1>7, FrequencyKept
<1>9. FlashRight'
    <2>1. stopped' \cap path = {}
        BY <1>6 DEF FlashRight, Agree, Registers
    <2>2. ASSUME NEW i \in Of(board, "rate"), NEW c \in board.program[i].on \cap path
          PROVE  rate'[c] = board.program[i].to
        <3>1. c \in DOMAIN rate
            BY <1>1, <2>2 DEF ArgumentsTyped, Here, Started
        <3> QED
            BY <1>6, <2>2, <3>1 DEF FlashRight, Agree, Registers
    <2> QED
        BY <1>1, <2>1, <2>2 DEF FlashRight, Of
<1> QED
    BY <1>8, <1>9

(* On every board whose calls leave alone what the flash is clocked from,  *)
(* or set it to what it is where the driver then does nothing, the code    *)
(* executes from a flash whose clock never changes (clock_config.c).       *)
THEOREM FlashUndisturbed == MainSpec => FlashClockKept
<1>1. MainInit => ClocksInv /\ FlashRight
    <2> SUFFICES ASSUME MainInit PROVE ClocksInv /\ FlashRight
        OBVIOUS
    <2>1. ClocksInv /\ FlashLeft(board, Behind[board.name])
        BY ClocksAtFirst, Assumed DEF ClocksInv, Here
    <2>2. stopped = {} /\ \E s \in board.starts : rate = s.rate
        BY DEF MainInit, ClockInit
    <2> QED
        BY <2>1, <2>2 DEF FlashLeft, FlashRight
<1>2. ClocksInv /\ FlashRight /\ [MainNext]_vars =>
        /\ ClocksInv' /\ FlashRight'
        /\ [Frequency[board.flash]' = Frequency[board.flash]]_clockVars
    <2> SUFFICES ASSUME ClocksInv, FlashRight, [MainNext]_vars
                 PROVE  /\ ClocksInv' /\ FlashRight'
                        /\ Frequency[board.flash]' = Frequency[board.flash]
        OBVIOUS
    <2>1. board' = board
        BY WhoChangesClocks
    <2> QED
        BY <2>1, ClocksNext, FlashStep
<1> QED
    BY <1>1, <1>2, PTL DEF MainSpec, FlashClockKept

-----------------------------------------------------------------------------
(* The units                                                               *)

ConsoleRight ==
    board.name = "rt1060" /\ "console" \in DOMAIN board.units =>
        by["pll3_sw"] = 1 /\ by["pll3_80m"] = 6

(* A unit that was started has been told its clock's frequency, by a call  *)
(* that lies behind.                                                       *)
UnitsRight ==
    \A u \in DOMAIN told :
        /\ told[u] = Frequency[board.units[u].clock]
        /\ \E i \in About(board, "unit", u) : i < at

(* The definition of Frequency, unfolded at a clock.                       *)
LEMMA FrequencyOf ==
    ASSUME ClocksInv, stopped = {}, NEW c \in Names(board, Registers)
    PROVE  /\ c \in DOMAIN board.oscillators => Frequency[c] = board.oscillators[c]
           /\ c \in DOMAIN rate \ DOMAIN board.pfdOf => Frequency[c] = rate[c]
           /\ c \in DOMAIN from => Frequency[c] = Frequency[from[c]] \div by[c]
           /\ c \in DOMAIN board.fixed => Frequency[c] = Frequency[board.fixed[c]] \div by[c]
<1>1. \A x \in Names(board, Registers) : Frequency[x] = Eval(board, Registers, Frequency, x)
    <2>1. \A f : \A x \in Names(board, Registers) :
            [y \in Names(board, Registers) |-> Eval(board, Registers, f, y)][x]
                = Eval(board, Registers, f, x)
        OBVIOUS
    <2> QED
        BY <2>1, ClocksOfNow DEF Solves
<1>2. PICK s \in board.starts :
        DOMAIN from = DOMAIN s.from /\ DOMAIN by = DOMAIN s.by /\ DOMAIN rate = DOMAIN s.rate
    BY DEF ClocksInv, Here, Started
<1>3. /\ DOMAIN board.pfdOf \subseteq DOMAIN rate /\ DOMAIN by = DOMAIN from \cup DOMAIN board.fixed
      /\ DOMAIN board.oscillators \cap DOMAIN rate = {} /\ DOMAIN from \cap DOMAIN board.fixed = {}
      /\ (DOMAIN board.oscillators \cup DOMAIN rate) \cap DOMAIN by = {}
    BY <1>2, Assumed DEF ClocksInv, Here, Tree
<1> QED
    BY <1>1, <1>3 DEF Eval, Registers

(* The dividers that the console's rate is computed without stay as they   *)
(* were.                                                                   *)
LEMMA ConsoleNext ==
    ASSUME ClocksInv, ConsoleRight, [MainNext]_vars
    PROVE  ConsoleRight'
<1>1. /\ board' = board /\ Len(board.program) \in Nat /\ ConsoleLeft(board)
      /\ \A op : Calls(op) => at \in Of(board, op)
    BY WhoChangesClocks, Assumed, ToCall DEF ClocksInv, Here, CallsTyped
<1> SUFFICES ASSUME board.name = "rt1060", "console" \in DOMAIN board.units,
                    NEW c \in {"pll3_sw", "pll3_80m"}
             PROVE  by'[c] = by[c]
    BY <1>1 DEF ConsoleRight
<1>2. c \in DOMAIN by
    <2>1. PICK s \in board.starts :
            DOMAIN from = DOMAIN s.from /\ DOMAIN by = DOMAIN s.by /\ DOMAIN rate = DOMAIN s.rate
        BY DEF ClocksInv, Here, Started
    <2>2. c \in DOMAIN s.from \cup DOMAIN board.fixed
        BY <1>1, <2>1 DEF ConsoleLeft
    <2> QED
        BY <2>1, <2>2, Assumed DEF ClocksInv, Here, Tree
<1>3. CLOCK_SetDiv \/ CLOCK_SetRootClock => c \notin On
    BY <1>1 DEF ConsoleLeft, About, CLOCK_SetDiv, CLOCK_SetRootClock, On
<1> QED
    BY <1>2, <1>3, WhoChangesClocks DEF CLOCK_SetDiv, CLOCK_SetRootClock, Set

(* What the console is told is the frequency of its clock, though it is    *)
(* computed without half of the registers that decide it.                  *)
LEMMA ConsoleTold ==
    ASSUME ClocksInv, ConsoleRight, stopped = {},
           board.name = "rt1060", "console" \in DOMAIN board.units
    PROVE  RT1060!BOARD_DebugConsoleSrcFreq(from, by, rate) = Frequency["uart"]
<1>1. ConsoleLeft(board) /\ Tree(board, Behind[board.name])
    BY Assumed DEF ClocksInv, Here
<1>2. PICK s \in board.starts :
        DOMAIN from = DOMAIN s.from /\ DOMAIN by = DOMAIN s.by /\ DOMAIN rate = DOMAIN s.rate
    BY DEF ClocksInv, Here, Started
<1>3. /\ {"uart", "pll3_sw"} \subseteq DOMAIN from /\ "pll3" \in DOMAIN rate \ DOMAIN board.pfdOf
      /\ "osc" \in DOMAIN board.oscillators /\ board.oscillators["osc"] = 24000
      /\ "pll3_80m" \in DOMAIN board.fixed /\ board.fixed["pll3_80m"] = "pll3_sw"
      /\ by["pll3_sw"] = 1 /\ by["pll3_80m"] = 6
    BY <1>1, <1>2 DEF ConsoleLeft, ConsoleRight
<1>4. from["uart"] \in {"pll3_80m", "osc"} /\ from["pll3_sw"] = "pll3"
    BY <1>1, <1>3 DEF ConsoleLeft, ClocksInv, SourcesRight
<1>5. {"uart", "pll3_sw", "pll3", "osc", "pll3_80m"} \subseteq Names(board, Registers)
    BY <1>1, <1>2, <1>3 DEF Names, Registers, Tree
<1>6. /\ Frequency["uart"] = Frequency[from["uart"]] \div by["uart"]
      /\ Frequency["osc"] = 24000 /\ Frequency["pll3"] = rate["pll3"]
      /\ Frequency["pll3_sw"] = Frequency["pll3"] \div 1
      /\ Frequency["pll3_80m"] = Frequency["pll3_sw"] \div 6
    BY <1>3, <1>4, <1>5, FrequencyOf
<1>7. rate["pll3"] \in Nat
    BY <1>3 DEF ClocksInv, Typed, ClocksTyped
<1>8. Frequency["pll3_80m"] = rate["pll3"] \div 6
    BY <1>6, <1>7
<1>9. RT1060!Inputs["uart"][1] = "pll3_80m"
    BY DEF RT1060!Inputs
<1> QED
    BY <1>4, <1>6, <1>8, <1>9 DEF RT1060!BOARD_DebugConsoleSrcFreq

LEMMA UnitsNext ==
    ASSUME ClocksInv, ConsoleRight, UnitsRight, [MainNext]_vars
    PROVE  UnitsRight'
<1>1. /\ board' = board /\ Len(board.program) \in Nat /\ UnitsLeft(board, Behind[board.name])
      /\ Here /\ ClocksInv' /\ \A op : Calls(op) => at \in Of(board, op)
    BY WhoChangesClocks, Assumed, ClocksNext, ToCall DEF ClocksInv, Here, CallsTyped
<1> SUFFICES ASSUME NEW u \in DOMAIN told'
             PROVE  /\ told'[u] = Frequency'[board.units[u].clock]
                    /\ \E i \in About(board, "unit", u) : i < at'
    BY <1>1 DEF UnitsRight
<1> DEFINE clock == board.units[u].clock
           path == Behind[board.name][clock]
<1>2. CASE StartUnit /\ u \in On
    <2>1. /\ at \in About(board, "unit", u) /\ On = {u}
          /\ \A s \in board.starts : clock \in Clocks(board, s)
        BY <1>1, <1>2 DEF StartUnit, BoardCall, About, On, UnitsLeft
    <2>2. told'[u] = Told(u)
        BY <1>2, <2>1 DEF StartUnit, With
    <2>3. stopped = {}
        BY <1>2 DEF StartUnit, BoardCall, Calls, ClocksInv, StoppedRight
    <2>4. Told(u) = Frequency[clock]
        <3>1. u \in DOMAIN board.units
            BY <1>1, <2>1, Assumed DEF Here, CallsTyped, ArgumentsTyped, About
        <3> QED
            BY <1>1, <2>3, <3>1, ConsoleTold, Assumed DEF Told, Here, ConsoleLeft
    <2>5. clock \in Names(board, Registers)
        BY <2>1, ClocksOfNow
    <2>6. Agree(path, Registers, Registers')
        BY <1>2 DEF StartUnit, BoardCall, Agree, Registers
    <2>7. at < at'
        BY <1>1, <1>2 DEF StartUnit, BoardCall, Return, Here, Placed
    <2> QED
        BY <1>1, <2>1, <2>2, <2>4, <2>5, <2>6, <2>7, FrequencyKept
<1>3. CASE u \in DOMAIN told /\ told'[u] = told[u]
    <2>1. PICK i \in About(board, "unit", u) : i < at
        BY <1>3 DEF UnitsRight
    <2>2. /\ \A s \in board.starts : clock \in Clocks(board, s)
          /\ \A op \in Sets : \A j \in Of(board, op) : i < j => board.program[j].on \cap path = {}
        BY <1>1, <2>1 DEF UnitsLeft, About
    <2>3. \A op \in Sets : Calls(op) => On \cap path = {}
        BY <1>1, <2>1, <2>2 DEF On
    <2>4. Changing => On \cap path = {}
        BY <2>3 DEF Changing, Sets, CLOCK_SetMux, CLOCK_SetDiv, CLOCK_SetRootClock,
           CLOCK_InitStop, CLOCK_InitLocked
    <2>5. Agree(path, Registers, Registers')
        BY <2>4, PathKept
    <2>6. clock \in Names(board, Registers)
        BY <2>2, ClocksOfNow
    <2>7. at <= at' /\ i \in Nat
        <3>1. at \in Nat /\ at' \in Nat /\ i \in Nat
            BY <1>1, <2>1 DEF Here, Placed, ClocksInv, About, Of
        <3>2. CASE Calls("if_on") /\ at' # at
            BY <1>1, <3>1, <3>2, WhoCalls, Assumed
            DEF CacheSkipOff, CallsTyped, BlocksTyped, Here, To
        <3> QED
            BY <3>1, <3>2, WhoCalls
    <2> QED
        BY <1>1, <1>3, <2>1, <2>5, <2>6, <2>7, FrequencyKept
        DEF UnitsRight, Here, Placed, ClocksInv
<1> QED
    BY <1>2, <1>3, WhoChangesBoard DEF StartUnit, With

(* On every board whose later calls leave alone what a unit's clock comes  *)
(* from, the rate that the console and the PHY's interface were told is    *)
(* theirs ever after (pin_mux.c, board.c, main_enet.c).                    *)
THEOREM UnitsToldRight == MainSpec => []UnitsKeepRate
<1>1. MainInit => ClocksInv /\ ConsoleRight /\ UnitsRight
    <2> SUFFICES ASSUME MainInit PROVE ConsoleRight /\ UnitsRight
        BY ClocksAtFirst
    <2>1. ConsoleLeft(board)
        BY ClocksAtFirst, Assumed DEF ClocksInv, Here
    <2>2. ConsoleRight
        BY <2>1 DEF MainInit, ClockInit, ConsoleLeft, ConsoleRight
    <2> QED
        BY <2>2 DEF MainInit, UnitsRight
<1>2. ClocksInv /\ ConsoleRight /\ UnitsRight /\ [MainNext]_vars
        => ClocksInv' /\ ConsoleRight' /\ UnitsRight'
    BY ClocksNext, ConsoleNext, UnitsNext
<1>3. UnitsRight => UnitsKeepRate
    BY DEF UnitsRight, UnitsKeepRate
<1> QED
    BY <1>1, <1>2, <1>3, PTL DEF MainSpec

-----------------------------------------------------------------------------
(* Where main is says how the clocks are set                               *)

(* The state of the clocks as a trace has it.                              *)
Shown(f, d, r, o, v, m) ==
    [clocks |-> [from |-> f, by |-> d, rate |-> r, stopped |-> {}],
     off |-> o, target |-> v, mVs |-> m]

(* The trace has, for this place, the registers that there are, and the    *)
(* voltages that the core may have now or soon.                            *)
Follows(t) ==
    t = Shown(from, by, rate, off, target, t.mVs) /\ vdd \in t.mVs /\ target \in t.mVs
TraceRight == \E s \in board.starts : Follows(Trace[board.name][s][at])

(* The PLL that is stopped has to be.                                      *)
StopNeeded == stopped # {} => ~(board.keepsSame /\ rate = Set(rate))

LEMMA TraceAtFirst == MainInit => TraceRight /\ StopNeeded
<1> SUFFICES ASSUME MainInit PROVE TraceRight /\ StopNeeded
    OBVIOUS
<1>1. Traces(board, Trace[board.name])
    BY HereAtFirst, Assumed DEF Here
<1>2. PICK s \in board.starts :
        from = s.from /\ by = s.by /\ rate = s.rate /\ target = s.vdd /\ vdd = s.vdd
    BY DEF MainInit, ClockInit
<1>3. at = 1 /\ stopped = {} /\ off = {}
    BY DEF MainInit, ClockInit
<1>4. Trace[board.name][s][at] = Shown(from, by, rate, off, target, {s.vdd})
    BY <1>1, <1>2, <1>3 DEF Traces, AtStart, Shown
<1>5. Follows(Trace[board.name][s][at])
    BY <1>2, <1>4 DEF Follows, Shown
<1> QED
    BY <1>3, <1>5 DEF TraceRight, StopNeeded

(* Calls on caches, whether they are made or skipped, leave the clocks.    *)
LEMMA TraceSkips ==
    ASSUME Here, NEW i \in Of(board, "if_on"), NEW s \in board.starts
    PROVE  LET trace == Trace[board.name][s]
           IN trace[i + 1] = trace[i] /\ trace[i + 1 + board.program[i].to] = trace[i]
<1> DEFINE trace == Trace[board.name][s]
           n == board.program[i].to
           Wrong == {k \in Nat : k <= n + 1 /\ trace[i + k] # trace[i]}
<1>1. /\ Len(board.program) \in Nat /\ i \in Nat /\ i >= 1
      /\ n \in Nat /\ i + n <= Len(board.program)
      /\ \A j \in (i + 1)..(i + n) : board.program[j].op \in {"push", "drop", "switch"}
    BY Assumed DEF Here, CallsTyped, BlocksTyped, Guarded, Of
<1>2. ASSUME NEW j \in i..(i + n) PROVE trace[j + 1] = trace[j]
    <2>1. j \in 1..Len(board.program)
        BY <1>1
    <2>2. trace[j + 1] = After(trace[j], board.program[j])
        BY <2>1, Assumed DEF Here, Traces
    <2>3. board.program[j].op \in {"if_on", "push", "drop", "switch"}
        BY <1>1 DEF Of
    <2> QED
        BY <2>2, <2>3 DEF After
<1> HIDE DEF trace, n
<1>3. Wrong = {}
    <2> SUFFICES ASSUME Wrong # {} PROVE FALSE
        OBVIOUS
    <2>1. PICK k \in Wrong : \A m \in Wrong : k <= m
        <3>1. Wrong \subseteq Nat
            OBVIOUS
        <3> HIDE DEF Wrong
        <3> QED
            BY <3>1, LeastNumber
    <2>2. k \in Nat /\ k # 0 /\ k <= n + 1
        BY <1>1, <2>1
    <2>3. k - 1 \in Nat /\ k - 1 <= n + 1 /\ k - 1 \notin Wrong
        <3>1. k - 1 \in Nat /\ k - 1 <= n + 1 /\ ~(k <= k - 1)
            BY <1>1, <2>2
        <3> HIDE DEF Wrong
        <3> QED
            BY <2>1, <3>1
    <2>4. trace[i + (k - 1)] = trace[i]
        BY <2>3
    <2>5. i + (k - 1) \in i..(i + n) /\ i + (k - 1) + 1 = i + k
        BY <1>1, <2>2
    <2>6. trace[i + k] = trace[i + (k - 1)]
        BY <1>2, <2>5
    <2> QED
        BY <2>1, <2>4, <2>6
<1>4. 1 \in Nat /\ 1 <= n + 1 /\ n + 1 \in Nat /\ n + 1 <= n + 1 /\ i + (n + 1) = i + 1 + n
    BY <1>1
<1>5. trace[i + 1] = trace[i] /\ trace[i + (n + 1)] = trace[i]
    BY <1>3, <1>4
<1> QED
    BY <1>4, <1>5 DEF trace, n

(* A call leaves the clocks as the trace says.                             *)
LEMMA CallFollows ==
    ASSUME Here, [MainNext]_vars, at' # at, ~Calls("if_on"), NEW t, Follows(t)
    PROVE  \E m : /\ After(t, board.program[at]) = Shown(from', by', rate', off', target', m)
                  /\ vdd' \in m /\ target' \in m
<1> DEFINE call == board.program[at]
<1>1. /\ at' = at + 1 /\ vdd' = vdd /\ at <= Len(board.program)
      /\ \A op : Calls(op) <=> call.op = op
    BY WhoCalls DEF Calls
<1>2. PICK m : t = Shown(from, by, rate, off, target, m) /\ vdd \in m /\ target \in m
    BY DEF Follows
<1>3. \A f : Put(f, call, call.to) = Set(f)
    BY DEF Put, Set, On, To
<1> HIDE DEF call
<1> DEFINE now == Shown(from, by, rate, off, target, m)
           then == After(now, call)
<1>4. /\ call.op = "from" => then = Shown(Put(from, call, call.to), by, rate, off, target, m)
      /\ call.op = "by" => then = Shown(from, Put(by, call, call.to), rate, off, target, m)
      /\ call.op = "root" => then = Shown(Put(from, call, call.to.source),
                                         Put(by, call, call.to.n), rate, off, target, m)
      /\ call.op = "rate" => then = Shown(from, by, Put(rate, call, call.to), off, target, m)
      /\ call.op = "gate" => then = Shown(from, by, rate, off \cup call.on, target, m)
      /\ call.op = "vdd" => then = Shown(from, by, rate, off, call.to, m \cup {call.to})
      /\ call.op = "await" => then = Shown(from, by, rate, off, target, {target})
    BY DEF After, Shown
<1> HIDE DEF then
<1>5. CASE Calls("from")
    <2>1. CLOCK_SetMux
        BY <1>5, WhoCalls
    <2>2. then = Shown(from', by', rate', off', target', m)
        BY <1>1, <1>3, <1>4, <1>5, <2>1 DEF CLOCK_SetMux
    <2> QED
        BY <1>1, <1>2, <2>1, <2>2 DEF CLOCK_SetMux, then, call
<1>6. CASE Calls("by")
    <2>1. CLOCK_SetDiv
        BY <1>6, WhoCalls
    <2>2. then = Shown(from', by', rate', off', target', m)
        BY <1>1, <1>3, <1>4, <1>6, <2>1 DEF CLOCK_SetDiv
    <2> QED
        BY <1>1, <1>2, <2>1, <2>2 DEF CLOCK_SetDiv, then, call
<1>7. CASE Calls("root")
    <2>1. CLOCK_SetRootClock
        BY <1>7, WhoCalls
    <2>2. from' = Put(from, call, call.to.source) /\ by' = Put(by, call, call.to.n)
        BY <2>1 DEF CLOCK_SetRootClock, Put, On, To, call
    <2>3. then = Shown(from', by', rate', off', target', m)
        BY <1>1, <1>3, <1>4, <1>7, <2>1, <2>2 DEF CLOCK_SetRootClock
    <2> QED
        BY <1>1, <1>2, <2>1, <2>3 DEF CLOCK_SetRootClock, then, call
<1>8. CASE Calls("rate")
    <2>1. /\ from' = from /\ by' = by /\ off' = off /\ target' = target /\ rate' = Set(rate)
        BY <1>8, WhoCalls DEF CLOCK_InitSame, CLOCK_InitLocked
    <2>2. then = Shown(from', by', rate', off', target', m)
        BY <1>1, <1>3, <1>4, <1>8, <2>1
    <2> QED
        BY <1>1, <1>2, <2>1, <2>2 DEF then, call
<1>9. CASE Calls("gate")
    <2>1. CLOCK_DisableClock
        BY <1>9, WhoCalls
    <2>2. then = Shown(from', by', rate', off', target', m)
        BY <1>1, <1>3, <1>4, <1>9, <2>1 DEF CLOCK_DisableClock, On, call
    <2> QED
        BY <1>1, <1>2, <2>1, <2>2 DEF CLOCK_DisableClock, then, call
<1>10. CASE Calls("vdd")
    <2>1. SetVoltage /\ To = call.to
        BY <1>10, WhoCalls DEF To, call
    <2>2. then = Shown(from', by', rate', off', target', m \cup {To})
        BY <1>1, <1>3, <1>4, <1>10, <2>1 DEF SetVoltage
    <2> QED
        BY <1>1, <1>2, <2>1, <2>2 DEF SetVoltage, then, call
<1>11. CASE Calls("await")
    <2>1. AwaitVoltage
        BY <1>11, WhoCalls
    <2>2. then = Shown(from', by', rate', off', target', {target})
        BY <1>1, <1>3, <1>4, <1>11, <2>1 DEF AwaitVoltage
    <2> QED
        BY <1>1, <1>2, <2>1, <2>2 DEF AwaitVoltage, then, call
<1>12. CASE \A op \in {"from", "by", "root", "rate", "gate", "vdd", "await"} : ~Calls(op)
    <2>1. from' = from /\ by' = by /\ rate' = rate /\ off' = off /\ target' = target
        BY <1>12, WhoChangesClocks DEF CLOCK_SetMux, CLOCK_SetDiv, CLOCK_SetRootClock,
           CLOCK_InitLocked, CLOCK_DisableClock, SetVoltage
    <2>2. then = now
        BY <1>1, <1>12 DEF After, then
    <2> QED
        BY <1>1, <1>2, <2>1, <2>2 DEF then, call
<1> QED
    BY <1>5, <1>6, <1>7, <1>8, <1>9, <1>10, <1>11, <1>12

LEMMA TraceNext ==
    ASSUME Here, TraceRight, [MainNext]_vars
    PROVE  TraceRight'
<1>1. /\ board' = board /\ Len(board.program) \in Nat /\ at \in Nat /\ at >= 1
      /\ Traces(board, Trace[board.name])
    BY WhoChangesClocks, Assumed DEF Here, CallsTyped, Placed
<1>2. PICK s \in board.starts : Follows(Trace[board.name][s][at])
    BY DEF TraceRight
<1> DEFINE t == Trace[board.name][s][at]
           u == Trace[board.name][s][at']
<1>3. ASSUME NEW m, u = Shown(from', by', rate', off', target', m), vdd' \in m, target' \in m
      PROVE  TraceRight'
    <2>1. u.mVs = m
        BY <1>3 DEF Shown
    <2> QED
        BY <1>1, <1>3, <2>1 DEF TraceRight, Follows
<1>4. t = Shown(from, by, rate, off, target, t.mVs) /\ vdd \in t.mVs /\ target \in t.mVs
    BY <1>2 DEF Follows
<1>5. CASE at' = at
    <2>1. from' = from /\ by' = by /\ rate' = rate /\ off' = off /\ target' = target
        BY <1>1, <1>5, WhoChangesClocks DEF CLOCK_SetMux, CLOCK_SetDiv, CLOCK_SetRootClock,
           CLOCK_InitLocked, CLOCK_DisableClock, SetVoltage, Return
    <2>2. vdd' \in t.mVs
        BY <1>4, WhoChangesClocks
    <2> QED
        BY <1>3, <1>4, <1>5, <2>1, <2>2
<1>6. CASE at' # at /\ Calls("if_on")
    <2>1. CacheSkipOff /\ at \in Of(board, "if_on")
        BY <1>1, <1>6, WhoCalls, ToCall DEF Here
    <2>2. at' \in {at + 1, at + 1 + To}
        BY <2>1 DEF CacheSkipOff
    <2>3. u = t
        BY <2>1, <2>2, TraceSkips DEF To
    <2> QED
        BY <1>3, <1>4, <2>1, <2>3 DEF CacheSkipOff
<1>7. CASE at' # at /\ ~Calls("if_on")
    <2>1. at' = at + 1 /\ at \in 1..Len(board.program)
        BY <1>1, <1>7, WhoCalls
    <2>2. u = After(t, board.program[at])
        BY <1>1, <2>1 DEF Traces
    <2> QED
        BY <1>2, <1>3, <1>7, <2>2, CallFollows
<1> QED
    BY <1>5, <1>6, <1>7

LEMMA StopNeededNext ==
    ASSUME Here, StoppedRight, StopNeeded, [MainNext]_vars
    PROVE  StopNeeded'
<1>1. board' = board
    BY WhoChangesClocks
<1>2. CASE CLOCK_InitStop
    BY <1>2 DEF CLOCK_InitStop, StopNeeded, Set, On, To
<1>3. CASE CLOCK_InitLocked
    BY <1>3 DEF CLOCK_InitLocked, StopNeeded
<1>4. CASE stopped' = stopped /\ stopped # {}
    <2>1. Calls("rate") /\ at' = at
        BY <1>4, WhoStops DEF StoppedRight
    <2>2. rate' = rate
        BY <2>1, <1>4, WhoChangesClocks DEF CLOCK_InitLocked
    <2> QED
        BY <1>1, <1>4, <2>1, <2>2 DEF StopNeeded, Set, On, To
<1> QED
    BY <1>2, <1>3, <1>4, WhoChangesClocks DEF StopNeeded

(* So much of the trace is what there is now.                              *)
LEMMA TraceNow ==
    ASSUME ClocksInv, TraceRight
    PROVE  /\ at \in Places(board)
           /\ \E s \in board.starts :
                LET t == Trace[board.name][s][at]
                IN /\ [t.clocks EXCEPT !.stopped = stopped] = Registers
                   /\ t.clocks = [Registers EXCEPT !.stopped = {}]
                   /\ stopped = {} => t.clocks = Registers
                   /\ t.clocks.rate = rate /\ t.off = off /\ vdd \in t.mVs
<1>1. at \in Places(board)
    BY DEF ClocksInv, Here, Placed, Places
<1>2. PICK s \in board.starts : Follows(Trace[board.name][s][at])
    BY DEF TraceRight
<1> DEFINE t == Trace[board.name][s][at]
<1>3. PICK m : t = Shown(from, by, rate, off, target, m) /\ vdd \in t.mVs
    BY <1>2 DEF Follows
<1> HIDE DEF t
<1>4. t.clocks = [from |-> from, by |-> by, rate |-> rate, stopped |-> {}] /\ t.off = off
    BY <1>3 DEF Shown
<1>5. /\ [t.clocks EXCEPT !.stopped = stopped] = Registers
      /\ t.clocks = [Registers EXCEPT !.stopped = {}] /\ t.clocks.rate = rate
    BY <1>4 DEF Registers
<1>6. stopped = {} => t.clocks = Registers
    BY <1>4 DEF Registers
<1> QED
    BY <1>1, <1>3, <1>4, <1>5, <1>6 DEF t

(* The clocks, and the PLL that stands still, at once.                     *)
TracedInv == ClocksInv /\ TraceRight /\ StopNeeded

LEMMA TracedAtFirst == MainInit => TracedInv
BY ClocksAtFirst, TraceAtFirst DEF TracedInv

LEMMA TracedNext ==
    ASSUME TracedInv, [MainNext]_vars
    PROVE  TracedInv'
BY ClocksNext, TraceNext, StopNeededNext DEF TracedInv, ClocksInv

LEMMA NoneStandsStill == TracedInv => InUseRuns
<1> SUFFICES ASSUME TracedInv PROVE InUseRuns
    OBVIOUS
<1>1. at \in Places(board) /\ ClocksRun(board, Trace[board.name])
    BY TraceNow, Assumed DEF TracedInv, ClocksInv, Here
<1>2. PICK s \in board.starts :
        LET t == Trace[board.name][s][at]
        IN /\ [t.clocks EXCEPT !.stopped = stopped] = Registers
           /\ t.clocks.rate = rate /\ t.off = off
    BY TraceNow DEF TracedInv
<1> DEFINE t == Trace[board.name][s][at]
<1>3. AllRun(board, t, stopped)
    <2>1. CASE stopped = {}
        BY <1>1, <2>1 DEF ClocksRun
    <2>2. CASE stopped # {}
        <3>1. Calls("rate") /\ stopped = On /\ ~(board.keepsSame /\ rate = Set(rate))
            BY <2>2 DEF TracedInv, ClocksInv, StoppedRight, StopNeeded
        <3>2. at \in Of(board, "rate")
            BY <3>1, ToCall, Assumed DEF TracedInv, ClocksInv, Here, CallsTyped
        <3>3. ~Same(board, t, board.program[at])
            BY <1>2, <3>1 DEF Same, Put, Set, On, To
        <3> QED
            BY <1>1, <3>1, <3>2, <3>3 DEF ClocksRun, On
    <2> QED
        BY <2>1, <2>2
<1>4. InUse = InUseWith(board, t.off)
    BY <1>2 DEF InUse, InUseWith
<1> HIDE DEF t
<1> QED
    BY <1>2, <1>3, <1>4 DEF AllRun, InUseRuns, Frequency, t

(* On every board on which nothing that runs is behind a PLL when a call   *)
(* stops it, nor behind a clock that stands still, nothing that runs is    *)
(* ever without its clock (BOARD_BootClockRUN in clock_config.c).          *)
THEOREM ClocksInUseRun == MainSpec => []InUseRuns
<1> QED
    BY TracedAtFirst, TracedNext, NoneStandsStill, PTL DEF MainSpec

-----------------------------------------------------------------------------
(* A clock that is stopped makes no other faster                           *)

LEMMA Quotient ==
    ASSUME NEW m \in Nat, NEW k \in Nat, NEW n \in Nat, n >= 1, m <= k
    PROVE  m \div n \in Nat /\ k \div n \in Nat /\ m \div n <= k \div n
<1> DEFINE p == m \div n
           q == k \div n
           r == m % n
           s == k % n
<1>1. p \in Int /\ r \in 0..(n - 1) /\ m = n * p + r
    BY SMT
<1>2. q \in Int /\ s \in 0..(n - 1) /\ k = n * q + s
    BY SMT
<1> HIDE DEF p, q, r, s
<1>3. ASSUME NEW x \in Int, NEW y \in Int, x + 1 <= y PROVE n * x + n <= n * y
    BY <1>3
<1>4. ~(q + 1 <= p) /\ ~(p + 1 <= 0) /\ ~(q + 1 <= 0)
    BY <1>1, <1>2, <1>3
<1> QED
    BY <1>1, <1>2, <1>4 DEF p, q

(* Registers with which every clock has a frequency.                       *)
Counted(b, t) ==
    /\ \A c \in DOMAIN b.oscillators : b.oscillators[c] \in Nat
    /\ \A c \in DOMAIN t.rate : t.rate[c] \in Nat /\ (c \in DOMAIN b.pfdOf => t.rate[c] >= 1)
    /\ \A c \in DOMAIN t.by : t.by[c] \in Nat /\ t.by[c] >= 1
Slower(f, g, c) == f[c] \in Nat /\ g[c] \in Nat /\ f[c] <= g[c]

LEMMA EvalSlower ==
    ASSUME NEW b, NEW t, NEW u, NEW behind, Tree(b, behind), Possible(b, t), Counted(b, t),
           u.from = t.from, u.by = t.by, u.rate = t.rate, u.stopped = {},
           NEW f, NEW g, NEW c \in Names(b, t), HasSource(b, t, c) => Slower(f, g, Source(b, t, c))
    PROVE  /\ Eval(b, t, f, c) \in Nat /\ Eval(b, u, g, c) \in Nat
           /\ Eval(b, t, f, c) <= Eval(b, u, g, c)
<1>1. PICK s \in b.starts :
        DOMAIN t.from = DOMAIN s.from /\ DOMAIN t.by = DOMAIN s.by /\ DOMAIN t.rate = DOMAIN s.rate
    BY DEF Possible
<1>2. /\ DOMAIN b.pfdOf \subseteq DOMAIN t.rate /\ DOMAIN t.by = DOMAIN t.from \cup DOMAIN b.fixed
      /\ DOMAIN b.oscillators \cap DOMAIN t.rate = {}
      /\ (DOMAIN b.oscillators \cup DOMAIN t.rate) \cap DOMAIN t.by = {}
    BY <1>1 DEF Tree
<1> DEFINE x == f[Source(b, t, c)]
           y == g[Source(b, t, c)]
<1>3. HasSource(b, t, c) => x \in Nat /\ y \in Nat /\ x <= y
    BY DEF Slower
<1>4. CASE c \in DOMAIN b.oscillators
    <2>1. b.oscillators[c] \in Nat
        BY <1>4 DEF Counted
    <2>2. /\ Eval(b, t, f, c) = IF c \in t.stopped THEN 0 ELSE b.oscillators[c]
          /\ Eval(b, u, g, c) = b.oscillators[c]
        BY <1>2, <1>4 DEF Eval
    <2> QED
        BY <2>1, <2>2
<1>5. CASE c \in DOMAIN b.pfdOf
    <2>1. x \in Nat /\ y \in Nat /\ x <= y
        BY <1>3, <1>5 DEF HasSource
    <2>2. /\ Eval(b, t, f, c) = IF c \in t.stopped THEN 0 ELSE (x * 18) \div t.rate[c]
          /\ Eval(b, u, g, c) = (y * 18) \div t.rate[c]
        BY <1>2, <1>5 DEF Eval, Source
    <2>3. t.rate[c] \in Nat /\ t.rate[c] >= 1
        BY <1>2, <1>5 DEF Counted
    <2> HIDE DEF x, y
    <2>4. x * 18 \in Nat /\ y * 18 \in Nat /\ x * 18 <= y * 18
        BY <2>1
    <2> QED
        BY <2>2, <2>3, <2>4, Quotient
<1>6. CASE c \in DOMAIN t.rate \ DOMAIN b.pfdOf
    <2>1. t.rate[c] \in Nat
        BY <1>6 DEF Counted
    <2>2. /\ Eval(b, t, f, c) = IF c \in t.stopped THEN 0 ELSE t.rate[c]
          /\ Eval(b, u, g, c) = t.rate[c]
        BY <1>2, <1>6 DEF Eval
    <2> QED
        BY <2>1, <2>2
<1>7. CASE c \in DOMAIN t.by
    <2>1. x \in Nat /\ y \in Nat /\ x <= y
        BY <1>3, <1>7 DEF HasSource
    <2>2. /\ Eval(b, t, f, c) = IF c \in t.stopped THEN 0 ELSE x \div t.by[c]
          /\ Eval(b, u, g, c) = y \div t.by[c]
        BY <1>2, <1>7 DEF Eval, Source
    <2>3. t.by[c] \in Nat /\ t.by[c] >= 1
        BY <1>7 DEF Counted
    <2> HIDE DEF x, y
    <2> QED
        BY <2>1, <2>2, <2>3, Quotient
<1> QED
    BY <1>4, <1>5, <1>6, <1>7 DEF Names

(* Proved at the clock with the fewest behind it of those that are faster. *)
LEMMA StoppingSlows ==
    ASSUME NEW b, NEW t, NEW u, NEW behind, Tree(b, behind), Possible(b, t), Counted(b, t),
           u.from = t.from, u.by = t.by, u.rate = t.rate, u.stopped = {},
           NEW f, Solves(b, t, f), NEW g, Solves(b, u, g), NEW clock \in Names(b, t)
    PROVE  Slower(f, g, clock)
<1> DEFINE Rank(c) == Cardinality(behind[c])
           Wrong == {c \in Names(b, t) : ~Slower(f, g, c)}
           Ranks == {n \in Nat : \E c \in Wrong : Rank(c) = n}
<1>1. \A c \in Names(b, t) :
        /\ Rank(c) \in Nat
        /\ HasSource(b, t, c) =>
            Source(b, t, c) \in Names(b, t) /\ Rank(Source(b, t, c)) < Rank(c)
    BY BehindIsFinite, SourceIsBehind
<1> SUFFICES ASSUME Wrong # {} PROVE FALSE
    OBVIOUS
<1>2. PICK n \in Ranks : \A m \in Ranks : n <= m
    <2>1. Ranks # {} /\ Ranks \subseteq Nat
        BY <1>1
    <2> HIDE DEF Ranks
    <2> QED
        BY <2>1, LeastNumber
<1>3. PICK c \in Wrong : Rank(c) = n /\ n \in Nat
    BY <1>2
<1>4. HasSource(b, t, c) => Slower(f, g, Source(b, t, c))
    <2> SUFFICES ASSUME HasSource(b, t, c), ~Slower(f, g, Source(b, t, c)) PROVE FALSE
        OBVIOUS
    <2>1. Source(b, t, c) \in Wrong /\ Rank(Source(b, t, c)) \in Nat /\ Rank(Source(b, t, c)) < n
        BY <1>1, <1>3
    <2>2. Rank(Source(b, t, c)) \in Ranks
        BY <2>1
    <2> HIDE DEF Rank, Ranks
    <2> QED
        BY <1>2, <1>3, <2>1, <2>2
<1>5. c \in Names(b, t) /\ Names(b, u) = Names(b, t)
    BY DEF Names
<1>6. f[c] = Eval(b, t, f, c) /\ g[c] = Eval(b, u, g, c)
    <2>1. \A x \in Names(b, t) : [y \in Names(b, t) |-> Eval(b, t, f, y)][x] = Eval(b, t, f, x)
        OBVIOUS
    <2>2. \A x \in Names(b, u) : [y \in Names(b, u) |-> Eval(b, u, g, y)][x] = Eval(b, u, g, x)
        OBVIOUS
    <2> QED
        BY <1>5, <2>1, <2>2 DEF Solves
<1>7. Slower(f, g, c)
    BY <1>4, <1>5, <1>6, EvalSlower DEF Slower
<1> QED
    BY <1>3, <1>7

LEMMA NeverFaster == TracedInv => NeverTooFast
<1> SUFFICES ASSUME TracedInv PROVE NeverTooFast
    OBVIOUS
<1>1. /\ ClocksInv /\ Here /\ at \in Places(board) /\ SpeedLimited(board, Trace[board.name])
      /\ Tree(board, Behind[board.name])
    BY TraceNow, Assumed DEF TracedInv, ClocksInv, Here
<1> DEFINE running == [Registers EXCEPT !.stopped = {}]
           fastest == Frequencies(board, running)
<1>2. PICK s \in board.starts :
        LET t == Trace[board.name][s][at] IN t.clocks = running /\ vdd \in t.mVs
    BY TraceNow DEF TracedInv
<1>3. /\ DOMAIN board.bounds \cup {board.core} \subseteq Names(board, Registers)
      /\ SpeedAllowed(board, Trace[board.name][s][at])
      /\ \A c \in DOMAIN board.bounds : board.bounds[c] \in Nat
      /\ board.lowVoltage.below \in Nat
    BY <1>1, <1>2, ClocksOfNow DEF SpeedLimited
<1>4. Possible(board, Registers) /\ Possible(board, running)
    BY <1>1 DEF ClocksInv, Here, Started, SourcesRight, Possible, Registers
<1>5. Counted(board, Registers)
    BY <1>1 DEF Counted, Registers, ClocksInv, Typed, ClocksTyped, Divides, SpeedLimited
<1>6. /\ running.from = Registers.from /\ running.by = Registers.by
      /\ running.rate = Registers.rate /\ running.stopped = {}
    BY DEF Registers
<1> HIDE DEF running
<1>7. Solves(board, Registers, Frequency) /\ Solves(board, running, fastest)
    BY <1>1, <1>4, ClocksOfNow, SolutionExists, FrequenciesSolve
<1> HIDE DEF fastest
<1>8. \A c \in DOMAIN board.bounds \cup {board.core} : Slower(Frequency, fastest, c)
    BY <1>1, <1>3, <1>4, <1>5, <1>6, <1>7, StoppingSlows
<1>9. /\ \A c \in DOMAIN board.bounds : fastest[c] <= board.bounds[c]
      /\ fastest[board.core] > board.lowVoltage.below => vdd >= board.lowVoltage.mV
    BY <1>2, <1>3 DEF SpeedAllowed, fastest
<1>10. ASSUME NEW c \in DOMAIN board.bounds PROVE Frequency[c] <= board.bounds[c]
    BY <1>3, <1>8, <1>9 DEF Slower
<1>11. Frequency[board.core] > board.lowVoltage.below => vdd >= board.lowVoltage.mV
    BY <1>3, <1>8, <1>9 DEF Slower
<1> QED
    BY <1>10, <1>11 DEF NeverTooFast

(* On every board whose calls ask for the voltage, and wait for it, before *)
(* they set what is too fast for less, and never set a bus too fast, no    *)
(* clock is too fast between the calls, nor while a PLL stands still       *)
(* (clock_config.c).                                                       *)
THEOREM SpeedIsLimited == MainSpec => []NeverTooFast
<1> QED
    BY TracedAtFirst, TracedNext, NeverFaster, PTL DEF MainSpec

-----------------------------------------------------------------------------
(* The PHY                                                                 *)

LEMMA HeldLongEnough ==
    ASSUME SinceRight, NEW us \in Nat, HeldFor(board, us, at), Here, Typed
    PROVE  since >= us
<1>1. PICK d \in Of(board, "delay") :
        d < at /\ board.program[d].to >= us /\ ~\E k \in Resets(board) : d < k /\ k < at
    BY DEF HeldFor
<1>2. since >= board.program[d].to /\ board.program[d].to \in Nat /\ since \in Nat
    BY <1>1, Assumed DEF SinceRight, Typed, PhyTyped, Here, CallsTyped, ArgumentsTyped
<1> QED
    BY <1>1, <1>2

(* Only a call that drives the pin high ends the reset.                    *)
LEMMA ResetEnds ==
    ASSUME TracedInv, ResetInv, [MainNext]_vars, InReset(level), ~InReset(level')
    PROVE  LeavesReset(board, Trace[board.name], at) /\ stopped = {}
<1>1. Here /\ Placed /\ Len(board.program) \in Nat /\ ArgumentsTyped(board)
    BY Assumed DEF TracedInv, ClocksInv, Here, CallsTyped
<1>2. GPIO_WritePinOutput
    BY WhoChangesBoard
<1>3. at \in Of(board, "level") /\ Calls("level") /\ level' = With(level, To)
    BY <1>1, <1>2, ToCall DEF GPIO_WritePinOutput, BoardCall
<1>4. board.phy.reset \in On /\ To # 0
    BY <1>3 DEF InReset, With
<1>5. at \in Resets(board) /\ board.program[at].to = 1
    BY <1>1, <1>3, <1>4 DEF Resets, About, On, To, ArgumentsTyped
<1>6. LowAt(board, at)
    BY DEF ResetInv, LevelRight, InReset, LowAt
<1>7. stopped = {}
    BY <1>3 DEF TracedInv, ClocksInv, StoppedRight, Calls
<1> QED
    BY <1>1, <1>5, <1>6, <1>7, Assumed DEF PhyInOrder, Here

LEMMA UnitStarts ==
    ASSUME TracedInv, ResetInv, [MainNext]_vars, "mdio" \in DOMAIN told' \ DOMAIN told
    PROVE  ~InReset(level) /\ since >= board.phy.settle
<1>1. Here /\ Typed /\ Len(board.program) \in Nat /\ PhyInOrder(board, Trace[board.name])
    BY Assumed DEF TracedInv, ClocksInv, Here, CallsTyped
<1>2. StartUnit
    BY WhoChangesBoard
<1>3. at \in About(board, "unit", "mdio")
    BY <1>1, <1>2, ToCall DEF StartUnit, BoardCall, With, Here, About, On
<1>4. ~LowAt(board, at) /\ (board.phy.settle = 0 \/ HeldFor(board, board.phy.settle, at))
    BY <1>1, <1>3 DEF PhyInOrder
<1>5. ~InReset(level)
    BY <1>4 DEF ResetInv, LevelRight, InReset, LowAt
<1>6. since >= board.phy.settle
    <2>1. board.phy.settle \in Nat /\ since \in Nat /\ SinceRight
        BY <1>1 DEF PhyInOrder, Typed, PhyTyped, ResetInv
    <2> QED
        BY <1>1, <1>4, <2>1, HeldLongEnough
<1> QED
    BY <1>5, <1>6

(* On every board whose calls hold the reset, the straps and the reference *)
(* clock for as long as it says, the PHY leaves reset and is spoken to in  *)
(* time (main in main_enet.c).                                             *)
THEOREM PhyResetRight == MainSpec => PhyLeavesReset
<1> DEFINE Inv == TracedInv /\ ResetInv
<1>1. MainInit => Inv
    BY TracedAtFirst, ResetAtFirst
<1>2. Inv /\ [MainNext]_vars => Inv'
    BY TracedNext, ResetNext DEF TracedInv, ClocksInv
<1>3. Inv /\ [MainNext]_vars =>
        [/\ InReset(level) /\ ~InReset(level') =>
            /\ since >= board.phy.low
            /\ \A p \in board.phy.high : p \in DOMAIN level /\ level[p] = 1
            /\ Frequency[board.phy.refClock] = board.phy.rate
            /\ \A g \in DOMAIN board.phy.direction : gpr[g] = board.phy.direction[g]
         /\ "mdio" \in DOMAIN told' \ DOMAIN told =>
            ~InReset(level) /\ since >= board.phy.settle]_vars
    <2> SUFFICES ASSUME Inv, [MainNext]_vars, InReset(level), ~InReset(level')
                 PROVE  /\ since >= board.phy.low
                        /\ \A p \in board.phy.high : p \in DOMAIN level /\ level[p] = 1
                        /\ Frequency[board.phy.refClock] = board.phy.rate
                        /\ \A g \in DOMAIN board.phy.direction : gpr[g] = board.phy.direction[g]
        BY UnitStarts
    <2>1. LeavesReset(board, Trace[board.name], at) /\ stopped = {}
        BY ResetEnds
    <2>2. since >= board.phy.low
        BY <2>1, HeldLongEnough, Assumed
        DEF LeavesReset, PhyInOrder, ResetInv, TracedInv, ClocksInv, Here
    <2>3. \A p \in board.phy.high : p \in DOMAIN level /\ level[p] = 1
        BY <2>1 DEF LeavesReset, ResetInv, LevelRight
    <2>4. PICK s \in board.starts : Trace[board.name][s][at].clocks = Registers
        BY <2>1, TraceNow DEF TracedInv
    <2>5. Frequency[board.phy.refClock] = board.phy.rate
        BY <2>1, <2>4 DEF LeavesReset, Frequency
    <2>6. \A g \in DOMAIN board.phy.direction : gpr[g] = board.phy.direction[g]
        BY <2>1 DEF LeavesReset, ResetInv, GprRight
    <2> QED
        BY <2>2, <2>3, <2>5, <2>6
<1> QED
    BY <1>1, <1>2, <1>3, PTL DEF MainSpec, PhyLeavesReset
=============================================================================
