--------------------------- MODULE BringupProofs ---------------------------
(***************************************************************************)
(* For every board whose calls are in the order that CallOrder asks for,   *)
(* whatever they set and whatever the loader left behind: what main relies *)
(* on while it brings the board up.  TLC evaluates the conditions of       *)
(* CallOrder for the boards of the repository.                             *)
(*                                                                         *)
(* Every proof keeps in its invariant what the calls that lie behind have  *)
(* done, and takes from CallOrder which of them do lie behind.             *)
(***************************************************************************)
EXTENDS Bringup, CallOrder, WellFoundedInduction, TLAPS

-----------------------------------------------------------------------------
(* Steps: which of them can have changed what, and which call made them    *)

LEMMA WhoChangesClocks ==
    ASSUME [MainNext]_vars
    PROVE  /\ board' = board
           /\ off' = off \/ CLOCK_DisableClock
           /\ from' = from \/ CLOCK_SetMux \/ CLOCK_SetRootClock
           /\ by' = by \/ CLOCK_SetDiv \/ CLOCK_SetRootClock
           /\ rate' = rate \/ CLOCK_InitLocked
           /\ stopped' = stopped \/ CLOCK_InitStop \/ CLOCK_InitLocked
           /\ target' = target \/ SetVoltage
           /\ vdd' = vdd \/ vdd' = target
BY DEF MainNext, ClockCall, ClockNext, vars, clockVars, boardVars, Return, BoardCall,
       CLOCK_DisableClock, CLOCK_SetMux, CLOCK_SetDiv, CLOCK_SetRootClock, CLOCK_InitSame,
       CLOCK_InitStop, CLOCK_InitLocked, SetVoltage, AwaitVoltage, Regulate,
       ARM_MPU_Enable, ARM_MPU_SetRegion, CacheSkipOff, CachePush, CacheDrop, CacheOff, CacheOn,
       CLOCK_EnableIomuxc, IOMUXC_SetPinMux, IOMUXC_SetPinConfig, IOMUXC_GPR,
       GPIO_WritePinOutput, SDK_DelayAtLeastUs, StartUnit

LEMMA WhoChangesBoard ==
    ASSUME [MainNext]_vars
    PROVE  /\ mpu' = mpu \/ ARM_MPU_Enable
           /\ region' = region \/ ARM_MPU_SetRegion
           /\ cache' = cache \/ CachePush \/ CacheDrop \/ CacheOff \/ CacheOn
           /\ iomuxc' = iomuxc \/ CLOCK_EnableIomuxc
           /\ mux' = mux \/ IOMUXC_SetPinMux
           /\ drain' = drain \/ IOMUXC_SetPinConfig
           /\ gpr' = gpr \/ IOMUXC_GPR
           /\ level' = level \/ GPIO_WritePinOutput
           /\ since' = since \/ GPIO_WritePinOutput \/ SDK_DelayAtLeastUs
           /\ told' = told \/ StartUnit
BY DEF MainNext, ClockCall, ClockNext, vars, clockVars, boardVars, Return, BoardCall,
       CLOCK_DisableClock, CLOCK_SetMux, CLOCK_SetDiv, CLOCK_SetRootClock, CLOCK_InitSame,
       CLOCK_InitStop, CLOCK_InitLocked, SetVoltage, AwaitVoltage, Regulate,
       ARM_MPU_Enable, ARM_MPU_SetRegion, CacheSkipOff, CachePush, CacheDrop, CacheOff, CacheOn,
       CLOCK_EnableIomuxc, IOMUXC_SetPinMux, IOMUXC_SetPinConfig, IOMUXC_GPR,
       GPIO_WritePinOutput, SDK_DelayAtLeastUs, StartUnit, CacheAfter

LEMMA WhoStops ==
    ASSUME [MainNext]_vars, Calls("rate"), stopped' = stopped, stopped # {}
    PROVE  at' = at
BY DEF MainNext, ClockCall, ClockNext, vars, clockVars, boardVars, Return, BoardCall, Calls,
       CLOCK_DisableClock, CLOCK_SetMux, CLOCK_SetDiv, CLOCK_SetRootClock, CLOCK_InitSame,
       CLOCK_InitStop, CLOCK_InitLocked, SetVoltage, AwaitVoltage, Regulate,
       ARM_MPU_Enable, ARM_MPU_SetRegion, CacheSkipOff, CachePush, CacheDrop, CacheOff, CacheOn,
       CLOCK_EnableIomuxc, IOMUXC_SetPinMux, IOMUXC_SetPinConfig, IOMUXC_GPR,
       GPIO_WritePinOutput, SDK_DelayAtLeastUs, StartUnit

LEMMA WhoCalls ==
    ASSUME [MainNext]_vars, at' # at
    PROVE  /\ at <= Len(board.program)
           /\ Calls("if_on") => CacheSkipOff
           /\ ~Calls("if_on") => at' = at + 1
           /\ vdd' = vdd
           /\ Calls("gate") => CLOCK_DisableClock
           /\ Calls("from") => CLOCK_SetMux
           /\ Calls("by") => CLOCK_SetDiv
           /\ Calls("root") => CLOCK_SetRootClock
           /\ Calls("rate") => CLOCK_InitSame \/ CLOCK_InitLocked
           /\ Calls("vdd") => SetVoltage
           /\ Calls("await") => AwaitVoltage
           /\ Calls("mux") => IOMUXC_SetPinMux
           /\ Calls("pad") => IOMUXC_SetPinConfig
           /\ Calls("iomuxc") => CLOCK_EnableIomuxc
           /\ Calls("gpr") => IOMUXC_GPR
           /\ Calls("mpu") => ARM_MPU_Enable
           /\ Calls("region") => ARM_MPU_SetRegion
           /\ Calls("level") => GPIO_WritePinOutput
           /\ Calls("delay") => SDK_DelayAtLeastUs
           /\ Calls("push") => CachePush
           /\ Calls("drop") => CacheDrop
           /\ Calls("switch") => CacheOff \/ CacheOn
BY DEF MainNext, ClockCall, ClockNext, vars, clockVars, boardVars, Return, BoardCall, Calls,
       CLOCK_DisableClock, CLOCK_SetMux, CLOCK_SetDiv, CLOCK_SetRootClock, CLOCK_InitSame,
       CLOCK_InitStop, CLOCK_InitLocked, SetVoltage, AwaitVoltage, Regulate,
       ARM_MPU_Enable, ARM_MPU_SetRegion, CacheSkipOff, CachePush, CacheDrop, CacheOff, CacheOn,
       CLOCK_EnableIomuxc, IOMUXC_SetPinMux, IOMUXC_SetPinConfig, IOMUXC_GPR,
       GPIO_WritePinOutput, SDK_DelayAtLeastUs, StartUnit

(* The board is one of those the assumptions are about, its clocks those   *)
(* of a start, and the calls before this one are made.                     *)
Known == \E name \in DOMAIN Boards : board = Named(name)
Started ==
    \E s \in board.starts :
        DOMAIN from = DOMAIN s.from /\ DOMAIN by = DOMAIN s.by /\ DOMAIN rate = DOMAIN s.rate
Placed == at \in 1..(Len(board.program) + 1)
Here == Known /\ Started /\ Placed

LEMMA NamedName == \A name : Named(name).name = name
BY DEF Named

LEMMA Assumed ==
    ASSUME Known
    PROVE  /\ board.name \in DOMAIN Boards
           /\ CallsTyped(board) /\ GatesFirst(board) /\ PinsInOrder(board)
           /\ CachesInOrder(board) /\ MemoryInOrder(board)
           /\ Tree(board, Behind[board.name]) /\ FlashLeft(board, Behind[board.name])
           /\ UnitsLeft(board, Behind[board.name]) /\ ConsoleLeft(board)
           /\ Traces(board, Trace[board.name]) /\ ClocksRun(board, Trace[board.name])
           /\ SpeedLimited(board, Trace[board.name])
           /\ PhyInOrder(board, Trace[board.name])
BY CallsAssumption, GatesAssumption, PinsAssumption, CachesAssumption, MemoryAssumption,
   TreeAssumption, FlashAssumption, UnitsAssumption, ConsoleAssumption, TraceAssumption,
   RunAssumption, SpeedAssumption, PhyAssumption, NamedName DEF Known

LEMMA HereAtFirst == MainInit => Here
<1> SUFFICES ASSUME MainInit PROVE Here
    OBVIOUS
<1>1. Known /\ at = 1
    BY DEF MainInit, ClockInit, Known
<1>2. Started
    BY DEF MainInit, ClockInit, Started
<1>3. Len(board.program) \in Nat
    BY <1>1, Assumed DEF CallsTyped
<1> QED
    BY <1>1, <1>2, <1>3 DEF Here, Placed

LEMMA ToCall ==
    ASSUME NEW op, Calls(op), Placed, Len(board.program) \in Nat
    PROVE  at \in Of(board, op)
BY DEF Calls, Placed, Of

LEMMA HereNext ==
    ASSUME Here, [MainNext]_vars
    PROVE  Here'
<1>1. Known' /\ board' = board
    BY WhoChangesClocks DEF Here, Known
<1>2. Started'
    BY <1>1, WhoChangesClocks DEF Here, Started, CLOCK_SetMux, CLOCK_SetDiv, CLOCK_SetRootClock,
       CLOCK_InitLocked, Set
<1>3. Len(board.program) \in Nat /\ BlocksTyped(board)
    BY Assumed DEF Here, CallsTyped
<1>4. Placed'
    <2>1. CASE at' = at
        BY <1>1, <2>1 DEF Here, Placed
    <2>2. CASE at' # at /\ ~Calls("if_on")
        BY <1>1, <1>3, <2>2, WhoCalls DEF Here, Placed
    <2>3. CASE at' # at /\ Calls("if_on")
        <3>1. at \in Of(board, "if_on")
            BY <1>3, <2>3, ToCall DEF Here
        <3>2. To \in Nat /\ at + To <= Len(board.program)
            BY <1>3, <3>1 DEF BlocksTyped, To
        <3> QED
            BY <1>1, <1>3, <2>3, <3>2, WhoCalls DEF Here, Placed, CacheSkipOff
    <2> QED
        BY <2>1, <2>2, <2>3
<1> QED
    BY <1>1, <1>2, <1>4 DEF Here

(* A call that is not about a cache and that lies behind in the next state *)
(* and not in this one is made in this step.                               *)
LEMMA MadeNow ==
    ASSUME Here, [MainNext]_vars, NEW op, op \notin CacheOps,
           NEW i \in Of(board, op), i < at', ~(i < at)
    PROVE  at' # at /\ i = at /\ Calls(op)
<1>1. Len(board.program) \in Nat /\ BlocksTyped(board)
    BY Assumed DEF Here, CallsTyped
<1>2. at' # at /\ at \in Nat /\ i \in 1..Len(board.program) /\ board.program[i].op = op
    BY <1>1 DEF Here, Placed, Of
<1>3. at <= Len(board.program)
    BY <1>2, WhoCalls
<1>4. CASE ~Calls("if_on")
    BY <1>2, <1>3, <1>4, WhoCalls DEF Calls
<1>5. CASE Calls("if_on")
    <2>1. at \in Of(board, "if_on")
        BY <1>1, <1>5, ToCall DEF Here
    <2>2. To \in Nat /\ at' \in {at + 1, at + 1 + To}
        BY <1>1, <1>2, <1>5, <2>1, WhoCalls DEF BlocksTyped, CacheSkipOff, To
    <2>3. i # at
        BY <1>2, <1>5 DEF Calls, CacheOps
    <2>4. i \in Guarded(board, at)
        BY <1>2, <2>2, <2>3 DEF Guarded, To
    <2>5. i \in Of(board, "push") \cup Of(board, "drop") \cup Of(board, "switch")
        BY <1>1, <2>1, <2>4 DEF BlocksTyped
    <2> QED
        BY <1>2, <2>5 DEF Of, CacheOps
<1> QED
    BY <1>4, <1>5

-----------------------------------------------------------------------------
(* Numbers                                                                 *)

(* A set of numbers that is not empty has a least one.                     *)
LEMMA LeastNumber ==
    ASSUME NEW T \in SUBSET Nat, T # {}
    PROVE  \E n \in T : \A m \in T : n <= m
<1> DEFINE Less == {p \in Nat \X Nat : p[1] < p[2]}
<1>1. IsWellFoundedOn(Less, Nat)
    <2>1. OpToRel(<, Nat) = Less
        BY DEF OpToRel
    <2> QED
        BY <2>1, NatLessThanWellFounded
<1>2. PICK n \in T : \A m \in T : <<m, n>> \notin Less
    <2> HIDE DEF Less
    <2> QED
        BY <1>1, WFMin
<1>3. ASSUME NEW m \in T PROVE n <= m
    <2>1. m \in Nat /\ n \in Nat
        OBVIOUS
    <2>2. ~(m < n)
        BY <1>2, <2>1
    <2> QED
        BY <2>1, <2>2
<1> QED
    BY <1>3

-----------------------------------------------------------------------------
(* Pins                                                                    *)

(* A pad that was given a function has the right one; what the calls that  *)
(* lie behind were to do to clocks, pads and units is done; what is driven *)
(* or started has its pads.                                                *)
Settled(pads) ==
    \A p \in pads :
        /\ p \in DOMAIN mux
        /\ p \in DOMAIN board.flashPads => mux[p] = board.flashPads[p]
        /\ p \in DOMAIN board.routes => mux[p] = board.routes[p]
Selected(g) == g \in DOMAIN gpr /\ gpr[g] = board.gpioSelect[g]

PadsClocked == Before(Of(board, "iomuxc"), at) => iomuxc
PadsKnown == DOMAIN mux \subseteq DOMAIN board.routes \cup DOMAIN board.flashPads
PadsMuxed ==
    /\ Settled(DOMAIN mux \cup DOMAIN board.flashPads)
    /\ \A i \in Of(board, "mux") : i < at => board.program[i].on \subseteq DOMAIN mux
PadsDrained ==
    /\ drain \subseteq board.openDrain \cap DOMAIN mux
    /\ \A i \in Of(board, "pad") :
        i < at /\ board.program[i].to = "open_drain" => board.program[i].on \subseteq drain
UnitsSelected ==
    \A g \in DOMAIN board.gpioSelect : Before(About(board, "gpr", g), at) => Selected(g)
PinsDriven ==
    \A pin \in DOMAIN level :
        /\ \E p \in DOMAIN mux : mux[p] = pin
        /\ \A g \in DOMAIN board.gpioSelect : Selected(g)
UnitsRouted ==
    \A u \in DOMAIN told : board.units[u].pads \subseteq DOMAIN board.routes \cap DOMAIN mux
PinsInv ==
    /\ PadsClocked /\ PadsKnown /\ PadsMuxed /\ PadsDrained
    /\ UnitsSelected /\ PinsDriven /\ UnitsRouted

LEMMA PinsAtFirst == MainInit => PinsInv
<1> SUFFICES ASSUME MainInit PROVE PinsInv
    OBVIOUS
<1>1. Here /\ at = 1
    BY HereAtFirst DEF MainInit, ClockInit
<1>2. PinsInOrder(board)
    BY <1>1, Assumed DEF Here
<1>3. ASSUME NEW calls, Before(calls, at), calls \subseteq 1..Len(board.program) PROVE FALSE
    BY <1>1, <1>3, Assumed DEF Before, Here, CallsTyped
<1>4. \A op, x : /\ Of(board, op) \subseteq 1..Len(board.program)
                 /\ About(board, op, x) \subseteq 1..Len(board.program)
    BY DEF Of, About
<1>5. PadsClocked /\ UnitsSelected
    BY <1>3, <1>4 DEF PadsClocked, UnitsSelected
<1>6. \A op : \A i \in Of(board, op) : ~(i < at)
    BY <1>1, Assumed DEF Here, CallsTyped, Of
<1>7. PadsKnown /\ PadsMuxed
    BY <1>2, <1>6 DEF MainInit, PadsKnown, PadsMuxed, Settled, PinsInOrder, PadsAgree
<1>8. PadsDrained
    BY <1>6 DEF MainInit, PadsDrained
<1>9. PinsDriven /\ UnitsRouted
    BY DEF MainInit, PinsDriven, UnitsRouted
<1> QED
    BY <1>5, <1>7, <1>8, <1>9 DEF PinsInv

LEMMA PinsNext ==
    ASSUME Here, PinsInv, [MainNext]_vars
    PROVE  PinsInv'
<1>1. board' = board /\ Here'
    BY WhoChangesClocks, HereNext
<1>2. PinsInOrder(board) /\ Len(board.program) \in Nat
    BY Assumed DEF Here, CallsTyped
<1>3. \A op : Of(board, op)' = Of(board, op) /\ \A x : About(board, op, x)' = About(board, op, x)
    BY <1>1 DEF Of, About
<1>4. \A op : op \in {"iomuxc", "mux", "pad", "gpr"} => op \notin CacheOps
    BY DEF CacheOps
<1>5. PadsClocked'
    <2> SUFFICES ASSUME NEW i \in Of(board, "iomuxc"), i < at' PROVE iomuxc'
        BY <1>1, <1>3 DEF PadsClocked, Before
    <2>1. CASE i < at
        BY <2>1, WhoChangesBoard DEF PinsInv, PadsClocked, Before, CLOCK_EnableIomuxc
    <2>2. CASE ~(i < at)
        BY <2>2, <1>4, MadeNow, WhoCalls DEF CLOCK_EnableIomuxc
    <2> QED
        BY <2>1, <2>2
<1>6. ASSUME NEW op, op \in {"mux", "pad"}, Calls(op)
      PROVE  at \in Of(board, op) /\ iomuxc
    <2>1. at \in Of(board, op)
        BY <1>2, <1>6, ToCall DEF Here
    <2>2. Before(Of(board, "iomuxc"), at)
        BY <1>2, <1>6, <2>1 DEF PinsInOrder, PadsFirst
    <2> QED
        BY <2>1, <2>2 DEF PinsInv, PadsClocked
<1>7. /\ DOMAIN mux \subseteq DOMAIN mux'
      /\ \A p \in DOMAIN mux : mux'[p] = mux[p]
      /\ PadsKnown' /\ PadsMuxed'
    <2>1. CASE mux' = mux
        <3>1. PadsKnown' /\ Settled(DOMAIN mux \cup DOMAIN board.flashPads)'
            BY <1>1, <2>1 DEF PinsInv, PadsKnown, PadsMuxed, Settled
        <3>2. ASSUME NEW i \in Of(board, "mux"), i < at'
              PROVE  board.program[i].on \subseteq DOMAIN mux
            <4>1. CASE i < at
                BY <4>1 DEF PinsInv, PadsMuxed
            <4>2. CASE ~(i < at)
                <5>1. Calls("mux") /\ IOMUXC_SetPinMux /\ i = at
                    BY <3>2, <4>2, <1>4, MadeNow, WhoCalls
                <5>2. iomuxc
                    BY <5>1, <1>6
                <5> QED
                    BY <2>1, <5>1, <5>2 DEF IOMUXC_SetPinMux, On
            <4> QED
                BY <4>1, <4>2
        <3> QED
            BY <1>1, <1>3, <2>1, <3>1, <3>2 DEF PadsMuxed
    <2>2. CASE IOMUXC_SetPinMux
        <3>1. Calls("mux") /\ at \in Of(board, "mux") /\ iomuxc
            BY <1>6, <2>2 DEF IOMUXC_SetPinMux, BoardCall
        <3>2. mux' = [p \in DOMAIN mux \cup On |-> IF p \in On THEN To[p] ELSE mux[p]]
            BY <2>2, <3>1 DEF IOMUXC_SetPinMux
        <3>3. \A p \in On :
                /\ p \in DOMAIN board.routes \cup DOMAIN board.flashPads
                /\ p \in DOMAIN board.flashPads => To[p] = board.flashPads[p]
                /\ p \in DOMAIN board.routes => To[p] = board.routes[p]
            BY <1>2, <3>1 DEF PinsInOrder, PadsAgree, On, To
        <3>4. PadsKnown' /\ Settled(DOMAIN mux \cup DOMAIN board.flashPads)'
            BY <1>1, <3>2, <3>3 DEF PinsInv, PadsKnown, PadsMuxed, Settled
        <3>5. \A p \in DOMAIN mux : mux'[p] = mux[p]
            BY <3>2, <3>3 DEF PinsInv, PadsKnown, PadsMuxed, Settled
        <3>6. ASSUME NEW i \in Of(board, "mux"), i < at'
              PROVE  board.program[i].on \subseteq DOMAIN mux'
            <4>1. CASE i < at
                BY <3>2, <4>1 DEF PinsInv, PadsMuxed
            <4>2. CASE ~(i < at)
                <5>1. i = at
                    BY <3>6, <4>2, <1>4, MadeNow
                <5> QED
                    BY <3>2, <5>1 DEF On
            <4> QED
                BY <4>1, <4>2
        <3> QED
            BY <1>1, <1>3, <3>2, <3>4, <3>5, <3>6 DEF PadsMuxed
    <2> QED
        BY <2>1, <2>2, WhoChangesBoard
<1>8. PadsDrained'
    <2>1. ASSUME Calls("pad"), To = "open_drain"
          PROVE  On \subseteq board.openDrain \cap DOMAIN mux
        <3>1. at \in Of(board, "pad")
            BY <1>6, <2>1
        <3>2. On \subseteq board.openDrain /\ \A p \in On : Before(About(board, "mux", p), at)
            BY <1>2, <2>1, <3>1 DEF PinsInOrder, PadsAgree, PadsFirst, On, To
        <3>3. ASSUME NEW p \in On PROVE p \in DOMAIN mux
            BY <3>2 DEF PinsInv, PadsMuxed, Before, About
        <3> QED
            BY <3>2, <3>3
    <2>2. drain' \subseteq board.openDrain \cap DOMAIN mux
        BY <2>1, WhoChangesBoard DEF PinsInv, PadsDrained, IOMUXC_SetPinConfig, BoardCall
    <2>3. drain \subseteq drain'
        <3>1. CASE IOMUXC_SetPinConfig
            <4>1. at \in Of(board, "pad")
                BY <1>6, <3>1 DEF IOMUXC_SetPinConfig, BoardCall
            <4>2. To # "open_drain" => On \cap board.openDrain = {}
                BY <1>2, <4>1 DEF PinsInOrder, PadsAgree, On, To
            <4> QED
                BY <3>1, <4>2 DEF IOMUXC_SetPinConfig, PinsInv, PadsDrained
        <3> QED
            BY <3>1, WhoChangesBoard
    <2>4. ASSUME NEW i \in Of(board, "pad"), i < at', board.program[i].to = "open_drain"
          PROVE  board.program[i].on \subseteq drain'
        <3>1. CASE i < at
            BY <2>3, <2>4, <3>1 DEF PinsInv, PadsDrained
        <3>2. CASE ~(i < at)
            <4>1. i = at /\ Calls("pad") /\ IOMUXC_SetPinConfig
                BY <2>4, <3>2, <1>4, MadeNow, WhoCalls
            <4>2. iomuxc
                BY <4>1, <1>6
            <4> QED
                BY <2>4, <4>1, <4>2 DEF IOMUXC_SetPinConfig, On, To
        <3> QED
            BY <3>1, <3>2
    <2> QED
        BY <1>1, <1>3, <1>7, <2>2, <2>4 DEF PadsDrained
<1>9. UnitsSelected' /\ \A g \in DOMAIN board.gpioSelect : Selected(g) => Selected(g)'
    <2>1. ASSUME NEW g \in DOMAIN board.gpioSelect, Calls("gpr"), g \in On
          PROVE  To = board.gpioSelect[g]
        <3>1. at \in About(board, "gpr", g)
            BY <1>2, <2>1, ToCall DEF Here, About, On
        <3> QED
            BY <1>2, <3>1 DEF PinsInOrder, PadsAgree, To
    <2>2. ASSUME NEW g \in DOMAIN board.gpioSelect, Selected(g) PROVE Selected(g)'
        BY <1>1, <2>1, <2>2, WhoChangesBoard DEF Selected, IOMUXC_GPR, BoardCall, With
    <2>3. ASSUME NEW g \in DOMAIN board.gpioSelect, NEW i \in About(board, "gpr", g), i < at'
          PROVE  Selected(g)'
        <3>1. CASE i < at
            BY <2>2, <3>1 DEF PinsInv, UnitsSelected, Before
        <3>2. CASE ~(i < at)
            <4>1. i = at /\ Calls("gpr") /\ IOMUXC_GPR /\ g \in On
                BY <2>3, <3>2, <1>4, MadeNow, WhoCalls DEF About, On
            <4> QED
                BY <1>1, <2>1, <4>1 DEF Selected, IOMUXC_GPR, With
        <3> QED
            BY <3>1, <3>2
    <2> QED
        BY <1>1, <1>3, <2>2, <2>3 DEF UnitsSelected, Before
<1>10. PinsDriven'
    <2> SUFFICES ASSUME NEW pin \in DOMAIN level'
                 PROVE  /\ \E p \in DOMAIN mux : mux[p] = pin
                        /\ \A g \in DOMAIN board.gpioSelect : Selected(g)
        BY <1>1, <1>7, <1>9 DEF PinsDriven
    <2>1. CASE pin \in DOMAIN level
        BY <2>1 DEF PinsInv, PinsDriven
    <2>2. CASE pin \notin DOMAIN level
        <3>1. Calls("level") /\ pin \in On
            BY <2>2, WhoChangesBoard DEF GPIO_WritePinOutput, BoardCall, With
        <3>2. at \in Of(board, "level")
            BY <1>2, <3>1, ToCall DEF Here
        <3>3. PICK p \in DOMAIN board.routes :
                board.routes[p] = pin /\ Before(About(board, "mux", p), at)
            BY <1>2, <3>1, <3>2 DEF PinsInOrder, PadsFirst, On
        <3>4. p \in DOMAIN mux
            BY <3>3 DEF PinsInv, PadsMuxed, Before, About
        <3>5. mux[p] = pin
            BY <3>3, <3>4 DEF PinsInv, PadsMuxed, Settled
        <3>6. \A g \in DOMAIN board.gpioSelect : Selected(g)
            BY <1>2, <3>2 DEF PinsInOrder, PadsFirst, PinsInv, UnitsSelected
        <3> QED
            BY <3>4, <3>5, <3>6
    <2> QED
        BY <2>1, <2>2
<1>11. UnitsRouted'
    <2> SUFFICES ASSUME NEW u \in DOMAIN told'
                 PROVE  board.units[u].pads \subseteq DOMAIN board.routes \cap DOMAIN mux
        BY <1>1, <1>7 DEF UnitsRouted
    <2>1. CASE u \in DOMAIN told
        BY <2>1 DEF PinsInv, UnitsRouted
    <2>2. CASE u \notin DOMAIN told
        <3>1. Calls("unit") /\ u \in On
            BY <2>2, WhoChangesBoard DEF StartUnit, BoardCall, With
        <3>2. at \in Of(board, "unit")
            BY <1>2, <3>1, ToCall DEF Here
        <3> SUFFICES ASSUME NEW p \in board.units[u].pads
                     PROVE  p \in DOMAIN board.routes /\ p \in DOMAIN mux
            OBVIOUS
        <3>3. p \in DOMAIN board.routes /\ Before(About(board, "mux", p), at)
            BY <1>2, <3>1, <3>2 DEF PinsInOrder, PadsFirst, On
        <3> QED
            BY <3>3 DEF PinsInv, PadsMuxed, Before, About
    <2> QED
        BY <2>1, <2>2
<1> QED
    BY <1>5, <1>7, <1>8, <1>9, <1>10, <1>11 DEF PinsInv

LEMMA PinsImply ==
    ASSUME Here, PinsInv
    PROVE  RoutedBeforeUse
<1>1. PinsInOrder(board) /\ Len(board.program) \in Nat
    BY Assumed DEF Here, CallsTyped
<1>2. ASSUME NEW p \in DOMAIN mux, p \in DOMAIN board.routes PROVE Apply(mux, p) = board.routes[p]
    BY <1>2 DEF PinsInv, PadsMuxed, Settled, Apply
<1>3. \A u \in DOMAIN told : Routed(board.units[u].pads)
    BY <1>2 DEF PinsInv, UnitsRouted, Routed
<1>4. \A p \in DOMAIN board.flashPads : mux[p] = board.flashPads[p]
    BY DEF PinsInv, PadsMuxed, Settled
<1>5. ASSUME at > Len(board.program) PROVE Routed(DOMAIN board.routes) /\ drain = board.openDrain
    <2>1. \A op, x : \A i \in About(board, op, x) : i < at
        BY <1>1, <1>5 DEF Here, Placed, About, Of
    <2>2. ASSUME NEW p \in DOMAIN board.routes PROVE p \in DOMAIN mux
        BY <1>1, <2>1 DEF PinsInOrder, PadsDone, PinsInv, PadsMuxed, About
    <2>3. ASSUME NEW p \in board.openDrain PROVE p \in drain
        <3>1. PICK i \in About(board, "pad", p) : board.program[i].to = "open_drain"
            BY <1>1 DEF PinsInOrder, PadsDone
        <3> QED
            BY <2>1, <3>1 DEF PinsInv, PadsDrained, About
    <2> QED
        BY <1>2, <2>2, <2>3 DEF Routed, PinsInv, PadsDrained
<1> QED
    BY <1>3, <1>4, <1>5 DEF RoutedBeforeUse, PinsInv, PinsDriven, Selected

(* On every board whose calls are in order, a pin is driven and a unit     *)
(* started only over the pads that lead there, and the pads of the flash   *)
(* keep their function throughout (pin_mux.c, main_enet.c).                *)
THEOREM PinsRouted == MainSpec => []RoutedBeforeUse
<1>1. MainInit => Here /\ PinsInv
    BY HereAtFirst, PinsAtFirst
<1>2. Here /\ PinsInv /\ [MainNext]_vars => Here' /\ PinsInv'
    BY HereNext, PinsNext
<1>3. Here /\ PinsInv => RoutedBeforeUse
    BY PinsImply
<1> QED
    BY <1>1, <1>2, <1>3, PTL DEF MainSpec

-----------------------------------------------------------------------------
(* Types                                                                   *)

ClocksTyped ==
    /\ \A c \in DOMAIN by : Divides(board, c, by[c])
    /\ rate \in [DOMAIN rate -> Nat]
    /\ \A c \in DOMAIN rate \cap DOMAIN board.pfdOf : rate[c] >= 1
    /\ stopped \subseteq DOMAIN rate /\ off \subseteq DOMAIN board.gated
    /\ target \in Nat /\ vdd \in Nat
MemoryTyped ==
    /\ mpu \in {"left", "off", "on"} /\ DOMAIN region \subseteq 0..15
    /\ cache \in [board.caches -> CacheStates]
PhyTyped ==
    /\ iomuxc \in BOOLEAN /\ \A p \in DOMAIN level : level[p] \in {0, 1}
    /\ since \in Nat /\ DOMAIN told \subseteq DOMAIN board.units
Typed == ClocksTyped /\ MemoryTyped /\ PhyTyped

(* What a call on a cache makes of the states it can be in.                *)
LEMMA CacheCalls ==
    /\ \A x : Apply([dirty |-> "clean", behind |-> "held"], x)
                = IF x = "dirty" THEN "clean" ELSE IF x = "behind" THEN "held" ELSE x
    /\ \A x : Apply([dirty |-> "lost", behind |-> "lost", held |-> "empty"], x)
                = IF x \in {"dirty", "behind"} THEN "lost" ELSE IF x = "held" THEN "empty" ELSE x
    /\ \A x : Apply([clean |-> "held", dirty |-> "behind"], x)
                = IF x = "clean" THEN "held" ELSE IF x = "dirty" THEN "behind" ELSE x
    /\ \A lines, x : Apply([empty |-> lines, held |-> "stale", behind |-> "stale"], x)
                = IF x = "empty" THEN lines ELSE IF x \in {"held", "behind"} THEN "stale" ELSE x
BY DEF Apply

LEMMA TypedAtFirst == MainInit => Typed
<1> SUFFICES ASSUME MainInit PROVE Typed
    OBVIOUS
<1>1. CallsTyped(board)
    BY HereAtFirst, Assumed DEF Here
<1>2. ClocksTyped
    BY <1>1 DEF MainInit, ClockInit, ClocksTyped, CallsTyped, StartsTyped
<1>3. MemoryTyped
    BY DEF MainInit, MemoryTyped, CacheStates
<1>4. PhyTyped
    BY DEF MainInit, PhyTyped
<1> QED
    BY <1>2, <1>3, <1>4 DEF Typed

LEMMA TypedNext ==
    ASSUME Here, Typed, [MainNext]_vars
    PROVE  Typed'
<1>1. board' = board
    BY WhoChangesClocks
<1>2. CallsTyped(board) /\ Len(board.program) \in Nat
    BY Assumed DEF Here, CallsTyped
<1>3. \A op : Calls(op) => at \in Of(board, op)
    BY <1>2, ToCall DEF Here
<1>4. ClocksTyped'
    <2>1. ASSUME NEW c \in DOMAIN by' PROVE Divides(board, c, by'[c])
        <3>1. CASE by' = by
            BY <3>1 DEF Typed, ClocksTyped
        <3>2. CASE CLOCK_SetDiv
            BY <1>2, <1>3, <3>2
            DEF Typed, ClocksTyped, CLOCK_SetDiv, Set, On, To, CallsTyped, ArgumentsTyped
        <3>3. CASE CLOCK_SetRootClock
            BY <1>2, <1>3, <3>3
            DEF Typed, ClocksTyped, CLOCK_SetRootClock, On, To, CallsTyped, ArgumentsTyped
        <3> QED
            BY <3>1, <3>2, <3>3, WhoChangesClocks
    <2>2. Calls("rate") => To \in Nat /\ On \subseteq DOMAIN rate
        BY <1>2, <1>3 DEF CallsTyped, ArgumentsTyped, On, To, Here, Started
    <2>3. DOMAIN rate' = DOMAIN rate /\ rate' \in [DOMAIN rate -> Nat]
        BY <2>2, WhoChangesClocks DEF Typed, ClocksTyped, CLOCK_InitLocked, Set
    <2>7. ASSUME NEW c \in DOMAIN rate \cap DOMAIN board.pfdOf PROVE rate'[c] >= 1
        <3>1. Calls("rate") /\ c \in On => To >= 1
            BY <1>2, <1>3 DEF CallsTyped, ArgumentsTyped, On, To
        <3> QED
            BY <2>2, <3>1, WhoChangesClocks DEF Typed, ClocksTyped, CLOCK_InitLocked, Set
    <2>4. stopped' \subseteq DOMAIN rate
        BY <2>2, WhoChangesClocks DEF Typed, ClocksTyped, CLOCK_InitStop, CLOCK_InitLocked
    <2>5. off' \subseteq DOMAIN board.gated
        BY <1>2, <1>3, WhoChangesClocks
        DEF Typed, ClocksTyped, CLOCK_DisableClock, CallsTyped, ArgumentsTyped, On
    <2>6. target' \in Nat /\ vdd' \in Nat
        BY <1>2, <1>3, WhoChangesClocks
        DEF Typed, ClocksTyped, SetVoltage, CallsTyped, ArgumentsTyped, To
    <2> QED
        BY <1>1, <2>1, <2>3, <2>4, <2>5, <2>6, <2>7 DEF ClocksTyped
<1>5. MemoryTyped'
    <2>1. mpu' \in {"left", "off", "on"}
        BY WhoChangesBoard DEF Typed, MemoryTyped, ARM_MPU_Enable
    <2>2. DOMAIN region' \subseteq 0..15
        BY <1>2, <1>3, WhoChangesBoard
        DEF Typed, MemoryTyped, ARM_MPU_SetRegion, BoardCall, With, On, CallsTyped, ArgumentsTyped
    <2>3. cache' \in [board.caches -> CacheStates]
        <3> DEFINE S == {"clean", "dirty", "stale", "empty", "held", "behind", "lost"}
        <3>1. cache \in [board.caches -> S] /\ S = CacheStates
            BY DEF Typed, MemoryTyped, CacheStates
        <3>2. CASE cache' = cache
            BY <3>1, <3>2
        <3>3. CASE CachePush
            BY <3>1, <3>3, CacheCalls DEF CachePush, CacheAfter
        <3>4. CASE CacheDrop
            BY <3>1, <3>4, CacheCalls DEF CacheDrop, CacheAfter
        <3>5. CASE CacheOff
            BY <3>1, <3>5, CacheCalls DEF CacheOff, CacheAfter
        <3>6. CASE CacheOn
            <4>1. PICK lines \in {"clean", "dirty"} :
                    CacheAfter([empty |-> lines, held |-> "stale", behind |-> "stale"])
                BY <3>6 DEF CacheOn
            <4> QED
                BY <3>1, <4>1, CacheCalls DEF CacheAfter
        <3> QED
            BY <3>2, <3>3, <3>4, <3>5, <3>6, WhoChangesBoard
    <2> QED
        BY <1>1, <2>1, <2>2, <2>3 DEF MemoryTyped
<1>6. PhyTyped'
    <2>1. iomuxc' \in BOOLEAN
        BY WhoChangesBoard DEF Typed, PhyTyped, CLOCK_EnableIomuxc
    <2>2. \A p \in DOMAIN level' : level'[p] \in {0, 1}
        BY <1>2, <1>3, WhoChangesBoard
        DEF Typed, PhyTyped, GPIO_WritePinOutput, BoardCall, With, On, To,
            CallsTyped, ArgumentsTyped
    <2>3. since' \in Nat
        BY <1>2, <1>3, WhoChangesBoard
        DEF Typed, PhyTyped, GPIO_WritePinOutput, SDK_DelayAtLeastUs, BoardCall, To,
            CallsTyped, ArgumentsTyped
    <2>4. DOMAIN told' \subseteq DOMAIN board.units
        BY <1>2, <1>3, WhoChangesBoard
        DEF Typed, PhyTyped, StartUnit, BoardCall, With, On, CallsTyped, ArgumentsTyped
    <2> QED
        BY <1>1, <2>1, <2>2, <2>3, <2>4 DEF PhyTyped
<1> QED
    BY <1>4, <1>5, <1>6 DEF Typed

(* The type invariant, for every board whose calls are given what their    *)
(* registers hold: no divider beyond its field (clock_config.c), no region *)
(* beyond the sixteen (board.c), no pad that only pulls low and has no     *)
(* function.                                                               *)
THEOREM TypeCorrect == MainSpec => []TypeOK
<1>1. MainInit => Here /\ PinsInv /\ Typed
    BY HereAtFirst, PinsAtFirst, TypedAtFirst
<1>2. Here /\ PinsInv /\ Typed /\ [MainNext]_vars => Here' /\ PinsInv' /\ Typed'
    BY HereNext, PinsNext, TypedNext
<1>3. Here /\ PinsInv /\ Typed => TypeOK
    <2> SUFFICES ASSUME Here, PinsInv, Typed PROVE TypeOK
        OBVIOUS
    <2>1. ClockTypeOK
        BY Assumed DEF Here, Placed, Typed, ClocksTyped, ClockTypeOK, Divides
    <2> QED
        BY <2>1 DEF TypeOK, Typed, MemoryTyped, PhyTyped, PinsInv, PadsKnown, PadsDrained
<1> QED
    BY <1>1, <1>2, <1>3, PTL DEF MainSpec

-----------------------------------------------------------------------------
(* Gates                                                                   *)

(* The gates are closed that the calls so far have closed.                 *)
GatesClosed == \A i \in Of(board, "gate") : i < at => board.program[i].on \subseteq off

LEMMA GatesNext ==
    ASSUME Here, GatesClosed, [MainNext]_vars
    PROVE  /\ GatesClosed'
           /\ \A p \in DOMAIN board.gated \ off' : \A c \in board.gated[p] :
                by'[c] = by[c] /\ (c \in DOMAIN from => from'[c] = from[c])
<1>1. board' = board /\ GatesFirst(board) /\ Len(board.program) \in Nat
    BY WhoChangesClocks, Assumed DEF Here, CallsTyped
<1>2. off \subseteq off'
    BY WhoChangesClocks DEF CLOCK_DisableClock
<1>3. ASSUME NEW i \in Of(board, "gate"), i < at' PROVE board.program[i].on \subseteq off'
    <2>1. CASE i < at
        BY <1>2, <2>1 DEF GatesClosed
    <2>2. CASE ~(i < at)
        <3>1. i = at /\ Calls("gate") /\ CLOCK_DisableClock
            BY <1>3, <2>2, MadeNow, WhoCalls DEF CacheOps
        <3> QED
            BY <3>1 DEF CLOCK_DisableClock, On
    <2> QED
        BY <2>1, <2>2
<1>4. ASSUME NEW p \in DOMAIN board.gated, p \notin off', NEW c \in board.gated[p]
      PROVE  by'[c] = by[c] /\ (c \in DOMAIN from => from'[c] = from[c])
    <2>1. c \in DOMAIN by
        BY <1>1 DEF GatesFirst, Here, Started
    <2>2. ASSUME NEW op, op \in {"from", "by", "root"}, Calls(op) PROVE c \notin On
        <3> SUFFICES ASSUME c \in On PROVE FALSE
            OBVIOUS
        <3>1. at \in About(board, op, c)
            BY <1>1, <2>2, ToCall DEF Here, About, On
        <3>2. Before(About(board, "gate", p), at)
            BY <1>1, <2>2, <3>1 DEF GatesFirst
        <3>3. p \in off
            BY <3>2 DEF GatesClosed, Before, About
        <3> QED
            BY <1>2, <1>4, <3>3
    <2> QED
        BY <2>1, <2>2, WhoChangesClocks DEF CLOCK_SetMux, CLOCK_SetDiv, CLOCK_SetRootClock, Set
<1> QED
    BY <1>1, <1>3, <1>4 DEF GatesClosed, Of

(* On every board whose calls close the gates first, no running peripheral *)
(* sees its source or divider change (clock_config.c).                     *)
THEOREM GatesBeforeDividers == MainSpec => ChangedWhileOff
<1>1. MainInit => Here /\ GatesClosed
    <2> SUFFICES ASSUME MainInit PROVE Here /\ GatesClosed
        OBVIOUS
    <2>1. Here /\ at = 1 /\ Len(board.program) \in Nat
        BY HereAtFirst, Assumed DEF MainInit, ClockInit, Here, CallsTyped
    <2> QED
        BY <2>1 DEF GatesClosed, Of
<1>2. Here /\ GatesClosed /\ [MainNext]_vars =>
        /\ Here' /\ GatesClosed'
        /\ [\A p \in DOMAIN board.gated \ off' : \A c \in board.gated[p] :
                by'[c] = by[c] /\ (c \in DOMAIN from => from'[c] = from[c])]_clockVars
    BY HereNext, GatesNext
<1> QED
    BY <1>1, <1>2, PTL DEF MainSpec, ChangedWhileOff

-----------------------------------------------------------------------------
(* Caches and protection                                                   *)

(* What a cache can be in, by the calls on it that are made.               *)
CacheRight(c) ==
    /\ cache[c] \notin {"lost", "stale"}
    /\ OffAt(board, c, at) => cache[c] \in {"empty", "held", "behind"}
    /\ WrittenBackAt(board, c, at) => cache[c] \notin {"dirty", "behind"}
    /\ EmptyAt(board, c, at) => cache[c] = "empty"
    /\ Untouched(board, c, at) => cache[c] \in {"clean", "dirty", "held"}
CachesRight == \A c \in board.caches : CacheRight(c)
ProtectionRight == ProtectionOff(board, at) => mpu = "off"

(* What was called since a cache was switched on last: over a step that    *)
(* makes no call on it, and over one that does.                            *)
LEMMA SinceKept ==
    ASSUME NEW b, NEW c, NEW i \in Nat, NEW k \in Nat, NEW calls,
           \A j \in calls : j \in Nat /\ (j < k => j < i), SinceOn(calls, b, c, k), i <= k
    PROVE  SinceOn(calls, b, c, i)
BY DEF SinceOn, SwitchedOn, About, Of

LEMMA SinceOnNext ==
    ASSUME NEW b, NEW c, NEW i \in Nat, NEW calls, \A j \in calls : j \in Nat,
           SinceOn(calls, b, c, i + 1)
    PROVE  i \notin SwitchedOn(b, c) /\ (i \in calls \/ SinceOn(calls, b, c, i))
<1>1. PICK j \in calls : j < i + 1 /\ ~\E k \in SwitchedOn(b, c) : j <= k /\ k < i + 1
    BY DEF SinceOn
<1>2. i \notin SwitchedOn(b, c)
    BY <1>1
<1>3. CASE j < i
    BY <1>1, <1>2, <1>3 DEF SinceOn, SwitchedOn, About, Of
<1> QED
    BY <1>1, <1>2, <1>3

LEMMA CallsAreNumbers ==
    ASSUME NEW b, Len(b.program) \in Nat, NEW op, NEW c
    PROVE  /\ \A i \in Of(b, op) : i \in Nat /\ i \in 1..Len(b.program)
           /\ About(b, op, c) \subseteq Of(b, op)
           /\ SwitchedOn(b, c) \subseteq About(b, "switch", c)
           /\ SwitchedOff(b, c) \subseteq About(b, "switch", c)
           /\ Emptied(b, c) \subseteq About(b, "drop", c)
BY DEF Of, About, SwitchedOn, SwitchedOff, Emptied

(* A step that makes no call on a cache leaves all that is known of it.    *)
LEMMA Passive ==
    ASSUME Here, CachesRight, NEW c \in board.caches, board' = board, cache'[c] = cache[c],
           at' \in Nat, at <= at',
           \A op \in CacheOps : \A i \in About(board, op, c) : i < at' => i < at
    PROVE  CacheRight(c)'
<1>1. Len(board.program) \in Nat /\ at \in Nat /\ CacheRight(c)
    BY Assumed DEF Here, CallsTyped, Placed, CachesRight
<1>2. ASSUME NEW op \in CacheOps, NEW calls, calls \subseteq About(board, op, c),
             SinceOn(calls, board, c, at')
      PROVE  SinceOn(calls, board, c, at)
    <2>1. \A j \in calls : j \in Nat /\ (j < at' => j < at)
        BY <1>1, <1>2, CallsAreNumbers
    <2> QED
        BY <1>1, <1>2, <2>1, SinceKept
<1>3. OffAt(board, c, at') => OffAt(board, c, at)
    BY <1>1, <1>2, CallsAreNumbers DEF OffAt, CacheOps
<1>4. WrittenBackAt(board, c, at') => WrittenBackAt(board, c, at)
    BY <1>1, <1>2, CallsAreNumbers DEF WrittenBackAt, CacheOps
<1>5. EmptyAt(board, c, at') => EmptyAt(board, c, at)
    BY <1>1, <1>2, CallsAreNumbers DEF EmptyAt, CacheOps
<1>6. Untouched(board, c, at') => Untouched(board, c, at)
    BY <1>1, CallsAreNumbers DEF Untouched, Before
<1> QED
    BY <1>1, <1>3, <1>4, <1>5, <1>6 DEF CacheRight, OffAt, WrittenBackAt, EmptyAt, Untouched,
       Emptied, SwitchedOff, SwitchedOn, About, Of, Before, SinceOn, Guarded

(* A call on this cache.                                                   *)
LEMMA Active ==
    ASSUME Here, Typed, CachesRight, [MainNext]_vars, at' # at, NEW c \in board.caches, c \in On,
           NEW op \in {"push", "drop", "switch"}, Calls(op)
    PROVE  CacheRight(c)'
<1>1. /\ Len(board.program) \in Nat /\ at \in Nat /\ CacheRight(c) /\ board' = board
      /\ at' = at + 1 /\ CachesInOrder(board) /\ c \in DOMAIN cache
    BY WhoCalls, WhoChangesClocks, Assumed
    DEF Here, CallsTyped, Placed, CachesRight, Calls, Typed, MemoryTyped
<1>2. at \in About(board, op, c)
    BY <1>1, ToCall DEF Here, About, On
<1>3. \A o : o # op => at \notin About(board, o, c)
    BY <1>2 DEF About, Of
<1>4. ~Untouched(board, c, at')
    BY <1>1, <1>2 DEF Untouched, Before, CacheOps
<1>5. ASSUME NEW calls, \A j \in calls : j \in Nat, SinceOn(calls, board, c, at')
      PROVE  at \notin SwitchedOn(board, c) /\ (at \in calls \/ SinceOn(calls, board, c, at))
    BY <1>1, <1>5, SinceOnNext
<1>6. /\ OffAt(board, c, at') => at \in SwitchedOff(board, c) \/ OffAt(board, c, at)
      /\ WrittenBackAt(board, c, at') =>
            at \in About(board, "push", c) \/ WrittenBackAt(board, c, at)
      /\ EmptyAt(board, c, at') => at \in Emptied(board, c) \/ EmptyAt(board, c, at)
      /\ at \in SwitchedOn(board, c) =>
            ~OffAt(board, c, at') /\ ~WrittenBackAt(board, c, at') /\ ~EmptyAt(board, c, at')
    <2>1. /\ \A j \in SwitchedOff(board, c) : j \in Nat
          /\ \A j \in About(board, "push", c) : j \in Nat
          /\ \A j \in Emptied(board, c) : j \in Nat
        BY <1>1, CallsAreNumbers
    <2> QED
        BY <1>5, <2>1 DEF OffAt, WrittenBackAt, EmptyAt
<1>7. CASE op = "push"
    <2>1. cache'[c] = IF cache[c] = "dirty" THEN "clean"
                      ELSE IF cache[c] = "behind" THEN "held" ELSE cache[c]
        BY <1>1, <1>7, WhoCalls, CacheCalls DEF CachePush, CacheAfter
    <2>2. at \notin SwitchedOff(board, c) /\ at \notin Emptied(board, c)
        BY <1>3, <1>7 DEF SwitchedOff, Emptied
    <2> QED
        BY <1>1, <1>4, <1>6, <2>1, <2>2 DEF CacheRight
<1>8. CASE op = "drop"
    <2>1. cache'[c] = IF cache[c] \in {"dirty", "behind"} THEN "lost"
                      ELSE IF cache[c] = "held" THEN "empty" ELSE cache[c]
        BY <1>1, <1>8, WhoCalls, CacheCalls DEF CacheDrop, CacheAfter
    <2>2. at \notin SwitchedOff(board, c) /\ at \notin About(board, "push", c)
        BY <1>3, <1>8 DEF SwitchedOff
    <2>3. WrittenBackAt(board, c, at)
        BY <1>1, <1>2, <1>8 DEF CachesInOrder
    <2>4. at \in Emptied(board, c) => OffAt(board, c, at)
        BY DEF Emptied
    <2> QED
        BY <1>1, <1>4, <1>6, <2>1, <2>2, <2>3, <2>4 DEF CacheRight
<1>9. CASE op = "switch" /\ ~To
    <2>1. cache'[c] = IF cache[c] = "clean" THEN "held"
                      ELSE IF cache[c] = "dirty" THEN "behind" ELSE cache[c]
        BY <1>1, <1>9, WhoCalls, CacheCalls DEF CacheOff, CacheOn, CacheAfter
    <2>2. at \notin About(board, "push", c) /\ at \notin Emptied(board, c)
        BY <1>3, <1>9 DEF Emptied
    <2>3. cache[c] \in {"clean", "dirty", "empty", "held", "behind"}
        BY <1>1 DEF CacheRight, Typed, MemoryTyped, CacheStates
    <2> QED
        BY <1>1, <1>4, <1>6, <2>1, <2>2, <2>3 DEF CacheRight
<1>10. CASE op = "switch" /\ To
    <2>1. at \in SwitchedOn(board, c)
        BY <1>2, <1>10 DEF SwitchedOn, To
    <2>2. cache[c] = "empty"
        BY <1>1, <2>1 DEF CachesInOrder, CacheRight
    <2>3. cache'[c] \in {"clean", "dirty"}
        <3>1. PICK lines \in {"clean", "dirty"} :
                CacheAfter([empty |-> lines, held |-> "stale", behind |-> "stale"])
            BY <1>10, WhoCalls DEF CacheOn, CacheOff
        <3> QED
            BY <1>1, <2>2, <3>1, CacheCalls DEF CacheAfter
    <2> QED
        BY <1>1, <1>4, <1>6, <2>1, <2>3 DEF CacheRight
<1> QED
    BY <1>7, <1>8, <1>9, <1>10

(* The calls on this cache are skipped, or are about to be made.           *)
LEMMA Skipped ==
    ASSUME Here, Typed, CachesRight, [MainNext]_vars, at' # at, NEW c \in board.caches, c \in On,
           Calls("if_on")
    PROVE  CacheRight(c)'
<1>1. /\ Len(board.program) \in Nat /\ at \in Nat /\ CacheRight(c) /\ board' = board
      /\ CachesInOrder(board) /\ BlocksTyped(board) /\ cache' = cache
    BY WhoCalls, WhoChangesClocks, Assumed
    DEF Here, CallsTyped, Placed, CachesRight, CacheSkipOff, boardVars
<1>2. at \in Of(board, "if_on") /\ at \in About(board, "if_on", c)
    BY <1>1, ToCall DEF Here, About, On
<1>3. /\ On = {c} /\ To \in Nat
      /\ at' = IF IsOn(c) THEN at + 1 ELSE at + 1 + To
    BY <1>1, <1>2, WhoCalls DEF CachesInOrder, BlocksTyped, On, To, CacheSkipOff
<1>4. cache[c] \in {"clean", "dirty", "held"}
    BY <1>1, <1>2 DEF CachesInOrder, CacheRight
<1>5. ~Untouched(board, c, at')
    BY <1>1, <1>2, <1>3 DEF Untouched, Before, CacheOps
<1>6. CASE IsOn(c)
    <2>1. ASSUME NEW op \in {"push", "drop", "switch"}, NEW calls,
                 calls \subseteq About(board, op, c), SinceOn(calls, board, c, at')
          PROVE  FALSE
        <3>1. PICK j \in calls : j < at'
            BY <2>1 DEF SinceOn
        <3>2. j \in Of(board, op) /\ j \in About(board, op, c) /\ j \in Nat
            BY <1>1, <2>1, CallsAreNumbers
        <3>3. j # at
            BY <1>2, <3>2 DEF Of
        <3> QED
            BY <1>1, <1>2, <1>3, <1>6, <3>1, <3>2, <3>3
            DEF CachesInOrder, Untouched, Before, CacheOps
    <2> QED
        BY <1>1, <1>4, <1>5, <2>1, CallsAreNumbers DEF CacheRight, OffAt, WrittenBackAt, EmptyAt
<1>7. CASE ~IsOn(c)
    <2>1. cache[c] = "held"
        BY <1>4, <1>7 DEF IsOn
    <2>2. ~EmptyAt(board, c, at')
        <3> SUFFICES ASSUME NEW j \in Emptied(board, c), j < at' PROVE FALSE
            BY <1>1 DEF EmptyAt, SinceOn
        <3>1. j \in Of(board, "drop") /\ j \in About(board, "drop", c) /\ j \in Nat
            BY <1>1, CallsAreNumbers
        <3>2. j # at
            BY <1>2, <3>1 DEF Of
        <3>3. ~(j < at)
            BY <1>1, <1>2, <3>1 DEF CachesInOrder, Untouched, Before, CacheOps
        <3>4. j \in Guarded(board, at)
            BY <1>1, <1>3, <1>7, <3>1, <3>2, <3>3 DEF Guarded, To
        <3> QED
            BY <1>2, <3>4 DEF Emptied
    <2> QED
        BY <1>1, <1>5, <2>1, <2>2 DEF CacheRight
<1> QED
    BY <1>6, <1>7

LEMMA CachesNext ==
    ASSUME Here, Typed, CachesRight, [MainNext]_vars
    PROVE  CachesRight'
<1>1. /\ board' = board /\ Len(board.program) \in Nat /\ at \in Nat /\ BlocksTyped(board)
      /\ DOMAIN cache = board.caches
    BY WhoChangesClocks, Assumed DEF Here, CallsTyped, Placed, Typed, MemoryTyped
<1> SUFFICES ASSUME NEW c \in board.caches PROVE CacheRight(c)'
    BY <1>1 DEF CachesRight
<1>2. at' \in Nat /\ at <= at'
    BY <1>1, WhoCalls, ToCall DEF Here, CacheSkipOff, BlocksTyped, To
<1>3. CASE at' = at
    <2>1. cache' = cache
        BY <1>1, <1>3, WhoChangesBoard
        DEF CachePush, CacheDrop, CacheOff, CacheOn, BoardCall, Return
    <2> QED
        BY <1>1, <1>2, <1>3, <2>1, Passive
<1>4. CASE at' # at /\ c \in On /\ Calls("if_on")
    BY <1>4, Skipped
<1>5. CASE at' # at /\ c \in On /\ \E op \in {"push", "drop", "switch"} : Calls(op)
    BY <1>5, Active
<1>6. CASE at' # at /\ c \in On /\ \A op \in CacheOps : ~Calls(op)
    <2>1. cache' = cache
        BY <1>6, WhoChangesBoard DEF CachePush, CacheDrop, CacheOff, CacheOn, BoardCall, CacheOps
    <2>2. \A op \in CacheOps : \A i \in About(board, op, c) : i < at' => i < at
        <3>1. at' = at + 1
            BY <1>6, WhoCalls DEF CacheOps
        <3>2. \A op \in CacheOps : at \notin About(board, op, c)
            BY <1>6, WhoCalls DEF Calls, About, Of
        <3> QED
            BY <1>1, <3>1, <3>2, CallsAreNumbers
    <2> QED
        BY <1>1, <1>2, <2>1, <2>2, Passive
<1>7. CASE at' # at /\ c \notin On
    <2>1. cache'[c] = cache[c]
        BY <1>1, <1>7, WhoChangesBoard DEF CachePush, CacheDrop, CacheOff, CacheOn, CacheAfter
    <2>2. \A op \in CacheOps : \A i \in About(board, op, c) : i < at' => i < at
        <3> SUFFICES ASSUME NEW op \in CacheOps, NEW i \in About(board, op, c), i < at', ~(i < at)
                     PROVE  FALSE
            OBVIOUS
        <3>1. i \in Nat /\ i # at /\ c \in board.program[i].on /\ i \in 1..Len(board.program)
            BY <1>1, <1>7, CallsAreNumbers DEF About, On
        <3>2. Calls("if_on") /\ at \in Of(board, "if_on")
            BY <1>1, <1>7, <3>1, WhoCalls, ToCall DEF Here
        <3>3. To \in Nat /\ at' \in {at + 1, at + 1 + To}
            BY <1>1, <1>7, <3>2, WhoCalls DEF BlocksTyped, CacheSkipOff, To
        <3>4. i \in Guarded(board, at)
            BY <1>1, <3>1, <3>3 DEF Guarded, To
        <3>5. board.program[i].on = On
            BY <1>1, <3>2, <3>4 DEF BlocksTyped, On
        <3> QED
            BY <1>7, <3>1, <3>5
    <2> QED
        BY <1>1, <1>2, <2>1, <2>2, Passive
<1> QED
    BY <1>3, <1>4, <1>5, <1>6, <1>7 DEF CacheOps

LEMMA ProtectionNext ==
    ASSUME Here, ProtectionRight, [MainNext]_vars
    PROVE  ProtectionRight'
<1>1. /\ board' = board /\ Len(board.program) \in Nat /\ at \in Nat
    BY WhoChangesClocks, Assumed DEF Here, CallsTyped, Placed
<1> SUFFICES ASSUME ProtectionOff(board, at') PROVE mpu' = "off"
    BY <1>1 DEF ProtectionRight
<1>2. PICK j \in Of(board, "mpu") :
        j < at' /\ \A k \in Of(board, "mpu") : j <= k /\ k < at' => ~board.program[k].to
    BY DEF ProtectionOff
<1>3. j \in Nat
    BY <1>1, CallsAreNumbers
<1>4. CASE at' # at /\ Calls("mpu")
    <2>1. at' = at + 1 /\ ARM_MPU_Enable /\ at \in Of(board, "mpu")
        BY <1>1, <1>4, WhoCalls, ToCall DEF Here, Calls
    <2>2. ~To
        BY <1>1, <1>2, <1>3, <2>1 DEF To
    <2> QED
        BY <2>1, <2>2 DEF ARM_MPU_Enable
<1>5. CASE ~(at' # at /\ Calls("mpu"))
    <2>1. mpu' = mpu
        BY <1>1, <1>5, WhoChangesBoard DEF ARM_MPU_Enable, BoardCall, Return
    <2>2. j < at
        BY <1>2, <1>5, MadeNow DEF CacheOps
    <2>3. at' \in Nat /\ at <= at'
        BY <1>1, WhoCalls, ToCall, Assumed DEF Here, CacheSkipOff, BlocksTyped, CallsTyped, To
    <2>4. \A k \in Of(board, "mpu") : k < at => k < at'
        BY <1>1, <2>3 DEF Of
    <2>5. ProtectionOff(board, at)
        BY <1>2, <2>2, <2>4 DEF ProtectionOff
    <2> QED
        BY <2>1, <2>5 DEF ProtectionRight
<1> QED
    BY <1>4, <1>5

LEMMA CachesAtFirst == MainInit => CachesRight /\ ProtectionRight
<1> SUFFICES ASSUME MainInit PROVE CachesRight /\ ProtectionRight
    OBVIOUS
<1>1. Here /\ at = 1 /\ Len(board.program) \in Nat
    BY HereAtFirst, Assumed DEF MainInit, ClockInit, Here, CallsTyped
<1>2. \A op, c : \A i \in About(board, op, c) : ~(i < at)
    BY <1>1, CallsAreNumbers
<1>3. ProtectionRight
    BY <1>1 DEF ProtectionRight, ProtectionOff, Of
<1>4. ASSUME NEW c \in board.caches PROVE CacheRight(c)
    <2>1. PICK warm \in BOOLEAN :
            cache \in {f \in [board.caches -> CacheStates] : \A k \in board.caches : f[k] \in Left(k, warm)}
        BY DEF MainInit
    <2>2. cache[c] \in Left(c, warm)
        BY <2>1
    <2>3. cache[c] \in {"clean", "dirty", "held"}
        BY <2>2 DEF Left
    <2>4. ~OffAt(board, c, at) /\ ~WrittenBackAt(board, c, at) /\ ~EmptyAt(board, c, at)
        BY <1>1, <1>2, CallsAreNumbers DEF OffAt, WrittenBackAt, EmptyAt, SinceOn
    <2> QED
        BY <2>3, <2>4 DEF CacheRight
<1> QED
    BY <1>3, <1>4 DEF CachesRight

LEMMA MemoryStep ==
    ASSUME Here, CachesRight, CachesRight', ProtectionRight, [MainNext]_vars
    PROVE  /\ \A c \in board.caches : cache'[c] \notin {"lost", "stale"}
           /\ (mpu' # mpu \/ region' # region) => \A c \in board.caches : ~IsOn(c)
           /\ region' # region => mpu = "off"
<1>1. board' = board /\ Len(board.program) \in Nat /\ CachesInOrder(board)
    BY WhoChangesClocks, Assumed DEF Here, CallsTyped
<1>2. \A c \in board.caches : cache'[c] \notin {"lost", "stale"}
    BY <1>1 DEF CachesRight, CacheRight
<1>3. /\ mpu' # mpu => at \in Of(board, "mpu")
      /\ region' # region => at \in Of(board, "region")
    BY <1>1, WhoChangesBoard, ToCall DEF Here, ARM_MPU_Enable, ARM_MPU_SetRegion, BoardCall
<1>4. ASSUME at \in Of(board, "mpu") \cup Of(board, "region"), NEW c \in board.caches
      PROVE  ~IsOn(c)
    BY <1>1, <1>4 DEF CachesInOrder, CachesRight, CacheRight, IsOn
<1>5. region' # region => mpu = "off"
    BY <1>1, <1>3 DEF CachesInOrder, ProtectionRight
<1> QED
    BY <1>2, <1>3, <1>4, <1>5

(* On every board that writes its caches back, empties and switches them   *)
(* in order around BOARD_ConfigMPU (board.c), nothing written is lost and  *)
(* nothing old is read, whatever the loader left in them; the rules of     *)
(* memory change only under caches that are off.                           *)
THEOREM NothingLost == MainSpec => MemoryKept
<1>1. MainInit => Here /\ Typed /\ CachesRight /\ ProtectionRight
    BY HereAtFirst, TypedAtFirst, CachesAtFirst
<1>2. Here /\ Typed /\ CachesRight /\ ProtectionRight /\ [MainNext]_vars =>
        /\ Here' /\ Typed' /\ CachesRight' /\ ProtectionRight'
        /\ [/\ \A c \in board.caches : cache'[c] \notin {"lost", "stale"}
            /\ (mpu' # mpu \/ region' # region) => \A c \in board.caches : ~IsOn(c)
            /\ region' # region => mpu = "off"]_vars
    BY HereNext, TypedNext, CachesNext, ProtectionNext, MemoryStep
<1> QED
    BY <1>1, <1>2, PTL DEF MainSpec, MemoryKept
-----------------------------------------------------------------------------
(* What the calls so far have written                                      *)

LEMMA AtGrows ==
    ASSUME Here, [MainNext]_vars
    PROVE  at \in Nat /\ at' \in Nat /\ at <= at'
<1>1. Len(board.program) \in Nat /\ BlocksTyped(board) /\ Here'
    BY HereNext, Assumed DEF Here, CallsTyped
<1>2. at \in Nat /\ at' \in Nat
    BY <1>1 DEF Here, Placed
<1>3. CASE Calls("if_on") /\ at' # at
    BY <1>1, <1>2, <1>3, WhoCalls, ToCall DEF Here, CacheSkipOff, BlocksTyped, To
<1> QED
    BY <1>2, <1>3, WhoCalls

(* The calls made before the next state are those made before this one,    *)
(* and the one of this step.                                               *)
LEMMA MadeNext ==
    ASSUME Here, [MainNext]_vars, NEW op, op \notin CacheOps,
           NEW calls, calls \subseteq Of(board, op)
    PROVE  Made(calls, at') =
            IF at' # at /\ at \in calls THEN Made(calls, at) \cup {at} ELSE Made(calls, at)
<1>1. at \in Nat /\ at' \in Nat /\ at <= at'
    BY AtGrows
<1>2. \A j \in calls : j \in Nat
    BY Assumed DEF Here, CallsTyped, Of
<1>3. ASSUME NEW j \in calls, j < at', ~(j < at) PROVE at' # at /\ j = at
    BY <1>3, MadeNow
<1> QED
    BY <1>1, <1>2, <1>3 DEF Made

LEMMA LatestIsLast ==
    ASSUME NEW i \in Nat, NEW calls, calls \subseteq Nat
    PROVE  Latest(Made(calls, i) \cup {i}) = i
<1> DEFINE made == Made(calls, i) \cup {i}
<1>1. i \in made /\ \A k \in made : k \in Nat /\ k <= i
    BY DEF Made
<1> HIDE DEF made
<1>2. Latest(made) \in made /\ \A k \in made : k <= Latest(made)
    BY <1>1 DEF Latest
<1>3. Latest(made) = i
    <2>1. Latest(made) \in Nat /\ i <= Latest(made) /\ Latest(made) <= i
        BY <1>1, <1>2
    <2> QED
        BY <2>1
<1> QED
    BY <1>3 DEF made

(* What the calls of one kind have written, when such a call writes r.     *)
LEMMA WrittenNext ==
    ASSUME Here, [MainNext]_vars, NEW op, op \notin CacheOps, NEW r, NEW q,
           r = WrittenAt(board, op, at),
           q = IF at' # at /\ Calls(op) THEN With(r, To) ELSE r
    PROVE  q = WrittenAt(board, op, at')
<1>1. board' = board /\ Len(board.program) \in Nat /\ at \in Nat /\ at' \in Nat
    BY WhoChangesClocks, Assumed, AtGrows DEF Here, CallsTyped
<1> DEFINE R == Of(board, op)
           A(n) == About(board, op, n)
<1>2. R \subseteq Nat /\ \A n : A(n) \subseteq R
    BY <1>1 DEF Of, About
<1>3. /\ Made(R, at') = IF at' # at /\ at \in R THEN Made(R, at) \cup {at} ELSE Made(R, at)
      /\ \A n : Made(A(n), at') =
            IF at' # at /\ at \in A(n) THEN Made(A(n), at) \cup {at} ELSE Made(A(n), at)
    <2> HIDE DEF R, A
    <2> QED
        BY <1>2, MadeNext DEF R
<1>4. at' # at => (at \in R <=> Calls(op)) /\ \A n : at \in A(n) <=> Calls(op) /\ n \in On
    BY <1>1, WhoCalls, ToCall DEF Here, Of, About, Calls, On
<1>5. DOMAIN r = UNION {board.program[j].on : j \in Made(R, at)}
    BY DEF WrittenAt
<1>6. CASE at' # at /\ Calls(op)
    <2>1. q = With(r, To)
        BY <1>6
    <2>2. UNION {board.program[j].on : j \in Made(R, at')}
            = (UNION {board.program[j].on : j \in Made(R, at)}) \cup On
        BY <1>3, <1>4, <1>6 DEF On
    <2>3. ASSUME NEW n \in On PROVE Latest(Made(A(n), at')) = at
        <3>1. Made(A(n), at') = Made(A(n), at) \cup {at} /\ A(n) \subseteq Nat
            BY <1>2, <1>3, <1>4, <1>6
        <3> QED
            BY <1>1, <3>1, LatestIsLast
    <2>4. ASSUME NEW n, n \notin On PROVE Made(A(n), at') = Made(A(n), at)
        BY <1>3, <1>4, <2>4
    <2>5. DOMAIN q = UNION {board.program[j].on : j \in Made(R, at')}
        BY <1>5, <2>1, <2>2 DEF With
    <2>6. \A n \in DOMAIN q : q[n] = board.program[Latest(Made(A(n), at'))].to
        BY <1>5, <2>1, <2>3, <2>4 DEF WrittenAt, With, To
    <2>7. q = [n \in DOMAIN q |-> q[n]]
        BY <2>1 DEF With
    <2> QED
        BY <1>1, <2>5, <2>6, <2>7 DEF WrittenAt
<1>7. CASE ~(at' # at /\ Calls(op))
    <2>1. q = r
        BY <1>7
    <2>2. Made(R, at') = Made(R, at) /\ \A n : Made(A(n), at') = Made(A(n), at)
        BY <1>3, <1>4, <1>7
    <2> QED
        BY <1>1, <2>1, <2>2 DEF WrittenAt
<1> QED
    BY <1>6, <1>7

LEMMA NothingWritten ==
    ASSUME Here, at = 1, NEW op
    PROVE  DOMAIN WrittenAt(board, op, at) = {}
<1>1. Len(board.program) \in Nat
    BY Assumed DEF Here, CallsTyped
<1>2. Made(Of(board, op), at) = {}
    BY <1>1 DEF Made, Of
<1> QED
    BY <1>2 DEF WrittenAt

-----------------------------------------------------------------------------
(* Memory                                                                  *)

RegionsRight == region = WrittenAt(board, "region", at)
MemoryRight == mpu = "on" => \A s \in board.sections : SectionFits(s, region)

LEMMA RegionsNext ==
    ASSUME Here, RegionsRight, [MainNext]_vars
    PROVE  RegionsRight'
<1>1. region' = IF at' # at /\ Calls("region") THEN With(region, To) ELSE region
    BY WhoCalls, WhoChangesBoard, AtGrows DEF ARM_MPU_SetRegion, BoardCall, Return
<1>2. region' = WrittenAt(board, "region", at')
    BY <1>1, WrittenNext DEF RegionsRight, CacheOps
<1> QED
    BY <1>2, WhoChangesClocks DEF RegionsRight, WrittenAt, Of, About

LEMMA MemoryRightNext ==
    ASSUME Here, RegionsRight, MemoryRight, CachesRight, CachesRight', ProtectionRight,
           [MainNext]_vars
    PROVE  MemoryRight'
<1>1. board' = board /\ MemoryInOrder(board) /\ Len(board.program) \in Nat
    BY WhoChangesClocks, Assumed DEF Here, CallsTyped
<1> SUFFICES ASSUME mpu' = "on" PROVE \A s \in board.sections : SectionFits(s, region')
    BY <1>1 DEF MemoryRight
<1>2. CASE mpu' = mpu
    <2>1. region' = region
        BY <1>2, MemoryStep
    <2> QED
        BY <1>2, <2>1 DEF MemoryRight
<1>3. CASE ARM_MPU_Enable
    <2>1. at \in Of(board, "mpu") /\ To /\ region' = region
        BY <1>1, <1>3, ToCall DEF ARM_MPU_Enable, BoardCall, Here
    <2> QED
        BY <1>1, <2>1 DEF MemoryInOrder, RegionsRight, To
<1> QED
    BY <1>2, <1>3, WhoChangesBoard

LEMMA MemoryAtFirst == MainInit => RegionsRight /\ MemoryRight
<1> SUFFICES ASSUME MainInit PROVE RegionsRight /\ MemoryRight
    OBVIOUS
<1>1. Here /\ at = 1 /\ Len(board.program) \in Nat /\ mpu # "on" /\ region = [n \in {} |-> {}]
    BY HereAtFirst, Assumed DEF MainInit, ClockInit, Here, CallsTyped
<1>2. DOMAIN WrittenAt(board, "region", at) = {}
    BY <1>1, NothingWritten
<1>3. region = WrittenAt(board, "region", at)
    BY <1>1, <1>2 DEF WrittenAt
<1> QED
    BY <1>1, <1>3 DEF RegionsRight, MemoryRight

(* On every board that switches protection on over regions that fit its    *)
(* linker script, and writes regions only while it is off (board.c),       *)
(* memory can be used as the program is linked whenever they are in force. *)
THEOREM MemoryFits == MainSpec => []MemoryAsLinked
<1> DEFINE Inv == Here /\ Typed /\ CachesRight /\ ProtectionRight /\ RegionsRight /\ MemoryRight
<1>1. MainInit => Inv
    BY HereAtFirst, TypedAtFirst, CachesAtFirst, MemoryAtFirst
<1>2. Inv /\ [MainNext]_vars => Inv'
    BY HereNext, TypedNext, CachesNext, ProtectionNext, RegionsNext, MemoryRightNext
<1>3. Inv => MemoryAsLinked
    BY DEF MemoryRight, MemoryAsLinked
<1> QED
    BY <1>1, <1>2, <1>3, PTL DEF MainSpec
LEMMA DefaultBetween ==
    ASSUME NEW a \in Int, NEW e \in Int,
           \A x \in {\h40000, \h60000, \hA0000} : x <= e <=> x <= a
    PROVE  Default(e) = Default(a)
<1>1. DefaultMemory(e) = DefaultMemory(a)
    BY SMT DEF DefaultMemory
<1> QED
    BY <1>1, SMT DEF Default

(* Between two edges the rules do not change: the regions that hold an     *)
(* address are those that hold the last edge at or below it, so that what  *)
(* holds at the edges of a section holds at each of its addresses.         *)
LEMMA EdgesSuffice ==
    ASSUME NEW s, s.from \in Int, s.upto \in Int,
           NEW regions,
           \A n \in DOMAIN regions : regions[n].from \in Int /\ regions[n].upto \in Int,
           SectionFits(s, regions), NEW a \in Int, s.from <= a, a < s.upto
    PROVE  Fits(s.use, Rules(regions, a))
<1> DEFINE E == Edges(s, regions)
           Above == {n \in Nat : a - n \in E}
<1>1. /\ s.from \in E /\ \A x \in E : x \in Int
      /\ \h40000 \in E /\ \h60000 \in E /\ \hA0000 \in E
      /\ \A n \in DOMAIN regions : regions[n].from \in E /\ regions[n].upto \in E
    BY DEF Edges
<1> HIDE DEF E
<1>2. PICK n \in Above : \A m \in Above : n <= m
    <2>1. a - s.from \in Nat /\ a - (a - s.from) = s.from
        OBVIOUS
    <2>2. Above # {} /\ Above \subseteq Nat
        BY <1>1, <2>1
    <2> HIDE DEF Above
    <2> QED
        BY <2>2, LeastNumber
<1> DEFINE e == a - n
<1>3. e \in E /\ e \in Int /\ e <= a
    BY <1>2
<1>4. ASSUME NEW x \in E, x <= a PROVE x <= e
    <2>1. a - x \in Nat /\ a - (a - x) = x
        BY <1>1, <1>4
    <2>2. a - x \in Above
        BY <2>1
    <2> QED
        BY <1>1, <1>2, <2>2
<1> HIDE DEF e
<1>5. \A x \in E : x <= e <=> x <= a
    BY <1>1, <1>3, <1>4
<1>6. \A x \in E : e < x <=> a < x
    BY <1>1, <1>3, <1>5
<1>7. Fits(s.use, Rules(regions, e))
    <2>1. s.from <= e /\ e < s.upto
        BY <1>1, <1>3, <1>5
    <2> QED
        BY <1>3, <2>1 DEF SectionFits, E
<1>8. Default(e) = Default(a)
    <2>1. \A x \in {\h40000, \h60000, \hA0000} : x <= e <=> x <= a
        BY <1>1, <1>5, SMT
    <2> QED
        BY <1>3, <2>1, DefaultBetween
<1> DEFINE Holding(x) == {m \in DOMAIN regions : regions[m].from <= x /\ x < regions[m].upto}
<1>9. Holding(e) = Holding(a)
    BY <1>1, <1>5, <1>6, SMT
<1>10. Rules(regions, e) = Rules(regions, a)
    <2>1. \A x : Rules(regions, x) =
            IF Holding(x) = {} THEN Default(x)
            ELSE regions[CHOOSE m \in Holding(x) : \A k \in Holding(x) : k <= m]
        BY Zenon DEF Rules
    <2> HIDE DEF Holding
    <2> QED
        BY <1>8, <1>9, <2>1, Zenon
<1> QED
    BY <1>7, <1>10

RegionsTyped == \A n \in DOMAIN region : region[n].from \in Int /\ region[n].upto \in Int

LEMMA RegionsTypedNext ==
    ASSUME Here, RegionsTyped, [MainNext]_vars
    PROVE  RegionsTyped'
<1>1. MemoryInOrder(board) /\ Len(board.program) \in Nat
    BY Assumed DEF Here, CallsTyped
<1>2. ASSUME ARM_MPU_SetRegion PROVE To.from \in Int /\ To.upto \in Int
    <2>1. at \in Of(board, "region")
        BY <1>1, <1>2, ToCall DEF Here, ARM_MPU_SetRegion, BoardCall
    <2> QED
        BY <1>1, <2>1 DEF MemoryInOrder, To
<1> QED
    BY <1>2, WhoChangesBoard DEF RegionsTyped, ARM_MPU_SetRegion, With

(* The same for every address of a section, and not only for the edges     *)
(* that MemoryAsLinked looks at (board.c, the linker scripts).             *)
THEOREM EveryAddressFits ==
    MainSpec => [](mpu = "on" =>
        \A s \in board.sections : \A a \in Int :
            s.from <= a /\ a < s.upto => Fits(s.use, Rules(region, a)))
<1>1. MainInit => Here /\ RegionsTyped
    <2> SUFFICES ASSUME MainInit PROVE Here /\ RegionsTyped
        OBVIOUS
    <2> QED
        BY HereAtFirst DEF MainInit, RegionsTyped
<1>2. Here /\ RegionsTyped /\ [MainNext]_vars => Here' /\ RegionsTyped'
    BY HereNext, RegionsTypedNext
<1>3. Here /\ RegionsTyped /\ MemoryAsLinked =>
        (mpu = "on" =>
            \A s \in board.sections : \A a \in Int :
                s.from <= a /\ a < s.upto => Fits(s.use, Rules(region, a)))
    <2> SUFFICES ASSUME Here, RegionsTyped, MemoryAsLinked, mpu = "on",
                        NEW s \in board.sections, NEW a \in Int, s.from <= a, a < s.upto
                 PROVE  Fits(s.use, Rules(region, a))
        OBVIOUS
    <2>1. s.from \in Int /\ s.upto \in Int
        BY Assumed DEF Here, MemoryInOrder
    <2> QED
        BY <2>1, EdgesSuffice DEF MemoryAsLinked, RegionsTyped
<1> QED
    BY <1>1, <1>2, <1>3, MemoryFits, PTL DEF MainSpec

-----------------------------------------------------------------------------
(* The reset of the PHY                                                    *)

LevelRight == level = WrittenAt(board, "level", at)
GprRight ==
    LET written == WrittenAt(board, "gpr", at)
    IN \A g \in DOMAIN written : g \in DOMAIN gpr /\ gpr[g] = written[g]
SinceRight ==
    \A d \in Of(board, "delay") :
        d < at /\ ~(\E k \in Resets(board) : d < k /\ k < at) => since >= board.program[d].to
ResetInv == LevelRight /\ GprRight /\ SinceRight

LEMMA ResetAtFirst == MainInit => ResetInv
<1> SUFFICES ASSUME MainInit PROVE ResetInv
    OBVIOUS
<1>1. Here /\ at = 1 /\ Len(board.program) \in Nat /\ level = [p \in {} |-> 0]
    BY HereAtFirst, Assumed DEF MainInit, ClockInit, Here, CallsTyped
<1>2. \A op : DOMAIN WrittenAt(board, op, at) = {}
    BY <1>1, NothingWritten
<1>3. LevelRight
    BY <1>1, <1>2 DEF LevelRight, WrittenAt
<1>4. GprRight
    BY <1>2 DEF GprRight
<1>5. SinceRight
    BY <1>1 DEF SinceRight, Of
<1> QED
    BY <1>3, <1>4, <1>5 DEF ResetInv

LEMMA SinceNext ==
    ASSUME Here, Typed, SinceRight, [MainNext]_vars
    PROVE  SinceRight'
<1>1. /\ board' = board /\ Len(board.program) \in Nat
      /\ at \in Nat /\ at' \in Nat /\ at <= at' /\ since \in Nat
    BY WhoChangesClocks, Assumed, AtGrows DEF Here, CallsTyped, Typed, PhyTyped
<1>2. Calls("delay") => To \in Nat
    BY <1>1, ToCall, Assumed DEF Here, CallsTyped, ArgumentsTyped, To
<1> SUFFICES ASSUME NEW d \in Of(board, "delay"), d < at',
                    ~\E k \in Resets(board) : d < k /\ k < at'
             PROVE  since' >= board.program[d].to
    BY <1>1 DEF SinceRight, Of, Resets, About
<1>3. d \in Nat /\ board.program[d].to \in Nat /\ \A k \in Resets(board) : k \in Nat
    BY <1>1, Assumed DEF Of, About, Resets, Here, CallsTyped, ArgumentsTyped
<1>4. CASE d < at
    <2>1. since >= board.program[d].to
        BY <1>1, <1>3, <1>4 DEF SinceRight
    <2>2. since' = since \/ (since' = since + To /\ Calls("delay"))
        <3>1. CASE GPIO_WritePinOutput
            <4>1. at \in Of(board, "level") /\ at' = at + 1
                BY <1>1, <3>1, ToCall DEF GPIO_WritePinOutput, BoardCall, Return, Here
            <4>2. at \notin Resets(board)
                BY <1>1, <1>4, <4>1
            <4>3. board.phy.reset \notin On
                BY <4>1, <4>2 DEF Resets, About, On
            <4> QED
                BY <3>1, <4>3 DEF GPIO_WritePinOutput
        <3> QED
            BY <3>1, WhoChangesBoard DEF SDK_DelayAtLeastUs, BoardCall
    <2> QED
        BY <1>1, <1>2, <1>3, <2>1, <2>2
<1>5. CASE ~(d < at)
    <2>1. d = at /\ SDK_DelayAtLeastUs
        BY <1>5, MadeNow, WhoCalls DEF CacheOps
    <2> QED
        BY <1>1, <1>3, <2>1 DEF SDK_DelayAtLeastUs, To
<1> QED
    BY <1>4, <1>5

LEMMA ResetNext ==
    ASSUME Here, Typed, ResetInv, [MainNext]_vars
    PROVE  ResetInv'
<1>1. board' = board
    BY WhoChangesClocks
<1>2. LevelRight'
    <2>1. level' = IF at' # at /\ Calls("level") THEN With(level, To) ELSE level
        BY WhoCalls, WhoChangesBoard, AtGrows DEF GPIO_WritePinOutput, BoardCall, Return
    <2>2. level' = WrittenAt(board, "level", at')
        BY <2>1, WrittenNext DEF ResetInv, LevelRight, CacheOps
    <2> QED
        BY <1>1, <2>2 DEF LevelRight, WrittenAt, Of, About
<1>3. GprRight'
    <2> DEFINE written == WrittenAt(board, "gpr", at)
               next == IF at' # at /\ Calls("gpr") THEN With(written, To) ELSE written
    <2>1. next = WrittenAt(board, "gpr", at')
        BY WrittenNext DEF CacheOps
    <2>2. gpr' = IF at' # at /\ Calls("gpr") THEN With(gpr, To) ELSE gpr
        BY WhoCalls, WhoChangesBoard, AtGrows DEF IOMUXC_GPR, BoardCall, Return
    <2>3. \A g \in DOMAIN written : g \in DOMAIN gpr /\ gpr[g] = written[g]
        BY DEF ResetInv, GprRight
    <2> HIDE DEF written
    <2>4. \A g \in DOMAIN next : g \in DOMAIN gpr' /\ gpr'[g] = next[g]
        BY <2>2, <2>3 DEF With
    <2> HIDE DEF next
    <2>5. WrittenAt(board, "gpr", at)' = next
        BY <1>1, <2>1 DEF WrittenAt, Of, About
    <2> QED
        BY <2>4, <2>5 DEF GprRight
<1> QED
    BY <1>2, <1>3, SinceNext DEF ResetInv
=============================================================================
