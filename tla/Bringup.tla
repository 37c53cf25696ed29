------------------------------ MODULE Bringup ------------------------------
(***************************************************************************)
(* main up to the first task: memory protection and caches, pads, clocks   *)
(* (ClockTree), console and PHY, one call or register write a step.  What  *)
(* the steps are is in BoardRT1060 and BoardRT1170.                        *)
(***************************************************************************)
EXTENDS ClockTree, MemoryMap

RT1060 == INSTANCE BoardRT1060

VARIABLES
    mpu,     \* "left" on by the loader, "off", or "on" with this program's regions
    region,  \* the regions this program wrote, by number
    cache,   \* what each cache holds
    iomuxc,  \* whether the pads' registers are clocked
    mux,     \* pad -> its function
    drain,   \* pads that only pull low
    gpr,     \* fields of IOMUXC_GPR
    level,   \* GPIO pin -> the level it is driven to
    since,   \* microseconds since the PHY's reset last changed
    told     \* unit that was started -> the rate of its clock it was told

boardVars == <<mpu, region, cache, iomuxc, mux, drain, gpr, level, since, told>>
vars == <<clockVars, boardVars>>

(* A cache that is on is clean or dirty, or stale: it answers with what    *)
(* memory no longer holds.  One that is off is empty, holds lines, or is   *)
(* behind: holds what was never written back.  Lost: that was dropped.     *)
CacheStates == {"clean", "dirty", "stale", "empty", "held", "behind", "lost"}
IsOn(c) == cache[c] \in {"clean", "dirty", "stale"}
Apply(f, x) == IF x \in DOMAIN f THEN f[x] ELSE x

-----------------------------------------------------------------------------
(* After a reset, or from a loader that left protection on, and each of    *)
(* the caches on or off.  Instructions are not written.                    *)
Left(c, warm) ==
    {"held"} \cup (IF warm THEN {"clean"} ELSE {}) \cup (IF warm /\ c # "i" THEN {"dirty"} ELSE {})
MainInit ==
    /\ ClockInit
    /\ \E warm \in BOOLEAN :
        /\ mpu = IF warm THEN "left" ELSE "off"
        /\ cache \in {f \in [board.caches -> CacheStates] : \A c \in board.caches : f[c] \in Left(c, warm)}
        /\ iomuxc = warm
    /\ region = [n \in {} |-> {}]
    /\ mux = board.flashPads /\ drain = {}
    /\ \E w \in UNION {board.gprs[g] : g \in DOMAIN board.gprs} :
        gpr = [g \in DOMAIN board.gprs |->
                  IF w \in board.gprs[g] THEN w ELSE CHOOSE v \in board.gprs[g] : TRUE]
    /\ level = [p \in {} |-> 0] /\ since = 0
    /\ told = [u \in {} |-> 0]

(* A call that leaves the clocks alone.                                    *)
BoardCall(op) == Calls(op) /\ Return /\ UNCHANGED <<from, by, rate, stopped, off, target, vdd>>
With(f, v) == [x \in DOMAIN f \cup On |-> IF x \in On THEN v ELSE f[x]]

ClockCall == ClockNext /\ UNCHANGED boardVars

ARM_MPU_Enable ==
    /\ BoardCall("mpu") /\ mpu' = IF To THEN "on" ELSE "off"
    /\ UNCHANGED <<region, cache, iomuxc, mux, drain, gpr, level, since, told>>

ARM_MPU_SetRegion ==
    /\ BoardCall("region") /\ region' = With(region, To)
    /\ UNCHANGED <<mpu, cache, iomuxc, mux, drain, gpr, level, since, told>>

CacheAfter(change) ==
    /\ cache' = [c \in DOMAIN cache |-> IF c \in On THEN Apply(change, cache[c]) ELSE cache[c]]
    /\ UNCHANGED <<mpu, region, iomuxc, mux, drain, gpr, level, since, told>>

CacheSkipOff ==
    /\ Calls("if_on")
    /\ at' = IF \A c \in On : IsOn(c) THEN at + 1 ELSE at + 1 + To
    /\ UNCHANGED <<board, from, by, rate, stopped, off, target, vdd>> /\ UNCHANGED boardVars
CachePush == BoardCall("push") /\ CacheAfter([dirty |-> "clean", behind |-> "held"])
CacheDrop == BoardCall("drop") /\ CacheAfter([dirty |-> "lost", behind |-> "lost", held |-> "empty"])
CacheOff == BoardCall("switch") /\ ~To /\ CacheAfter([clean |-> "held", dirty |-> "behind"])
(* From here on the program writes through it, unless instructions alone.  *)
CacheOn ==
    /\ BoardCall("switch") /\ To
    /\ \E lines \in (IF "i" \in On THEN {"clean"} ELSE {"clean", "dirty"}) :
        CacheAfter([empty |-> lines, held |-> "stale", behind |-> "stale"])

CLOCK_EnableIomuxc ==
    /\ BoardCall("iomuxc") /\ iomuxc' = TRUE
    /\ UNCHANGED <<mpu, region, cache, mux, drain, gpr, level, since, told>>

(* Without its clock the register keeps what it has.                       *)
IOMUXC_SetPinMux ==
    /\ BoardCall("mux")
    /\ mux' = IF ~iomuxc THEN mux
              ELSE [p \in DOMAIN mux \cup On |-> IF p \in On THEN To[p] ELSE mux[p]]
    /\ UNCHANGED <<mpu, region, cache, iomuxc, drain, gpr, level, since, told>>

IOMUXC_SetPinConfig ==
    /\ BoardCall("pad")
    /\ drain' = IF ~iomuxc THEN drain ELSE IF To = "open_drain" THEN drain \cup On ELSE drain \ On
    /\ UNCHANGED <<mpu, region, cache, iomuxc, mux, gpr, level, since, told>>

IOMUXC_GPR ==
    /\ BoardCall("gpr") /\ gpr' = With(gpr, To)
    /\ UNCHANGED <<mpu, region, cache, iomuxc, mux, drain, level, since, told>>

GPIO_WritePinOutput ==
    /\ BoardCall("level") /\ level' = With(level, To)
    /\ since' = IF board.phy.reset \in On /\ level' # level THEN 0 ELSE since
    /\ UNCHANGED <<mpu, region, cache, iomuxc, mux, drain, gpr, told>>

SDK_DelayAtLeastUs ==
    /\ BoardCall("delay") /\ since' = since + To
    /\ UNCHANGED <<mpu, region, cache, iomuxc, mux, drain, gpr, level, told>>

(* DbgConsole_Init, ENET_SetSMI: a divider is computed from the rate the   *)
(* unit is told.                                                           *)
Told(u) ==
    IF u = "console" /\ board.name = "rt1060"
    THEN RT1060!BOARD_DebugConsoleSrcFreq(from, by, rate) ELSE Frequency[board.units[u].clock]
StartUnit ==
    /\ BoardCall("unit") /\ \E u \in On : told' = With(told, Told(u))
    /\ UNCHANGED <<mpu, region, cache, iomuxc, mux, drain, gpr, level, since>>

MainNext ==
    \/ ClockCall \/ ARM_MPU_Enable \/ ARM_MPU_SetRegion
    \/ CacheSkipOff \/ CachePush \/ CacheDrop \/ CacheOff \/ CacheOn
    \/ CLOCK_EnableIomuxc \/ IOMUXC_SetPinMux \/ IOMUXC_SetPinConfig \/ IOMUXC_GPR
    \/ GPIO_WritePinOutput \/ SDK_DelayAtLeastUs \/ StartUnit

MainSpec == MainInit /\ [][MainNext]_vars

-----------------------------------------------------------------------------
(* Properties                                                              *)

TypeOK ==
    /\ ClockTypeOK
    /\ mpu \in {"left", "off", "on"} /\ DOMAIN region \subseteq 0..15
    /\ cache \in [board.caches -> CacheStates]
    /\ iomuxc \in BOOLEAN
    /\ DOMAIN mux \subseteq DOMAIN board.routes \cup DOMAIN board.flashPads
    /\ drain \subseteq DOMAIN mux
    /\ \A p \in DOMAIN level : level[p] \in {0, 1}
    /\ since \in Nat /\ DOMAIN told \subseteq DOMAIN board.units

(* Nothing written is lost, and nothing old is read, whatever state the    *)
(* loader left the caches in: modified lines are written back before a     *)
(* cache is emptied, and it is emptied before it is switched on.  The      *)
(* rules of memory change only while no cache is filled by the old ones,   *)
(* and its regions only while none of them is in force.                    *)
MemoryKept ==
    [][/\ \A c \in board.caches : cache'[c] \notin {"lost", "stale"}
       /\ (mpu' # mpu \/ region' # region) => \A c \in board.caches : ~IsOn(c)
       /\ region' # region => mpu = "off"]_vars

(* Where the linker put code, data and what the devices share, and where   *)
(* the registers are, the region that wins among the overlapping ones      *)
(* allows that use.                                                        *)
MemoryAsLinked == mpu = "on" => \A s \in board.sections : SectionFits(s, region)

Routed(pads) == \A p \in pads : Apply(mux, p) = board.routes[p]

(* Before a pin is driven or a unit started its pads lead there, the flash *)
(* that executes keeps its own, and wires that several drive are only ever *)
(* pulled low.                                                             *)
RoutedBeforeUse ==
    /\ \A p \in DOMAIN level :
        /\ \E pad \in DOMAIN mux : mux[pad] = p
        /\ \A g \in DOMAIN board.gpioSelect : gpr[g] = board.gpioSelect[g]
    /\ \A u \in DOMAIN told : Routed(board.units[u].pads)
    /\ \A p \in DOMAIN board.flashPads : mux[p] = board.flashPads[p]
    /\ at > Len(board.program) => Routed(DOMAIN board.routes) /\ drain = board.openDrain

InReset(l) == board.phy.reset \in DOMAIN l /\ l[board.phy.reset] = 0

(* The PHY leaves reset after the time it is to be low, with its straps    *)
(* held and its reference clock running, and is spoken to no sooner than   *)
(* it has settled.  The times are the ones main_enet.c:446 quotes for the  *)
(* RT1170's PHY; for the RT1060's, of which nothing in the repository      *)
(* tells any, the one its code waits: no clock or pin that is set later    *)
(* may move into that wait.                                                *)
PhyLeavesReset ==
    [][/\ InReset(level) /\ ~InReset(level') =>
            /\ since >= board.phy.low
            /\ \A p \in board.phy.high : p \in DOMAIN level /\ level[p] = 1
            /\ Frequency[board.phy.refClock] = board.phy.rate
            /\ \A g \in DOMAIN board.phy.direction : gpr[g] = board.phy.direction[g]
       /\ "mdio" \in DOMAIN told' \ DOMAIN told =>
            ~InReset(level) /\ since >= board.phy.settle]_vars

(* A unit's clock stays at the rate the unit was told, whatever main sets  *)
(* afterwards.                                                             *)
UnitsKeepRate == \A u \in DOMAIN told : Frequency[board.units[u].clock] = told[u]
=============================================================================
