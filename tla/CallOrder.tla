----------------------------- MODULE CallOrder -----------------------------
(***************************************************************************)
(* In which order main has to make its calls on a board, read off their    *)
(* sequence alone: what somebody who adds a board, or moves a call, has to *)
(* look after.  BringupProofs shows that the properties of Bringup follow  *)
(* for every board.                                                        *)
(***************************************************************************)
EXTENDS BoardCalls, MemoryMap, FiniteSets

CONSTANTS
    Behind,  \* name -> clock -> the clocks it may get its frequency from, and itself
    Trace    \* name -> start -> place -> the clock registers when main gets there

(* The calls of one kind, by their place in the sequence, those that are   *)
(* about x, what has happened before the call in place i, and the latest   *)
(* of some calls.                                                          *)
Of(b, op) == {i \in 1..Len(b.program) : b.program[i].op = op}
About(b, op, x) == {i \in Of(b, op) : x \in b.program[i].on}
Before(calls, i) == \E j \in calls : j < i
Made(calls, i) == {j \in calls : j < i}
Latest(calls) == CHOOSE j \in calls : \A k \in calls : k <= j

-----------------------------------------------------------------------------
(* Every call is given what its register can hold; a block of calls that   *)
(* is skipped where a cache is off concerns this cache alone, and does not *)
(* switch it on.                                                           *)
Divides(b, c, n) == n \in Nat /\ n >= 1 /\ (c \in DOMAIN b.maxBy => n <= b.maxBy[c])

StartsTyped(b) ==
    \A s \in b.starts :
        /\ s.vdd \in Nat
        /\ \A c \in DOMAIN s.by : Divides(b, c, s.by[c])
        /\ s.rate \in [DOMAIN s.rate -> Nat]
        /\ \A c \in DOMAIN s.rate \cap DOMAIN b.pfdOf : s.rate[c] >= 1

Guarded(b, i) == (i + 1)..(i + b.program[i].to)

ArgumentsTyped(b) ==
    /\ \A i \in Of(b, "gate") : b.program[i].on \subseteq DOMAIN b.gated
    /\ \A i \in Of(b, "by") : \A c \in b.program[i].on : Divides(b, c, b.program[i].to)
    /\ \A i \in Of(b, "root") : \A c \in b.program[i].on : Divides(b, c, b.program[i].to.n)
    /\ \A i \in Of(b, "rate") :
        /\ b.program[i].to \in Nat /\ \A s \in b.starts : b.program[i].on \subseteq DOMAIN s.rate
        /\ b.program[i].on \cap DOMAIN b.pfdOf # {} => b.program[i].to >= 1
    /\ \A i \in Of(b, "vdd") \cup Of(b, "delay") : b.program[i].to \in Nat
    /\ \A i \in Of(b, "region") : b.program[i].on \subseteq 0..15
    /\ \A i \in Of(b, "level") : b.program[i].to \in {0, 1}
    /\ \A i \in Of(b, "unit") : b.program[i].on \subseteq DOMAIN b.units
    /\ Of(b, "assert") = {}

BlocksTyped(b) ==
    \A i \in Of(b, "if_on") :
        /\ b.program[i].to \in Nat /\ i + b.program[i].to <= Len(b.program)
        /\ \A j \in Guarded(b, i) :
            /\ j \in Of(b, "push") \cup Of(b, "drop") \cup Of(b, "switch")
            /\ b.program[j].on = b.program[i].on

CallsTyped(b) == Len(b.program) \in Nat /\ StartsTyped(b) /\ ArgumentsTyped(b) /\ BlocksTyped(b)

-----------------------------------------------------------------------------
(* The gate of a peripheral is closed before its source or divider is set. *)
GatesFirst(b) ==
    \A p \in DOMAIN b.gated : \A c \in b.gated[p] :
        /\ \A s \in b.starts : c \in DOMAIN s.by
        /\ \A i \in About(b, "from", c) \cup About(b, "by", c) \cup About(b, "root", c) :
            Before(About(b, "gate", p), i)

-----------------------------------------------------------------------------
(* The registers of the pads are clocked before they are written, and a    *)
(* pad has one function at most; it has it, and the GPIO unit is chosen,   *)
(* before the pin is driven or the unit started.                           *)
PadsAgree(b) ==
    /\ \A p \in DOMAIN b.flashPads \cap DOMAIN b.routes : b.flashPads[p] = b.routes[p]
    /\ \A i \in Of(b, "mux") : \A p \in b.program[i].on :
        /\ p \in DOMAIN b.flashPads \cup DOMAIN b.routes
        /\ p \in DOMAIN b.flashPads => b.program[i].to[p] = b.flashPads[p]
        /\ p \in DOMAIN b.routes => b.program[i].to[p] = b.routes[p]
    /\ \A i \in Of(b, "pad") :
        IF b.program[i].to = "open_drain"
        THEN b.program[i].on \subseteq b.openDrain ELSE b.program[i].on \cap b.openDrain = {}
    /\ \A g \in DOMAIN b.gpioSelect : \A i \in About(b, "gpr", g) :
        b.program[i].to = b.gpioSelect[g]

PadsFirst(b) ==
    /\ \A i \in Of(b, "mux") \cup Of(b, "pad") : Before(Of(b, "iomuxc"), i)
    /\ \A i \in Of(b, "pad") : \A p \in b.program[i].on :
        b.program[i].to = "open_drain" => Before(About(b, "mux", p), i)
    /\ \A i \in Of(b, "level") :
        /\ \A pin \in b.program[i].on : \E p \in DOMAIN b.routes :
            b.routes[p] = pin /\ Before(About(b, "mux", p), i)
        /\ \A g \in DOMAIN b.gpioSelect : Before(About(b, "gpr", g), i)
    /\ \A i \in Of(b, "unit") : \A u \in b.program[i].on : \A p \in b.units[u].pads :
        p \in DOMAIN b.routes /\ Before(About(b, "mux", p), i)

PadsDone(b) ==
    /\ \A p \in DOMAIN b.routes : About(b, "mux", p) # {}
    /\ \A p \in b.openDrain : \E i \in About(b, "pad", p) : b.program[i].to = "open_drain"

PinsInOrder(b) == PadsAgree(b) /\ PadsFirst(b) /\ PadsDone(b)

-----------------------------------------------------------------------------
(* A cache is written back before it is emptied and emptied while it is    *)
(* off, in any case and not only where it was on, before it is switched    *)
(* on; a block comes first on its cache.  Every cache is off, and for the  *)
(* regions protection as well, before what memory is changes.              *)
SwitchedOn(b, c) == {i \in About(b, "switch", c) : b.program[i].to}
SwitchedOff(b, c) == {i \in About(b, "switch", c) : ~b.program[i].to}
SinceOn(calls, b, c, i) ==   \* one of these calls, and not switched on since then
    \E j \in calls : j < i /\ ~\E k \in SwitchedOn(b, c) : j <= k /\ k < i

OffAt(b, c, i) == SinceOn(SwitchedOff(b, c), b, c, i)
WrittenBackAt(b, c, i) == SinceOn(About(b, "push", c), b, c, i)
Emptied(b, c) ==
    {i \in About(b, "drop", c) : OffAt(b, c, i) /\ ~\E n \in Of(b, "if_on") : i \in Guarded(b, n)}
EmptyAt(b, c, i) == SinceOn(Emptied(b, c), b, c, i)

CacheOps == {"push", "drop", "switch", "if_on"}
Untouched(b, c, i) == \A op \in CacheOps : ~Before(About(b, op, c), i)

ProtectionOff(b, i) ==
    \E j \in Of(b, "mpu") : j < i /\ \A k \in Of(b, "mpu") : j <= k /\ k < i => ~b.program[k].to

CachesInOrder(b) ==
    /\ \A c \in b.caches :
        /\ \A i \in About(b, "drop", c) : WrittenBackAt(b, c, i)
        /\ \A i \in SwitchedOn(b, c) : EmptyAt(b, c, i)
        /\ \A i \in About(b, "if_on", c) :
            /\ b.program[i].on = {c} /\ Untouched(b, c, i)
            /\ \A j \in Guarded(b, i) : j \notin SwitchedOn(b, c)
        /\ \A i \in Of(b, "mpu") \cup Of(b, "region") : OffAt(b, c, i)
    /\ \A i \in Of(b, "region") : ProtectionOff(b, i)

-----------------------------------------------------------------------------
(* What the calls of one kind before place i have written, and where.      *)
WrittenAt(b, op, i) ==
    [x \in UNION {b.program[j].on : j \in Made(Of(b, op), i)} |->
        b.program[Latest(Made(About(b, op, x), i))].to]

(* Protection is switched on with regions that allow every section its use.*)

MemoryInOrder(b) ==
    /\ \A s \in b.sections : s.from \in Int /\ s.upto \in Int
    /\ \A i \in Of(b, "region") : b.program[i].to.from \in Int /\ b.program[i].to.upto \in Int
    /\ \A i \in Of(b, "mpu") :
        b.program[i].to => \A s \in b.sections : SectionFits(s, WrittenAt(b, "region", i))

-----------------------------------------------------------------------------
(* The clocks of a board are a tree, whatever their multiplexers are set   *)
(* to.                                                                     *)
Sources(b, c) ==
    {b.pfdOf[d] : d \in {c} \cap DOMAIN b.pfdOf} \cup {b.fixed[d] : d \in {c} \cap DOMAIN b.fixed}
    \cup {s.from[c] : s \in {t \in b.starts : c \in DOMAIN t.from}}
    \cup {b.program[i].to : i \in About(b, "from", c)}
    \cup {b.program[i].to.source : i \in About(b, "root", c)}

Origins(b, s) == DOMAIN b.oscillators \cup (DOMAIN s.rate \ DOMAIN b.pfdOf)
Derived(b, s) == DOMAIN b.pfdOf \cup DOMAIN s.from \cup DOMAIN b.fixed
Clocks(b, s) == Origins(b, s) \cup Derived(b, s)

Tree(b, behind) ==
    \A s \in b.starts :
        /\ DOMAIN b.pfdOf \subseteq DOMAIN s.rate /\ DOMAIN s.by = DOMAIN s.from \cup DOMAIN b.fixed
        /\ DOMAIN b.oscillators \cap DOMAIN s.rate = {}
        /\ (DOMAIN b.oscillators \cup DOMAIN s.rate) \cap DOMAIN s.by = {}
        /\ DOMAIN s.from \cap DOMAIN b.fixed = {}
        /\ IsFiniteSet(Clocks(b, s))
        /\ \A c \in Clocks(b, s) :
            /\ c \in behind[c] /\ behind[c] \subseteq Clocks(b, s)
            /\ \A d \in behind[c] : behind[d] \subseteq behind[c]
        /\ \A c \in Derived(b, s) : \A d \in Sources(b, c) : d \in behind[c] /\ c \notin behind[d]

(* Nothing behind the flash that executes is set to something else, and    *)
(* nothing behind a unit's clock once the unit was told its rate.          *)
Sets == {"from", "by", "root", "rate"}

FlashLeft(b, behind) ==
    LET path == behind[b.flash]
    IN /\ \A s \in b.starts : b.flash \in Clocks(b, s)
       /\ \A op \in Sets \ {"rate"} : \A i \in Of(b, op) : b.program[i].on \cap path = {}
       /\ \A i \in Of(b, "rate") : b.program[i].on \cap path # {} =>
            /\ b.keepsSame /\ b.program[i].on \subseteq path
            /\ \A s \in b.starts : \A c \in b.program[i].on : s.rate[c] = b.program[i].to

UnitsLeft(b, behind) ==
    \A i \in Of(b, "unit") : \A u \in b.program[i].on :
        /\ b.program[i].on = {u}
        /\ \A s \in b.starts : b.units[u].clock \in Clocks(b, s)
        /\ \A op \in Sets : \A j \in Of(b, op) :
            i < j => b.program[j].on \cap behind[b.units[u].clock] = {}

(* BOARD_DebugConsoleSrcFreq of the RT1060 knows the way from the PLL to   *)
(* the console, and does not ask for each divider on it.                   *)
ConsoleLeft(b) ==
    b.name = "rt1060" /\ "console" \in DOMAIN b.units =>
        /\ b.units["console"].clock = "uart"
        /\ Sources(b, "uart") \subseteq {"pll3_80m", "osc"} /\ Sources(b, "pll3_sw") = {"pll3"}
        /\ "osc" \in DOMAIN b.oscillators /\ b.oscillators["osc"] = 24000
        /\ "pll3_80m" \in DOMAIN b.fixed /\ b.fixed["pll3_80m"] = "pll3_sw"
        /\ \A s \in b.starts :
            /\ {"uart", "pll3_sw"} \subseteq DOMAIN s.from /\ "pll3" \in DOMAIN s.rate \ DOMAIN b.pfdOf
            /\ s.by["pll3_sw"] = 1 /\ s.by["pll3_80m"] = 6
        /\ \A op \in {"by", "root"} : \A c \in {"pll3_sw", "pll3_80m"} : About(b, op, c) = {}

-----------------------------------------------------------------------------
(* What a call does to the registers of the clocks, to the gates, and to   *)
(* the voltage, of which only those are known that it may have.            *)
Put(f, call, v) == [c \in DOMAIN f |-> IF c \in call.on THEN v ELSE f[c]]
After(t, call) ==
    CASE call.op = "from" -> [t EXCEPT !.clocks.from = Put(@, call, call.to)]
      [] call.op = "by" -> [t EXCEPT !.clocks.by = Put(@, call, call.to)]
      [] call.op = "root" -> [t EXCEPT !.clocks.from = Put(@, call, call.to.source),
                                       !.clocks.by = Put(@, call, call.to.n)]
      [] call.op = "rate" -> [t EXCEPT !.clocks.rate = Put(@, call, call.to)]
      [] call.op = "gate" -> [t EXCEPT !.off = @ \cup call.on]
      [] call.op = "vdd" -> [t EXCEPT !.target = call.to, !.mVs = @ \cup {call.to}]
      [] call.op = "await" -> [t EXCEPT !.mVs = {t.target}]
      [] OTHER -> t
AtStart(s) ==
    [clocks |-> [from |-> s.from, by |-> s.by, rate |-> s.rate, stopped |-> {}],
     off |-> {}, target |-> s.vdd, mVs |-> {s.vdd}]

Places(b) == 1..(Len(b.program) + 1)
Traces(b, trace) ==
    \A s \in b.starts :
        /\ trace[s][1] = AtStart(s)
        /\ \A i \in 1..Len(b.program) : trace[s][i + 1] = After(trace[s][i], b.program[i])

(* No clock in use stands still, wherever main is, nor while a PLL that a  *)
(* call has to change is stopped.                                          *)
InUseWith(b, off) == b.always \cup UNION {b.gated[p] : p \in DOMAIN b.gated \ off}
Same(b, t, call) == b.keepsSame /\ t.clocks.rate = Put(t.clocks.rate, call, call.to)

AllRun(b, t, stopped) ==
    \A c \in InUseWith(b, t.off) : Frequencies(b, [t.clocks EXCEPT !.stopped = stopped])[c] > 0
ClocksRun(b, trace) ==
    \A s \in b.starts :
        /\ \A i \in Places(b) : AllRun(b, trace[s][i], {})
        /\ \A i \in Of(b, "rate") :
            Same(b, trace[s][i], b.program[i]) \/ AllRun(b, trace[s][i], b.program[i].on)

(* The buses are no faster than they can be, nor the core than every       *)
(* voltage allows that it may have.                                        *)
SpeedAllowed(b, t) ==
    LET frequency == Frequencies(b, t.clocks)
    IN /\ \A c \in DOMAIN b.bounds : frequency[c] <= b.bounds[c]
       /\ frequency[b.core] > b.lowVoltage.below => \A mV \in t.mVs : mV >= b.lowVoltage.mV
SpeedLimited(b, trace) ==
    /\ \A c \in DOMAIN b.oscillators : b.oscillators[c] \in Nat
    /\ \A c \in DOMAIN b.bounds : b.bounds[c] \in Nat
    /\ b.lowVoltage.below \in Nat
    /\ \A s \in b.starts :
        /\ DOMAIN b.bounds \cup {b.core} \subseteq Clocks(b, s)
        /\ \A i \in Places(b) : SpeedAllowed(b, trace[s][i])

-----------------------------------------------------------------------------
(* A delay is made after the last change of the PHY's reset, and is long   *)
(* enough, before it leaves reset and before it is spoken to.              *)
Resets(b) == About(b, "level", b.phy.reset)
HeldFor(b, us, i) ==
    \E d \in Of(b, "delay") :
        d < i /\ b.program[d].to >= us /\ ~\E k \in Resets(b) : d < k /\ k < i
LowAt(b, i) ==
    LET level == WrittenAt(b, "level", i)
    IN b.phy.reset \in DOMAIN level /\ level[b.phy.reset] = 0

LeavesReset(b, trace, i) ==
    LET level == WrittenAt(b, "level", i)
        gpr == WrittenAt(b, "gpr", i)
    IN /\ HeldFor(b, b.phy.low, i)
       /\ \A p \in b.phy.high : p \in DOMAIN level /\ level[p] = 1
       /\ \A g \in DOMAIN b.phy.direction : g \in DOMAIN gpr /\ gpr[g] = b.phy.direction[g]
       /\ \A s \in b.starts :
            Frequencies(b, trace[s][i].clocks)[b.phy.refClock] = b.phy.rate

PhyInOrder(b, trace) ==
    /\ b.phy.low \in Nat /\ b.phy.settle \in Nat
    /\ \A i \in Resets(b) : b.program[i].to = 1 /\ LowAt(b, i) => LeavesReset(b, trace, i)
    /\ \A i \in About(b, "unit", "mdio") :
        ~LowAt(b, i) /\ (b.phy.settle = 0 \/ HeldFor(b, b.phy.settle, i))

-----------------------------------------------------------------------------
ASSUME CallsAssumption == \A name \in DOMAIN Boards : CallsTyped(Named(name))
ASSUME GatesAssumption == \A name \in DOMAIN Boards : GatesFirst(Named(name))
ASSUME PinsAssumption == \A name \in DOMAIN Boards : PinsInOrder(Named(name))
ASSUME CachesAssumption == \A name \in DOMAIN Boards : CachesInOrder(Named(name))
ASSUME MemoryAssumption == \A name \in DOMAIN Boards : MemoryInOrder(Named(name))
ASSUME TreeAssumption == \A name \in DOMAIN Boards : Tree(Named(name), Behind[name])
ASSUME FlashAssumption == \A name \in DOMAIN Boards : FlashLeft(Named(name), Behind[name])
ASSUME UnitsAssumption == \A name \in DOMAIN Boards : UnitsLeft(Named(name), Behind[name])
ASSUME ConsoleAssumption == \A name \in DOMAIN Boards : ConsoleLeft(Named(name))
ASSUME TraceAssumption == \A name \in DOMAIN Boards : Traces(Named(name), Trace[name])
ASSUME RunAssumption == \A name \in DOMAIN Boards : ClocksRun(Named(name), Trace[name])
ASSUME SpeedAssumption == \A name \in DOMAIN Boards : SpeedLimited(Named(name), Trace[name])
ASSUME PhyAssumption == \A name \in DOMAIN Boards : PhyInOrder(Named(name), Trace[name])
=============================================================================
