----------------------------- MODULE ClockTree -----------------------------
(***************************************************************************)
(* The clock tree of a board while main sets it up, executing in place     *)
(* from the flash whose clock hangs on the same tree.  The boards differ   *)
(* in the tree and in the sequence of driver calls, which are constants    *)
(* here; a call is a step, and Bringup adds those that are not about       *)
(* clocks.  A PLL or fractional divider that is set stops until it is      *)
(* locked; the voltage follows after a while.                              *)
(***************************************************************************)
EXTENDS BoardCalls

VARIABLES
    board,      \* the one of them that this build is for, with its name
    at,         \* the call that comes next
    from, by,   \* clock -> its source, and what divides it
    rate,       \* PLL -> its frequency, fractional divider -> its fraction
    stopped,    \* the PLL or fractional divider being set
    off,        \* peripherals whose gate is closed
    target, vdd \* the core's voltage, asked for and reached, in mV

clockVars == <<board, at, from, by, rate, stopped, off, target, vdd>>

-----------------------------------------------------------------------------
(* What the frequencies depend on.                                         *)
Registers == [from |-> from, by |-> by, rate |-> rate, stopped |-> stopped]
Frequency == Frequencies(board, Registers)

(* Clocks that something runs from.                                        *)
InUse == board.always \cup UNION {board.gated[p] : p \in DOMAIN board.gated \ off}

-----------------------------------------------------------------------------
ClockInit ==
    /\ \E name \in DOMAIN Boards : board = Named(name)
    /\ \E s \in board.starts :
        from = s.from /\ by = s.by /\ rate = s.rate /\ target = s.vdd /\ vdd = s.vdd
    /\ at = 1 /\ stopped = {} /\ off = {}

Calls(op) == at <= Len(board.program) /\ board.program[at].op = op
On == board.program[at].on
To == board.program[at].to
Return == at' = at + 1 /\ UNCHANGED board

(* f with the clock, or each of the clocks, of this call set to its value. *)
Set(f) == [c \in DOMAIN f |-> IF c \in On THEN To ELSE f[c]]

CLOCK_DisableClock ==
    /\ Calls("gate")
    /\ off' = off \cup On
    /\ Return /\ UNCHANGED <<from, by, rate, stopped, target, vdd>>

CLOCK_SetMux ==
    /\ Calls("from")
    /\ from' = Set(from)
    /\ Return /\ UNCHANGED <<by, rate, stopped, off, target, vdd>>

CLOCK_SetDiv ==
    /\ Calls("by")
    /\ by' = Set(by)
    /\ Return /\ UNCHANGED <<from, rate, stopped, off, target, vdd>>

(* CLOCK_SetRootClock writes both at once.                                 *)
CLOCK_SetRootClock ==
    /\ Calls("root")
    /\ from' = [c \in DOMAIN from |-> IF c \in On THEN To.source ELSE from[c]]
    /\ by' = [c \in DOMAIN by |-> IF c \in On THEN To.n ELSE by[c]]
    /\ Return /\ UNCHANGED <<rate, stopped, off, target, vdd>>

(* The driver of one board leaves alone what is already as it is to be.    *)
CLOCK_InitSame ==
    /\ Calls("rate") /\ stopped = {}
    /\ board.keepsSame /\ rate = Set(rate)
    /\ Return /\ UNCHANGED <<from, by, rate, stopped, off, target, vdd>>

CLOCK_InitStop ==
    /\ Calls("rate") /\ stopped = {}
    /\ ~(board.keepsSame /\ rate = Set(rate))
    /\ stopped' = On
    /\ UNCHANGED <<board, at, from, by, rate, off, target, vdd>>

CLOCK_InitLocked ==
    /\ Calls("rate") /\ stopped # {}
    /\ rate' = Set(rate) /\ stopped' = {}
    /\ Return /\ UNCHANGED <<from, by, off, target, vdd>>

SetVoltage ==
    /\ Calls("vdd")
    /\ target' = To
    /\ Return /\ UNCHANGED <<from, by, rate, stopped, off, vdd>>

AwaitVoltage ==
    /\ Calls("await") /\ vdd = target
    /\ Return /\ UNCHANGED <<from, by, rate, stopped, off, target, vdd>>

(* The regulator reaches the voltage, at any time.                         *)
Regulate ==
    /\ vdd # target
    /\ vdd' = target
    /\ UNCHANGED <<board, at, from, by, rate, stopped, off, target>>

ClockNext ==
    \/ CLOCK_DisableClock \/ CLOCK_SetMux \/ CLOCK_SetDiv \/ CLOCK_SetRootClock
    \/ CLOCK_InitSame \/ CLOCK_InitStop \/ CLOCK_InitLocked
    \/ SetVoltage \/ AwaitVoltage \/ Regulate

-----------------------------------------------------------------------------
(* Properties                                                              *)

(* Every divider holds what its field can.                                 *)
ClockTypeOK ==
    /\ board.name \in DOMAIN Boards /\ at \in 1..(Len(board.program) + 1)
    /\ \A c \in DOMAIN by : by[c] >= 1 /\ (c \in DOMAIN board.maxBy => by[c] <= board.maxBy[c])
    /\ \A c \in DOMAIN rate : rate[c] \in Nat
    /\ stopped \subseteq DOMAIN rate
    /\ off \subseteq DOMAIN board.gated
    /\ target \in Nat /\ vdd \in Nat

(* No clock that something runs from stands still, in this call or the     *)
(* next: before a PLL is set, the core and the buses are taken from it,    *)
(* and the gates of the peripherals behind it closed.                      *)
InUseRuns == \A c \in InUse : Frequency[c] > 0

(* In none of the states between the calls are the buses faster than they  *)
(* can be, or the core faster than its voltage allows, though the          *)
(* regulator takes any time.                                               *)
NeverTooFast ==
    /\ \A c \in DOMAIN board.bounds : Frequency[c] <= board.bounds[c]
    /\ Frequency[board.core] > board.lowVoltage.below => vdd >= board.lowVoltage.mV

(* The flash that executes keeps its clock from the first call to the last.*)
FlashClockKept == [][Frequency[board.flash]' = Frequency[board.flash]]_clockVars

(* A peripheral's divider or source changes only while its gate is closed. *)
ChangedWhileOff ==
    [][\A p \in DOMAIN board.gated \ off' : \A c \in board.gated[p] :
        by'[c] = by[c] /\ (c \in DOMAIN from => from'[c] = from[c])]_clockVars

(* In the end the clocks are what clock_config.h says, or main after it.   *)
AsDeclared ==
    at > Len(board.program) => \A c \in DOMAIN board.declared : Frequency[c] = board.declared[c]
=============================================================================
