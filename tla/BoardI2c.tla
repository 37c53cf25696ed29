------------------------------ MODULE BoardI2c ------------------------------
(***************************************************************************)
(* The I2C buses of a board: their clocks, what the driver was told of     *)
(* them, and the devices on them, each of which points to one of its       *)
(* registers.  One task uses a bus: the functions have no lock of their    *)
(* own.  The repository's build leaves these functions out and nothing in  *)
(* it calls them; the order of the calls is free.                          *)
(***************************************************************************)
EXTENDS I2cSteps, OneBoard

CONSTANT Registers   \* bound: the registers of a device

ASSUME RegistersAssumption == Registers \subseteq Nat \ {None}

RT1060 == INSTANCE I2cRT1060
RT1170 == INSTANCE I2cRT1170

Calls == IF board = "RT1060" THEN RT1060!Calls(Registers) ELSE RT1170!Calls(Registers)
Buses == IF board = "RT1060" THEN {"LPI2C1"} ELSE {"LPI2C5", "LPI2C6"}
Devices == {"accel", "codec", "camera", "touch"}
BusOf(call) == call.steps[1].bus

VARIABLES
    clock,    \* of each bus: its source in kHz and divider
    told,     \* of each bus: the frequency the driver was started with, or Off
    begun,    \* the devices whose Init has returned
    pointer,  \* of each device: the register a read would return
    call,     \* of each bus: the call that runs, or ran last
    todo,     \* of each bus: the steps that are left
    got,      \* of each bus: the register that was read last
    status    \* of each bus: what the last transfer returned

i2cVars == <<clock, told, begun, pointer, call, todo, got, status>>

Off == -1
NoCall == InitOf(NoDevice, <<>>)
Frequency(b) == clock[b].source \div clock[b].by

-----------------------------------------------------------------------------
(* What BOARD_BootClockRUN leaves.                                         *)
I2cInit ==
    /\ clock = [b \in Buses |-> [source |-> IF board = "RT1060" THEN 60000 ELSE 24000, by |-> 1]]
    /\ told = [b \in Buses |-> Off]
    /\ begun = {}
    /\ pointer \in [Devices -> Registers]
    /\ call = [b \in Buses |-> NoCall]
    /\ todo = [b \in Buses |-> <<>>]
    /\ got = [b \in Buses |-> None]
    /\ status = [b \in Buses |-> "Success"]

(* One of the functions is called, on a bus that has been started.         *)
Call(b) ==
    /\ todo[b] = <<>>
    /\ \E c \in Calls :
        /\ BusOf(c) = b
        /\ c.kind = "init" \/ told[b] # Off
        /\ call' = [call EXCEPT ![b] = c]
        /\ todo' = [todo EXCEPT ![b] = c.steps]
    /\ got' = [got EXCEPT ![b] = None]
    /\ status' = [status EXCEPT ![b] = "Success"]
    /\ UNCHANGED <<clock, told, begun, pointer>>

SetClock(b) ==
    /\ todo[b] # <<>>
    /\ LET s == Head(todo[b]) IN
        /\ \/ s.op = "source" /\ clock' = [clock EXCEPT ![b].source = s.kHz]
           \/ s.op = "divider" /\ clock' = [clock EXCEPT ![b].by = s.by]
           \/ s.op = "root" /\ clock' = [clock EXCEPT ![b] = [source |-> s.kHz, by |-> s.by]]
        /\ todo' = [todo EXCEPT ![b] = Tail(@)]
    /\ UNCHANGED <<told, begun, pointer, call, got, status>>

(* The driver sets 100 kHz, from the frequency it is told.                 *)
StartBus(b) ==
    /\ todo[b] # <<>>
    /\ LET s == Head(todo[b]) IN
        /\ s.op = "start"
        /\ told' = [told EXCEPT ![b] = IF s.kHz = Measured THEN Frequency(b) ELSE s.kHz]
        /\ todo' = [todo EXCEPT ![b] = Tail(@)]
    /\ begun' = begun \cup {call[b].dev}
    /\ UNCHANGED <<clock, pointer, call, got, status>>

StepsLeftAlways(b, ok) == Tail(todo[b])   \* mutant of StepsLeft: a failure is passed over

StepsLeft(b, ok) == IF ok THEN Tail(todo[b]) ELSE <<>>

(* The device takes the register's number, and may go on to another one    *)
(* once data has followed.  A transfer that fails may have got as far.     *)
Transfer(b) ==
    /\ todo[b] # <<>>
    /\ LET s == Head(todo[b])
           at == IF s.sub = None THEN pointer[s.dev] ELSE s.sub IN
        /\ s.op \in {"write", "point", "read"}
        /\ \E ok \in BOOLEAN :
            /\ \E r \in Registers :
                /\ s.op = "point" => r \in IF ok THEN {at} ELSE {at, pointer[s.dev]}
                /\ pointer' = [pointer EXCEPT ![s.dev] = r]
            /\ got' = IF ok /\ s.op = "read" THEN [got EXCEPT ![b] = at] ELSE got
            /\ status' = [status EXCEPT ![b] = IF ok THEN "Success" ELSE "Fail"]
            /\ todo' = [todo EXCEPT ![b] = StepsLeft(b, ok)]
    /\ UNCHANGED <<clock, told, begun, call>>

I2cNext == \E b \in Buses : Call(b) \/ SetClock(b) \/ StartBus(b) \/ Transfer(b)

-----------------------------------------------------------------------------
(* A receive that returns success has read the register it was asked for,  *)
(* also over the two transfers of the camera's protocol, whatever an       *)
(* earlier call that failed half-way has left the device pointing to.      *)
ReadsWhatItAsked ==
    \A b \in Buses :
        todo[b] = <<>> /\ status[b] = "Success" /\ call[b].kind = "receive"
        => got[b] = call[b].sub

(* A started bus runs at no more than the 100 kHz of the driver's default, *)
(* though the devices on it start it again with clocks of their own: its   *)
(* clock is no faster than the driver was last told.  On the RT1060 that   *)
(* is so once the camera has been initialised: nobody else sets the        *)
(* divider that all of them count on.                                      *)
SclWithin ==
    \A b \in Buses :
        told[b] # Off /\ (board = "RT1060" => "camera" \in begun)
        => Frequency(b) <= told[b]
=============================================================================
