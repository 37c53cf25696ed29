------------------------------ MODULE I2cSteps ------------------------------
(***************************************************************************)
(* The calls of the I2C helpers in board.c as data: each is a sequence of  *)
(* steps, which BoardI2c executes.  Clocks are in kHz.  The payload of a   *)
(* transfer is left out: what matters is the register it is about.         *)
(***************************************************************************)
EXTENDS Integers, Sequences

None == 0        \* no register; registers are numbered from 1
NoDevice == "none"
Measured == 0    \* a bus is told the frequency its clock has

Step(op, bus, dev, sub, kHz, n) ==
    <<[op |-> op, bus |-> bus, dev |-> dev, sub |-> sub, kHz |-> kHz, by |-> n]>>

Source(bus, kHz) == Step("source", bus, NoDevice, None, kHz, 1)       \* CLOCK_SetMux
Divider(bus, n) == Step("divider", bus, NoDevice, None, 0, n)         \* CLOCK_SetDiv
Root(bus, kHz, n) == Step("root", bus, NoDevice, None, kHz, n)        \* CLOCK_SetRootClock
Start(bus, kHz) == Step("start", bus, NoDevice, None, kHz, 1)         \* LPI2C_MasterInit

(* LPI2C_MasterTransferBlocking: a write of a register's number and data,  *)
(* of the number alone, a read after the number, and a read that goes on   *)
(* where the device is.  The call ends when one of them fails.             *)
Write(bus, dev, sub) == Step("write", bus, dev, sub, 0, 1)
Point(bus, dev, sub) == Step("point", bus, dev, sub, 0, 1)
Read(bus, dev, sub) == Step("read", bus, dev, sub, 0, 1)
ReadOn(bus, dev) == Step("read", bus, dev, None, 0, 1)

(* The functions that other code calls.                                    *)
InitOf(dev, steps) == [kind |-> "init", dev |-> dev, sub |-> None, steps |-> steps]
SendOf(dev, sub, steps) == [kind |-> "send", dev |-> dev, sub |-> sub, steps |-> steps]
ReceiveOf(dev, sub, steps) == [kind |-> "receive", dev |-> dev, sub |-> sub, steps |-> steps]
=============================================================================
