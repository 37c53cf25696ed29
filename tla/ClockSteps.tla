----------------------------- MODULE ClockSteps -----------------------------
(***************************************************************************)
(* The calls of the clock drivers that clock_config.c is made of, as data: *)
(* ClockTree executes a sequence of them.  Frequencies are in kHz.         *)
(***************************************************************************)
EXTENDS Integers, Sequences

Step(op, on, to) == <<[op |-> op, on |-> on, to |-> to]>>

Gate(gates) == Step("gate", gates, "off")             \* CLOCK_DisableClock, of several
From(clock, source) == Step("from", {clock}, source)  \* a multiplexer
By(clock, n) == Step("by", {clock}, n)                \* a divider
Rate(pll, r) == Step("rate", {pll}, r)                \* a PLL's frequency, a PFD's fraction
Roots(clocks, source, n) ==                           \* source and divider, in one write
    Step("root", clocks, [source |-> source, n |-> n])
Vdd(mV) == Step("vdd", {}, mV)                        \* the core's voltage is asked for
AwaitVdd == Step("await", {}, 0)                      \* and waited for
Gpr(field, v) == Step("gpr", {field}, v)              \* a field of IOMUXC_GPR
Gprs(fields, v) == Step("gpr", fields, v)             \* the same value for several
Nothing == <<>>
=============================================================================
