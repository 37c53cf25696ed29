----------------------------- MODULE BoardSteps -----------------------------
(***************************************************************************)
(* The other calls and register writes that main is made of, as data:      *)
(* memory protection, caches, pads, GPIO, and the units that are started.  *)
(* Addresses are in pages of 4 KB: \h60040 is 0x60040000.                  *)
(***************************************************************************)
EXTENDS ClockSteps

KB(n) == n \div 4
MB(n) == 256 * n

(* Memory as the type, cacheable and bufferable bits of a region make it.  *)
Memory(tex, c, b) ==
    CASE tex = 0 /\ c = 0 /\ b = 0 -> "ordered"
      [] tex = 2 \/ (tex = 0 /\ c = 0) -> "device"
      [] tex = 0 /\ c = 1 /\ b = 0 -> "write_through"
      [] tex = 1 /\ c = 0 /\ b = 0 -> "uncached"
      [] OTHER -> "write_back"

(* One write of RBAR and RASR.                                             *)
Region(n, base, xn, access, tex, c, b, pages) ==
    Step("region", {n}, [from |-> base, upto |-> base + pages, code |-> xn = 0,
                         access |-> access, memory |-> Memory(tex, c, b)])
Device(n, base, pages) == Region(n, base, 0, "full", 2, 0, 0, pages)
WriteBack(n, base, access, pages) == Region(n, base, 0, access, 0, 1, 1, pages)
WriteThrough(n, base, pages) == Region(n, base, 0, "full", 0, 1, 0, pages)

(* An assert that fails: main does not get any further.                    *)
Stop == Step("assert", {}, FALSE)

(* The region for a linker section: none for an empty one, and an assert   *)
(* that its size is a power of two and its base a multiple of it.  A build *)
(* without asserts would go on with the next smaller power of two.         *)
PowerOfTwo(pages) == \E i \in 0..20 : pages = 2^i
ForSection(n, base, tex, pages) ==
    CASE pages = 0 -> Nothing
      [] PowerOfTwo(pages) /\ base % pages = 0 -> Region(n, base, 0, "full", tex, 0, 0, pages)
      [] OTHER -> Stop

MpuDisable == Step("mpu", {}, FALSE)
MpuEnable == Step("mpu", {}, TRUE)

(* Push writes modified lines back, Drop invalidates all of them.          *)
Push(cache) == Step("push", {cache}, "back")
Drop(cache) == Step("drop", {cache}, "all")
Switch(cache, on) == Step("switch", {cache}, on)
IfOn(cache, calls) == Step("if_on", {cache}, Len(calls)) \o calls  \* else they are skipped
SCB_DisableCache(cache) == Switch(cache, FALSE) \o Push(cache) \o Drop(cache)
SCB_EnableCache(cache) == Drop(cache) \o Switch(cache, TRUE)

CLOCK_EnableIomuxc == Step("iomuxc", {}, TRUE)
SetPinMux(route) == Step("mux", DOMAIN route, route)   \* pad -> function
SetOpenDrain(pads) == Step("pad", pads, "open_drain")
SetPushPull(pads) == Step("pad", pads, "push_pull")

GPIO_PinInit(pin) == Step("level", {pin}, 0)           \* an output, low
GPIO_WritePinOutput(pin, v) == Step("level", {pin}, v)
DelayUs(n) == Step("delay", {}, n)

(* What the reference clock of each interface to the PHY has to be.        *)
ReferenceClock(mode) == IF mode = "rgmii" THEN 125000 ELSE 50000

Begin(unit) == Step("unit", {unit}, "started")         \* told the rate of its clock
=============================================================================
