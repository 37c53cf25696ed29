---------------------------- MODULE ClockRT1060 ----------------------------
(***************************************************************************)
(* The clocks of the RT1060 board: BOARD_BootClockRUN and                  *)
(* BOARD_InitModuleClock.                                                  *)
(***************************************************************************)
EXTENDS ClockSteps

XIP_EXTERNAL_FLASH == TRUE
SKIP_SYSCLK_INIT == FALSE

-----------------------------------------------------------------------------
(* What the multiplexers of the chip select, from value 0 on.              *)

Sai == <<"pll3_pfd2", "pll5", "pll4">>
Audio == <<"pll4", "pll3_pfd2", "pll5", "pll3_sw">>
Inputs ==
    [pll3_sw     |-> <<"pll3", "osc">>,
     periph_clk2 |-> <<"pll3_sw", "osc">>,
     pre_periph  |-> <<"pll2", "pll2_pfd2", "pll2_pfd0", "arm">>,
     periph      |-> <<"pre_periph", "periph_clk2">>,
     perclk      |-> <<"ipg", "osc">>,
     usdhc1      |-> <<"pll2_pfd2", "pll2_pfd0">>,
     usdhc2      |-> <<"pll2_pfd2", "pll2_pfd0">>,
     semc_alt    |-> <<"pll2_pfd2", "pll3_pfd1">>,
     semc        |-> <<"periph", "semc_alt">>,
     flexspi     |-> <<"semc", "pll3_sw", "pll2_pfd2", "pll3_pfd0">>,
     flexspi2    |-> <<"pll2_pfd2", "pll3_pfd0", "pll3_pfd1", "pll2">>,
     csi         |-> <<"osc", "pll2_pfd2", "pll3_120m", "pll3_pfd1">>,
     lpspi       |-> <<"pll3_pfd1", "pll3_pfd0", "pll2", "pll2_pfd2">>,
     trace       |-> <<"pll2", "pll2_pfd2", "pll2_pfd0", "pll2_pfd1">>,
     sai1_pre    |-> Sai, sai2_pre |-> Sai, sai3_pre |-> Sai,
     lpi2c       |-> <<"pll3_60m", "osc">>,
     can         |-> <<"pll3_60m", "osc", "pll3_80m">>,
     uart        |-> <<"pll3_80m", "osc">>,
     lcdif_pre   |-> <<"pll2", "pll3_pfd3", "pll5", "pll2_pfd0", "pll2_pfd1", "pll3_pfd1">>,
     spdif_pre   |-> Audio, flexio1_pre |-> Audio, flexio2_pre |-> Audio,
     lvds1       |-> <<"pll1", "pll2">>]

(* Clocks that divide one source.                                          *)
Fixed ==
    [arm |-> "pll1", ahb |-> "periph", ipg |-> "ahb",
     pll3_60m |-> "pll3_sw", pll3_80m |-> "pll3_sw", pll3_120m |-> "pll3_sw",
     sai1 |-> "sai1_pre", sai2 |-> "sai2_pre", sai3 |-> "sai3_pre", lcdif |-> "lcdif_pre",
     spdif |-> "spdif_pre", flexio1 |-> "flexio1_pre", flexio2 |-> "flexio2_pre"]

(* Phase fractional dividers: PLL * 18 / fraction.                         *)
PfdOf ==
    [pll2_pfd0 |-> "pll2", pll2_pfd1 |-> "pll2", pll2_pfd2 |-> "pll2", pll2_pfd3 |-> "pll2",
     pll3_pfd0 |-> "pll3", pll3_pfd1 |-> "pll3", pll3_pfd2 |-> "pll3", pll3_pfd3 |-> "pll3"]

(* Peripherals with a gate that the code closes, and the multiplexers and  *)
(* dividers that are each one's own, or that of its bus.                   *)
Gated ==
    [adc |-> {"ipg"}, xbar |-> {"ipg"}, gpt |-> {"perclk"}, pit |-> {"perclk"},
     usdhc1 |-> {"usdhc1"}, usdhc2 |-> {"usdhc2"}, semc |-> {"semc", "semc_alt"},
     flexspi |-> {"flexspi"}, flexspi2 |-> {"flexspi2"}, csi |-> {"csi"}, lpspi |-> {"lpspi"},
     trace |-> {"trace"}, sai1 |-> {"sai1", "sai1_pre"}, sai2 |-> {"sai2", "sai2_pre"},
     sai3 |-> {"sai3", "sai3_pre"}, lpi2c |-> {"lpi2c"}, can |-> {"can"}, lpuart |-> {"uart"},
     lcd |-> {"lcdif", "lcdif_pre"}, spdif |-> {"spdif", "spdif_pre"},
     flexio1 |-> {"flexio1", "flexio1_pre"}, flexio2 |-> {"flexio2", "flexio2_pre"}]

(* CLOCK_SetMux and CLOCK_SetDiv, by the values written to the registers.  *)
Mux(clock, v) == From(clock, Inputs[clock][v + 1])
Div(clock, v) == By(clock, v + 1)

-----------------------------------------------------------------------------
(* BOARD_BootClockRUN                                                      *)

StableClockSkipped == Nothing  \* mutant of StableClock

(* A clock that does not depend on a PLL, before the PLLs are set.         *)
StableClock == Mux("periph_clk2", 1) \o Mux("periph", 1)

VoltageAsked == Vdd(1275)  \* mutant of Voltage: nobody waits for it

Voltage == Vdd(1275) \o AwaitVdd

BusDividersWide ==  \* mutant of BusDividers: a divider too large
    Div("ahb", 0) \o Gate({"adc", "xbar"}) \o Div("ipg", 4) \o Div("arm", 1) \o Div("periph_clk2", 0)

BusDividers ==
    Div("ahb", 0) \o Gate({"adc", "xbar"}) \o Div("ipg", 3) \o Div("arm", 1) \o Div("periph_clk2", 0)

(* Gate, then divider, then source of one peripheral.                      *)
Peripheral(gates, clock, d, m) == Gate(gates) \o Div(clock, d) \o Mux(clock, m)

TimersAndCards ==
    Gate({"gpt", "pit"}) \o Div("perclk", 1)
    \o Peripheral({"usdhc1"}, "usdhc1", 1, 0) \o Peripheral({"usdhc2"}, "usdhc2", 1, 0)

(* Left alone where the SDRAM, or the flash that executes, depends on it.  *)
ExternalMemories ==
    (IF SKIP_SYSCLK_INIT
     THEN Nothing
     ELSE Gate({"semc"}) \o Div("semc", 7) \o Mux("semc_alt", 0) \o Mux("semc", 0))
    \o (IF XIP_EXTERNAL_FLASH THEN Nothing ELSE Peripheral({"flexspi"}, "flexspi", 1, 3))
    \o Peripheral({"flexspi2"}, "flexspi2", 1, 1)

CameraAndSpiSlow ==  \* mutant of CameraAndSpi: a divider one too large
    Peripheral({"csi"}, "csi", 1, 0) \o Peripheral({"lpspi"}, "lpspi", 5, 2)
    \o Peripheral({"trace"}, "trace", 3, 0)

CameraAndSpi ==
    Peripheral({"csi"}, "csi", 1, 0) \o Peripheral({"lpspi"}, "lpspi", 4, 2)
    \o Peripheral({"trace"}, "trace", 3, 0)

(* A peripheral with a divider in front of its own, after the source.      *)
TwoStage(gate, pre, dpre, clock, d, m) ==
    Gate({gate}) \o Div(pre, dpre) \o Div(clock, d) \o Mux(pre, m)

Sound ==
    TwoStage("sai1", "sai1_pre", 3, "sai1", 1, 0) \o TwoStage("sai2", "sai2_pre", 3, "sai2", 1, 0)
    \o TwoStage("sai3", "sai3_pre", 3, "sai3", 1, 0)

SerialUngated ==  \* mutant of Serial: the gate of the first is left open
    Div("lpi2c", 0) \o Mux("lpi2c", 0) \o Peripheral({"can"}, "can", 1, 2)
    \o Peripheral({"lpuart"}, "uart", 0, 0)

Serial ==
    Peripheral({"lpi2c"}, "lpi2c", 0, 0) \o Peripheral({"can"}, "can", 1, 2)
    \o Peripheral({"lpuart"}, "uart", 0, 0)

DisplayAndIo ==
    TwoStage("lcd", "lcdif_pre", 1, "lcdif", 3, 5) \o TwoStage("spdif", "spdif_pre", 1, "spdif", 7, 3)
    \o TwoStage("flexio1", "flexio1_pre", 1, "flexio1", 7, 3)
    \o TwoStage("flexio2", "flexio2_pre", 1, "flexio2", 7, 3)

(* The PLLs' configurations, as multiples of the crystal.                  *)
armPllConfig == (24000 * 100) \div 2
sysPllConfig == 24000 * (20 + 2 * 1)
usb1PllConfig == 24000 * 20
videoPllConfig == (24000 * 31) \div 8

(* The system PLL feeds the SDRAM, and stays as it is where that is used.  *)
ArmAndSystemPll ==
    Mux("pll3_sw", 0) \o Rate("pll1", armPllConfig)
    \o IF SKIP_SYSCLK_INIT
       THEN Nothing
       ELSE Rate("pll2", sysPllConfig) \o Rate("pll2_pfd0", 27) \o Rate("pll2_pfd1", 16)
            \o Rate("pll2_pfd2", 24) \o Rate("pll2_pfd3", 16)

Usb1PllAlways ==  \* mutant of Usb1Pll: also when the code executes from flash
    Rate("pll3", usb1PllConfig) \o Rate("pll3_pfd0", 33) \o Rate("pll3_pfd1", 16)
    \o Rate("pll3_pfd2", 17) \o Rate("pll3_pfd3", 19)

(* The USB1 PLL feeds the flash.                                           *)
Usb1Pll ==
    IF XIP_EXTERNAL_FLASH
    THEN Nothing
    ELSE Rate("pll3", usb1PllConfig) \o Rate("pll3_pfd0", 33) \o Rate("pll3_pfd1", 16)
         \o Rate("pll3_pfd2", 17) \o Rate("pll3_pfd3", 19)

(* Audio, video and Ethernet: those that are switched off pass the crystal *)
(* on, the Ethernet one divided by ten.                                    *)
OtherPlls == Rate("pll4", 24000) \o Rate("pll5", videoPllConfig) \o Rate("enet", 2400)

(* The core goes to the ARM PLL, and so does the clock for the outside.    *)
CoreToPll ==
    Mux("pre_periph", 3) \o Mux("periph", 0) \o Mux("periph_clk2", 0) \o Mux("perclk", 0)
    \o Mux("lvds1", 0)

(* The reference clocks of the network become inputs, and those of sound   *)
(* and timers are chosen; clock outputs, set before it, are left out.      *)
ClockRouting ==
    Gprs({"sai1_mclk1", "sai1_mclk2", "sai1_mclk3", "sai2_mclk3", "sai3_mclk3", "mqs"}, 0)
    \o Gpr("enet1_tx_dir", "input") \o Gpr("enet2_tx_dir", "input")
    \o Gprs({"gpt1", "gpt2"}, 0)

BOARD_BootClockRUN ==
    StableClock \o Voltage \o BusDividers
    \o TimersAndCards \o ExternalMemories \o CameraAndSpi \o Sound \o Serial \o DisplayAndIo
    \o ArmAndSystemPll \o Usb1Pll \o OtherPlls \o CoreToPll \o ClockRouting

BOARD_InitBootClocks == BOARD_BootClockRUN

BOARD_InitModuleClock == Rate("enet", 50000)

-----------------------------------------------------------------------------
(* What clock_config.h says comes out, but for the clocks behind the USB1  *)
(* PLL's fractional dividers, which are as the loader left them.  What it  *)
(* says of the core is what SystemCoreClock is given, from which the       *)
(* kernel's tick is computed.                                              *)
BOARD_BOOTCLOCKRUN_CORE_CLOCK == 600000
Declared ==
    [ahb |-> BOARD_BOOTCLOCKRUN_CORE_CLOCK, ipg |-> 150000, perclk |-> 75000, usdhc1 |-> 198000, usdhc2 |-> 198000,
     semc |-> 75000, csi |-> 12000, lpspi |-> 105600, trace |-> 132000, lpi2c |-> 60000,
     can |-> 40000, uart |-> 80000, spdif |-> 30000, flexio1 |-> 30000, flexio2 |-> 30000,
     enet |-> 50000, lvds1 |-> 1200000]

(* What the core and the buses can bear: frequency at most, with what      *)
(* voltage at least.                                                       *)
Bounds == [ahb |-> 600000, ipg |-> 150000, perclk |-> 75000]
LowVoltage == [below |-> 528000, mV |-> 1275]

(* What the code may start with: the core at 396 MHz, as after a reset, or *)
(* the clocks of a loader built from the same code; the flash on the USB1  *)
(* PLL with any fraction.                                                  *)
Start(pll1, mV, fraction) ==
    [from |-> [c \in DOMAIN Inputs |->
                IF c \in {"pre_periph", "flexspi", "spdif_pre", "flexio1_pre", "flexio2_pre"}
                THEN Inputs[c][4] ELSE Inputs[c][1]],
     by   |-> [c \in DOMAIN Inputs \cup DOMAIN Fixed |->
                CASE c = "pll3_60m" -> 8 [] c = "pll3_80m" -> 6
                  [] c \in {"ipg", "flexspi", "pll3_120m"} -> 4
                  [] c \in {"periph", "pre_periph", "ahb", "pll3_sw", "semc_alt", "lvds1"} -> 1
                  [] OTHER -> 2],
     rate |-> [pll1 |-> pll1, pll2 |-> 528000, pll3 |-> 480000, pll4 |-> 0, pll5 |-> 0, enet |-> 0,
               pll2_pfd0 |-> 27, pll2_pfd1 |-> 16, pll2_pfd2 |-> 24, pll2_pfd3 |-> 16,
               pll3_pfd0 |-> fraction, pll3_pfd1 |-> 16, pll3_pfd2 |-> 17, pll3_pfd3 |-> 19],
     vdd  |-> mV]

Starts == UNION {{Start(792000, 1150, f), Start(1200000, 1275, f)} : f \in {18, 24, 33}}

ClockBoard ==
    [starts |-> Starts, fixed |-> Fixed, pfdOf |-> PfdOf, gated |-> Gated,
     always |-> {"ahb", "ipg", "flexspi"}, core |-> "ahb", flash |-> "flexspi",
     oscillators |-> [osc |-> 24000], keepsSame |-> FALSE,
     maxBy |-> [ahb |-> 8, ipg |-> 4, arm |-> 8, periph_clk2 |-> 8, perclk |-> 64, semc |-> 8],
     declared |-> Declared, bounds |-> Bounds, lowVoltage |-> LowVoltage]
=============================================================================
