---------------------------- MODULE ClockRT1170 ----------------------------
(***************************************************************************)
(* The clocks of the RT1170 board, as its Cortex-M7 sets them:             *)
(* BOARD_BootClockRUN, then BOARD_InitModuleClock.  A root clock's source  *)
(* and divider are set in one write.                                       *)
(***************************************************************************)
EXTENDS ClockSteps

XIP_EXTERNAL_FLASH == TRUE
BOARD_NETWORK_USE_100M_ENET_PORT == FALSE

-----------------------------------------------------------------------------
(* Root clocks, by the section of the code that sets them.                 *)

Timers == {"gpt1", "gpt2", "gpt3", "gpt4", "gpt5", "gpt6"}
AnalogAndIo == {"adc1", "adc2", "acmp", "flexio1", "flexio2"}
Cans == {"can1", "can2", "can3"}
Uarts == {"lpuart3", "lpuart4", "lpuart5", "lpuart6", "lpuart7",
          "lpuart8", "lpuart9", "lpuart10", "lpuart11", "lpuart12"}
I2cs == {"lpi2c1", "lpi2c2", "lpi2c3", "lpi2c4", "lpi2c5", "lpi2c6"}
Spis == {"lpspi1", "lpspi2", "lpspi3", "lpspi4", "lpspi5", "lpspi6"}
Networks == {"emv1", "emv2", "enet1", "enet2", "enet_qos", "enet_25m",
             "enet_timer1", "enet_timer2", "enet_timer3"}
CardsAndSound == {"usdhc1", "usdhc2", "asrc", "mqs", "mic", "spdif", "sai1", "sai2", "sai3", "sai4"}
DisplayAndCamera == {"lcdif", "lcdifv2", "mipi_ref", "mipi_esc", "csi2", "csi2_esc", "csi2_ui",
                     "csi", "cko1", "cko2"}
On24MHz == {"cssys", "flexspi2"} \cup Timers \cup AnalogAndIo \cup Cans \cup Uarts \cup I2cs
           \cup Spis \cup (Networks \ {"enet2"}) \cup CardsAndSound \cup DisplayAndCamera
Root == On24MHz \cup {"m7", "m7_systick", "bus", "bus_lpsr", "semc", "cstrace", "flexspi1",
                      "lpuart1", "lpuart2", "enet2", "gc355"}

Fixed == [pll1_div2 |-> "pll1"]

PfdOf ==
    [pll2_pfd0 |-> "pll2", pll2_pfd1 |-> "pll2", pll2_pfd2 |-> "pll2", pll2_pfd3 |-> "pll2",
     pll3_pfd0 |-> "pll3", pll3_pfd1 |-> "pll3", pll3_pfd2 |-> "pll3", pll3_pfd3 |-> "pll3"]

On24(clocks) == Roots(clocks, "rc48m_div2", 1)

-----------------------------------------------------------------------------
(* BOARD_BootClockRUN                                                      *)

(* By its fuses a sample of the chip gets more than a production part; the *)
(* driver's call returns when the voltage is there.                        *)
Voltage(sample) == Vdd(IF sample THEN 1150 ELSE 1125) \o AwaitVdd

(* The core and its tick go to the oscillator before the PLLs are set.     *)
StableClock == On24({"m7"}) \o On24({"m7_systick"})

(* The PLLs' configurations, as multiples of the crystal; the video PLL's  *)
(* fraction, a millionth, is left out, and no spectrum is spread.          *)
armPllConfig == (24000 * 166) \div 4
sysPll2Config == 24000 * 22
videoPllConfig == 24000 * 41

(* PLL 1 and audio are bypassed and stopped.                               *)
Plls ==
    Rate("arm_pll", armPllConfig) \o Rate("pll1", 0)
    \o Rate("pll2", sysPll2Config) \o Rate("pll2_pfd0", 27) \o Rate("pll2_pfd1", 16)
    \o Rate("pll2_pfd2", 24) \o Rate("pll2_pfd3", 32)
    \o Rate("pll3", 480000) \o Rate("pll3_pfd0", 13) \o Rate("pll3_pfd1", 17)
    \o Rate("pll3_pfd2", 32) \o Rate("pll3_pfd3", 22)
    \o Rate("audio", 0) \o Rate("video", videoPllConfig)

CoreAndBuses ==
    Roots({"m7"}, "arm_pll", 1) \o Roots({"bus"}, "pll3", 2) \o Roots({"bus_lpsr"}, "pll3", 3)
    \o Roots({"semc"}, "pll2_pfd1", 3)
    \o On24({"cssys"}) \o Roots({"cstrace"}, "pll2", 4) \o Roots({"m7_systick"}, "rc48m_div2", 240)

(* The clock of the flash that executes is left alone.                     *)
TimersAndFlash ==
    On24(AnalogAndIo) \o On24(Timers)
    \o (IF XIP_EXTERNAL_FLASH THEN Nothing ELSE On24({"flexspi1"})) \o On24({"flexspi2"})

Serial ==
    On24(Cans) \o Roots({"lpuart1", "lpuart2"}, "pll2", 22) \o On24(Uarts)
    \o On24(I2cs) \o On24(Spis)

Media ==
    On24(Networks) \o On24(CardsAndSound)
    \o Roots({"gc355"}, "video", 2) \o On24(DisplayAndCamera)

(* The clocks of sound, and the reference clocks: the one of the 1G port   *)
(* goes out to the PHY, the others come in, and timers do without one.     *)
SoundRouting ==
    Gprs({"sai1_mclk1", "sai1_mclk3", "sai2_mclk3", "sai3_mclk3", "mqs"}, 0) \o Gpr("sai1_mclk2", 3)
NetworkRouting ==
    Gpr("enet_ref", "input") \o Gpr("enet1g_tx_sel", 0) \o Gpr("enet1g_rgmii", "enabled")
    \o Gpr("enet1g_ref", "input") \o Gpr("enet_qos_rgmii", "disabled") \o Gpr("enet_qos_ref", "input")
ClockRouting == SoundRouting \o NetworkRouting \o Gprs(Timers, 0)

(* SystemCoreClock, from which the kernel's tick is computed, is given the *)
(* rate the core has now.  (On the RT1060 it is the header's constant.)    *)
SystemCoreClock == Step("unit", {"core"}, "started")

BOARD_BootClockRUN(sample) ==
    Voltage(sample) \o StableClock \o Plls \o CoreAndBuses \o TimersAndFlash \o Serial \o Media
    \o ClockRouting \o SystemCoreClock

(* For the network, and the bus goes to the fraction of PLL 2 that is set  *)
(* just before.                                                            *)
BOARD_InitModuleClock ==
    Rate("pll1", 1000000)
    \o (IF BOARD_NETWORK_USE_100M_ENET_PORT
        THEN Roots({"enet1"}, "pll1_div2", 10) ELSE Roots({"enet2"}, "pll1_div2", 4))
    \o Rate("pll2_pfd3", 24) \o Roots({"bus"}, "pll2_pfd3", 2)

-----------------------------------------------------------------------------
(* What clock_config.h says comes out, but for the two clocks that         *)
(* BOARD_InitModuleClock sets after it.                                    *)
Declared ==
    [c \in Root \ {"flexspi1"} |->
        CASE c = "m7" -> 996000 [] c = "m7_systick" -> 100
          [] c = "bus" -> 198000 [] c = "bus_lpsr" -> 160000 [] c = "semc" -> 198000
          [] c = "cstrace" -> 132000 [] c = "gc355" -> 492000 [] c = "enet2" -> 125000
          [] OTHER -> 24000]

(* What the core and the buses can bear.                                   *)
Bounds == [m7 |-> 996000, bus |-> 240000, bus_lpsr |-> 160000]
LowVoltage == [below |-> 700000, mV |-> 1125]

(* What the code may start with: the core on the oscillator, as after a    *)
(* reset, on an ARM PLL of another frequency, or the clocks of a loader    *)
(* built from the same code; the flash on the oscillator or on PLL 3.      *)
Start(core, pll, bus, mV, flash) ==
    [from |-> [c \in Root |->
                CASE c = "m7" -> core [] c \in {"bus", "bus_lpsr"} -> bus [] c = "flexspi1" -> flash
                  [] OTHER -> "rc48m_div2"],
     by   |-> [c \in Root \cup DOMAIN Fixed |->
                CASE c = "bus_lpsr" -> 3 [] c \in {"bus", "flexspi1", "pll1_div2"} -> 2 [] OTHER -> 1],
     rate |-> [arm_pll |-> pll, pll1 |-> 0, pll2 |-> 528000, pll3 |-> 480000, audio |-> 0, video |-> 0,
               pll2_pfd0 |-> 27, pll2_pfd1 |-> 16, pll2_pfd2 |-> 24, pll2_pfd3 |-> 32,
               pll3_pfd0 |-> 13, pll3_pfd1 |-> 17, pll3_pfd2 |-> 32, pll3_pfd3 |-> 22],
     vdd  |-> mV]

Starts ==
    UNION {{Start("rc48m_div2", 0, "rc48m_div2", 1000, flash),
            Start("arm_pll", 696000, "rc48m_div2", 1000, flash),
            Start("arm_pll", 996000, "pll3", 1125, flash)} : flash \in {"rc48m_div2", "pll3_pfd0"}}

ClockBoard ==
    [starts |-> Starts, fixed |-> Fixed, pfdOf |-> PfdOf,
     gated |-> [p \in {} |-> {}],
     always |-> {"m7", "m7_systick", "bus", "bus_lpsr", "flexspi1"}, core |-> "m7", flash |-> "flexspi1",
     oscillators |-> [rc48m_div2 |-> 24000], keepsSame |-> TRUE, maxBy |-> [c \in Root |-> 256],
     declared |-> Declared, bounds |-> Bounds, lowVoltage |-> LowVoltage]
=============================================================================
