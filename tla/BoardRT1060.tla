---------------------------- MODULE BoardRT1060 ----------------------------
(***************************************************************************)
(* What main does on the RT1060 board before the scheduler: memory         *)
(* protection, pins, clocks (ClockRT1060), console, and the reset of the   *)
(* Ethernet PHY.                                                           *)
(***************************************************************************)
EXTENDS ClockRT1060, BoardSteps, TLC

-----------------------------------------------------------------------------
(* BOARD_ConfigMPU                                                         *)

CachesOffCode ==  \* mutant of CachesOff: the data cache stays on
    IfOn("i", SCB_DisableCache("i"))

CachesOff == IfOn("i", SCB_DisableCache("i")) \o IfOn("d", SCB_DisableCache("d"))

(* Access is denied to all that no other region opens.                     *)
DenyAll == Region(0, 0, 1, "none", 0, 0, 0, MB(4096))

FlashAndDevices ==
    Device(1, \h80000, MB(512)) \o Device(2, \h60000, MB(512))
    \o (IF XIP_EXTERNAL_FLASH THEN WriteBack(3, \h60000, "read", MB(8)) ELSE Nothing)
    \o Device(4, 0, MB(1024))

RamRegions ==
    WriteBack(5, 0, "full", KB(128)) \o WriteBack(6, \h20000, "full", KB(128))
    \o WriteBack(7, \h20200, "full", KB(512)) \o WriteBack(8, \h20280, "full", KB(256))
    \o WriteBack(9, \h80000, "full", MB(32))

(* The linker script leaves this section empty.                            *)
NonCacheRegion == ForSection(10, \h20200, 1, 0)

Peripherals == Device(11, \h40000, MB(4)) \o Device(12, \h42000, MB(1))

CachesOn == SCB_EnableCache("d") \o SCB_EnableCache("i")

BOARD_ConfigMPU ==
    CachesOff \o MpuDisable
    \o DenyAll \o FlashAndDevices \o RamRegions \o NonCacheRegion \o Peripherals
    \o MpuEnable \o CachesOn

-----------------------------------------------------------------------------
(* pin_mux.c                                                               *)

I2CRoutes == [AD_B1_00 |-> "LPI2C1_SCL", AD_B1_01 |-> "LPI2C1_SDA"]
I2CPins == CLOCK_EnableIomuxc \o SetPinMux(I2CRoutes) \o SetOpenDrain(DOMAIN I2CRoutes)

EnetRoutes ==
    [AD_B0_09 |-> "GPIO1_IO09", AD_B0_10 |-> "GPIO1_IO10",
     AD_B0_12 |-> "LPUART1_TX", AD_B0_13 |-> "LPUART1_RX",
     B1_04 |-> "ENET_RX_DATA00", B1_05 |-> "ENET_RX_DATA01", B1_06 |-> "ENET_RX_EN",
     B1_07 |-> "ENET_TX_DATA00", B1_08 |-> "ENET_TX_DATA01", B1_09 |-> "ENET_TX_EN",
     B1_10 |-> "ENET_REF_CLK", B1_11 |-> "ENET_RX_ER",
     EMC_40 |-> "ENET_MDC", EMC_41 |-> "ENET_MDIO"]

EnetElectrical ==
    SetPushPull(DOMAIN EnetRoutes \ {"EMC_41"}) \o SetOpenDrain({"EMC_41"})

(* Of two GPIO units on the same pads, the one main uses.                  *)
GpioSelect == Gpr("gpio_mux1", "GPIO1")

EnetPins == CLOCK_EnableIomuxc \o SetPinMux(EnetRoutes) \o GpioSelect \o EnetElectrical

(* The pads of the flash are set again to what they are, under the code    *)
(* that executes from it.                                                  *)
FlashRoutes ==
    [SD_B1_05 |-> "FLEXSPIA_DQS", SD_B1_06 |-> "FLEXSPIA_SS0_B", SD_B1_07 |-> "FLEXSPIA_SCLK",
     SD_B1_08 |-> "FLEXSPIA_DATA00", SD_B1_09 |-> "FLEXSPIA_DATA01",
     SD_B1_10 |-> "FLEXSPIA_DATA02", SD_B1_11 |-> "FLEXSPIA_DATA03"]
spiPins == CLOCK_EnableIomuxc \o SetPinMux(FlashRoutes) \o SetPushPull(DOMAIN FlashRoutes)

(* Where the chip has port A of its FlexSPI, with the boot ROM's choice of *)
(* a strobe: what it read this program through.                            *)
BootPads ==
    [SD_B1_05 |-> "FLEXSPIA_DQS", SD_B1_06 |-> "FLEXSPIA_SS0_B", SD_B1_07 |-> "FLEXSPIA_SCLK"]
    @@ [SD_B1_08 |-> "FLEXSPIA_DATA00", SD_B1_09 |-> "FLEXSPIA_DATA01"]
    @@ [SD_B1_10 |-> "FLEXSPIA_DATA02", SD_B1_11 |-> "FLEXSPIA_DATA03"]

BOARD_InitBootPins == EnetPins \o I2CPins \o spiPins

-----------------------------------------------------------------------------
(* What BOARD_DebugConsoleSrcFreq makes of the registers, in kHz.          *)
BOARD_DebugConsoleSrcFreq(from, by, rate) ==
    (IF from["uart"] = Inputs["uart"][1] THEN rate["pll3"] \div 6 ELSE 24000) \div by["uart"]

-----------------------------------------------------------------------------
(* main                                                                    *)

PhyResetShort ==  \* mutant of PhyReset: a tenth of the time
    GPIO_PinInit("GPIO1_IO09") \o GPIO_PinInit("GPIO1_IO10") \o GPIO_WritePinOutput("GPIO1_IO10", 1)
    \o GPIO_WritePinOutput("GPIO1_IO09", 0) \o DelayUs(1000) \o GPIO_WritePinOutput("GPIO1_IO09", 1)

(* Reset of the PHY, with its interrupt pin, a strap, held high.           *)
PhyReset ==
    GPIO_PinInit("GPIO1_IO09") \o GPIO_PinInit("GPIO1_IO10")
    \o GPIO_WritePinOutput("GPIO1_IO10", 1)
    \o GPIO_WritePinOutput("GPIO1_IO09", 0) \o DelayUs(10000) \o GPIO_WritePinOutput("GPIO1_IO09", 1)

(* The clock whose rate ENET_SetSMI is told.                               *)
EXAMPLE_CLOCK_FREQ == "ipg"

RefClockOut == Gpr("enet1_tx_dir", "output")

Main ==
    BOARD_ConfigMPU \o BOARD_InitBootPins
    \o BOARD_InitBootClocks \o BOARD_BootClockRUN
    \o Begin("console") \o BOARD_InitModuleClock
    \o RefClockOut \o PhyReset \o Begin("mdio")

-----------------------------------------------------------------------------
BOOT_FLASH_ACT_APP == \h60040
BOOT_FLASH_CAND_APP == \h60240

(* What the linker script and the drivers take for granted of the memory:  *)
(* pages from, upto, and how they are used.                                *)
Sections ==
    {[from |-> BOOT_FLASH_ACT_APP, upto |-> BOOT_FLASH_CAND_APP, use |-> "code"],
     [from |-> BOOT_FLASH_CAND_APP, upto |-> \h60440, use |-> "constants"],
     [from |-> \h20000, upto |-> \h20020, use |-> "data"],        \* m_data
     [from |-> \h20200, upto |-> \h202C0, use |-> "code_in_ram"], \* m_data2
     [from |-> \h40000, upto |-> \h40400, use |-> "registers"],
     [from |-> \h42000, upto |-> \h42100, use |-> "registers"],
     [from |-> \hA0000, upto |-> \hE0000, use |-> "nothing"]}

Board ==
    ClockBoard @@
    [program |-> Main, caches |-> {"i", "d"}, sections |-> Sections, flashPads |-> BootPads,
     gprs |-> [gpio_mux1 |-> {"GPIO1", "GPIO6"}, enet1_tx_dir |-> {"input"}],
     gpioSelect |-> [gpio_mux1 |-> "GPIO1"],
     openDrain |-> DOMAIN I2CRoutes \cup {"EMC_41"},
     units |-> [console |-> [clock |-> "uart", pads |-> {"AD_B0_12", "AD_B0_13"}],
                mdio |-> [clock |-> EXAMPLE_CLOCK_FREQ, pads |-> {"EMC_40", "EMC_41"}]],
     routes |-> EnetRoutes @@ I2CRoutes,
     phy |-> [reset |-> "GPIO1_IO09", high |-> {"GPIO1_IO10"}, low |-> 10000, settle |-> 0,
              refClock |-> "enet", rate |-> ReferenceClock("rmii"),
              direction |-> [enet1_tx_dir |-> "output"]]]
=============================================================================
