---------------------------- MODULE BoardRT1170 ----------------------------
(***************************************************************************)
(* What main does on the RT1170 board before the scheduler: memory         *)
(* protection, pins, clocks (ClockRT1170), console, and the reset of the   *)
(* Ethernet PHY; and BOARD_ConfigMPU as its Cortex-M4 would run it.        *)
(***************************************************************************)
EXTENDS ClockRT1170, BoardSteps, TLC

(* Linker script: m_ncache, and what the two cores share if they do.       *)
NonCachePages == 2
RpmsgPages(shmem) == IF shmem THEN 2 ELSE 0

-----------------------------------------------------------------------------
(* BOARD_ConfigMPU of the Cortex-M7                                        *)

CachesOff == IfOn("i", SCB_DisableCache("i")) \o IfOn("d", SCB_DisableCache("d"))

(* Access is denied to all that no other region opens.                     *)
DenyAll == Region(0, 0, 1, "none", 0, 0, 0, MB(4096))

TcmAndDevices ==
    Device(1, \h80000, MB(512)) \o Device(2, \h60000, MB(512)) \o Device(3, 0, MB(1024))
    \o WriteBack(4, 0, "full", KB(256)) \o WriteBack(5, \h20000, "full", KB(256))

Cached(n, base, pages, writeThrough) ==
    IF writeThrough THEN WriteThrough(n, base, pages) ELSE WriteBack(n, base, "full", pages)

RamAndFlash(writeThrough, sdram) ==
    Cached(6, \h20200, MB(1), writeThrough) \o Cached(7, \h20300, KB(512), writeThrough)
    \o (IF XIP_EXTERNAL_FLASH THEN WriteBack(8, \h30000, "read", MB(16)) ELSE Nothing)
    \o (IF sdram THEN Cached(9, \h80000, MB(64), writeThrough) ELSE Nothing)

NonCacheRegionBelow == ForSection(4, \h202C0, 1, NonCachePages)  \* mutant: does not override

NonCacheRegion == ForSection(10, \h202C0, 1, NonCachePages)

Peripherals ==
    Device(11, \h40000, MB(16)) \o Device(12, \h41000, MB(2)) \o Device(13, \h41400, MB(1))
    \o Device(14, \h41800, MB(2)) \o Device(15, \h42000, MB(1))

CachesOn == SCB_EnableCache("d") \o SCB_EnableCache("i")

BOARD_ConfigMPU(writeThrough, sdram) ==
    CachesOff \o MpuDisable
    \o DenyAll \o TcmAndDevices \o RamAndFlash(writeThrough, sdram) \o NonCacheRegion \o Peripherals
    \o MpuEnable \o CachesOn

-----------------------------------------------------------------------------
(* BOARD_ConfigMPU of the Cortex-M4, which has a cache on each bus         *)

M4CachesOff ==
    IfOn("code", Push("code") \o Switch("code", FALSE))
    \o IfOn("system", Push("system") \o Switch("system", FALSE))

M4WriteThrough ==
    WriteThrough(0, \h20200, MB(1)) \o WriteThrough(1, \h20300, KB(512))
    \o WriteThrough(2, \h80000, MB(64))

(* What is shared is not cached; n is the first region that is free.       *)
M4SharedMemory(n, shmem) ==
    ForSection(n, \h202C0, 2, NonCachePages) \o ForSection(n + 1, \h202C2, 2, RpmsgPages(shmem))

M4Regions(writeThrough, shmem) ==
    IF writeThrough THEN M4WriteThrough \o M4SharedMemory(3, shmem) ELSE M4SharedMemory(0, shmem)

M4CachesOn ==
    Drop("system") \o Switch("system", TRUE) \o Drop("code") \o Switch("code", TRUE)

M4ConfigMPU(writeThrough, shmem) ==
    M4CachesOff \o MpuDisable \o M4Regions(writeThrough, shmem) \o MpuEnable \o M4CachesOn

-----------------------------------------------------------------------------
(* pin_mux.c                                                               *)

InitRoutes ==
    [AD_08 |-> "LPI2C1_SCL", AD_09 |-> "LPI2C1_SDA", AD_24 |-> "LPUART1_TXD", AD_25 |-> "LPUART1_RXD"]
BOARD_InitPins ==
    CLOCK_EnableIomuxc \o SetPinMux(InitRoutes)
    \o SetOpenDrain({"AD_08", "AD_09"}) \o SetPushPull({"AD_24", "AD_25"})

Enet1GRoutes ==
    [DISP_B1_00 |-> "ENET_1G_RX_EN", DISP_B1_01 |-> "ENET_1G_RX_CLK",
     DISP_B1_02 |-> "ENET_1G_RX_DATA00", DISP_B1_03 |-> "ENET_1G_RX_DATA01",
     DISP_B1_04 |-> "ENET_1G_RX_DATA02", DISP_B1_05 |-> "ENET_1G_RX_DATA03",
     DISP_B1_06 |-> "ENET_1G_TX_DATA03", DISP_B1_07 |-> "ENET_1G_TX_DATA02",
     DISP_B1_08 |-> "ENET_1G_TX_DATA01", DISP_B1_09 |-> "ENET_1G_TX_DATA00",
     DISP_B1_10 |-> "ENET_1G_TX_EN", DISP_B1_11 |-> "ENET_1G_TX_CLK_IO",
     DISP_B2_13 |-> "GPIO11_IO14", EMC_B2_19 |-> "ENET_1G_MDC", EMC_B2_20 |-> "ENET_1G_MDIO"]
BOARD_InitEnet1GPins == CLOCK_EnableIomuxc \o SetPinMux(Enet1GRoutes)

-----------------------------------------------------------------------------
(* What BOARD_DebugConsoleSrcFreq asks the clock driver for, in kHz: the   *)
(* frequency of this root clock.                                           *)
ConsoleClock == "lpuart1"

(* The clock whose rate ENET_SetSMI is told.                               *)
EXAMPLE_CLOCK_FREQ == "bus"

(* The port that is built for: its signals to talk to the PHY, and the     *)
(* clock they share.                                                       *)
EXAMPLE_ENET ==
    IF BOARD_NETWORK_USE_100M_ENET_PORT
    THEN [mdio |-> {"ENET_MDC", "ENET_MDIO"}, refClock |-> "enet1"]
    ELSE [mdio |-> {"ENET_1G_MDC", "ENET_1G_MDIO"}, refClock |-> "enet2"]

BOARD_ENETFlexibleConfigure == IF BOARD_NETWORK_USE_100M_ENET_PORT THEN "rmii" ELSE "rgmii"

IOMUXC_SelectENETClock == Gpr("enet1g_rgmii", "enabled")

(* Reset of the PHY, and what it needs to settle.                          *)
PhyReset ==
    GPIO_PinInit("GPIO11_IO14") \o GPIO_WritePinOutput("GPIO11_IO14", 0) \o DelayUs(10000)
    \o GPIO_WritePinOutput("GPIO11_IO14", 1) \o DelayUs(30000)

MainBusLast(sample, writeThrough, sdram) ==  \* mutant of Main: the bus is set last
    BOARD_ConfigMPU(writeThrough, sdram) \o BOARD_InitPins
    \o BOARD_BootClockRUN(sample) \o Begin("console")
    \o SCB_DisableCache("d") \o IOMUXC_SelectENETClock
    \o BOARD_InitEnet1GPins \o PhyReset \o Begin("mdio") \o BOARD_InitModuleClock

MainPinsLast(sample, writeThrough, sdram) ==  \* mutant: the pins after they are driven
    BOARD_ConfigMPU(writeThrough, sdram) \o BOARD_InitPins
    \o BOARD_BootClockRUN(sample) \o Begin("console") \o BOARD_InitModuleClock
    \o SCB_DisableCache("d") \o IOMUXC_SelectENETClock
    \o PhyReset \o BOARD_InitEnet1GPins \o Begin("mdio")

Main(sample, writeThrough, sdram) ==
    BOARD_ConfigMPU(writeThrough, sdram) \o BOARD_InitPins
    \o BOARD_BootClockRUN(sample) \o Begin("console") \o BOARD_InitModuleClock
    \o SCB_DisableCache("d") \o IOMUXC_SelectENETClock
    \o BOARD_InitEnet1GPins \o PhyReset \o Begin("mdio")

-----------------------------------------------------------------------------
BOOT_FLASH_ACT_APP == \h30040

(* What the linker script and the drivers take for granted of the memory:  *)
(* pages from, upto, and how they are used.                                *)
Sections(sdram) ==
    {[from |-> BOOT_FLASH_ACT_APP, upto |-> \h30DCF, use |-> "code"],  \* m_interrupts, m_text
     [from |-> \h30FC0, upto |-> \h31000, use |-> "code"],        \* m_core1_image
     [from |-> \h20000, upto |-> \h20040, use |-> "data"],        \* m_data
     [from |-> \h202C0, upto |-> \h202C2, use |-> "uncached"],    \* m_ncache
     [from |-> \h202C2, upto |-> \h2037F, use |-> "code_in_ram"], \* m_data2
     [from |-> \h40000, upto |-> \h41000, use |-> "registers"],
     [from |-> \hA0000, upto |-> \hE0000, use |-> "nothing"]}
    \cup IF sdram
         THEN {[from |-> \h80000, upto |-> \h84000, use |-> "data"]}
         ELSE {[from |-> \h80000, upto |-> \hA0000, use |-> "registers"]}

M4Sections(shmem) ==
    {[from |-> \h202C0, upto |-> \h202C2, use |-> "uncached"]}
    \cup IF shmem THEN {[from |-> \h202C2, upto |-> \h202C4, use |-> "uncached"]} ELSE {}

Board(sample, writeThrough, sdram) ==
    ClockBoard @@
    [program |-> Main(sample, writeThrough, sdram), caches |-> {"i", "d"},
     sections |-> Sections(sdram), flashPads |-> [p \in {} |-> ""],
     gprs |-> [enet1g_rgmii |-> {"disabled"}], gpioSelect |-> [g \in {} |-> ""],
     openDrain |-> {"AD_08", "AD_09"},
     units |-> [console |-> [clock |-> ConsoleClock, pads |-> {"AD_24", "AD_25"}],
                core |-> [clock |-> "m7", pads |-> {}],
                mdio |-> [clock |-> EXAMPLE_CLOCK_FREQ,
                          pads |-> {p \in DOMAIN Enet1GRoutes : Enet1GRoutes[p] \in EXAMPLE_ENET.mdio}]],
     routes |-> InitRoutes @@ Enet1GRoutes,
     phy |-> [reset |-> "GPIO11_IO14", high |-> {}, low |-> 10000, settle |-> 30000,
              refClock |-> EXAMPLE_ENET.refClock, rate |-> ReferenceClock(BOARD_ENETFlexibleConfigure),
              direction |-> [enet1g_rgmii |-> "enabled"]]]

M4Board(writeThrough, shmem) ==
    [Board(FALSE, FALSE, FALSE) EXCEPT
        !.program = M4ConfigMPU(writeThrough, shmem), !.caches = {"code", "system"},
        !.sections = M4Sections(shmem), !.declared = [c \in {} |-> 0],
        !.routes = [p \in {} |-> ""], !.units = [u \in {} |-> ""], !.openDrain = {}]

(* What the flags of the repository build, on a production part; a sample  *)
(* of the chip, built with SDRAM and with cached memory written through;   *)
(* and the second core, with memory shared or not.                         *)
Production == Board(FALSE, FALSE, FALSE)
Sample == Board(TRUE, TRUE, TRUE)
M4 == M4Board(FALSE, FALSE)
M4Shared == M4Board(TRUE, TRUE)
=============================================================================
