# A TLA+ verification of dm-ak-nano-mcuxpresso

The repository is the application that runs on an NXP i.MX RT1060 or RT1170
board, executes in place from the external FlexSPI flash, and updates itself
over the air: two image slots, MCUboot in direct-XIP mode with the flash remap,
and the aktualizr-nano agent.  The agent, the bootloader, FreeRTOS, lwIP and the
drivers are submodules that are not in the repository.  What *is* in it is the
code that decides whether the board survives an update: how the slots and their
trailers are written, how an image is looked at before it is marked, how the
flash is read, how the tasks come up, where the device's time comes from, and
how `main` brings the board up.  The modules here are translations of that code.

All line numbers are of files under `src/`.

## 1. Inventory

### Image slots and update state (`mcuboot_app_support.c`, `.h`, `flash_partitioning.h`)

* **State.** In flash, for each of two slots: the image (its header first) and, in
  the last page of the slot, `struct image_trailer` with `copy_done`, `image_ok`
  and `magic`.  In the FlexSPI, the remap register, set by the bootloader, that
  says which slot runs.  In RAM: the `partition_t` the agent was given.
* **Operations.** `bl_get_update_partition_info`, `bl_verify_image`,
  `bl_update_image_state` (with `boot_swap_test` and `boot_swap_ok`),
  `bl_get_image_state`, `get_active_image`.
* **Interaction.** The agent calls them in the order get partition, write,
  verify, mark, reset; after the reset it asks for the state and confirms.  The
  bootloader reads the same trailers and writes `copy_done`.
* **Hard.** Every trailer is changed by an erase followed by a program, and power
  may fail inside each or between them; both sides write the same pages; a
  call that failed is called again; a second update is started before the first
  is over.
* **Correct if** there is always an image to start; nothing is confirmed that was
  not tested; the state reported is the one the bootloader acts on; the image
  that executes is never written; a confirmation that was reported lasts.

### Image verification (`bl_verify_image`, `image.h`)

* No state; reads the header and up to two TLV headers of a slot.
* **Hard.** The slot may hold any prefix of an image followed by erased flash, the
  sizes come from that flash and their sum wraps.
* **Correct if** a download that stopped before the trailing TLVs is refused and a
  complete one passes.  (One that stopped *inside* the TLVs passes, behind their
  header: `:446-458` looks at that header alone, and the bootloader's check of the
  signature is what refuses the image.)

### Flash reads (`flash_read`, `mflash_drv_read_wrapper`; `flexspi_nor_flash_ops.c`)

* **State.** The static bounce buffer `tmp_buf`.
* **Operations.** `flash_read`; besides it `sfw_flash_read_ipc`, which waits until
  the flash is not busy, and `sfw_flash_read`, which copies from mapped memory.
  Nothing in the repository calls the last two.
* **Hard.** Any alignment of address, length and destination; the driver reads
  whole words inside one page; the copy is made before the status is known.
* **Correct if** a read returns the right bytes and writes nothing else.

### Clock of the device (`aknano_client.c`)

* **State.** `boot_up_epoch`, shared without a lock by the daemon task (the wait in
  `SNTPRequest`), the lwIP thread (the SNTP callback) and the agent
  (`aknano_cli_get_current_epoch`).
* **Hard.** The answer arrives between any two steps of the others, late or never; the
  tick count that is added starts again from zero after 49.7 days.
* **Correct if** the wait is bounded, the time goes back at that point only, and a
  time that was waited for is kept.

### Tasks and startup (`main_enet.c`, `read_button_task.c`, `aws_mqtt_starter.c`)

* **State.** Tasks of FreeRTOS at fixed priorities: the button task, the MQTT starter,
  the timer task with the startup hook, lwIP's, and the agent.  The logging task
  (`main_enet.c:463`) shares nothing with them and is left out, the EL2GO task
  (`:473`) is not in the build.  The interval of the button task, which the agent
  sets; the network's link and address.
* **Hard.** Error paths that loop for ever at a high priority, a setting shared
  between two tasks, waits for a cable that may come late.
* **Correct if** polling goes on whatever the startup does, a setting that is made
  is taken, and the agent comes up when there is a network.

### Clock trees (`board_*/clock_config.c`, `BOARD_InitModuleClock` of `main_enet.c`)

* **State.** Multiplexers, dividers, PLLs, gates and the core's voltage.
* **Operations.** `BOARD_BootClockRUN` (called twice on the RT1060), then
  `BOARD_InitModuleClock`.
* **Hard.** The code changes the clocks it runs from, out of a flash that has its
  clock from the same tree, starting from whatever the loader left; the voltage
  follows a request with a delay.
* **Correct if** nothing in use ever stands still, the voltage is there before
  the speed, and the result is what the headers promise.

### Memory protection, pins and bring-up (`board_*/board.c`, `pin_mux.c`, `main`)

* **State.** The regions of the MPU and whether they are in force, the two caches
  of a core, the functions and open drains of the pads, the levels of pins,
  the direction of reference clocks, and what each unit was told of its clock.
* **Operations.** `BOARD_ConfigMPU`, `BOARD_InitPins` and the other pin functions,
  `BOARD_InitDebugConsole`, the reset of the PHY in `main`, in `main`'s order, with
  the calls of the clock setup between them.
* **Hard.** A loader, or a warm start, leaves caches and protection on; regions
  overlap and the highest number wins; the pads of the flash are routed while
  the code executes from it; the PHY leaves reset with the straps, the
  reference clock and the direction of that clock set by three functions.
* **Correct if** nothing cached is lost or stale, memory may be used the way the
  linker uses it, a pad is routed before its unit starts, the PHY leaves reset as
  it should, and a unit's clock stays at the rate the unit was told.

### I2C devices of the boards (`board_*/board.c`)

* **State.** For each bus its clock and what the driver was told of it; in each
  device the register it points to.
* **Hard.** Several devices start the same bus, each with clocks of its own; one
  read in two transfers, of which the first may fail.
* **Correct if** a read returns the register asked for and the bus is not too fast.

### Random numbers (`aknano_client.c`)

* **State.** Whether the generator was initialised, and whether it started.
* **Hard.** Every call of a driver may fail, and on the RT1170 that is not looked at.
* **Correct if** success means as many random bytes as were asked for.  On the RT1170
  it does not (finding 5).

### Others

| Component | Where | State | Modelled |
|---|---|---|---|
| Build number | `mcuboot_app_support.c` | none | no: one read through the memory map |
| DCD | `board_*/dcd.c` | none | no: tables for the boot ROM, which the build does not include |
| Configuration headers | `config_files/`, `lwipopts.h` ... | none | the constants that matter are in the models |
| Build and signing | `armgcc/` | none | no: flags decide the variant modelled, the linker scripts' bounds are in Bringup |

`PROJECT.json` lists every component with its status, and the hazards with the
properties that watch them.

## 2. Modules

```
BootPromise  <- refined by -- ImageSlots  <- EXTENDS -- ImageSlotsProofs
                              VerifyImage <- EXTENDS -- VerifyImageProofs
                              FlashRead   <- EXTENDS -- FlashReadProofs
                              SntpTime    <- EXTENDS -- SntpTimeProofs
                              Startup     <- EXTENDS -- StartupProofs

ClockSteps <- ClockRT1060 <-+- BoardRT1060 <-+- BuiltBoards  the boards there are
           <- ClockRT1170 <-|- BoardRT1170 <-'
              BoardSteps  <-'
BoardCalls <- ClockTree <- Bringup   <-+- MCBringup (with BuiltBoards)
MemoryMap               <-'            |
           <- CallOrder              <-'- BringupProofs <- ClockTreeProofs
             (of BoardCalls, MemoryMap)

I2cSteps <- I2cRT1060, I2cRT1170 <- INSTANCE -- BoardI2c --+- Devices <- DevicesProofs
                                 OneBoard <----- RandomBytes '

MC<module>   <- EXTENDS <module>, names the constants of the runs
MCStartup    <- EXTENDS CallOrder and BuiltBoards as well, to evaluate the assumptions of
                CallOrder for these boards (section 4)
```

The variant modelled is the one the build in `armgcc` makes:
`CONFIG_MCUBOOT_FLASH_REMAP_ENABLE` and `CONFIG_MCUBOOT_FLASH_REMAP_DOWNGRADE_SUPPORT`
set, `MFLASH_PAGE_INTEGRITY_CHECKS` not.

### ImageSlots and BootPromise

| Model | Code |
|---|---|
| `image`, `trailer` | the header and the last page of each slot |
| `remap`, `get_active_image` | the remap offset register, `get_active_image` |
| `ImageState` | `bl_get_image_state`, remap branch |
| `GetUpdatePartition` | `bl_get_update_partition_info` |
| `BootSwapTestCall`, `...Erase`, `...Program` | `boot_swap_test` |
| `BootSwapOkCall`, `...Erase`, `...Program`, `...Header` | `boot_swap_ok`, with early returns and downgrade support |
| `UpdateStateInvalid` | default case of `bl_update_image_state` |
| `BootReject`, `BootRun`, `BootCut` | the bootloader (external) |
| `AgentErase`, `AgentWrite`, `AgentFinish`, `AgentAbandon`, `VerifyImage` | the agent (external; `bl_verify_image` has a module of its own) |
| `Reboot`, `PowerCut`, third disjunct of each flash operation | resets and power cuts |

A call is one action up to its first flash operation and one for each flash
operation after that, because a power cut can only be told apart at those.  A
flash operation succeeds, fails (if it is in `Failing`), or is cut by a power
failure.  The latter two leave the trailer *torn*: every field that was to
change has its old value, its new one or neither (`Torn`).  The magic is the last
field of the page and a page is programmed in address order, so that a whole
magic comes with the whole page.  A corner not modelled: a magic that reads
right in one start and wrong in the next.

The bootloader's own code is not here.  What is modelled is what
`mcuboot_app_support.c` relies on: a slot can be started when its image is whole
and its trailer is marked and not "tried and not confirmed"; the bootloader sets
`copy_done` before it starts a slot; it erases a slot it selected and cannot
start.  Which of two slots it selects depends on its configuration, which is not here
either: `Policies` has a marked image first, the highest version first, or both,
and then the bootloader may follow either at every start.

`BootPromise` is what the slots promise with no flash in sight: the set of slots
that can be started is never empty, and a trial begins only if another is left.
`ImageSlots` implements it with `safe` = the slots that can be started,
`running` = the active slot, `up` = an application runs.

### VerifyImage

One action per read and one for the checks on the header.  The inputs are every
built image of the instance (header, body, protected TLVs), cut off at every
unit, with every `size` between what was written and the whole.  The type widths
(`Ones16`, `Ones32`, `Wrap`) are constants, smaller in the run, related to each
other as in the code.  A unit is a field of 16 bits, so that a download may stop
between any two fields of the header, inside the image's size, and anywhere in the
TLVs.  What follows the cut is erased flash: the older bytes that a download could
leave, if the agent did not erase first, are not modelled.

### FlashRead

One action per driver call.  A byte of flash is its own address, so that a byte
in memory says where it came from.  Memory is modelled for two words around the
buffer, so that a write outside is seen.  The reads of `flexspi_nor_flash_ops.c`
are further readers of the same memory: `WaitBusBusy` polls the status register,
`ReadIpc` and `ReadMapped` convert between an offset and a mapped address as
`FlexSPI_AMBA_BASE` is set in or cleared from it there.

### SntpTime

Time passes in half seconds, the smallest delay in `SNTPRequest`.  `Tick` may not
pass the end of the daemon's delay: the task has priority 8 of 10 and those
above it (see Startup) sleep nearly always.  `ticks` is `xTaskGetTickCount()`, which starts
again at `TickWrap`; the run takes 16 seconds for it, the proofs any number.  The callback and the agent's call
are two and three steps with everything else in between.  The upper word of the
64-bit variable is zero in all its values, so that a torn read of it is not
different from a whole one.

### Startup

FreeRTOS as "a ready task of the highest priority runs, those of one priority in
any order".  Each step of the startup hook is an action; those that report
errors may do so at any time (`Failing`).  `UpdateSettingValue` is two actions, a
compare and a store, as nothing locks it, and so is what the button task does
with the setting: `BtnCompare` finds that it changed, `BtnTake` reads it again and
copies it (`read_button_task.c:71`), with a store of the agent possible in between.

### ClockTree, ClockRT1060, ClockRT1170, ClockSteps

`BOARD_BootClockRUN` of each board is a long sequence of driver calls without a
loop, and its only decisions are made by the preprocessor.  It is written as
such: `ClockRT1060` and `ClockRT1170` hold the sequence as data, one section of
the code per definition, and `ClockTree` makes one step of each call.  A board is
a record (its oscillators, dividers, bounds and program), an element of the
constant `Boards`; the variable `board` holds the one the build is for.
`Frequency` follows a clock through multiplexers and dividers to its oscillator.
A PLL or fractional divider that is set stands still from `CLOCK_InitStop` to
`CLOCK_InitLocked`; the voltage that was asked for is there after `Regulate`, at
any time.  What is selected by which value of a multiplexer, and that the
driver of the RT1170 leaves a PLL alone that is as it is to be, is knowledge of
chip and driver and marked external.  `BoardCalls` declares `Boards`, for the
modules that are about the calls of a board without running them (`CallOrder`), and
`Frequencies`, which computes a clock from the registers that it is given.
`starts` are the states the loader may
leave: as after a reset, with the core on an ARM PLL of another frequency, and
as after the same code.  On the RT1060 the flash hangs on the USB1 PLL with any
fraction; on the RT1170 on the oscillator or on PLL 3 with the fraction the code
sets.  A loader with another fraction there would see the flash clock change
while it is in use: `FlashClockKept` says nothing of that case (see section 7).

### Bringup, BoardSteps, BoardRT1060, BoardRT1170

`Bringup` adds to `ClockTree` the calls of `main` that are not about clocks, in the
order of `main`.  One step is one driver call or register write:

| Model | Code |
|---|---|
| `ARM_MPU_SetRegion`, `ARM_MPU_Enable` | `MPU->RBAR` and `MPU->RASR`, `ARM_MPU_Enable`, `ARM_MPU_Disable` in `BOARD_ConfigMPU` |
| `CacheSkipOff`, `CachePush`, `CacheDrop`, `CacheOff`, `CacheOn` | `SCB_DisableICache`, `SCB_EnableDCache`, ... and the tests of `SCB->CCR` before them |
| `IOMUXC_SetPinMux`, `IOMUXC_SetPinConfig`, `IOMUXC_GPR` | `pin_mux.c`, and the reference clock's direction |
| `GPIO_WritePinOutput`, `SDK_DelayAtLeastUs` | reset and straps of the PHY in `main` |
| `StartUnit`, `Told` | `BOARD_InitDebugConsole` with `BOARD_DebugConsoleSrcFreq`, MDIO, and the RT1170's `SystemCoreClock` |

`BoardRT1060` and `BoardRT1170` hold the calls as data, with the linker's sections
that `MemoryAsLinked` holds the regions against.  `MemoryMap` says which rules an
address has under the regions in force; the rules can change only at the edges of
a section, of a region and of the core's default map, so that those are looked at
(`EveryAddressFits` proves that it is enough).  Besides the two boards as
the flags in `armgcc` build them the run has the RT1170 with the defines they leave
out, on a sample of the chip (more voltage, SDRAM, memory written through), and its
second core, with and without memory that it shares (`BuiltBoards`).  At a warm start
each cache may be on or off by itself.  The region for a linker section is set
behind asserts on its size and place (`board_rt1170/board.c:422`); one that fails is
a step after which `main` does not go on (`Stop`), which a build with `NDEBUG` would
not have.  `BootPads` are the pads from which the chip's boot ROM reads this program;
the code's own list of them (`FlashRoutes`) is compared with it.  The times that
`PhyLeavesReset` asks for are those that `main_enet.c:446` quotes from the data sheet
of the RT1170's PHY.  For the RT1060's the repository quotes none, and the code's own
wait is taken, so that there the property only says that nothing moves into it.  A cache is one of seven states, of which `lost` and `stale` are
those the properties forbid.  What caches, protection and pads do is the chip's
and marked external.

### RandomBytes, BoardI2c, I2cSteps, I2cRT1060, I2cRT1170, OneBoard, Devices

Both are used on one board and run in turn with each other: `Devices` composes them.
`I2cRT1060` and `I2cRT1170` hold each `BOARD_*_I2C_*` function as its sequence of
driver calls; `BoardI2c` lets them be called in any order, each transfer failing or
not, and a device that was written to may point anywhere afterwards.  One task
uses a bus, as the functions have no lock.  They are not in the build (the line
with `SDK_I2C_BASED_COMPONENT_USED` is commented out, `armgcc/CMakeLists.txt:646`) and
nothing calls them.  `RandomBytes` has one action per driver call of
`aknano_cli_gen_random_bytes` and `initRandom`; `filled` says how much of the
caller's buffer, or of what lies behind it, is random.

## 3. Runs

| Run | Question | Bounds | Why enough |
|---|---|---|---|
| Slots | is the device safe in every interleaving of calls, errors the calls tolerate and power cuts, under both policies; does a confirmation last, and does the device come back? | 3 versions, 2 cuts | a cut in the application and one in the bootloader's recovery from it; versions for an upgrade, a downgrade and the same again |
| SlotsHeaderError, SlotsTrailerError | what single errors inside `boot_swap_ok` do | no cuts | one error is enough for a violation |
| SlotsStaged | is a marked image reported as such? | no cuts | |
| FlashRead | every read, of all three readers | addresses 0-15, lengths 0-24, 4 alignments, page 16, buffer 8, busy twice | reads that cross two page ends, several chunks of a page, each with a remainder of 0-3 |
| VerifyImage | every prefix of an image | in half words: header 16 or 22, body 2, 24, 60, protected 0, 1, 8, TLVs 6 | images shorter and longer than the sums of an erased and of a torn header; protected TLVs shorter than their own header |
| SntpTime | wait, callback and calls interleaved | start of the network up to 2 s, 25 s in all, ticks start again after 16 s | longest wait is 20.5 s; the ticks start again during the wait or after it |
| SntpEpoch | what the variable holds | same | |
| Startup | progress of the tasks; besides, whether the calls of each board meet the conditions of `CallOrder` | two settings besides the first; every board, every start | a task compares only for equality |
| Bringup | every state between two calls of `main` before the scheduler | none: five boards and variants, every state a loader is taken to leave, cold and warm | the program is finite |
| Devices | I2C functions in any order beside random numbers | registers 1 and 2, 32 bytes asked for | a wrong register needs a second one; the RT1060 treats every number alike |
| RandomCaam | does success mean the bytes that were asked for, on the RT1170 too? | 8, 16 or 32 bytes asked for | less than, as much as and more than the 16 that are always written |

`SlotsHeaderError`, `SlotsTrailerError`, `SlotsStaged`, `SntpEpoch` and `RandomCaam` are
expected to be violated: they are the findings of section 6.

`CHECK_DEADLOCK FALSE` is set for FlashRead, VerifyImage and Bringup only: a call
that returned, or `main` when it starts the scheduler, has no next step.

### Fairness

* **ImageSlots**: weak fairness of the bootloader's steps and of the flash
  operations of a call that was entered, since neither waits for anything.
  The agent, resets and cuts are not fair.
* **FlashRead**: weak fairness of the call.
* **SntpTime**: time passes and the daemon task runs; an answer need not come.
* **Startup**: strong fairness of each task, lwIP's (`TcpipServe`) included, and of the end of each delay.  Weak
  fairness would not do: a lower task is disabled each time a higher one wakes.
  It is justified as the higher tasks sleep for far longer than they work
  (milliseconds of work, seconds of delay), so that a lower task gets time
  again and again.  For the same reason the two tasks of the top priority are
  not woken while the other runs.  Cable and DHCP are not fair; `AgentComesUp` has
  them as premises.

## 4. Proofs

| Theorem | Property | Assumes |
|---|---|---|
| `SlotsInvariant` | `SlotsInv` | `TrailerOpsReliable` |
| `TypeCorrect` | `TypeOK` | same |
| `AlwaysBootable` | `NeverBricked` | same |
| `NothingConfirmedUntested` | `ConfirmedWasTested` | same |
| `StateIsTruthful` | `TestingMeansRevert` | same |
| `RunningImageStays` | `RunningImageKept` | same |
| `PromiseImplemented` | `PromiseKept` (refinement) | same |
| `StandsInvariant` | the invariant behind the next | `SwapOkReliable` |
| `ConfirmationStays` | `ConfirmedStays` | same |
| `VerifyInvariant` | the inductive invariant | |
| `OnlyWholeAccepted` | `AcceptedIsWritten` | |
| `EveryWholeAccepted` | `WholeIsAccepted` | |
| `EpochInvariant` | the inductive invariant | |
| `SyncedTimeKept` | `SyncKept` | |
| `TimeGoesForward` | `TimeForward` | |
| `StartupWaitBounded` | `WaitBounded` | |
| `AheadByTheWait` | how wrong `boot_up_epoch` can be | |
| `NetworkFirst` | agent and MQTT come after the network | |
| `FlashInvariant` | the inductive invariant | |
| `EveryReadIsRight` | `ReadsRight` | |
| `BufferOnly` | `NothingOutside` | |
| `DriverAsItTakes` | `DriverLimits` | |
| `LoopsEnd` | the loops of a read come to an end | |
| `SuccessIsRandom` | `RandomOnSuccess` | |
| `ReadsAsked` | `ReadsWhatItAsked` | |
| `SclBounded` | `SclWithin` | |
| `PinsRouted` | `RoutedBeforeUse` | the order of calls: `CallOrder` |
| `TypeCorrect` of BringupProofs | `TypeOK` | same |
| `GatesBeforeDividers` | `ChangedWhileOff` | same |
| `NothingLost` | `MemoryKept` | same |
| `MemoryFits` | `MemoryAsLinked` | same |
| `EveryAddressFits` | the same at every address of a section | same |
| `FlashUndisturbed` | `FlashClockKept` | same |
| `UnitsToldRight` | `UnitsKeepRate` | same |
| `ClocksInUseRun` | `InUseRuns` | same |
| `SpeedIsLimited` | `NeverTooFast` | same |
| `PhyResetRight` | `PhyLeavesReset` | same |
| `TypeCorrect` of FlashReadProofs, VerifyImageProofs, SntpTimeProofs, StartupProofs | `TypeOK` | |

Every invariant and every action property that a passing run checks is stated by one
of them, but for `AsDeclared`: that the calls of these boards end at the frequencies
in `clock_config.h` is a matter of these numbers, and the run computes it.

They hold for every set of versions, both policies of the bootloader, any number
of power cuts, images, slots, pages and buffers of any size, any width of the tick count, any address and length of a read, any registers of a device, any board whose calls
are in order.  `FlashReadProofs` and `SntpTimeProofs` use the named assumptions on
constants in those modules, and nothing else.

**ImageSlots.** `NeverBricked` is not inductive: a marked slot that was never tried
can be started, but only once, and two of those would leave nothing to revert
to.  `SlotsInv` says that some slot is *confirmed*, and for each `pc` what the
running slot's trailer is and how far the agent is with the other slot; the
agent may only hold a partition while the running slot is confirmed.  The
proof has one lemma per action.  `TrailerOpsReliable` says that the erase and the program
of the running slot's trailer do not *return an error* (power may still fail in
them): with such an error the invariant does not hold, as finding 2 shows.

**Confirmation** (end of `ImageSlotsProofs`).  A confirmation that was reported is the
running slot's; the invariant says why the next reset starts that slot again: the
other one cannot be started, or it is not pending and its version comes after.
The hard case is the early return of `boot_swap_ok` for an image that is confirmed
already, which reports without looking at the other slot.  It is right as a
confirmed image only ever runs because it is the newer one, unless the other was
written since, and then that one is pending and the report promises nothing
(`RunsForReason`).  `SwapOkReliable` adds to `TrailerOpsReliable` that the erase of the
other slot's header does not return an error; without it the theorem is false
(finding 1).  Power may fail anywhere.

**VerifyImage.** The invariant says what is known of the header and of `decl_size`
at each step.  The crux is a header that was written in part.  If its image size
still reads as all ones, the sum wraps to one less than the other two
sizes together.  Those have 16 bits, and twice the largest of them is less than
a slot (`WidthAssumption`): the trailing TLV is then read inside the slot, behind
what was written, where flash is erased and no TLV.  With the lower half of the size
written the sum may wrap too, but all there is to be read is erased flash and a part
of the header, in which no field is a TLV's magic.

**FlashRead.** The invariant of the three nested loops.  Between two steps every
byte of the buffer before the place the loops have reached is right (`Right`), the
page's address, length and destination agree with the arguments (`Offset`,
`Placed`), and inside a page the wrapper's own three move together and stay in the
page (`Segment`, `AtHead`, `AtChunk`).  The first segment of a page may be shorter
than the rest of its word: the pointers then move on by the whole rest, past what
was copied, but nothing is left to read.  The remainders and word alignments are
lemmas about division, the rest is linear.  `Left` bounds the number
of steps that are still to be made, and `LoopsEnd` shows that every step makes it
smaller: with the fairness of the run this is `ReadEnds`.  That the flash is busy only
`MaxBusy` times is an assumption of the model; the code would wait for ever.

**SntpTime.** The invariant follows `boot_up_epoch` from 0 to an answer or the
default, and says that the agent is not created before the wait is over.  For
`TimeForward` it keeps that the time last given is no later than the present
`boot_up_epoch` plus the ticks it was made with (`last`), so that only a tick count
below those can take it back.
`AheadByTheWait` is the other side of finding 4: an answer that `SNTPRequest` waited
for makes `boot_up_epoch` too late by no more than the time until the network was up
and the 20 seconds of the wait.  Without such an answer there is no bound.

**Startup.** One lemma per task for the types.  For `NetworkFirst`, `OrderInv` says how
far the startup hook must be for what the other tasks do: an address for the steps
after `initNetwork`, a hook at its end for an agent, an agent that runs for MQTT.

**Devices.** For random numbers, that on the RT1060 no call reaches the generator's
data unless it has started; of the RT1170 `RandomOnSuccess` says nothing, as
`EveryByteRandom` is false there.  For the I2C devices the functions are data, sequences of
driver calls; `DevicesProofs` first says of each of them which steps it has, and then
keeps for each bus what is left of its call.  Between the two transfers of the
camera's protocol the device points to the register that was asked for: a transfer
that fails ends the call, so that what it left the device pointing to is written
over before the next read.  For `SclWithin`, the camera's `Init` sets the divider that the
RT1060's other devices count on before it starts the bus, and no bus of the RT1170
is ever told less than it runs at (`Clocked`).

**Bringup.** The calls of a board are a constant, so that each property could be
checked by running them, and the run does that for five boards.  The theorems say
what it is about a sequence that makes a property true, for somebody who adds a board
or moves a call.  `CallOrder` states that without states, as conditions on which call
comes before which; `BringupProofs` shows for *every* board which meets them that
the property holds in every state, whatever state the loader left, and through the
blocks that are skipped where a cache is off and the steps in which a PLL is stopped.

| Condition | Says | Theorem |
|---|---|---|
| `CallsTyped` | arguments fit their registers; a skipped block is about one cache | `TypeCorrect` and all others |
| `GatesFirst` | a gate is closed before the source or divider behind it is set | `GatesBeforeDividers` |
| `PinsInOrder` | the pads' registers are clocked, then pads are routed, then pins driven and units started | `PinsRouted` |
| `CachesInOrder` | off, written back, emptied (in any case, not only where it was on), and on again; regions and protection change in between | `NothingLost` |
| `MemoryInOrder` | when protection is switched on, the regions written last allow each section its use | `MemoryFits`, `EveryAddressFits` |
| `Tree` | the clocks have no cycle, whatever their multiplexers are set to | all of ClockTreeProofs |
| `FlashLeft` | nothing behind the flash is set, or a PLL only to what it is and by a driver that then does nothing | `FlashUndisturbed` |
| `UnitsLeft`, `ConsoleLeft` | nothing behind a unit's clock is set after its start; the console's dividers are what `BOARD_DebugConsoleSrcFreq` takes them for | `UnitsToldRight` |
| `Traces` | what `Trace` has for each place is what the calls before it wrote | the next four |
| `ClocksRun` | with these registers no clock in use stands still, nor with the PLL stopped that the next call sets | `ClocksInUseRun` |
| `SpeedLimited` | with these registers nothing is too fast for its bound, nor for any voltage the core may have | `SpeedIsLimited` |
| `PhyInOrder` | a long enough delay after the last change of the PHY's reset; straps, direction and reference clock are set by then | `PhyResetRight` |

Each is an `ASSUME` that TLC evaluates on the boards of the repository.  It does so in
the run Startup and not in Bringup because they depend on no state, and because
a call that is moved should be found in Bringup by the property that it breaks.
`Behind` gives for each clock those it may get its frequency from; `MCBehind`
computes it, and the condition `Tree` says all that is used of it.  `Trace` is a
certificate of the same kind: for each start and each place in the sequence, the clock
registers, the gates and the voltages that the core may have.  `Replay` in `MCStartup`
computes it, and `Traces` says all that is used of it.

The conditions from `Traces` on are of another kind than those above.  They are about
the numbers in the calls, and say of the calls run one after the other, without
anything in between, nearly what the property says of every state.  What the proofs
add is all that the straight line leaves out: blocks that are skipped where a cache
is off, a PLL that stands still while it is changed, the regulator that gets there at
any time after it was asked, or is waited for, and memory and caches that the loader
left as they were.  Two parts of that are more than bookkeeping.  A PLL that is
stopped is not in the trace of `SpeedLimited`; that no *other* clock becomes faster
by it is proved (`StoppingSlows`: the frequency is a quotient of the one before it at
every step of the tree, and that of a stopped clock is 0).  And the voltage is a set
in the trace: the old value and each that was asked for since the regulator was last
waited for, which is why the code must wait before it raises the speed.

The invariants say what has been done by the calls that lie behind (`PadsMuxed`,
`GatesClosed`, `CacheRight`, ...): a cache, for instance, is empty if it was emptied
while it was off and has not been switched on since, and may be anything the
loader leaves if no call was made on it.  `FlashUndisturbed` and `UnitsToldRight` need
that the frequency of a clock depends on nothing but the registers behind it.
`Frequencies` is recursive, so that this is an induction over the tree, and so is that
`Frequency` is defined at all (`SolutionExists`).  Induction as a rule takes an operator
and is out of the prover's reach; both are proved from the least number
of a set that would be empty otherwise (`LeastNumber`), the first at the clock with
the fewest others behind it.

`EveryAddressFits` came with a correction of the model: two addresses with the same
regions can differ in the core's default map, whose borders were not among the
addresses that `MemoryAsLinked` looked at.  They are now (`Edges`), and between two
edges nothing changes (`EdgesSuffice`).

**Only model-checked** are the six liveness properties: `DeviceComesBack`,
`ReadEnds`, `InitTimeReturns`, `ButtonPolled`, `SettingTaken`, `AgentComesUp`.  The
prover handles neither ENABLED nor the induction on a measure that fairness needs.
What of them is about single steps is proved: `LoopsEnd` for `ReadEnds`, `WaitBounded`
for `InitTimeReturns`, `NeverBricked` for `DeviceComesBack`.  Whether what a theorem of
BringupProofs or ClockTreeProofs assumes is true of the boards there are is
evaluated by TLC and not proved.

## 5. Not modelled

* The insides of the bootloader, of the agent and of the libraries; signatures
  (an image that is not whole is not bootable, which is what the signature is
  for); wear and bit errors of the flash.
* `boot_swap_perm`, which nothing calls; the branches of builds without remap.
* Numbers that come from the server: Startup assumes positive intervals.
* In the clock trees: the two clock outputs, which are switched off, LDOs, body bias,
  and the variant of the file for the RT1170's second core, which the build does
  not make: nothing here reads or depends on them.
* The variant of `main` for the RT1170's 100M port, which calls functions that the
  repository does not have (`main_enet.c:437`); slew rates and drive strengths.
* `bl_get_image_build_num`, a single read through the memory map.
* The DCD tables, which are register values without a decision and outside the
  build; the headers that configure TLS, MQTT, PKCS 11 and a FreeRTOS+TCP that is
  not used; the scripts that build, sign and publish.

## 6. Findings

1. `boot_swap_ok` that fails in its last step, the erase of the other slot's
   header, reports success when it is called again, without the erase
   (`mcuboot_app_support.c:323`).  A downgrade confirmed in this way is undone by
   the next reset.  Run SlotsHeaderError.
2. When the program of the trailer fails after its erase
   (`mcuboot_app_support.c:342`), the running image is on trial without
   `bl_get_image_state` saying so.  Run SlotsTrailerError.
3. With remap, `kSwapType_ReadyForTest` is never reported
   (`mcuboot_app_support.c:568`), though the header and
   `bl_get_update_partition_info` rely on it.  Run SlotsStaged.
4. `boot_up_epoch` is the time of the answer and not of boot, so that the time
   from boot to the answer is counted twice (`aknano_client.c:124`).  Run SntpEpoch.
5. On the RT1170 `aknano_cli_gen_random_bytes` reports success whatever happens
   (`aknano_client.c:105`): the answers of `CAAM_Init` and of the generator are not looked
   at, and 16 bytes are written whether the caller asked for fewer or for more.
   Run RandomCaam.

## 7. Seen in the code, and not shown by a run

Nothing in the repository says what should happen in these cases, or it is decided
outside it.  No property calls them wrong; some properties name them as exceptions.

* The device's time goes back by 49.7 days when the tick count starts again
  (`aknano_client.c:181`).  `TimeForward` has it as its only exception.
* An SNTP answer that comes after the whole wait, while the agent's first call is
  between its test of `boot_up_epoch` and the default, is overwritten, and the client
  is stopped by then: the default stays until the next start (`aknano_client.c:178`).
  `SyncKept` has it as its only exception.
* On the RT1060 the clocks behind the USB1 PLL's fractional dividers are not what
  `clock_config.h` says, as the code leaves them to the loader
  (`board_rt1060/clock_config.c:403`).  `Declared` leaves them out.
* On the RT1170 the flash keeps its clock only if the loader set PLL 3 and its fraction
  to what the code sets (`board_rt1170/clock_config.c:408`).  `Starts` has no other loader.
* A failed `Iot_CreateDetachedThread` leaves a device without an agent, and nothing says
  so (`main_enet.c:378`).  `AgentComesUp` is about runs without errors.
* Before the first `BOARD_Camera_I2C_Init` the accelerometer's and the codec's functions
  run the RT1060's bus undivided (`board_rt1060/board.c:164`).  `SclWithin` begins with the
  camera; nothing calls these functions.
* A slot whose old bytes were not erased before a download that is then cut could
  read as an image made of both; the agent erases, outside the repository.
* `sfw_flash_read_ipc` waits for a flash that is not busy without a limit
  (`flexspi_nor_flash_ops.c`).  `MaxBusy` is the model's.
* In `FlashRead` one value stands for memory nobody wrote and for what an earlier read
  left in `tmp_buf`: both are just not the byte that was asked for.

## 8. What could follow

1. **Update**: a composition of ImageSlots with VerifyImage and FlashRead, in which
   the image that is verified is read by the detailed reads from the slot that
   the agent writes.  Today the three agree by their interfaces: `VerifyImage` of
   ImageSlots accepts more than the module of that name does, and that one reads
   what `EveryReadIsRight` says a read returns.
2. **Startup**: the invariants behind `SettingTaken`.
3. **Bringup**: conditions for `InUseRuns` and `NeverTooFast` that need no replay, of
   order alone (the core is on the crystal while a PLL behind it is set; the voltage
   is asked for, then waited for, then the divider set).
4. **Publish**: `build_sign_publish.sh` step by step, with each failing.
