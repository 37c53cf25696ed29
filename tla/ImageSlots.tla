----------------------------- MODULE ImageSlots -----------------------------
(***************************************************************************)
(* The two image slots of the flash and the over-the-air update calls of   *)
(* mcuboot_app_support.c, in the build the repository makes: flash remap   *)
(* and downgrade support enabled.                                          *)
(*                                                                         *)
(* Persistent state: the image and the trailer of each slot.  The remap    *)
(* register is set by the bootloader on every start.  The bootloader and   *)
(* the update agent are libraries outside the repository; they are         *)
(* modelled from how the code here uses them.  A reset loses what is in    *)
(* RAM; a power cut may also tear the flash operation in flight.           *)
(***************************************************************************)
EXTENDS Naturals, FiniteSets

CONSTANTS
    Versions,       \* build numbers an image can carry
    Policies,       \* what the bootloader may prefer: a marked image first, the version
    Failing,        \* the flash operations that may return an error
    MaxCuts         \* bound: power cuts in one behaviour

Slots == {"primary", "secondary"}
NoSlot == "none"
FlashOps == {"read", "test_erase", "test_program", "ok_erase", "ok_program", "ok_header"}

ASSUME VersionsAssumption == Versions \subseteq Nat \ {0} /\ Versions # {}
ASSUME PolicyAssumption == Policies \subseteq {"pending", "version"} /\ Policies # {}
ASSUME FailingAssumption == Failing \subseteq FlashOps
ASSUME CutsAssumption == MaxCuts \in Nat

VARIABLES
    image,      \* slot -> version in the header, and how much of the image is there
    trailer,    \* slot -> struct image_trailer
    remap,      \* the FlexSPI remap offset, in slots
    pc,         \* what the core executes
    ptn,        \* the partition_t the agent holds
    stage,      \* how far the agent is with an update
    status,     \* what the last bl_ call returned
    proven,     \* history: slots whose present image has been confirmed
    accepted,   \* history: slot whose confirmation was reported successful
    cuts        \* power cuts so far

flash == <<image, trailer>>
agent == <<ptn, stage>>
history == <<proven, accepted>>
vars == <<image, trailer, remap, pc, ptn, stage, status, proven, accepted, cuts>>

-----------------------------------------------------------------------------
(* Data                                                                    *)

(* The states of the header's interface, in which kSwapType_Max ends the   *)
(* list and is none; those an update can be given.                         *)
SwapTypes == {"None", "ReadyForTest", "Testing", "Permanent", "Fail", "Fatal"}
Updates == {"ReadyForTest", "Permanent"}

Flags == {"unset", "set", "bad"}
Trailer == [magic : Flags, copy_done : Flags, image_ok : Flags]
Erased == [magic |-> "unset", copy_done |-> "unset", image_ok |-> "unset"]
MarkedPermanent == [Erased EXCEPT !.magic = "set", !.image_ok = "set"]  \* mutant of Marked
Marked == [Erased EXCEPT !.magic = "set"]
Confirmed == [magic |-> "set", copy_done |-> "set", image_ok |-> "set"]

NoImage == [ver |-> 0, body |-> "blank"]
Image == [ver : Versions, body : {"partial", "whole"}] \cup {NoImage}

Other(s) == IF s = "primary" THEN "secondary" ELSE "primary"

(* What an interrupted or failed erase or program leaves of a trailer: a   *)
(* field it was to change may have the old value, the new one or neither.  *)
(* The magic is the last field of the page and a page is programmed in     *)
(* address order, so that a whole magic comes with the whole page.         *)
Torn(old, new) ==
    {t \in Trailer :
        /\ \A f \in DOMAIN t : t[f] = old[f] \/ (old[f] # new[f] /\ t[f] \in {new[f], "bad"})
        /\ new.magic = "set" /\ t.magic = "set" => t = new}

(* A trailer whose magic reads as programmed, all of it.                   *)
boot_img_magic_check(t) == t.magic = "set"

get_active_image == IF remap > 0 THEN "secondary" ELSE "primary"
active == get_active_image

(* Mutant of ImageState: the trailer of the slot that is not running.      *)
ImageStateDormant ==
    LET t == trailer[Other(active)] IN
    IF t.magic = "set" /\ t.image_ok = "unset" /\ t.copy_done = "set" THEN "Testing" ELSE "None"

(* bl_get_image_state with flash remap: only the running slot's trailer    *)
(* decides.                                                                *)
ImageState ==
    IF /\ boot_img_magic_check(trailer[active])
       /\ trailer[active].image_ok = "unset"
       /\ trailer[active].copy_done = "set"
    THEN "Testing"
    ELSE "None"

-----------------------------------------------------------------------------
(* The bootloader's view of the slots                                      *)

Bootable(s) ==
    /\ image[s].body = "whole"
    /\ trailer[s].magic = "set"
    /\ trailer[s].copy_done = "set" => trailer[s].image_ok = "set"

Pending(s) ==
    /\ trailer[s].magic = "set"
    /\ trailer[s].copy_done # "set"
    /\ trailer[s].image_ok # "set"

Ahead(policy, s, t) ==
    IF policy = "pending" /\ (Pending(s) # Pending(t))
    THEN Pending(s)
    ELSE image[s].ver > image[t].ver \/ (image[s].ver = image[t].ver /\ s = "primary")

Best(policy, S, s) == s \in S /\ \A t \in S \ {s} : Ahead(policy, s, t)

(* The code here does not say which preference the bootloader has: it may  *)
(* be either at every selection.                                           *)
Selected(s) == \E p \in Policies : Best(p, {t \in Slots : image[t].body # "blank"}, s)

(* The slot that runs after the next reset, whatever the preference.       *)
NextBoot(s) == \A p \in Policies : Best(p, {t \in Slots : Bootable(t)}, s)

-----------------------------------------------------------------------------
Init ==
    /\ \E v \in Versions :
        image = [s \in Slots |-> IF s = "primary" THEN [ver |-> v, body |-> "whole"] ELSE NoImage]
    /\ trailer = [s \in Slots |->
                    IF s = "primary" THEN [Marked EXCEPT !.image_ok = "set"] ELSE Erased]
    /\ remap = 0
    /\ pc = "boot"
    /\ ptn = NoSlot /\ stage = "idle" /\ status = "None"
    /\ proven = {"primary"} /\ accepted = NoSlot
    /\ cuts = 0

-----------------------------------------------------------------------------
(* Resets                                                                  *)

LoseRam == ptn' = NoSlot /\ stage' = "idle" /\ status' = "None"

GoDown == pc' = "boot" /\ LoseRam /\ UNCHANGED <<remap, history>>

Cut == cuts < MaxCuts /\ cuts' = cuts + 1

(* The application resets the chip: to start an update it staged, or       *)
(* because a test image found an error at startup.                         *)
Reboot ==
    /\ pc = "run"
    /\ GoDown
    /\ UNCHANGED <<flash, cuts>>

(* Power fails while no flash operation is in flight.                      *)
PowerCut ==
    /\ pc # "boot"
    /\ Cut
    /\ GoDown
    /\ UNCHANGED flash

-----------------------------------------------------------------------------
(* The bootloader                                                          *)

(* Mutant of BootReject: a slot that cannot be started is passed over.     *)
BootRejectKeeps(s) ==
    /\ pc = "boot" /\ Selected(s) /\ ~Bootable(s)
    /\ UNCHANGED vars

(* The selected slot cannot be started: the bootloader erases it, header   *)
(* first, unless power fails before the trailer is reached.                *)
BootReject(s) ==
    /\ pc = "boot"
    /\ Selected(s)
    /\ ~Bootable(s)
    /\ image' = [image EXCEPT ![s] = NoImage]
    /\ \/ trailer' = [trailer EXCEPT ![s] = Erased] /\ UNCHANGED cuts
       \/ Cut /\ UNCHANGED trailer
    /\ UNCHANGED <<remap, pc, agent, status, history>>

(* The selected slot is started, after copy_done is set in its trailer.    *)
BootRun(s) ==
    /\ pc = "boot"
    /\ Selected(s)
    /\ Bootable(s)
    /\ trailer' = [trailer EXCEPT ![s].copy_done = "set"]
    /\ remap' = IF s = "secondary" THEN 1 ELSE 0
    /\ pc' = "run"
    /\ UNCHANGED <<image, agent, status, history, cuts>>

(* Power fails while the bootloader writes copy_done.                      *)
BootCut(s) ==
    /\ pc = "boot"
    /\ Selected(s)
    /\ Bootable(s)
    /\ trailer[s].copy_done # "set"
    /\ Cut
    /\ trailer' = [trailer EXCEPT ![s].copy_done = "bad"]
    /\ UNCHANGED <<image, remap, pc, agent, status, history>>

-----------------------------------------------------------------------------
(* The update agent                                                        *)

(* Mutants of GetUpdatePartition: without the guard on the state, and with *)
(* the slots the wrong way round.                                          *)
GetUpdatePartitionUnguarded ==
    /\ pc = "run" /\ stage \in {"idle", "staged"}
    /\ ptn' = Other(active) /\ stage' = "granted" /\ status' = "Success"
    /\ UNCHANGED <<flash, remap, pc, history, cuts>>

GetUpdatePartitionSwapped ==
    /\ pc = "run" /\ stage \in {"idle", "staged"} /\ ImageState # "Testing"
    /\ ptn' = active /\ stage' = "granted" /\ status' = "Success"
    /\ UNCHANGED <<flash, remap, pc, history, cuts>>

(* bl_get_update_partition_info.                                           *)
GetUpdatePartition ==
    /\ pc = "run"
    /\ stage \in {"idle", "staged"}
    /\ \/ /\ ImageState # "Testing"
          /\ ptn' = Other(active) /\ stage' = "granted" /\ status' = "Success"
       \/ /\ ImageState = "Testing" \/ "read" \in Failing
          /\ ptn' = NoSlot /\ stage' = "idle" /\ status' = "Fail"
    /\ UNCHANGED <<flash, remap, pc, history, cuts>>

(* The agent erases the partition from its first sector on; the header     *)
(* goes first.                                                             *)
AgentErase ==
    /\ pc = "run"
    /\ stage = "granted"
    /\ image' = [image EXCEPT ![ptn] = NoImage]
    /\ stage' = "erasing"
    /\ proven' = proven \ {ptn}
    /\ accepted' = NoSlot
    /\ UNCHANGED <<trailer, remap, pc, ptn, status, cuts>>

(* The whole partition is erased and the first block of an image written.  *)
AgentWrite(v) ==
    /\ pc = "run"
    /\ stage = "erasing"
    /\ image' = [image EXCEPT ![ptn] = [ver |-> v, body |-> "partial"]]
    /\ trailer' = [trailer EXCEPT ![ptn] = Erased]
    /\ stage' = "writing"
    /\ UNCHANGED <<remap, pc, ptn, status, history, cuts>>

AgentFinish ==
    /\ pc = "run"
    /\ stage = "writing"
    /\ \/ image' = [image EXCEPT ![ptn].body = "whole"]
       \/ UNCHANGED image
    /\ stage' = "written"
    /\ UNCHANGED <<trailer, remap, pc, ptn, status, history, cuts>>

(* The agent gives up a download.                                          *)
AgentAbandon ==
    /\ pc = "run"
    /\ stage \in {"granted", "erasing", "writing", "written"}
    /\ ptn' = NoSlot /\ stage' = "idle"
    /\ UNCHANGED <<flash, remap, pc, status, history, cuts>>

(* bl_verify_image looks at the header and the TLV magic only, so that an  *)
(* incomplete image may pass; the signature is the bootloader's to check.  *)
VerifyImage ==
    /\ pc = "run"
    /\ stage = "written"
    /\ \/ stage' = "verified" /\ UNCHANGED ptn
       \/ /\ image[ptn].body # "whole" \/ "read" \in Failing
          /\ stage' = "idle" /\ ptn' = NoSlot
    /\ UNCHANGED <<flash, remap, pc, status, history, cuts>>

-----------------------------------------------------------------------------
(* bl_update_image_state                                                   *)

(* One erase or program of a trailer: it succeeds, it fails and the call   *)
(* returns the error, or power fails during it.                            *)
FlashTrailer(op, s, new, Done) ==
    /\ pc = op
    /\ \/ /\ trailer' = [trailer EXCEPT ![s] = new]
          /\ Done
          /\ UNCHANGED <<remap, ptn, history, cuts>>
       \/ /\ op \in Failing
          /\ \E t \in Torn(trailer[s], new) : trailer' = [trailer EXCEPT ![s] = t]
          /\ pc' = "run" /\ status' = "FlashError"
          /\ UNCHANGED <<remap, agent, history, cuts>>
       \/ /\ Cut
          /\ \E t \in Torn(trailer[s], new) : trailer' = [trailer EXCEPT ![s] = t]
          /\ GoDown
    /\ UNCHANGED image

Continue(next) == pc' = next /\ UNCHANGED <<stage, status>>

(* boot_swap_test marks the slot that is not running: erase the sector of  *)
(* its trailer, program the trailer page.  The agent calls it for the      *)
(* partition it was given, written and verified.                           *)
BootSwapTestCall ==
    /\ pc = "run"
    /\ stage = "verified"
    /\ pc' = "test_erase"
    /\ UNCHANGED <<flash, remap, agent, status, history, cuts>>

BootSwapTestEraseSwapped ==  \* mutant of BootSwapTestErase
    FlashTrailer("test_erase", active, Erased, Continue("test_program"))

BootSwapTestErase ==
    FlashTrailer("test_erase", Other(active), Erased, Continue("test_program"))

BootSwapTestProgram ==
    FlashTrailer("test_program", Other(active), Marked,
        pc' = "run" /\ stage' = "staged" /\ status' = "Success")

(* boot_swap_ok up to its first flash operation, with its early returns.   *)
BootSwapOkCall ==
    LET t == trailer[active] IN
    /\ pc = "run"
    /\ \/ /\ "read" \in Failing
          /\ status' = "ReadError" /\ UNCHANGED <<pc, history>>
       \/ /\ ~boot_img_magic_check(t) \/ t.copy_done # "set"
          /\ status' = "NoData" /\ UNCHANGED <<pc, history>>
       \/ /\ boot_img_magic_check(t) /\ t.copy_done = "set" /\ t.image_ok = "set"
          /\ status' = "Success" /\ UNCHANGED <<pc, proven>>
          /\ accepted' = IF stage = "idle" /\ ~Pending(Other(active)) THEN active ELSE accepted
       \/ /\ boot_img_magic_check(t) /\ t.copy_done = "set" /\ t.image_ok # "set"
          /\ pc' = "ok_erase" /\ UNCHANGED <<status, accepted>>
          /\ proven' = proven \cup {active}
    /\ UNCHANGED <<flash, remap, agent, cuts>>

BootSwapOkErase ==
    FlashTrailer("ok_erase", active, Erased, Continue("ok_program"))

BootSwapOkProgramLast ==  \* mutant of BootSwapOkProgram: no header is erased
    FlashTrailer("ok_program", active, Confirmed, pc' = "run" /\ status' = "Success" /\ UNCHANGED stage)

BootSwapOkProgram ==
    FlashTrailer("ok_program", active, Confirmed, Continue("ok_header"))

(* Downgrade support: erase the first sector, with the image header, of    *)
(* the slot that is not running.                                           *)
BootSwapOkHeader ==
    LET blank == [image EXCEPT ![Other(active)] = NoImage] IN
    /\ pc = "ok_header"
    /\ \/ /\ image' = blank
          /\ pc' = "run" /\ status' = "Success" /\ accepted' = active
          /\ UNCHANGED <<remap, agent, proven, cuts>>
       \/ /\ "ok_header" \in Failing
          /\ image' \in {image, blank}
          /\ pc' = "run" /\ status' = "FlashError"
          /\ UNCHANGED <<remap, agent, history, cuts>>
       \/ /\ Cut
          /\ image' \in {image, blank}
          /\ GoDown
    /\ UNCHANGED trailer

(* Mutant of UpdateStateInvalid: no default case, the result is not set.   *)
UpdateStateUnset ==
    /\ pc = "run"
    /\ \E state \in SwapTypes : state \notin Updates /\ status' = "uninitialized"
    /\ UNCHANGED <<flash, remap, pc, agent, history, cuts>>

(* bl_update_image_state with a state that is neither ReadyForTest nor     *)
(* Permanent.                                                              *)
UpdateStateInvalid ==
    /\ pc = "run"
    /\ \E state \in SwapTypes : state \notin Updates /\ status' = "InvalidArgument"
    /\ UNCHANGED <<flash, remap, pc, agent, history, cuts>>

bl_update_image_state ==
    \/ BootSwapTestCall \/ BootSwapTestErase \/ BootSwapTestProgram
    \/ BootSwapOkCall \/ BootSwapOkErase \/ BootSwapOkProgram \/ BootSwapOkHeader
    \/ UpdateStateInvalid

-----------------------------------------------------------------------------
Bootloader == \E s \in Slots : BootReject(s) \/ BootRun(s) \/ BootCut(s)

Agent ==
    \/ GetUpdatePartition \/ AgentErase \/ (\E v \in Versions : AgentWrite(v))
    \/ AgentFinish \/ AgentAbandon \/ VerifyImage

Next == Reboot \/ PowerCut \/ Bootloader \/ Agent \/ bl_update_image_state

Spec == Init /\ [][Next]_vars

(* The bootloader runs to its end, and a call that was entered returns:    *)
(* nothing in them waits.  The agent, resets and power cuts are not fair.  *)
BootStep == \E s \in Slots : BootReject(s) \/ BootRun(s)
CallStep ==
    \/ BootSwapTestErase \/ BootSwapTestProgram
    \/ BootSwapOkErase \/ BootSwapOkProgram \/ BootSwapOkHeader
Fairness == WF_vars(BootStep) /\ WF_vars(CallStep)
FairSpec == Spec /\ Fairness

-----------------------------------------------------------------------------
(* Properties                                                              *)

TypeOK ==
    /\ image \in [Slots -> Image]
    /\ trailer \in [Slots -> Trailer]
    /\ remap \in {0, 1}
    /\ pc \in {"boot", "run"} \cup (FlashOps \ {"read"})
    /\ ptn \in Slots \cup {NoSlot}
    /\ stage \in {"idle", "granted", "erasing", "writing", "written", "verified", "staged"}
    /\ status \in {"None", "Success", "Fail", "ReadError", "FlashError", "NoData",
                   "InvalidArgument"}
    /\ proven \in SUBSET Slots
    /\ accepted \in Slots \cup {NoSlot}
    /\ cuts \in 0..MaxCuts

(* A slot whose image and trailer say confirmed.                           *)
ConfirmedSlot(s) ==
    /\ image[s].body = "whole"
    /\ trailer[s].magic = "set"
    /\ trailer[s].image_ok = "set"

(* What the running image's trailer is at each step of the code.           *)
RunningTrailer ==
    /\ pc # "boot" => image[active].body = "whole"
    /\ pc \in {"run", "test_erase", "test_program", "ok_erase"} =>
        trailer[active].magic = "set" /\ trailer[active].copy_done = "set"
    /\ pc = "ok_erase" => trailer[active].image_ok = "unset"
    /\ pc = "ok_program" => trailer[active] = Erased
    /\ pc = "ok_header" => trailer[active] = Confirmed

(* Where the agent is, and what it has made of the partition it holds.     *)
AgentPosition ==
    /\ pc \in {"test_erase", "test_program"} => stage = "verified"
    /\ pc \notin {"run", "test_erase", "test_program"} => stage = "idle"
    /\ stage # "idle" => ConfirmedSlot(active) /\ ptn = Other(active)
    /\ stage = "writing" => image[ptn].body = "partial"
    /\ stage \in {"writing", "written", "verified"} => trailer[ptn].image_ok = "unset"

(* The inductive invariant: there is always a slot that is confirmed, not  *)
(* only one that can be started.  A marked slot can be started too, but    *)
(* only once, and two marked slots would leave nothing to revert to.       *)
SlotsInv ==
    /\ TypeOK
    /\ \E s \in Slots : ConfirmedSlot(s)
    /\ \A s \in Slots : trailer[s].magic = "set" => trailer[s].image_ok # "bad"
    /\ \A s \in Slots : ConfirmedSlot(s) => s \in proven
    /\ pc \in {"ok_erase", "ok_program"} => active \in proven
    /\ RunningTrailer
    /\ AgentPosition

(* An error in the middle of boot_swap_ok is not survived in every case    *)
(* (see TestingMeansRevert): the theorems assume that its erase and its    *)
(* program of the trailer, when power lasts, do what they are asked to.    *)
TrailerOpsReliable == "ok_erase" \notin Failing /\ "ok_program" \notin Failing

(* At every instant, and so after a reset at any instant, the bootloader   *)
(* finds an image it can start: the order of erases and programs in        *)
(* boot_swap_test and boot_swap_ok, and the test-state guard of            *)
(* bl_get_update_partition_info, never leave both slots unbootable.        *)
NeverBricked == \E s \in Slots : Bootable(s)

(* An image the bootloader takes for confirmed is one that boot_swap_ok    *)
(* was called for while it ran: no interrupted write, and no mark left     *)
(* over from the image that was in the slot before, confirms an image.     *)
ConfirmedWasTested ==
    \A s \in Slots : Bootable(s) /\ trailer[s].image_ok = "set" => s \in proven

(* bl_get_image_state answers Testing exactly when a reset would revert    *)
(* the running image.                                                      *)
TestingMeansRevert ==
    pc = "run" => (ImageState = "Testing" <=> ~Bootable(active))

(* Once bl_update_image_state(Permanent) has reported success, and until   *)
(* the agent touches a slot again, every reset starts the confirmed image. *)
ConfirmedStays ==
    accepted # NoSlot => NextBoot(accepted)

(* No call changes the image that is executing, in place under the         *)
(* processor that runs it from flash.                                      *)
RunningImageKept ==
    [][pc # "boot" => image'[active] = image[active]]_vars

(* After any power cut an application runs again.                          *)
DeviceComesBack == (pc = "boot") ~> (pc = "run")

(* Once bl_update_image_state(ReadyForTest) has succeeded,                 *)
(* bl_get_image_state reports ReadyForTest, as the enumeration in          *)
(* mcuboot_app_support.h says, and bl_get_update_partition_info refuses    *)
(* to have the marked image overwritten.                                   *)
StagedIsReported ==
    pc = "run" /\ stage = "staged" => ImageState = "ReadyForTest"

(* What the slots promise, of which every step of this module is a step or *)
(* a stutter: see BootPromise.                                             *)
Safe == {s \in Slots : Bootable(s)}

Promise == INSTANCE BootPromise WITH safe <- Safe, running <- active, up <- pc # "boot"

PromiseKept == Promise!Spec
=============================================================================
