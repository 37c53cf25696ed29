-------------------------- MODULE ImageSlotsProofs --------------------------
(***************************************************************************)
(* Theorems about ImageSlots, for every set of versions, both policies of  *)
(* the bootloader, every bound on power cuts and every set of operations   *)
(* that may fail other than the two that rewrite the running image's       *)
(* trailer.  SlotsInv is the inductive invariant; each action is a lemma.  *)
(* StandsInv, further down, adds why a confirmation stands.                *)
(***************************************************************************)
EXTENDS ImageSlots, TLAPS

USE VersionsAssumption, PolicyAssumption, FailingAssumption, CutsAssumption

-----------------------------------------------------------------------------
(* Slots and trailers                                                      *)

(* The two slots are different and each is the other's other.              *)
LEMMA OtherSlot ==
    ASSUME NEW s \in Slots
    PROVE  /\ Other(s) \in Slots /\ Other(s) # s /\ Other(Other(s)) = s
           /\ \A t \in Slots : t = s \/ t = Other(s)
  BY DEF Slots, Other

(* get_active_image is a slot.                                             *)
LEMMA ActiveSlot == active \in Slots
  BY DEF active, get_active_image, Slots

(* The trailers the code writes are trailers.                              *)
LEMMA WrittenTrailers ==
    /\ Erased \in Trailer /\ Marked \in Trailer /\ Confirmed \in Trailer
    /\ Erased.magic = "unset" /\ Erased.image_ok = "unset"
    /\ Marked.magic = "set" /\ Marked.image_ok = "unset"
    /\ Confirmed.magic = "set" /\ Confirmed.image_ok = "set" /\ Confirmed.copy_done = "set"
  BY DEF Erased, Marked, Confirmed, Trailer, Flags

(* What is left of a trailer is a trailer, its image_ok is unset if it was *)
(* to be unset before and after, and it has the magic of a program only if *)
(* the program was done.                                                   *)
LEMMA TornTrailer ==
    ASSUME NEW old \in Trailer, NEW new \in Trailer, NEW t \in Torn(old, new)
    PROVE  /\ t \in Trailer
           /\ old.image_ok = "unset" /\ new.image_ok = "unset" => t.image_ok = "unset"
           /\ new.magic = "set" /\ t.magic = "set" => t = new
  <1>1. t \in Trailer
    BY DEF Torn
  <1>2. "image_ok" \in DOMAIN t
    BY <1>1 DEF Trailer
  <1>3. QED
    BY <1>1, <1>2 DEF Torn

-----------------------------------------------------------------------------
(* The initial states                                                      *)

(* A device flashed as README.md says: one confirmed image, in the first   *)
(* slot.                                                                   *)
LEMMA InitSlotsInv == Init => SlotsInv
  <1> SUFFICES ASSUME Init PROVE SlotsInv
    OBVIOUS
  <1>1. PICK v \in Versions :
          image = [s \in Slots |->
                     IF s = "primary" THEN [ver |-> v, body |-> "whole"] ELSE NoImage]
    BY DEF Init
  <1>2. TypeOK
    <2>1. image \in [Slots -> Image]
      BY <1>1 DEF Image
    <2>2. trailer \in [Slots -> Trailer]
      BY WrittenTrailers DEF Init, Trailer, Flags, Marked, Erased
    <2>3. QED
      BY <2>1, <2>2 DEF Init, TypeOK, Slots, FlashOps, NoSlot
  <1>3. ConfirmedSlot("primary") /\ ~ConfirmedSlot("secondary")
    BY <1>1 DEF Init, ConfirmedSlot, NoImage, Marked, Erased, Slots
  <1>4. \A s \in Slots : trailer[s].image_ok # "bad"
    BY DEF Init, Marked, Erased, Slots
  <1>5. RunningTrailer /\ AgentPosition
    BY DEF Init, RunningTrailer, AgentPosition
  <1>6. QED
    BY <1>2, <1>3, <1>4, <1>5 DEF SlotsInv, Init, Slots

-----------------------------------------------------------------------------
(* Steps that leave the flash alone                                        *)

(* While the flash, the remap register and the history of proven slots     *)
(* stay, the invariant rests on pc, the agent and the other variables.     *)
LEMMA FlashKept ==
    ASSUME SlotsInv, UNCHANGED <<image, trailer, remap>>, TypeOK',
           proven \subseteq proven',
           pc' \in {"ok_erase", "ok_program"} => active \in proven',
           RunningTrailer', AgentPosition'
    PROVE  SlotsInv'
  BY DEF SlotsInv, ConfirmedSlot, active, get_active_image

(* A reset without a flash operation in flight loses what is in RAM only.  *)
LEMMA DownInv ==
    ASSUME SlotsInv, GoDown, UNCHANGED flash, cuts' \in 0..MaxCuts
    PROVE  SlotsInv'
  <1>1. TypeOK'
    BY DEF SlotsInv, TypeOK, GoDown, LoseRam, flash, history
  <1>2. RunningTrailer' /\ AgentPosition'
    BY DEF GoDown, LoseRam, RunningTrailer, AgentPosition
  <1>3. QED
    BY <1>1, <1>2, FlashKept DEF flash, GoDown, history

(* A power cut that may happen keeps the number of cuts within its bound.  *)
LEMMA CutBound ==
    ASSUME TypeOK, Cut
    PROVE  cuts' \in 0..MaxCuts
  BY DEF TypeOK, Cut

(* The application's reset of the chip keeps SlotsInv.                     *)
LEMMA RebootInv == SlotsInv /\ Reboot => SlotsInv'
  BY DownInv DEF Reboot, SlotsInv, TypeOK

(* A power cut between flash operations keeps SlotsInv.                    *)
LEMMA PowerCutInv == SlotsInv /\ PowerCut => SlotsInv'
  BY DownInv, CutBound DEF PowerCut, SlotsInv

(* The running image is whole and its trailer has magic and copy_done, so  *)
(* Testing, confirmed and able to start again are one question.            *)
LEMMA RunState ==
    ASSUME SlotsInv, pc = "run"
    PROVE  /\ ImageState = "Testing" <=> ~ConfirmedSlot(active)
           /\ Bootable(active) <=> ConfirmedSlot(active)
  <1>1. /\ image[active].body = "whole"
        /\ trailer[active].magic = "set" /\ trailer[active].copy_done = "set"
    BY DEF SlotsInv, RunningTrailer
  <1>2. trailer[active].image_ok \in {"set", "unset"}
    BY <1>1, ActiveSlot DEF SlotsInv, TypeOK, Trailer, Flags
  <1>3. QED
    BY <1>1, <1>2 DEF ImageState, boot_img_magic_check, ConfirmedSlot, Bootable

(* bl_get_update_partition_info keeps SlotsInv: it hands out a slot only   *)
(* while the running image is confirmed.                                   *)
LEMMA GetUpdatePartitionInv == SlotsInv /\ GetUpdatePartition => SlotsInv'
  <1> SUFFICES ASSUME SlotsInv, GetUpdatePartition PROVE SlotsInv'
    OBVIOUS
  <1>1. TypeOK'
    BY OtherSlot, ActiveSlot
    DEF SlotsInv, TypeOK, GetUpdatePartition, flash, history
  <1>2. RunningTrailer'
    BY DEF SlotsInv, GetUpdatePartition, RunningTrailer, active, get_active_image, flash
  <1>3. AgentPosition'
    BY RunState DEF SlotsInv, GetUpdatePartition, AgentPosition, active, get_active_image,
       flash, ConfirmedSlot
  <1>4. QED
    BY <1>1, <1>2, <1>3, FlashKept DEF GetUpdatePartition, flash, history, SlotsInv

(* Giving up a download keeps SlotsInv.                                    *)
LEMMA AgentAbandonInv == SlotsInv /\ AgentAbandon => SlotsInv'
  <1> SUFFICES ASSUME SlotsInv, AgentAbandon PROVE SlotsInv'
    OBVIOUS
  <1>1. TypeOK'
    BY DEF SlotsInv, TypeOK, AgentAbandon, flash, history
  <1>2. RunningTrailer' /\ AgentPosition'
    BY DEF SlotsInv, AgentAbandon, RunningTrailer, AgentPosition, active, get_active_image, flash
  <1>3. QED
    BY <1>1, <1>2, FlashKept DEF AgentAbandon, flash, history, SlotsInv

(* bl_verify_image, with any answer, keeps SlotsInv.                       *)
LEMMA VerifyImageInv == SlotsInv /\ VerifyImage => SlotsInv'
  <1> SUFFICES ASSUME SlotsInv, VerifyImage PROVE SlotsInv'
    OBVIOUS
  <1>1. TypeOK'
    BY DEF SlotsInv, TypeOK, VerifyImage, flash, history
  <1>2. RunningTrailer' /\ AgentPosition'
    BY DEF SlotsInv, VerifyImage, RunningTrailer, AgentPosition, active, get_active_image,
       flash, ConfirmedSlot
  <1>3. QED
    BY <1>1, <1>2, FlashKept DEF VerifyImage, flash, history, SlotsInv

(* Entering boot_swap_test keeps SlotsInv.                                 *)
LEMMA BootSwapTestCallInv == SlotsInv /\ BootSwapTestCall => SlotsInv'
  <1> SUFFICES ASSUME SlotsInv, BootSwapTestCall PROVE SlotsInv'
    OBVIOUS
  <1>1. TypeOK'
    BY DEF SlotsInv, TypeOK, BootSwapTestCall, flash, agent, history, FlashOps
  <1>2. RunningTrailer' /\ AgentPosition'
    BY DEF SlotsInv, BootSwapTestCall, RunningTrailer, AgentPosition, active,
       get_active_image, flash, agent, ConfirmedSlot
  <1>3. QED
    BY <1>1, <1>2, FlashKept DEF BootSwapTestCall, flash, agent, history, SlotsInv

(* bl_update_image_state with another state keeps SlotsInv.                *)
LEMMA UpdateStateInvalidInv == SlotsInv /\ UpdateStateInvalid => SlotsInv'
  <1> SUFFICES ASSUME SlotsInv, UpdateStateInvalid PROVE SlotsInv'
    OBVIOUS
  <1>1. TypeOK'
    BY DEF SlotsInv, TypeOK, UpdateStateInvalid, flash, agent, history
  <1>2. RunningTrailer' /\ AgentPosition'
    BY DEF SlotsInv, UpdateStateInvalid, RunningTrailer, AgentPosition, active,
       get_active_image, flash, agent, ConfirmedSlot
  <1>3. QED
    BY <1>1, <1>2, FlashKept DEF UpdateStateInvalid, flash, agent, history, SlotsInv

(* boot_swap_ok up to its first flash operation keeps SlotsInv, with every *)
(* early return.                                                           *)
LEMMA BootSwapOkCallInv == SlotsInv /\ BootSwapOkCall => SlotsInv'
  <1> SUFFICES ASSUME SlotsInv, BootSwapOkCall PROVE SlotsInv'
    OBVIOUS
  <1>1. TypeOK'
    BY ActiveSlot
    DEF SlotsInv, TypeOK, BootSwapOkCall, flash, agent, history, FlashOps
  <1>2. trailer[active].image_ok \in {"set", "unset"}
    BY ActiveSlot DEF BootSwapOkCall, SlotsInv, TypeOK, Trailer, Flags, RunningTrailer
  <1>3. RunningTrailer'
    BY <1>2
    DEF SlotsInv, BootSwapOkCall, boot_img_magic_check, RunningTrailer, active,
        get_active_image, flash
  <1>4. AgentPosition'
    BY DEF SlotsInv, BootSwapOkCall, AgentPosition, active,
       get_active_image, flash, agent, ConfirmedSlot
  <1>5. pc' \in {"ok_erase", "ok_program"} => active \in proven'
    BY DEF SlotsInv, BootSwapOkCall
  <1>6. QED
    BY <1>1, <1>3, <1>4, <1>5, FlashKept DEF BootSwapOkCall, flash, agent, history

-----------------------------------------------------------------------------
(* Steps that write the slot that is not running                           *)

(* A step that leaves a confirmed running slot alone, and does not make    *)
(* the other one confirmed, keeps the invariant.                           *)
LEMMA OtherWritten ==
    ASSUME SlotsInv, ConfirmedSlot(active), UNCHANGED remap,
           NEW o, o = Other(active),
           image'[active] = image[active], trailer'[active] = trailer[active],
           image'[o].body # "whole" \/ trailer'[o].image_ok # "set",
           trailer'[o].magic = "set" => trailer'[o].image_ok # "bad",
           active \in proven => active \in proven',
           pc' \notin {"ok_erase", "ok_program"},
           TypeOK', RunningTrailer', AgentPosition'
    PROVE  SlotsInv'
  <1>1. active' = active
    BY DEF active, get_active_image
  <1>2. ConfirmedSlot(active)'
    BY <1>1 DEF ConfirmedSlot
  <1>3. \A s \in Slots : s = active \/ s = o
    BY ActiveSlot, OtherSlot
  <1>4. \A s \in Slots : ConfirmedSlot(s)' => s \in proven'
    BY <1>1, <1>3, ActiveSlot DEF SlotsInv, ConfirmedSlot
  <1>5. \A s \in Slots : trailer'[s].magic = "set" => trailer'[s].image_ok # "bad"
    BY <1>3, ActiveSlot DEF SlotsInv
  <1>6. QED
    BY <1>1, <1>2, <1>4, <1>5, ActiveSlot DEF SlotsInv

(* The agent holds the other slot whenever it holds one.                   *)
LEMMA AgentHolds ==
    ASSUME SlotsInv, stage # "idle"
    PROVE  /\ ConfirmedSlot(active) /\ ptn = Other(active)
           /\ ptn \in Slots /\ active \in Slots /\ ptn # active
  BY ActiveSlot, OtherSlot DEF SlotsInv, AgentPosition

(* Erasing the header of the slot that is not running keeps SlotsInv.      *)
LEMMA AgentEraseInv == SlotsInv /\ AgentErase => SlotsInv'
  <1> SUFFICES ASSUME SlotsInv, AgentErase PROVE SlotsInv'
    OBVIOUS
  <1>1. /\ ConfirmedSlot(active) /\ ptn = Other(active)
        /\ ptn \in Slots /\ active \in Slots /\ ptn # active
    BY AgentHolds DEF AgentErase
  <1>2. image' = [image EXCEPT ![ptn] = NoImage] /\ image \in [Slots -> Image]
    BY DEF AgentErase, SlotsInv, TypeOK
  <1>3. image'[ptn] = NoImage /\ image'[active] = image[active]
    BY <1>1, <1>2
  <1>4. TypeOK'
    <2>1. image' \in [Slots -> Image]
      BY <1>2 DEF Image
    <2>2. QED
      BY <2>1 DEF SlotsInv, TypeOK, AgentErase
  <1>5. RunningTrailer'
    BY <1>3 DEF SlotsInv, AgentErase, RunningTrailer, active, get_active_image
  <1>6. AgentPosition'
    BY <1>1, <1>3 DEF SlotsInv, AgentErase, AgentPosition, active, get_active_image,
       ConfirmedSlot, NoImage
  <1>7. /\ UNCHANGED <<remap, trailer>> /\ pc' = "run"
        /\ active \in proven => active \in proven'
        /\ trailer[ptn].magic = "set" => trailer[ptn].image_ok # "bad"
        /\ image'[ptn].body # "whole"
    BY <1>1, <1>3 DEF AgentErase, SlotsInv, NoImage
  <1> QED
    BY <1>1, <1>3, <1>4, <1>5, <1>6, <1>7, OtherWritten

(* Writing an image's first block keeps SlotsInv: the slot's old trailer   *)
(* is gone before the new image begins.                                    *)
LEMMA AgentWriteInv ==
    ASSUME NEW v \in Versions
    PROVE  SlotsInv /\ AgentWrite(v) => SlotsInv'
  <1> SUFFICES ASSUME SlotsInv, AgentWrite(v) PROVE SlotsInv'
    OBVIOUS
  <1>1. /\ ConfirmedSlot(active) /\ ptn = Other(active)
        /\ ptn \in Slots /\ active \in Slots /\ ptn # active
    BY AgentHolds DEF AgentWrite
  <1> DEFINE new == [ver |-> v, body |-> "partial"]
  <1>2. /\ image' = [image EXCEPT ![ptn] = new] /\ image \in [Slots -> Image]
        /\ trailer' = [trailer EXCEPT ![ptn] = Erased] /\ trailer \in [Slots -> Trailer]
    BY DEF AgentWrite, SlotsInv, TypeOK
  <1>3. /\ image'[ptn] = new /\ image'[active] = image[active]
        /\ trailer'[ptn] = Erased /\ trailer'[active] = trailer[active]
    BY <1>1, <1>2
  <1>4. TypeOK'
    <2>1. new \in Image
      BY DEF Image
    <2>2. image' \in [Slots -> Image] /\ trailer' \in [Slots -> Trailer]
      BY <1>2, <2>1, WrittenTrailers
    <2>3. QED
      BY <2>2 DEF SlotsInv, TypeOK, AgentWrite, history
  <1>5. RunningTrailer'
    BY <1>3 DEF SlotsInv, AgentWrite, RunningTrailer, active, get_active_image
  <1>6. AgentPosition'
    BY <1>1, <1>3, WrittenTrailers DEF SlotsInv, AgentWrite, AgentPosition, active,
       get_active_image, ConfirmedSlot
  <1>7. /\ UNCHANGED <<remap, proven>> /\ pc' = "run"
        /\ trailer'[ptn].image_ok = "unset"
    BY <1>3, WrittenTrailers DEF AgentWrite, history
  <1> QED
    BY <1>1, <1>3, <1>4, <1>5, <1>6, <1>7, OtherWritten

(* Ending a download, complete or not, keeps SlotsInv: a complete image is *)
(* not a confirmed one.                                                    *)
LEMMA AgentFinishInv == SlotsInv /\ AgentFinish => SlotsInv'
  <1> SUFFICES ASSUME SlotsInv, AgentFinish PROVE SlotsInv'
    OBVIOUS
  <1>1. /\ ConfirmedSlot(active) /\ ptn = Other(active)
        /\ ptn \in Slots /\ active \in Slots /\ ptn # active
    BY AgentHolds DEF AgentFinish
  <1>2. image \in [Slots -> Image] /\ image[ptn] \in Image
    BY <1>1 DEF SlotsInv, TypeOK
  <1>3. image'[active] = image[active] /\ trailer' = trailer
    BY <1>1, <1>2 DEF AgentFinish
  <1>4. TypeOK'
    <2>1. image' \in [Slots -> Image]
      <3>1. CASE UNCHANGED image
        BY <3>1, <1>2
      <3>2. CASE image' = [image EXCEPT ![ptn].body = "whole"]
        <4>1. [image[ptn] EXCEPT !.body = "whole"] \in Image
          BY <1>1, <1>2 DEF NoImage, Image, SlotsInv, AgentPosition, AgentFinish
        <4>2. QED
          BY <3>2, <4>1, <1>2
      <3>3. QED
        BY <3>1, <3>2 DEF AgentFinish
    <2>2. QED
      BY <2>1 DEF SlotsInv, TypeOK, AgentFinish, history
  <1>5. RunningTrailer'
    BY <1>3 DEF SlotsInv, AgentFinish, RunningTrailer, active, get_active_image
  <1>6. AgentPosition'
    BY <1>1, <1>3 DEF SlotsInv, AgentFinish, AgentPosition, active, get_active_image,
       ConfirmedSlot
  <1>7. /\ UNCHANGED <<remap, proven>> /\ pc' = "run"
        /\ trailer[ptn].image_ok = "unset"
    BY DEF AgentFinish, history, SlotsInv, AgentPosition
  <1> QED
    BY <1>1, <1>3, <1>4, <1>5, <1>6, <1>7, OtherWritten

(* Every outcome of the two flash operations of boot_swap_test.            *)
LEMMA TestTrailerWritten ==
    ASSUME SlotsInv, pc \in {"test_erase", "test_program"},
           NEW t \in Trailer, t.image_ok = "unset",
           trailer' = [trailer EXCEPT ![Other(active)] = t],
           UNCHANGED <<image, remap, history>>, cuts' \in 0..MaxCuts,
           \/ pc' = "boot" /\ LoseRam
           \/ /\ pc' \in {"run", "test_program"} /\ UNCHANGED ptn
              /\ stage' = "verified" \/ (pc' = "run" /\ stage' = "staged")
              /\ status' \in {status, "Success", "FlashError"}
    PROVE  SlotsInv'
  <1>1. /\ ConfirmedSlot(active) /\ ptn = Other(active)
        /\ ptn \in Slots /\ active \in Slots /\ ptn # active
    BY AgentHolds DEF SlotsInv, AgentPosition
  <1>2. trailer'[ptn] = t /\ trailer'[active] = trailer[active]
    BY <1>1 DEF SlotsInv, TypeOK
  <1>3. TypeOK'
    <2>1. trailer' \in [Slots -> Trailer]
      BY <1>1 DEF SlotsInv, TypeOK
    <2>2. QED
      BY <2>1 DEF SlotsInv, TypeOK, LoseRam, history, FlashOps
  <1>4. RunningTrailer'
    BY <1>2 DEF SlotsInv, RunningTrailer, active, get_active_image
  <1>5. AgentPosition'
    BY <1>1, <1>2 DEF SlotsInv, AgentPosition, active, get_active_image, ConfirmedSlot, LoseRam
  <1>6. UNCHANGED <<remap, image, proven>> /\ pc' \notin {"ok_erase", "ok_program"}
    BY DEF history
  <1> QED
    BY <1>1, <1>2, <1>3, <1>4, <1>5, <1>6, OtherWritten

(* Erasing the other slot's trailer, also in part, keeps SlotsInv.         *)
LEMMA BootSwapTestEraseInv == SlotsInv /\ BootSwapTestErase => SlotsInv'
  <1> SUFFICES ASSUME SlotsInv, BootSwapTestErase PROVE SlotsInv'
    OBVIOUS
  <1> DEFINE o == Other(active)
  <1>1. PICK t \in Torn(trailer[o], Erased) \cup {Erased} :
          trailer' = [trailer EXCEPT ![o] = t]
    BY DEF BootSwapTestErase, FlashTrailer
  <1>2. /\ pc = "test_erase" /\ stage = "verified" /\ ptn = o
        /\ trailer[o] \in Trailer /\ trailer[o].image_ok = "unset"
    BY AgentHolds, OtherSlot, ActiveSlot
    DEF BootSwapTestErase, FlashTrailer, SlotsInv, AgentPosition, TypeOK
  <1>3. t \in Trailer /\ t.image_ok = "unset"
    BY <1>2, TornTrailer, WrittenTrailers
  <1>4. UNCHANGED <<image, remap, history>> /\ cuts' \in 0..MaxCuts
    BY CutBound DEF BootSwapTestErase, FlashTrailer, GoDown, SlotsInv, TypeOK
  <1>5. \/ pc' = "boot" /\ LoseRam
        \/ /\ pc' \in {"run", "test_program"} /\ UNCHANGED ptn /\ stage' = "verified"
           /\ status' \in {status, "Success", "FlashError"}
    BY <1>2 DEF BootSwapTestErase, FlashTrailer, Continue, GoDown, agent
  <1> QED
    BY <1>1, <1>2, <1>3, <1>4, <1>5, TestTrailerWritten

(* Marking the other slot, also in part, keeps SlotsInv.                   *)
LEMMA BootSwapTestProgramInv == SlotsInv /\ BootSwapTestProgram => SlotsInv'
  <1> SUFFICES ASSUME SlotsInv, BootSwapTestProgram PROVE SlotsInv'
    OBVIOUS
  <1> DEFINE o == Other(active)
  <1>1. PICK t \in Torn(trailer[o], Marked) \cup {Marked} :
          trailer' = [trailer EXCEPT ![o] = t]
    BY DEF BootSwapTestProgram, FlashTrailer
  <1>2. /\ pc = "test_program" /\ stage = "verified" /\ ptn = o
        /\ trailer[o] \in Trailer /\ trailer[o].image_ok = "unset"
    BY AgentHolds, OtherSlot, ActiveSlot
    DEF BootSwapTestProgram, FlashTrailer, SlotsInv, AgentPosition, TypeOK
  <1>3. t \in Trailer /\ t.image_ok = "unset"
    BY <1>2, TornTrailer, WrittenTrailers
  <1>4. UNCHANGED <<image, remap, history>> /\ cuts' \in 0..MaxCuts
    BY CutBound DEF BootSwapTestProgram, FlashTrailer, GoDown, SlotsInv, TypeOK
  <1>5. \/ pc' = "boot" /\ LoseRam
        \/ /\ pc' = "run" /\ UNCHANGED ptn /\ stage' \in {"verified", "staged"}
           /\ status' \in {status, "Success", "FlashError"}
    BY <1>2 DEF BootSwapTestProgram, FlashTrailer, GoDown, agent
  <1> QED
    BY <1>1, <1>2, <1>3, <1>4, <1>5, TestTrailerWritten

-----------------------------------------------------------------------------
(* Steps of boot_swap_ok                                                   *)

(* While the running image is not confirmed, the other one is.             *)
LEMMA Fallback ==
    ASSUME SlotsInv, ~ConfirmedSlot(active)
    PROVE  ConfirmedSlot(Other(active)) /\ stage = "idle"
  BY ActiveSlot, OtherSlot DEF SlotsInv, AgentPosition

(* A step that writes the running slot's trailer while the other slot is   *)
(* confirmed.                                                              *)
LEMMA RunningWritten ==
    ASSUME SlotsInv, pc \in {"ok_erase", "ok_program"},
           NEW t \in Trailer,
           trailer' = [trailer EXCEPT ![active] = t],
           t.magic = "set" => t.image_ok # "bad",
           UNCHANGED <<image, remap, history>>, cuts' \in 0..MaxCuts,
           \/ pc' = "boot" /\ LoseRam
           \/ UNCHANGED <<agent, status>> /\ pc' = "ok_program" /\ t = Erased
           \/ UNCHANGED <<agent, status>> /\ pc' = "ok_header" /\ t = Confirmed
    PROVE  SlotsInv'
  <1> DEFINE o == Other(active)
  <1>1. ~ConfirmedSlot(active)
    BY WrittenTrailers DEF SlotsInv, RunningTrailer, ConfirmedSlot
  <1>2. ConfirmedSlot(o) /\ stage = "idle"
    BY <1>1, Fallback
  <1>3. /\ o \in Slots /\ active \in Slots /\ o # active
        /\ \A s \in Slots : s = active \/ s = o
    BY ActiveSlot, OtherSlot
  <1>4. trailer'[active] = t /\ trailer'[o] = trailer[o]
    BY <1>3 DEF SlotsInv, TypeOK
  <1>5. active' = active
    BY DEF active, get_active_image
  <1>6. TypeOK'
    <2>1. trailer' \in [Slots -> Trailer]
      BY <1>3 DEF SlotsInv, TypeOK
    <2>2. QED
      BY <2>1 DEF SlotsInv, TypeOK, LoseRam, history, agent, FlashOps
  <1>7. \E s \in Slots : ConfirmedSlot(s)'
    BY <1>2, <1>3, <1>4 DEF ConfirmedSlot
  <1>8. \A s \in Slots : trailer'[s].magic = "set" => trailer'[s].image_ok # "bad"
    BY <1>3, <1>4 DEF SlotsInv
  <1>9. active \in proven' /\ o \in proven'
    BY <1>2, <1>3 DEF SlotsInv, history
  <1>10. RunningTrailer'
    BY <1>4, <1>5 DEF SlotsInv, RunningTrailer
  <1>11. AgentPosition'
    BY <1>2 DEF SlotsInv, AgentPosition, LoseRam, agent
  <1> QED
    BY <1>3, <1>5, <1>6, <1>7, <1>8, <1>9, <1>10, <1>11 DEF SlotsInv

(* Erasing the running slot's trailer, also torn by a power cut, keeps     *)
(* SlotsInv: the other slot is confirmed.                                  *)
LEMMA BootSwapOkEraseInv ==
    TrailerOpsReliable /\ SlotsInv /\ BootSwapOkErase => SlotsInv'
  <1> SUFFICES ASSUME TrailerOpsReliable, SlotsInv, BootSwapOkErase PROVE SlotsInv'
    OBVIOUS
  <1>1. PICK t \in Torn(trailer[active], Erased) \cup {Erased} :
          /\ trailer' = [trailer EXCEPT ![active] = t]
          /\ \/ pc' = "boot" /\ LoseRam
             \/ UNCHANGED <<agent, status>> /\ pc' = "ok_program" /\ t = Erased
    BY DEF BootSwapOkErase, FlashTrailer, TrailerOpsReliable, Continue, GoDown, agent
  <1>2. /\ pc = "ok_erase" /\ trailer[active] \in Trailer
        /\ trailer[active].image_ok = "unset"
    BY ActiveSlot DEF BootSwapOkErase, FlashTrailer, SlotsInv, RunningTrailer, TypeOK
  <1>3. t \in Trailer /\ t.image_ok = "unset"
    BY <1>2, TornTrailer, WrittenTrailers
  <1>4. UNCHANGED <<image, remap, history>> /\ cuts' \in 0..MaxCuts
    BY CutBound DEF BootSwapOkErase, FlashTrailer, TrailerOpsReliable, GoDown, SlotsInv, TypeOK
  <1> QED
    BY <1>1, <1>2, <1>3, <1>4, RunningWritten

(* Confirming the running slot, also torn by a power cut, keeps SlotsInv.  *)
LEMMA BootSwapOkProgramInv ==
    TrailerOpsReliable /\ SlotsInv /\ BootSwapOkProgram => SlotsInv'
  <1> SUFFICES ASSUME TrailerOpsReliable, SlotsInv, BootSwapOkProgram PROVE SlotsInv'
    OBVIOUS
  <1>1. PICK t \in Torn(trailer[active], Confirmed) \cup {Confirmed} :
          /\ trailer' = [trailer EXCEPT ![active] = t]
          /\ \/ pc' = "boot" /\ LoseRam
             \/ UNCHANGED <<agent, status>> /\ pc' = "ok_header" /\ t = Confirmed
    BY DEF BootSwapOkProgram, FlashTrailer, TrailerOpsReliable, Continue, GoDown, agent
  <1>2. pc = "ok_program" /\ trailer[active] \in Trailer
    BY ActiveSlot DEF BootSwapOkProgram, FlashTrailer, SlotsInv, TypeOK
  <1>3. t \in Trailer /\ (t.magic = "set" => t.image_ok # "bad")
    BY <1>2, TornTrailer, WrittenTrailers
  <1>4. UNCHANGED <<image, remap, history>> /\ cuts' \in 0..MaxCuts
    BY CutBound DEF BootSwapOkProgram, FlashTrailer, TrailerOpsReliable, GoDown, SlotsInv, TypeOK
  <1> QED
    BY <1>1, <1>2, <1>3, <1>4, RunningWritten

(* Erasing the other slot's header, which the downgrade support does last, *)
(* keeps SlotsInv: the running slot is confirmed by then.                  *)
LEMMA BootSwapOkHeaderInv == SlotsInv /\ BootSwapOkHeader => SlotsInv'
  <1> SUFFICES ASSUME SlotsInv, BootSwapOkHeader PROVE SlotsInv'
    OBVIOUS
  <1> DEFINE o == Other(active)
  <1>1. /\ pc = "ok_header" /\ stage = "idle" /\ trailer' = trailer
        /\ image[active].body = "whole" /\ trailer[active] = Confirmed
        /\ UNCHANGED <<remap, proven>>
    BY DEF BootSwapOkHeader, SlotsInv, RunningTrailer, AgentPosition, history, GoDown
  <1>2. image \in [Slots -> Image] /\ image' \in {image, [image EXCEPT ![o] = NoImage]}
    BY DEF BootSwapOkHeader, SlotsInv, TypeOK
  <1>3. /\ o \in Slots /\ active \in Slots /\ o # active
        /\ \A s \in Slots : s = active \/ s = o
    BY ActiveSlot, OtherSlot
  <1>4. /\ image'[active] = image[active]
        /\ image'[o] = image[o] \/ image'[o] = NoImage
    BY <1>2, <1>3
  <1>5. active' = active
    BY <1>1 DEF active, get_active_image
  <1>6. TypeOK'
    <2>1. image' \in [Slots -> Image]
      BY <1>2 DEF Image
    <2>2. cuts' \in 0..MaxCuts
      BY CutBound DEF BootSwapOkHeader, SlotsInv, TypeOK
    <2>3. QED
      BY <1>1, <1>3, <2>1, <2>2
      DEF SlotsInv, TypeOK, BootSwapOkHeader, GoDown, LoseRam, history, agent
  <1>7. ConfirmedSlot(active)'
    BY <1>1, <1>4, <1>5, WrittenTrailers DEF ConfirmedSlot
  <1>8. \A s \in Slots : ConfirmedSlot(s)' => s \in proven'
    <2>1. \A s \in Slots : s = active => ConfirmedSlot(s)
      BY <1>1, WrittenTrailers DEF ConfirmedSlot
    <2>2. \A s \in Slots : s = o /\ ConfirmedSlot(s)' => ConfirmedSlot(s)
      BY <1>1, <1>4 DEF ConfirmedSlot, NoImage
    <2>3. QED
      BY <1>1, <1>3, <2>1, <2>2 DEF SlotsInv
  <1>9. RunningTrailer' /\ AgentPosition'
    BY <1>1, <1>4, <1>5, WrittenTrailers
    DEF BootSwapOkHeader, RunningTrailer, AgentPosition, GoDown, LoseRam, agent
  <1> QED
    BY <1>1, <1>3, <1>5, <1>6, <1>7, <1>8, <1>9 DEF SlotsInv, BootSwapOkHeader, GoDown

-----------------------------------------------------------------------------
(* The bootloader                                                          *)

(* A slot that the bootloader erases because it cannot be started is not   *)
(* the confirmed one.                                                      *)
LEMMA BootRejectInv ==
    ASSUME NEW s \in Slots
    PROVE  SlotsInv /\ BootReject(s) => SlotsInv'
  <1> SUFFICES ASSUME SlotsInv, BootReject(s) PROVE SlotsInv'
    OBVIOUS
  <1>1. /\ pc = "boot" /\ pc' = "boot" /\ ~Bootable(s)
        /\ UNCHANGED <<remap, agent, status, history>>
        /\ image' = [image EXCEPT ![s] = NoImage] /\ image \in [Slots -> Image]
        /\ trailer \in [Slots -> Trailer]
        /\ trailer' \in {trailer, [trailer EXCEPT ![s] = Erased]}
    BY DEF BootReject, SlotsInv, TypeOK
  <1>2. /\ image'[s] = NoImage
        /\ trailer'[s] = trailer[s] \/ trailer'[s] = Erased
        /\ \A t \in Slots \ {s} : image'[t] = image[t] /\ trailer'[t] = trailer[t]
    BY <1>1
  <1>3. TypeOK'
    <2>1. image' \in [Slots -> Image] /\ trailer' \in [Slots -> Trailer]
      BY <1>1, WrittenTrailers DEF Image
    <2>2. cuts' \in 0..MaxCuts
      BY CutBound DEF BootReject, SlotsInv, TypeOK
    <2>3. QED
      BY <1>1, <2>1, <2>2 DEF SlotsInv, TypeOK, agent, history
  <1>4. ~ConfirmedSlot(s)
    BY <1>1 DEF ConfirmedSlot, Bootable
  <1>5. \A t \in Slots : ConfirmedSlot(t)' <=> ConfirmedSlot(t)
    BY <1>2, <1>4 DEF ConfirmedSlot, NoImage
  <1>6. \A t \in Slots : trailer'[t].magic = "set" => trailer'[t].image_ok # "bad"
    BY <1>2, WrittenTrailers DEF SlotsInv
  <1>7. RunningTrailer' /\ AgentPosition'
    BY <1>1 DEF RunningTrailer, AgentPosition, SlotsInv, agent
  <1> QED
    BY <1>1, <1>3, <1>5, <1>6, <1>7 DEF SlotsInv, history

(* Writing copy_done, in whole or torn, does not touch what confirms.      *)
LEMMA CopyDoneWritten ==
    ASSUME SlotsInv, NEW s \in Slots, NEW f \in Flags,
           trailer' = [trailer EXCEPT ![s].copy_done = f],
           UNCHANGED <<image, history>>,
           TypeOK', RunningTrailer', AgentPosition', pc' \notin {"ok_erase", "ok_program"}
    PROVE  SlotsInv'
  <1>1. \A t \in Slots : /\ trailer'[t].magic = trailer[t].magic
                         /\ trailer'[t].image_ok = trailer[t].image_ok
    BY DEF SlotsInv, TypeOK, Trailer
  <1>2. \A t \in Slots : ConfirmedSlot(t)' <=> ConfirmedSlot(t)
    BY <1>1 DEF ConfirmedSlot
  <1> QED
    BY <1>1, <1>2 DEF SlotsInv, history

(* Starting a slot keeps SlotsInv.                                         *)
LEMMA BootRunInv ==
    ASSUME NEW s \in Slots
    PROVE  SlotsInv /\ BootRun(s) => SlotsInv'
  <1> SUFFICES ASSUME SlotsInv, BootRun(s) PROVE SlotsInv'
    OBVIOUS
  <1>1. trailer \in [Slots -> Trailer] /\ trailer[s] \in Trailer
    BY DEF SlotsInv, TypeOK
  <1>2. active' = s
    BY DEF BootRun, active, get_active_image, Slots
  <1>3. [trailer[s] EXCEPT !.copy_done = "set"] \in Trailer
    BY <1>1 DEF Trailer, Flags
  <1>4. trailer'[s] = [trailer[s] EXCEPT !.copy_done = "set"]
    BY <1>1 DEF BootRun
  <1>5. TypeOK'
    <2>1. trailer' \in [Slots -> Trailer]
      BY <1>1, <1>3 DEF BootRun
    <2>2. QED
      BY <2>1 DEF SlotsInv, TypeOK, BootRun, agent, history
  <1>6. RunningTrailer'
    BY <1>1, <1>2, <1>4 DEF RunningTrailer, BootRun, Bootable, Trailer
  <1>7. AgentPosition'
    BY DEF BootRun, AgentPosition, SlotsInv, agent
  <1> QED
    BY <1>5, <1>6, <1>7, CopyDoneWritten DEF BootRun, Flags

(* A power cut while copy_done is written keeps SlotsInv.                  *)
LEMMA BootCutInv ==
    ASSUME NEW s \in Slots
    PROVE  SlotsInv /\ BootCut(s) => SlotsInv'
  <1> SUFFICES ASSUME SlotsInv, BootCut(s) PROVE SlotsInv'
    OBVIOUS
  <1>1. trailer \in [Slots -> Trailer] /\ trailer[s] \in Trailer
    BY DEF SlotsInv, TypeOK
  <1>2. [trailer[s] EXCEPT !.copy_done = "bad"] \in Trailer
    BY <1>1 DEF Trailer, Flags
  <1>3. TypeOK'
    <2>1. trailer' \in [Slots -> Trailer]
      BY <1>1, <1>2 DEF BootCut
    <2>2. cuts' \in 0..MaxCuts
      BY CutBound DEF BootCut, SlotsInv
    <2>3. QED
      BY <2>1, <2>2 DEF SlotsInv, TypeOK, BootCut, agent, history
  <1>4. RunningTrailer' /\ AgentPosition'
    BY DEF BootCut, RunningTrailer, AgentPosition, SlotsInv, agent
  <1> QED
    BY <1>3, <1>4, CopyDoneWritten DEF BootCut, Flags

-----------------------------------------------------------------------------
(* The invariant and what follows from it                                  *)

(* Every step of the code, the agent, the bootloader and the power supply  *)
(* keeps SlotsInv.                                                         *)
LEMMA NextSlotsInv == TrailerOpsReliable /\ SlotsInv /\ [Next]_vars => SlotsInv'
  <1> SUFFICES ASSUME TrailerOpsReliable, SlotsInv, [Next]_vars PROVE SlotsInv'
    OBVIOUS
  <1>1. CASE Reboot \/ PowerCut
    BY <1>1, RebootInv, PowerCutInv
  <1>2. CASE Bootloader
    BY <1>2, BootRejectInv, BootRunInv, BootCutInv DEF Bootloader
  <1>3. CASE Agent
    BY <1>3, GetUpdatePartitionInv, AgentEraseInv, AgentWriteInv, AgentFinishInv,
       AgentAbandonInv, VerifyImageInv DEF Agent
  <1>4. CASE bl_update_image_state
    BY <1>4, BootSwapTestCallInv, BootSwapTestEraseInv, BootSwapTestProgramInv,
       BootSwapOkCallInv, BootSwapOkEraseInv, BootSwapOkProgramInv, BootSwapOkHeaderInv,
       UpdateStateInvalidInv DEF bl_update_image_state
  <1>5. CASE UNCHANGED vars
    BY <1>5 DEF vars, SlotsInv, TypeOK, RunningTrailer, AgentPosition, ConfirmedSlot,
       active, get_active_image
  <1> QED
    BY <1>1, <1>2, <1>3, <1>4, <1>5 DEF Next

(* SlotsInv holds in every behaviour.                                      *)
THEOREM SlotsInvariant == TrailerOpsReliable => (Spec => []SlotsInv)
  <1> SUFFICES ASSUME TrailerOpsReliable PROVE Spec => []SlotsInv
    OBVIOUS
  <1>1. SlotsInv /\ [Next]_vars => SlotsInv'
    BY NextSlotsInv
  <1> QED
    BY <1>1, InitSlotsInv, PTL DEF Spec

(* Type correctness of the module's variables, which hold the flash, the   *)
(* remap register and the position in the calls of mcuboot_app_support.c.  *)
THEOREM TypeCorrect == TrailerOpsReliable => (Spec => []TypeOK)
  <1>1. SlotsInv => TypeOK
    BY DEF SlotsInv
  <1> QED
    BY <1>1, SlotsInvariant, PTL

(* No order of update calls, resets, power cuts and tolerated flash errors *)
(* leaves the device without an image the bootloader can start.            *)
THEOREM AlwaysBootable == TrailerOpsReliable => (Spec => []NeverBricked)
  <1>1. SlotsInv => NeverBricked
    BY DEF SlotsInv, NeverBricked, ConfirmedSlot, Bootable
  <1> QED
    BY <1>1, SlotsInvariant, PTL

(* No image becomes confirmed without boot_swap_ok having been called for  *)
(* it while it ran.                                                        *)
THEOREM NothingConfirmedUntested == TrailerOpsReliable => (Spec => []ConfirmedWasTested)
  <1>1. SlotsInv => ConfirmedWasTested
    BY DEF SlotsInv, ConfirmedWasTested, ConfirmedSlot, Bootable
  <1> QED
    BY <1>1, SlotsInvariant, PTL

(* bl_get_image_state and the bootloader agree on whether a reset reverts. *)
THEOREM StateIsTruthful == TrailerOpsReliable => (Spec => []TestingMeansRevert)
  <1>1. SlotsInv => TestingMeansRevert
    BY RunState DEF TestingMeansRevert
  <1> QED
    BY <1>1, SlotsInvariant, PTL

-----------------------------------------------------------------------------
(* The running image                                                       *)

(* While an application runs, a step that changes an image writes the      *)
(* other slot.                                                             *)
LEMMA ImageStep ==
    ASSUME SlotsInv, Next, pc # "boot"
    PROVE  image'[active] = image[active]
  <1>1. active \in Slots /\ Other(active) # active /\ image \in [Slots -> Image]
    BY ActiveSlot, OtherSlot DEF SlotsInv, TypeOK
  <1>2. CASE Agent
    <2>1. CASE GetUpdatePartition \/ AgentAbandon \/ VerifyImage
      BY <2>1 DEF GetUpdatePartition, AgentAbandon, VerifyImage, flash
    <2>2. CASE AgentErase
      BY <2>2, <1>1, AgentHolds DEF AgentErase
    <2>3. ASSUME NEW v \in Versions, AgentWrite(v) PROVE image'[active] = image[active]
      BY <2>3, <1>1, AgentHolds DEF AgentWrite
    <2>4. CASE AgentFinish
      BY <2>4, <1>1, AgentHolds DEF AgentFinish
    <2> QED
      BY <1>2, <2>1, <2>2, <2>3, <2>4 DEF Agent
  <1>3. CASE bl_update_image_state
    <2>1. CASE BootSwapOkHeader
      BY <2>1, <1>1 DEF BootSwapOkHeader
    <2>2. CASE ~BootSwapOkHeader
      BY <1>3, <2>2
      DEF bl_update_image_state, BootSwapTestCall, BootSwapTestErase, BootSwapTestProgram,
          BootSwapOkCall, BootSwapOkErase, BootSwapOkProgram, UpdateStateInvalid,
          FlashTrailer, flash
    <2> QED
      BY <2>1, <2>2
  <1>4. CASE Reboot \/ PowerCut
    BY <1>4 DEF Reboot, PowerCut, flash
  <1> QED
    BY <1>2, <1>3, <1>4 DEF Next, Bootloader, BootReject, BootRun, BootCut

(* No call changes the image that is executing.                            *)
THEOREM RunningImageStays == TrailerOpsReliable => (Spec => RunningImageKept)
  <1>1. SlotsInv /\ [Next]_vars => [pc # "boot" => image'[active] = image[active]]_vars
    BY ImageStep
  <1> QED
    BY <1>1, SlotsInvariant, PTL DEF Spec, RunningImageKept

-----------------------------------------------------------------------------
(* The promise                                                             *)

(* The initial states are initial states of the promise.                   *)
LEMMA InitPromise == Init => Promise!Init
  <1> SUFFICES ASSUME Init PROVE Promise!Init
    OBVIOUS
  <1>1. active = "primary" /\ pc = "boot"
    BY DEF Init, active, get_active_image
  <1>2. Bootable("primary")
    <2>1. "primary" \in Slots
      BY DEF Slots
    <2>2. image["primary"].body = "whole"
      BY <2>1 DEF Init
    <2>3. trailer["primary"].magic = "set" /\ trailer["primary"].image_ok = "set"
      BY <2>1 DEF Init, Marked, Erased
    <2> QED
      BY <2>2, <2>3 DEF Bootable
  <1> QED
    BY <1>1, <1>2 DEF Promise!Init, Safe, Slots

(* A step of a running, safe application that stays safe is a Rewrite.     *)
LEMMA RewriteStep ==
    ASSUME pc # "boot", UNCHANGED remap, ConfirmedSlot(active),
           image'[active] = image[active],
           trailer'[active] = trailer[active]
    PROVE  Promise!Rewrite
  <1>1. active' = active /\ active \in Slots
    BY ActiveSlot DEF active, get_active_image
  <1>2. Bootable(active) /\ \A s \in Slots : s = active => Bootable(s)'
    BY <1>1 DEF Bootable, ConfirmedSlot
  <1>3. active \in Safe /\ active \in Safe'
    BY <1>1, <1>2 DEF Safe
  <1> QED
    BY <1>1, <1>3 DEF Promise!Rewrite, Safe

(* A step that leaves the slots and the running one as they are.           *)
LEMMA KeptStep ==
    ASSUME UNCHANGED <<remap, image, trailer>>, pc' = "boot" \/ pc # "boot"
    PROVE  Promise!Rewrite \/ Promise!Trial \/ UNCHANGED <<Safe, active, pc # "boot">>
  <1>1. active' = active /\ active \in Slots
    BY ActiveSlot DEF active, get_active_image
  <1>2. Safe' = Safe
    BY DEF Safe, Bootable
  <1> QED
    BY <1>1, <1>2 DEF Promise!Rewrite, Promise!Trial, Safe

(* Rewriting the trailer of a running image on trial is a Trial.           *)
LEMMA TrialStep ==
    ASSUME SlotsInv, pc \in {"ok_erase", "ok_program"}, UNCHANGED <<image, remap>>,
           \E t \in Trailer : trailer' = [trailer EXCEPT ![active] = t]
    PROVE  Promise!Trial
  <1>1. active' = active /\ active \in Slots
    BY ActiveSlot DEF active, get_active_image
  <1>2. ~Bootable(active)
    BY WrittenTrailers DEF SlotsInv, RunningTrailer, Bootable
  <1>3. \A s \in Slots \ {active} : trailer'[s] = trailer[s]
    BY DEF SlotsInv, TypeOK
  <1>4. \A s \in Slots \ {active} : s \in Safe' <=> s \in Safe
    BY <1>3 DEF Safe, Bootable
  <1>5. active \notin Safe /\ Safe \subseteq Slots /\ Safe' \subseteq Slots
    BY <1>2 DEF Safe
  <1>6. Safe' \in {Safe, Safe \cup {active}}
    BY <1>1, <1>4, <1>5
  <1> QED
    BY <1>1, <1>5, <1>6 DEF Promise!Trial

(* The bootloader's steps: a Boot when it starts a slot, a stutter before. *)
LEMMA BootPromised ==
    ASSUME SlotsInv, SlotsInv', NEW s \in Slots, BootReject(s) \/ BootRun(s) \/ BootCut(s)
    PROVE  Promise!Boot \/ UNCHANGED <<Safe, active, pc # "boot">>
  <1>1. image \in [Slots -> Image] /\ trailer \in [Slots -> Trailer]
    BY DEF SlotsInv, TypeOK
  <1>2. CASE BootReject(s)
    <2>1. UNCHANGED <<remap, pc>> /\ ~Bootable(s) /\ image'[s] = NoImage
      BY <1>1, <1>2 DEF BootReject
    <2>2. \A t \in Slots \ {s} : image'[t] = image[t] /\ trailer'[t] = trailer[t]
      BY <1>1, <1>2 DEF BootReject
    <2>3. \A t \in Slots : Bootable(t)' <=> Bootable(t)
      BY <2>1, <2>2 DEF Bootable, NoImage
    <2> QED
      BY <2>1, <2>3 DEF Safe, active, get_active_image
  <1>3. CASE BootCut(s)
    <2>1. UNCHANGED <<remap, pc, image>>
      BY <1>3 DEF BootCut
    <2>2. \A t \in Slots : /\ trailer'[t].magic = trailer[t].magic
                           /\ trailer'[t].copy_done = "set" <=> trailer[t].copy_done = "set"
                           /\ trailer'[t].image_ok = trailer[t].image_ok
      BY <1>1, <1>3 DEF BootCut, Trailer
    <2>3. \A t \in Slots : Bootable(t)' <=> Bootable(t)
      BY <2>1, <2>2 DEF Bootable
    <2> QED
      BY <2>1, <2>3 DEF Safe, active, get_active_image
  <1>4. CASE BootRun(s)
    <2>1. active' = s /\ pc = "boot" /\ pc' = "run" /\ Bootable(s)
      BY <1>4 DEF BootRun, active, get_active_image, Slots
    <2>2. \A t \in Slots \ {s} : image'[t] = image[t] /\ trailer'[t] = trailer[t]
      BY <1>1, <1>4 DEF BootRun
    <2>3. \A t \in Slots \ {s} : t \in Safe' <=> t \in Safe
      BY <2>2 DEF Safe, Bootable
    <2>4. s \in Safe /\ Safe \subseteq Slots /\ Safe' \subseteq Slots
      BY <2>1 DEF Safe
    <2>5. Safe' \in {Safe, Safe \ {s}}
      BY <2>3, <2>4
    <2>6. Safe' # {}
      <3>1. PICK t \in Slots : ConfirmedSlot(t)'
        BY DEF SlotsInv
      <3>2. t \in Safe'
        BY <3>1 DEF Safe, ConfirmedSlot, Bootable
      <3> QED
        BY <3>2
    <2> QED
      BY <2>1, <2>4, <2>5, <2>6 DEF Promise!Boot
  <1> QED
    BY <1>2, <1>3, <1>4

(* The steps of an application that leave every slot alone.                *)
LEMMA QuietPromised ==
    ASSUME \/ Reboot \/ PowerCut \/ GetUpdatePartition \/ AgentAbandon \/ VerifyImage
           \/ BootSwapTestCall \/ BootSwapOkCall \/ UpdateStateInvalid
    PROVE  Promise!Rewrite \/ Promise!Trial \/ UNCHANGED <<Safe, active, pc # "boot">>
  <1>1. UNCHANGED <<remap, image, trailer>> /\ pc # "boot"
    BY DEF Reboot, PowerCut, GetUpdatePartition, AgentAbandon, VerifyImage, BootSwapTestCall,
           BootSwapOkCall, UpdateStateInvalid, GoDown, flash
  <1> QED
    BY <1>1, KeptStep

(* The steps that write the slot that is not running.                      *)
LEMMA OtherPromised ==
    ASSUME SlotsInv,
           \/ AgentErase \/ (\E v \in Versions : AgentWrite(v)) \/ AgentFinish
           \/ BootSwapTestErase \/ BootSwapTestProgram \/ BootSwapOkHeader
    PROVE  Promise!Rewrite
  <1> DEFINE o == Other(active)
  <1>1. /\ active \in Slots /\ o \in Slots /\ o # active
        /\ image \in [Slots -> Image] /\ trailer \in [Slots -> Trailer]
    BY ActiveSlot, OtherSlot DEF SlotsInv, TypeOK
  <1>2. CASE AgentErase \/ (\E v \in Versions : AgentWrite(v)) \/ AgentFinish
    <2>1. ConfirmedSlot(active) /\ ptn = o
      BY <1>2, AgentHolds DEF AgentErase, AgentWrite, AgentFinish
    <2>2. /\ pc # "boot" /\ UNCHANGED remap
          /\ image'[active] = image[active] /\ trailer'[active] = trailer[active]
      BY <1>1, <1>2, <2>1 DEF AgentErase, AgentWrite, AgentFinish
    <2> QED
      BY <2>1, <2>2, RewriteStep
  <1>3. CASE BootSwapTestErase \/ BootSwapTestProgram
    <2>1. ConfirmedSlot(active)
      BY <1>3 DEF SlotsInv, AgentPosition, BootSwapTestErase, BootSwapTestProgram, FlashTrailer
    <2>2. \E t : trailer' = [trailer EXCEPT ![o] = t]
      BY <1>3 DEF BootSwapTestErase, BootSwapTestProgram, FlashTrailer
    <2>3. pc # "boot" /\ UNCHANGED <<remap, image>>
      BY <1>3 DEF BootSwapTestErase, BootSwapTestProgram, FlashTrailer, GoDown
    <2>4. image'[active] = image[active] /\ trailer'[active] = trailer[active]
      BY <1>1, <2>2, <2>3
    <2> QED
      BY <2>1, <2>3, <2>4, RewriteStep
  <1>4. CASE BootSwapOkHeader
    <2>1. ConfirmedSlot(active)
      BY <1>4, WrittenTrailers
      DEF SlotsInv, RunningTrailer, BootSwapOkHeader, ConfirmedSlot
    <2>2. /\ pc # "boot" /\ UNCHANGED <<remap, trailer>>
          /\ image' \in {image, [image EXCEPT ![o] = NoImage]}
      BY <1>4 DEF BootSwapOkHeader, GoDown
    <2>3. image'[active] = image[active]
      BY <1>1, <2>2
    <2> QED
      BY <2>1, <2>2, <2>3, RewriteStep
  <1> QED
    BY <1>2, <1>3, <1>4

(* The steps of boot_swap_ok that write the running slot's trailer are     *)
(* steps of the promise.                                                   *)
LEMMA OkPromised ==
    ASSUME SlotsInv, BootSwapOkErase \/ BootSwapOkProgram
    PROVE  Promise!Trial
  <1>1. pc \in {"ok_erase", "ok_program"} /\ UNCHANGED <<image, remap>>
    BY DEF BootSwapOkErase, BootSwapOkProgram, FlashTrailer, GoDown
  <1>2. \E t \in Trailer : trailer' = [trailer EXCEPT ![active] = t]
    BY WrittenTrailers DEF BootSwapOkErase, BootSwapOkProgram, FlashTrailer, Torn
  <1> QED
    BY <1>1, <1>2, TrialStep

(* Every step is a step of the promise or a stutter.                       *)
LEMMA NextPromised ==
    ASSUME SlotsInv, SlotsInv', [Next]_vars
    PROVE  [Promise!Next]_<<Safe, active, pc # "boot">>
  <1>1. CASE Bootloader
    BY <1>1, BootPromised DEF Bootloader, Promise!Next
  <1>2. CASE Reboot \/ PowerCut
    BY <1>2, QuietPromised DEF Promise!Next
  <1>3. CASE Agent
    BY <1>3, QuietPromised, OtherPromised DEF Agent, Promise!Next
  <1>4. CASE bl_update_image_state
    BY <1>4, QuietPromised, OtherPromised, OkPromised DEF bl_update_image_state, Promise!Next
  <1>5. CASE UNCHANGED vars
    BY <1>5 DEF vars, Safe, Bootable, active, get_active_image
  <1> QED
    BY <1>1, <1>2, <1>3, <1>4, <1>5 DEF Next

(* The slots, the update calls and the bootloader implement BootPromise.   *)
THEOREM PromiseImplemented == TrailerOpsReliable => (Spec => PromiseKept)
  <1>1. SlotsInv /\ SlotsInv' /\ [Next]_vars => [Promise!Next]_<<Safe, active, pc # "boot">>
    BY NextPromised
  <1> QED
    BY <1>1, InitPromise, SlotsInvariant, PTL DEF Spec, PromiseKept, Promise!Spec

-----------------------------------------------------------------------------
(* A confirmation that was reported lasts: ConfirmedStays, when            *)
(* boot_swap_ok's own erases and program, if power lasts, do what they are *)
(* asked to.  With an error of the last of them it does not hold, as the   *)
(* run SlotsHeaderError shows.                                             *)

SwapOkReliable == TrailerOpsReliable /\ "ok_header" \notin Failing

(* What decides between two slots of which neither is pending.             *)
Newer(s, t) == image[s].ver > image[t].ver \/ (image[s].ver = image[t].ver /\ s = "primary")

(* A confirmed image runs because it is the newer one, or because the      *)
(* other, if that can be started, was written since and is pending.        *)
RunsForReason ==
    /\ pc \in {"run", "test_erase", "test_program"}
    /\ trailer[active].image_ok = "set"
    /\ Bootable(Other(active))
    => Pending(Other(active)) \/ Newer(active, Other(active))

(* An image that the agent has just written has not been started.          *)
NotStartedYet == stage \in {"writing", "written", "verified"} => trailer[ptn].copy_done = "unset"

(* A confirmation that was reported is the running slot's, and the other   *)
(* slot cannot be started or comes after it under either policy.           *)
AcceptedStands ==
    accepted # NoSlot =>
        /\ accepted = active /\ stage \in {"idle", "granted"} /\ pc \in {"boot", "run"}
        /\ image[active].body = "whole"
        /\ trailer[active] = Confirmed
        /\ Bootable(Other(active)) => ~Pending(Other(active)) /\ Newer(active, Other(active))

StandsInv == RunsForReason /\ NotStartedYet /\ AcceptedStands

-----------------------------------------------------------------------------
(* A device as flashed has had nothing confirmed, and one image only.      *)
LEMMA InitStands == Init => StandsInv
  BY DEF Init, StandsInv, RunsForReason, NotStartedYet, AcceptedStands, NoSlot

(* Steps that leave the slots alone and give the agent nothing new.        *)
LEMMA QuietStands ==
    ASSUME StandsInv, UNCHANGED <<image, trailer, remap, accepted>>,
           pc' \in {"boot", "ok_erase"} \/ pc' = pc \/ (pc = "run" /\ pc' = "test_erase"),
           \/ ptn' = ptn /\ stage' = stage
           \/ ptn' = ptn /\ stage = "written" /\ stage' = "verified"
           \/ stage' \in {"idle", "granted"},
           accepted # NoSlot => pc' \in {"boot", "run"}
    PROVE  StandsInv'
  <1>1. active' = active /\ \A s : Other(s)' = Other(s)
    BY DEF active, get_active_image, Other
  <1>2. RunsForReason'
    BY <1>1 DEF StandsInv, RunsForReason, Bootable, Pending, Newer
  <1>3. NotStartedYet'
    BY DEF StandsInv, NotStartedYet
  <1>4. AcceptedStands'
    BY <1>1 DEF StandsInv, AcceptedStands, Bootable, Pending, Newer
  <1> QED
    BY <1>2, <1>3, <1>4 DEF StandsInv

(* Steps after which the other slot cannot be started, or is pending, and  *)
(* no confirmation stands.                                                 *)
LEMMA OtherStands ==
    ASSUME SlotsInv, StandsInv, pc # "boot", UNCHANGED remap, accepted' = NoSlot,
           image'[active] = image[active], trailer'[active] = trailer[active],
           pc' \in {"boot", "run", "test_erase", "test_program"},
           NotStartedYet',
           Bootable(Other(active))' => Pending(Other(active))'
    PROVE  StandsInv'
  BY DEF StandsInv, RunsForReason, AcceptedStands

-----------------------------------------------------------------------------
(* Calls and resets that write nothing                                     *)

(* Everything but the writes of the flash and the start of an image.       *)
LEMMA NoWriteStands ==
    ASSUME SlotsInv, StandsInv,
           \/ Reboot \/ PowerCut \/ GetUpdatePartition \/ AgentAbandon \/ VerifyImage
           \/ BootSwapTestCall \/ UpdateStateInvalid
    PROVE  StandsInv'
  <1>1. CASE Reboot \/ PowerCut
    BY <1>1, QuietStands DEF Reboot, PowerCut, GoDown, LoseRam, flash, history
  <1>2. CASE GetUpdatePartition \/ AgentAbandon
    BY <1>2, QuietStands DEF GetUpdatePartition, AgentAbandon, flash, history, StandsInv,
       AcceptedStands
  <1>3. CASE VerifyImage
    BY <1>3, QuietStands DEF VerifyImage, flash, history, StandsInv, AcceptedStands
  <1>4. CASE BootSwapTestCall
    BY <1>4, QuietStands DEF BootSwapTestCall, flash, agent, history, StandsInv, AcceptedStands
  <1>5. CASE UpdateStateInvalid
    BY <1>5, QuietStands DEF UpdateStateInvalid, flash, agent, history, StandsInv, AcceptedStands
  <1> QED
    BY <1>1, <1>2, <1>3, <1>4, <1>5

(* boot_swap_ok up to its first erase.  Its early return for an image that *)
(* is confirmed reports nothing new, or that of an image which runs for a  *)
(* reason while the other slot is not pending.                             *)
LEMMA BootSwapOkCallStands == SlotsInv /\ StandsInv /\ BootSwapOkCall => StandsInv'
  <1> SUFFICES ASSUME SlotsInv, StandsInv, BootSwapOkCall PROVE StandsInv'
    OBVIOUS
  <1>1. UNCHANGED <<image, trailer, remap, ptn, stage>> /\ pc = "run"
    BY DEF BootSwapOkCall, flash, agent
  <1>2. active \in Slots /\ trailer[active] \in Trailer /\ image[active].body = "whole"
    BY <1>1, ActiveSlot DEF SlotsInv, TypeOK, RunningTrailer
  <1>3. CASE accepted' = accepted
    <2>1. pc' = "run" \/ (pc' = "ok_erase" /\ trailer[active].image_ok # "set")
      BY <1>1 DEF BootSwapOkCall
    <2>2. accepted # NoSlot => pc' \in {"boot", "run"}
      BY <2>1 DEF StandsInv, AcceptedStands, Confirmed
    <2> QED
      BY <1>1, <1>3, <2>1, <2>2, QuietStands
  <1>4. CASE accepted' # accepted
    <2>1. /\ pc' = pc /\ accepted' = active /\ stage = "idle" /\ ~Pending(Other(active))
          /\ trailer[active].magic = "set" /\ trailer[active].copy_done = "set"
          /\ trailer[active].image_ok = "set"
      BY <1>4 DEF BootSwapOkCall, boot_img_magic_check, history
    <2>2. trailer[active] = Confirmed
      BY <1>2, <2>1 DEF Trailer, Confirmed
    <2>3. Bootable(Other(active)) => Newer(active, Other(active))
      BY <1>1, <2>1 DEF StandsInv, RunsForReason
    <2>4. active' = active /\ \A s : Other(s)' = Other(s)
      BY <1>1 DEF active, get_active_image, Other
    <2>5. RunsForReason' /\ NotStartedYet'
      BY <1>1, <2>1, <2>4 DEF StandsInv, RunsForReason, NotStartedYet, Bootable, Pending, Newer
    <2>6. AcceptedStands'
      BY <1>1, <1>2, <2>1, <2>2, <2>3, <2>4 DEF AcceptedStands, Bootable, Pending, Newer
    <2> QED
      BY <2>5, <2>6 DEF StandsInv
  <1> QED
    BY <1>3, <1>4

-----------------------------------------------------------------------------
(* Writes                                                                  *)

(* What the agent writes cannot be started while it is written, and is not *)
(* marked when it is complete.                                             *)
LEMMA AgentWritesStand ==
    ASSUME SlotsInv, StandsInv,
           AgentErase \/ (\E v \in Versions : AgentWrite(v)) \/ AgentFinish
    PROVE  StandsInv'
  <1>1. /\ stage \in {"granted", "erasing", "writing"} /\ pc = "run" /\ pc' = "run"
        /\ UNCHANGED <<remap, ptn>>
    BY DEF AgentErase, AgentWrite, AgentFinish
  <1>2. /\ ptn = Other(active) /\ ptn \in Slots /\ active \in Slots /\ ptn # active
    BY <1>1, AgentHolds
  <1>3. image \in [Slots -> Image] /\ trailer \in [Slots -> Trailer]
    BY DEF SlotsInv, TypeOK
  <1>4. image'[active] = image[active] /\ trailer'[active] = trailer[active]
    BY <1>2, <1>3 DEF AgentErase, AgentWrite, AgentFinish
  <1>5. accepted' = NoSlot
    BY DEF AgentErase, AgentWrite, AgentFinish, StandsInv, AcceptedStands, history
  <1>6. /\ stage' \in {"writing", "written"} => trailer'[ptn].copy_done = "unset"
        /\ stage' \in {"erasing", "writing", "written"}
    BY <1>2, <1>3 DEF AgentErase, AgentWrite, AgentFinish, StandsInv, NotStartedYet, Erased
  <1>7. image'[ptn].body = "whole" =>
            trailer'[ptn].image_ok = "unset" /\ trailer'[ptn].copy_done = "unset"
    BY <1>2, <1>3 DEF AgentErase, AgentWrite, AgentFinish, StandsInv, NotStartedYet, SlotsInv,
       AgentPosition, NoImage
  <1>8. Other(active)' = ptn
    BY <1>1, <1>2 DEF Other, active, get_active_image
  <1>9. Bootable(Other(active))' => Pending(Other(active))'
    BY <1>7, <1>8 DEF Bootable, Pending
  <1>10. NotStartedYet'
    BY <1>1, <1>6 DEF NotStartedYet
  <1> QED
    BY <1>1, <1>4, <1>5, <1>9, <1>10, OtherStands

(* What an erase or a program to something that was not started leaves was *)
(* not started.                                                            *)
LEMMA TornNotStarted ==
    ASSUME NEW old \in Trailer, NEW new \in Trailer, NEW t \in Torn(old, new),
           old.copy_done = "unset", new.copy_done = "unset"
    PROVE  t.copy_done = "unset"
  <1>1. t \in Trailer
    BY DEF Torn
  <1>2. "copy_done" \in DOMAIN t
    BY <1>1 DEF Trailer
  <1> QED
    BY <1>1, <1>2 DEF Torn

(* boot_swap_test leaves the other slot as it is, marked, or in between:   *)
(* pending, if it can be started.                                          *)
LEMMA BootSwapTestStands ==
    ASSUME SlotsInv, StandsInv, BootSwapTestErase \/ BootSwapTestProgram
    PROVE  StandsInv'
  <1> DEFINE o == Other(active)
  <1>1. /\ pc \in {"test_erase", "test_program"} /\ stage = "verified"
        /\ UNCHANGED <<image, remap, accepted>>
        /\ pc' \in {"boot", "run", "test_program"}
        /\ stage' \in {"idle", "verified", "staged"}
        /\ stage' = "verified" => ptn' = ptn
    BY DEF BootSwapTestErase, BootSwapTestProgram, FlashTrailer, Continue, GoDown, LoseRam, agent,
       history, SlotsInv, AgentPosition
  <1>2. /\ ptn = o /\ o \in Slots /\ active \in Slots /\ o # active
        /\ trailer \in [Slots -> Trailer]
    BY <1>1, AgentHolds DEF SlotsInv, TypeOK
  <1>3. trailer[o] \in Trailer /\ trailer[o].copy_done = "unset" /\ trailer[o].image_ok = "unset"
    BY <1>1, <1>2 DEF StandsInv, NotStartedYet, SlotsInv, AgentPosition
  <1>4. PICK new \in {Erased, Marked}, t \in Trailer :
          /\ trailer' = [trailer EXCEPT ![o] = t]
          /\ t = new \/ t \in Torn(trailer[o], new)
    BY WrittenTrailers DEF BootSwapTestErase, BootSwapTestProgram, FlashTrailer, Torn
  <1>5. new \in Trailer /\ new.copy_done = "unset" /\ new.image_ok = "unset"
    BY WrittenTrailers DEF Erased, Marked
  <1>6. t \in Trailer /\ t.copy_done = "unset" /\ t.image_ok = "unset"
    BY <1>3, <1>4, <1>5, TornTrailer, TornNotStarted
  <1>7. trailer'[o] = t /\ trailer'[active] = trailer[active]
    BY <1>2, <1>4
  <1>8. active' = active /\ Other(active)' = o
    BY <1>1 DEF Other, active, get_active_image
  <1>9. Bootable(Other(active))' => Pending(Other(active))'
    BY <1>6, <1>7, <1>8 DEF Bootable, Pending
  <1>10. NotStartedYet'
    BY <1>1, <1>2, <1>6, <1>7 DEF NotStartedYet
  <1>11. accepted' = NoSlot
    BY <1>1 DEF StandsInv, AcceptedStands
  <1> QED
    BY <1>1, <1>7, <1>9, <1>10, <1>11 DEF StandsInv, RunsForReason, AcceptedStands

(* boot_swap_ok on its way: nothing is reported before the other slot's    *)
(* header is gone.                                                         *)
LEMMA BootSwapOkStands ==
    ASSUME SwapOkReliable, SlotsInv, StandsInv,
           BootSwapOkErase \/ BootSwapOkProgram \/ BootSwapOkHeader
    PROVE  StandsInv'
  <1>1. pc \in {"ok_erase", "ok_program", "ok_header"} /\ UNCHANGED remap /\ stage = "idle"
    BY DEF BootSwapOkErase, BootSwapOkProgram, BootSwapOkHeader, FlashTrailer, GoDown, SlotsInv,
       AgentPosition
  <1>2. accepted = NoSlot /\ stage' = "idle"
    BY <1>1 DEF StandsInv, AcceptedStands, BootSwapOkErase, BootSwapOkProgram, BootSwapOkHeader,
       FlashTrailer, GoDown, LoseRam, Continue, agent
  <1>3. NotStartedYet'
    BY <1>2 DEF NotStartedYet
  <1>4. CASE pc' \in {"boot", "ok_program", "ok_header"}
    <2>1. accepted' = NoSlot
      BY <1>2, <1>4 DEF BootSwapOkErase, BootSwapOkProgram, BootSwapOkHeader, FlashTrailer, GoDown,
         history
    <2> QED
      BY <1>3, <1>4, <2>1 DEF StandsInv, RunsForReason, AcceptedStands
  <1>5. CASE pc' \notin {"boot", "ok_program", "ok_header"}
    <2>1. /\ pc = "ok_header" /\ pc' = "run" /\ UNCHANGED trailer /\ accepted' = active
          /\ image' = [image EXCEPT ![Other(active)] = NoImage]
      BY <1>5 DEF BootSwapOkErase, BootSwapOkProgram, BootSwapOkHeader, FlashTrailer, GoDown,
         Continue, SwapOkReliable, TrailerOpsReliable
    <2>2. /\ active' = active /\ Other(active)' = Other(active)
          /\ Other(active) \in Slots /\ active \in Slots /\ Other(active) # active
      BY <1>1, ActiveSlot, OtherSlot DEF Other, active, get_active_image
    <2>3. /\ image'[Other(active)] = NoImage /\ image'[active].body = "whole"
          /\ trailer[active] = Confirmed
      BY <2>1, <2>2 DEF SlotsInv, TypeOK, RunningTrailer
    <2>4. ~Bootable(Other(active))'
      BY <2>2, <2>3 DEF Bootable, NoImage
    <2> QED
      BY <1>2, <1>3, <2>1, <2>2, <2>3, <2>4 DEF StandsInv, RunsForReason, AcceptedStands
  <1> QED
    BY <1>4, <1>5

-----------------------------------------------------------------------------
(* The bootloader                                                          *)

(* Of two slots with an image of which neither is pending, the newer is    *)
(* selected.                                                               *)
LEMMA NewerSelected ==
    ASSUME NEW s \in Slots, NEW t \in Slots, s # t, image \in [Slots -> Image],
           Selected(s), image[t].body # "blank", ~Pending(t), ~Pending(s)
    PROVE  Newer(s, t)
  <1>1. PICK p \in Policies : Best(p, {u \in Slots : image[u].body # "blank"}, s)
    BY DEF Selected
  <1>2. Ahead(p, s, t)
    BY <1>1 DEF Best
  <1> QED
    BY <1>2 DEF Ahead, Newer

(* The version of an image is a number, so that of two slots one is newer. *)
LEMMA NotBothNewer ==
    ASSUME NEW s \in Slots, NEW t \in Slots, s # t, image \in [Slots -> Image], Newer(s, t)
    PROVE  ~Newer(t, s)
  <1>1. image[s].ver \in Nat /\ image[t].ver \in Nat
    <2>1. NoImage.ver \in Nat
      BY DEF NoImage
    <2>2. \A i \in [ver : Versions, body : {"partial", "whole"}] : i.ver \in Nat
      BY VersionsAssumption
    <2>3. Image = [ver : Versions, body : {"partial", "whole"}] \cup {NoImage}
      BY DEF Image
    <2>4. image[s] \in Image /\ image[t] \in Image
      OBVIOUS
    <2> QED
      BY <2>1, <2>2, <2>3, <2>4
  <1> QED
    BY <1>1 DEF Newer

(* While a confirmation stands, the bootloader starts no other slot.       *)
LEMMA OnlyAcceptedStarts ==
    ASSUME SlotsInv, StandsInv, accepted # NoSlot, NEW s \in Slots, Selected(s), Bootable(s)
    PROVE  s = active
  <1>1. /\ active \in Slots /\ image \in [Slots -> Image]
        /\ \A t \in Slots : t = active \/ t = Other(active)
    BY ActiveSlot, OtherSlot DEF SlotsInv, TypeOK
  <1>2. image[active].body = "whole" /\ ~Pending(active)
    BY WrittenTrailers DEF StandsInv, AcceptedStands, Pending
  <1>3. SUFFICES ASSUME s = Other(active), s # active PROVE FALSE
    BY <1>1
  <1>4. ~Pending(s) /\ Newer(active, s)
    BY <1>3 DEF StandsInv, AcceptedStands
  <1>5. Newer(s, active)
    BY <1>1, <1>2, <1>3, <1>4, NewerSelected
  <1> QED
    BY <1>1, <1>3, <1>4, <1>5, NotBothNewer

(* A slot that is erased because it cannot be started is not the one that  *)
(* was confirmed.                                                          *)
LEMMA BootRejectStands ==
    ASSUME SlotsInv, StandsInv, NEW s \in Slots, BootReject(s)
    PROVE  StandsInv'
  <1>1. /\ pc = "boot" /\ pc' = "boot" /\ stage' = "idle" /\ stage = "idle"
        /\ UNCHANGED <<remap, accepted>> /\ ~Bootable(s)
        /\ image' = [image EXCEPT ![s] = NoImage]
        /\ trailer' = trailer \/ trailer' = [trailer EXCEPT ![s] = Erased]
    BY DEF BootReject, SlotsInv, AgentPosition, agent, history
  <1>2. RunsForReason' /\ NotStartedYet'
    BY <1>1 DEF RunsForReason, NotStartedYet
  <1>3. active' = active /\ Other(active)' = Other(active)
    BY <1>1 DEF Other, active, get_active_image
  <1>4. ASSUME accepted # NoSlot
        PROVE  /\ image'[active] = image[active] /\ trailer'[active] = trailer[active]
               /\ ~Bootable(Other(active))'
    <2>1. s # active
      BY <1>1, <1>4, WrittenTrailers DEF StandsInv, AcceptedStands, Bootable
    <2>2. s = Other(active)
      BY <2>1, ActiveSlot, OtherSlot
    <2>3. /\ image'[s] = NoImage /\ image'[active] = image[active]
          /\ trailer'[active] = trailer[active]
      BY <1>1, <2>1, ActiveSlot DEF SlotsInv, TypeOK
    <2> QED
      BY <1>3, <2>2, <2>3 DEF Bootable, NoImage
  <1>5. AcceptedStands'
    BY <1>1, <1>3, <1>4 DEF StandsInv, AcceptedStands
  <1> QED
    BY <1>2, <1>5 DEF StandsInv

(* The slot that is started is selected: for its mark, which is not a      *)
(* confirmation, or for its version.                                       *)
LEMMA BootRunStands ==
    ASSUME SlotsInv, StandsInv, NEW s \in Slots, BootRun(s)
    PROVE  StandsInv'
  <1> DEFINE o == Other(s)
  <1>1. /\ Selected(s) /\ Bootable(s) /\ pc' = "run"
        /\ stage = "idle" /\ stage' = "idle" /\ UNCHANGED <<image, accepted>>
        /\ trailer' = [trailer EXCEPT ![s].copy_done = "set"]
        /\ image \in [Slots -> Image] /\ trailer \in [Slots -> Trailer]
    BY DEF BootRun, SlotsInv, AgentPosition, TypeOK, agent, history
  <1>2. active' = s /\ Other(active)' = o /\ o \in Slots /\ o # s
    BY OtherSlot DEF BootRun, active, get_active_image, Slots, Other
  <1>3. trailer'[s] = [trailer[s] EXCEPT !.copy_done = "set"] /\ trailer'[o] = trailer[o]
    BY <1>1, <1>2
  <1>4. /\ trailer'[s].image_ok = trailer[s].image_ok
        /\ Bootable(o)' = Bootable(o) /\ Pending(o)' = Pending(o) /\ Newer(s, o)' = Newer(s, o)
    BY <1>1, <1>3 DEF Trailer, Bootable, Pending, Newer
  <1>5. RunsForReason'
    <2> SUFFICES ASSUME trailer[s].image_ok = "set", Bootable(o), ~Pending(o)
                 PROVE  Newer(s, o)
      BY <1>2, <1>4 DEF RunsForReason, Bootable, Pending, Newer
    <2> QED
      BY <1>1, <1>2, NewerSelected DEF Bootable, Pending
  <1>6. NotStartedYet'
    BY <1>1 DEF NotStartedYet
  <1>7. ASSUME accepted # NoSlot
        PROVE  /\ s = active /\ trailer'[s] = Confirmed
               /\ Bootable(o)' => ~Pending(o)' /\ Newer(s, o)'
    <2>1. s = active
      BY <1>1, <1>7, OnlyAcceptedStarts
    <2> QED
      BY <1>3, <1>4, <1>7, <2>1 DEF StandsInv, AcceptedStands, Confirmed
  <1>8. AcceptedStands'
    BY <1>1, <1>2, <1>7 DEF StandsInv, AcceptedStands, Bootable, Pending, Newer
  <1> QED
    BY <1>5, <1>6, <1>8 DEF StandsInv

(* copy_done is not written again for a slot that was confirmed.           *)
LEMMA BootCutStands ==
    ASSUME SlotsInv, StandsInv, NEW s \in Slots, BootCut(s)
    PROVE  StandsInv'
  <1>1. pc' = "boot" /\ stage' = "idle" /\ accepted' = accepted
    BY DEF BootCut, SlotsInv, AgentPosition, agent, history
  <1>2. accepted = NoSlot
    BY OnlyAcceptedStarts, WrittenTrailers DEF BootCut, StandsInv, AcceptedStands
  <1> QED
    BY <1>1, <1>2 DEF StandsInv, RunsForReason, NotStartedYet, AcceptedStands

-----------------------------------------------------------------------------
LEMMA NextStands ==
    ASSUME SwapOkReliable, SlotsInv, StandsInv, [Next]_vars
    PROVE  StandsInv'
  <1>1. CASE Reboot \/ PowerCut
    BY <1>1, NoWriteStands
  <1>2. CASE Bootloader
    BY <1>2, BootRejectStands, BootRunStands, BootCutStands DEF Bootloader
  <1>3. CASE Agent
    BY <1>3, NoWriteStands, AgentWritesStand DEF Agent
  <1>4. CASE bl_update_image_state
    BY <1>4, NoWriteStands, BootSwapTestStands, BootSwapOkCallStands, BootSwapOkStands
    DEF bl_update_image_state
  <1>5. CASE UNCHANGED vars
    BY <1>5 DEF vars, StandsInv, RunsForReason, NotStartedYet, AcceptedStands, Bootable, Pending,
       Newer, active, get_active_image, Other
  <1> QED
    BY <1>1, <1>2, <1>3, <1>4, <1>5 DEF Next

(* Why a confirmation stands, in every state: the invariant that the       *)
(* theorem below needs besides SlotsInv.                                   *)
THEOREM StandsInvariant == SwapOkReliable => (Spec => []StandsInv)
  <1> SUFFICES ASSUME SwapOkReliable PROVE Spec => []StandsInv
    OBVIOUS
  <1>1. TrailerOpsReliable
    BY DEF SwapOkReliable
  <1>2. SlotsInv /\ StandsInv /\ [Next]_vars => StandsInv'
    BY NextStands
  <1>3. Spec => []SlotsInv
    BY <1>1, SlotsInvariant
  <1> QED
    BY <1>2, <1>3, InitStands, PTL DEF Spec

(* Once bl_update_image_state(Permanent) has reported success, and until   *)
(* the agent touches a slot again, every reset starts that image, with any *)
(* number of power cuts before, in and after the call.                     *)
THEOREM ConfirmationStays == SwapOkReliable => (Spec => []ConfirmedStays)
  <1> SUFFICES ASSUME SwapOkReliable PROVE Spec => []ConfirmedStays
    OBVIOUS
  <1>1. (Spec => []SlotsInv) /\ (Spec => []StandsInv)
    BY SlotsInvariant, StandsInvariant DEF SwapOkReliable
  <1>2. SlotsInv /\ StandsInv => ConfirmedStays
    <2> SUFFICES ASSUME SlotsInv, StandsInv, accepted # NoSlot, NEW p \in Policies
                 PROVE  Best(p, {t \in Slots : Bootable(t)}, active)
      BY DEF ConfirmedStays, NextBoot, StandsInv, AcceptedStands
    <2>1. active \in Slots /\ Bootable(active) /\ ~Pending(active)
      BY ActiveSlot, WrittenTrailers DEF StandsInv, AcceptedStands, Bootable, Pending
    <2>2. ASSUME NEW t \in Slots, Bootable(t), t # active PROVE Ahead(p, active, t)
      <3>1. t = Other(active)
        BY <2>1, <2>2, OtherSlot
      <3>2. ~Pending(t) /\ Newer(active, t)
        BY <2>2, <3>1 DEF StandsInv, AcceptedStands
      <3> QED
        BY <2>1, <3>2 DEF Ahead, Newer, Pending
    <2> QED
      BY <2>1, <2>2 DEF Best
  <1> QED
    BY <1>1, <1>2, PTL
=============================================================================
