---------------------------- MODULE BootPromise ----------------------------
(***************************************************************************)
(* What the two image slots promise the device, with no flash, trailer or  *)
(* call in sight: the set of slots that can be started is never empty.     *)
(* While the running image is itself one of them, the other slot may be    *)
(* rewritten at will.  While it is not (it is on trial), nothing that can  *)
(* be started may be lost, and a trial begins only if another slot can be  *)
(* started after it.                                                       *)
(***************************************************************************)
CONSTANT Slots

VARIABLES
    safe,     \* slots the bootloader can start
    running,  \* slot of the running image, the last one when down
    up        \* an application runs

Init ==
    /\ safe \in SUBSET Slots /\ safe # {}
    /\ running \in safe
    /\ up = FALSE

(* The running image is safe and stays so.                                 *)
Rewrite ==
    /\ up
    /\ running \in safe
    /\ safe' \in SUBSET Slots /\ running \in safe'
    /\ UNCHANGED running /\ up' \in BOOLEAN

(* The running image is on trial; it may become safe.                      *)
Trial ==
    /\ up
    /\ running \notin safe
    /\ safe' \in {safe, safe \cup {running}}
    /\ UNCHANGED running /\ up' \in BOOLEAN

(* The bootloader starts a safe slot; a trial takes it out of the set.     *)
Boot ==
    /\ ~up
    /\ \E s \in safe :
        /\ running' = s
        /\ safe' \in {safe, safe \ {s}}
        /\ safe' # {}
    /\ up' = TRUE

Next == Rewrite \/ Trial \/ Boot

Spec == Init /\ [][Next]_<<safe, running, up>>
=============================================================================
