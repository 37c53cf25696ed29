---------------------------- MODULE MCImageSlots ----------------------------
(***************************************************************************)
(* Instances of ImageSlots for TLC.                                        *)
(***************************************************************************)
EXTENDS ImageSlots

(* An upgrade, a downgrade and a reinstallation of the same version.       *)
MCVersions == {1, 2, 3}

(* What the bootloader may prefer.                                         *)
EitherPolicy == {"pending", "version"}
MarkedFirst == {"pending"}

(* Errors the calls recover from.                                          *)
Tolerated == {"read", "test_erase", "test_program"}

(* One error each.                                                         *)
HeaderOnly == {"ok_header"}
TrailerOnly == {"ok_program"}
=============================================================================
