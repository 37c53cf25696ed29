--------------------------- MODULE MCVerifyImage ---------------------------
(***************************************************************************)
(* VerifyImage with the real header of sixteen half words, images shorter  *)
(* and longer than the sums of an erased and of a torn header, without     *)
(* protected TLVs and with some that are too short or not, and every point *)
(* where a download can stop, those inside the trailing TLVs included.     *)
(***************************************************************************)
EXTENDS VerifyImage

MCHeaders == {16, 22}
MCBodies == {2, 24, 60}
MCProtected == {0, 1, 8}
=============================================================================
