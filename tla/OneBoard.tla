------------------------------ MODULE OneBoard ------------------------------
(***************************************************************************)
(* The board a build is for: AKNANO_BOARD_MODEL_RT1060 or the other one.   *)
(***************************************************************************)
VARIABLE board

Boards == {"RT1060", "RT1170"}
=============================================================================
