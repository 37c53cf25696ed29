----------------------------- MODULE MCBringup -----------------------------
(***************************************************************************)
(* Bringup for TLC, on both boards.                                        *)
(***************************************************************************)
EXTENDS Bringup, BuiltBoards
=============================================================================
