---------------------------- MODULE BuiltBoards ----------------------------
(***************************************************************************)
(* The boards of the repository: the production and the sample variant of  *)
(* the RT1170, and its second core with and without memory it shares.      *)
(***************************************************************************)
LOCAL RT1060 == INSTANCE BoardRT1060
LOCAL RT1170 == INSTANCE BoardRT1170

MCBoards ==
    [rt1060 |-> RT1060!Board,
     rt1170 |-> RT1170!Production, rt1170_sample |-> RT1170!Sample,
     m4 |-> RT1170!M4, m4_shared |-> RT1170!M4Shared]
=============================================================================
