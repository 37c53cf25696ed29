----------------------------- MODULE MCSntpTime -----------------------------
(***************************************************************************)
(* SntpTime for TLC: two seconds until the network is up, then the whole   *)
(* of the longest wait and what the agent does after it.  The tick count   *)
(* starts again during the wait or while the agent runs.                   *)
(***************************************************************************)
EXTENDS SntpTime

MCDefaultEpoch == 1637778974   \* 2021-11-24
MCEpoch == 1700000000
=============================================================================
