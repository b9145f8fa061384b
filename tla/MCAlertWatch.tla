---------------------------- MODULE MCAlertWatch ----------------------------
(***************************************************************************)
(* An instance of AlertWatch for TLC: one problem beside the heartbeat's,  *)
(* two channels, and a ladder of three rungs.                              *)
(***************************************************************************)
EXTENDS AlertWatch

CONSTANT failure

Ladder == <<0, 2, 3>>
=============================================================================
