---------------------------- MODULE MCStageOrder ----------------------------
(* Small instances of StageOrder for TLC. *)
EXTENDS StageOrder
=============================================================================
