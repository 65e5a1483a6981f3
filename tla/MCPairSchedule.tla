---------------------------- MODULE MCPairSchedule ----------------------------
(***************************************************************************)
(* A small instance of PairSchedule for TLC.                               *)
(***************************************************************************)
EXTENDS PairSchedule, TLC
=============================================================================
