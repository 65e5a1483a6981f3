-------------------------- MODULE MCOpenCodeGateway --------------------------
(***************************************************************************)
(* A small instance of OpenCodeGateway for TLC.                            *)
(***************************************************************************)
EXTENDS OpenCodeGateway, TLC

MCBodies == {"first", "second", "third", "retry", "drifted"}
MCConforming == MCBodies \ {"drifted"}
=============================================================================
