-------------------------- MODULE MCResearchSchedule --------------------------
(***************************************************************************)
(* Small instances of ResearchSchedule for TLC: a cell of two segments and *)
(* one of a single segment, paid or not.                                   *)
(***************************************************************************)
EXTENDS ResearchSchedule, TLC

MCCells == << <<"a1", "a2">>, <<"b1">> >>
MCPaid == {"a1", "a2", "b1"}
MCPaidCost == [s \in MCPaid |-> 1]
MCMixed == {"a1", "a2"}
MCMixedCost == [s \in MCPaid |-> IF s \in MCMixed THEN 1 ELSE 0]

\* Session identities are interchangeable.
SessionSymmetry == Permutations(Sessions)
=============================================================================
