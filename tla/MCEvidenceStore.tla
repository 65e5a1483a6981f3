--------------------------- MODULE MCEvidenceStore ---------------------------
(***************************************************************************)
(* Small instances of EvidenceStore for TLC.                               *)
(***************************************************************************)
EXTENDS EvidenceStore, TLC

\* Executors, inspectors, uuid4 names and statuses are interchangeable.
ProcSymmetry ==
    Permutations(Executors) \cup Permutations(Inspectors)
    \cup Permutations(Temps) \cup Permutations(Statuses)
=============================================================================
