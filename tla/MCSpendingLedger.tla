-------------------------- MODULE MCSpendingLedger --------------------------
(* Small instances of the shared ledger for TLC. *)
EXTENDS SpendingLedger, TLC

CONSTANTS e1, e2, r1, r2, a1, b1, v1, L1

MCExecutors == {e1, e2}
MCReservations == {r1, r2}
MCAccounts == {a1}
MCBindings == {b1}
MCEvidence == {v1}
MCLedgerIds == {L1}
MCCaps == {2, 3}
MCBoth == {"metered", "existing_credit"}
MCAmounts == {1, 2}
MCBalances == {3}

\* Executors and reservation IDs are interchangeable.
MCSymmetry == Permutations(MCExecutors) \cup Permutations(MCReservations)
=============================================================================
