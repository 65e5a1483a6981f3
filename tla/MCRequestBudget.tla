--------------------------- MODULE MCRequestBudget ---------------------------
(***************************************************************************)
(* Small instances of RequestBudget for TLC.  Prices are per 4 tokens, so  *)
(* that every rounding of the charge formulas occurs.                      *)
(***************************************************************************)
EXTENDS RequestBudget

\* Two requests, one tool call; totals that both requests fill exactly.
Exact ==
    [version |-> "v1", accountCharge |-> FALSE, maxInput |-> 2, outputBound |-> 1,
     maxRequests |-> 2, quantum |-> 1, fees |-> 0, inputRate |-> 3, outputRate |-> 2,
     toolFee |-> 1, totalInput |-> 3, totalOutput |-> 2, toolRounds |-> 1,
     maxOutput |-> 1, toolCalls |-> 1]

Reported == [Exact EXCEPT !.version = "v2", !.accountCharge = TRUE, !.totalInput = 4]
Unreported == [Reported EXCEPT !.accountCharge = FALSE]

\* Rounding each component of each request up to the quantum costs more than
\* the rounded total, so only generous totals pass prepare.
Usage == [Unreported EXCEPT !.version = "v3", !.quantum = 2, !.fees = 1, !.totalInput = 12,
                            !.totalOutput = 6]
TightUsage == [Usage EXCEPT !.totalInput = 4, !.totalOutput = 2]
MoreCalls == [Usage EXCEPT !.toolRounds = 2, !.toolCalls = 2, !.maxRequests = 3, !.totalInput = 16]
TooFewRequests == [MoreCalls EXCEPT !.maxRequests = 2]

MCMechanisms == {Exact, Reported, Unreported, Usage, TightUsage, MoreCalls,
                 TooFewRequests}
=============================================================================
