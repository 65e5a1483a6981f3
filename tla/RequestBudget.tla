---------------------------- MODULE RequestBudget ----------------------------
(***************************************************************************)
(* One segment's request budget (request_budget.py, class RequestBudget),  *)
(* driven by the request loop of an HTTP adapter (adapters.run_chat_http)  *)
(* and closed by runner.run_exam.  Before every request the worst case is  *)
(* counted and recorded; after every response the usage is bound; at the   *)
(* end the shared spending ledger is settled if, and only if, what the     *)
(* provider charged is known; then the budget attempt gets its receipt,    *)
(* and last the candidate attempt a result that is bound to the receipt.   *)
(*                                                                         *)
(* The provider is outside: it bills each request it gets, whether or not  *)
(* its answer arrives, within the bounds and prices the frozen mechanism   *)
(* attests, and never more than the usage it reports.                      *)
(***************************************************************************)
EXTENDS Naturals, Sequences, UnitSums

CONSTANTS
    Mechanisms, \* frozen route billing, limits and mechanism, as records
    Million,    \* tokens a price is quoted for (1_000_000 in the code)
    Excess,     \* by how much a report may exceed what is due
    None

MechanismFields ==
    [version : {"v1", "v2", "v3"},    \* schema of the mechanism
     accountCharge : BOOLEAN,         \* usage reports an account charge
     maxInput : Nat \ {0},            \* max_input_tokens_per_request
     outputBound : Nat \ {0},         \* max_tokens_per_request
     maxRequests : Nat \ {0},         \* max_requests_per_segment
     quantum : Nat \ {0}, fees : Nat, \* usage_upper_bound
     inputRate : Nat, outputRate : Nat, toolFee : Nat,
     totalInput : Nat, totalOutput : Nat, toolRounds : Nat, \* route billing
     maxOutput : Nat \ {0}, toolCalls : Nat]                \* config

ASSUME BudgetAssumption ==
    /\ Mechanisms \subseteq MechanismFields
    /\ Million \in Nat \ {0} /\ Excess \in Nat
    /\ None \notin Nat

VARIABLES
    plan,      \* the prepared mechanism this segment runs under
    pc,        \* where the adapter and run_exam are
    budget,    \* the RequestBudget object, gone when the process dies
    reply,     \* the response in flight: what it reports
    settled,   \* charge the shared ledger holds for the segment, None before
    committed, \* request_budget_committed events in the budget attempt
    receipt,   \* the budget attempt's final record
    candidate, \* the candidate attempt's final record
    sent,      \* requests the provider has received
    billed,    \* what the provider has charged for them
    due        \* tokens and tool calls that charge is for

vars == <<plan, pc, budget, reply, settled, committed, receipt, candidate, sent, billed, due>>

-----------------------------------------------------------------------------
Least(a, b) == IF a <= b THEN a ELSE b

\* _ceil_cost
Ceil(rate, tokens) == (rate * tokens + Million - 1) \div Million

\* _ceil_cost_quantum
CeilQuantum(rate, tokens, quantum) ==
    ((rate * tokens + Million * quantum - 1) \div (Million * quantum)) * quantum

\* The charge formula of commit_request and observe
Formula(m, input, output, tools) ==
    Ceil(m.inputRate, input) + Ceil(m.outputRate, output) + tools * m.toolFee

\* _maximum_segment_charge
Maximum(m) == Formula(m, m.totalInput, m.totalOutput, m.toolRounds)

\* The request_charge_upper_bound_micro_usd of one observed request
RequestCharge(m, use) ==
    CeilQuantum(m.inputRate, use.input, m.quantum)
    + CeilQuantum(m.outputRate, use.output, m.quantum)
    + use.tools * m.toolFee

\* _maximum_usage_bound_charge
MaximumUsageBound(m) ==
    m.maxRequests * CeilQuantum(m.inputRate, m.maxInput, m.quantum)
    + m.maxRequests * CeilQuantum(m.outputRate, m.outputBound, m.quantum)
    + m.toolRounds * m.toolFee + m.fees

\* What RequestBudgetController.prepare and the mechanism validators demand
PreparedUnquantized(m) == \* mutant: roundings per request are not compared
    /\ m.version = "v3" => ~m.accountCharge
    /\ m.version \in {"v2", "v3"} =>
          /\ m.maxRequests >= m.toolCalls + 1
          /\ m.totalInput >= m.maxInput * m.maxRequests
          /\ m.maxOutput <= m.outputBound

Prepared(m) ==
    /\ m.version = "v3" => ~m.accountCharge
    /\ m.version \in {"v2", "v3"} =>
          /\ m.maxRequests >= m.toolCalls + 1
          /\ m.totalInput >= m.maxInput * m.maxRequests
          /\ m.maxOutput <= m.outputBound
    /\ m.version = "v3" => MaximumUsageBound(m) <= Maximum(m)

\* Sum of the request charges of a sequence of observed requests
UsageCharge(m, usage) == Total([i \in DOMAIN usage |-> RequestCharge(m, usage[i])])

FreshBudget ==
    [rounds |-> 0, input |-> 0, output |-> 0, seenInput |-> 0, seenOutput |-> 0,
     tools |-> 0, formula |-> 0, provider |-> None, authoritative |-> 0,
     usage |-> <<>>, pending |-> None]

Init ==
    /\ plan \in {m \in Mechanisms : Prepared(m)}
    /\ pc = "ready"
    /\ budget = FreshBudget
    /\ reply = None
    /\ settled = None
    /\ committed = 0
    /\ receipt = None /\ candidate = None
    /\ sent = 0 /\ billed = 0
    /\ due = [input |-> 0, output |-> 0, tools |-> 0]

-----------------------------------------------------------------------------
\* What commit_request counts: the counter's answer (v1), or the bound.
Counted(m) == IF m.version = "v1" THEN 1..m.maxInput ELSE {m.maxInput}

Affordable(n) ==
    LET input == budget.input + n
        output == budget.output + plan.maxOutput
    IN /\ input <= plan.totalInput
       /\ output <= plan.totalOutput
       /\ Formula(plan, input, output, budget.tools) <= Maximum(plan)

CommitRequestUnrecorded(n) == \* mutant: the event is not appended first
    /\ pc = "ready"
    /\ budget.pending = None
    /\ budget.rounds < plan.toolCalls + 1
    /\ Affordable(n)
    /\ budget' = [budget EXCEPT !.rounds = @ + 1, !.input = @ + n,
                                !.output = @ + plan.maxOutput, !.pending = n]
    /\ pc' = "committed"
    /\ UNCHANGED <<plan, reply, settled, committed, receipt, candidate, sent, billed, due>>

CommitRequest(n) ==
    /\ pc = "ready"
    /\ budget.pending = None
    /\ budget.rounds < plan.toolCalls + 1
    /\ Affordable(n)
    /\ committed' = committed + 1
    /\ budget' = [budget EXCEPT !.rounds = @ + 1, !.input = @ + n,
                                !.output = @ + plan.maxOutput, !.pending = n]
    /\ pc' = "committed"
    /\ UNCHANGED <<plan, reply, settled, receipt, candidate, sent, billed, due>>

\* A refused request is an error of the trial.
RefuseRequest(n) ==
    /\ pc = "ready"
    /\ budget.rounds >= plan.toolCalls + 1 \/ ~Affordable(n)
    /\ pc' = "failing"
    /\ UNCHANGED <<plan, budget, reply, settled, committed, receipt, candidate, sent, billed, due>>

\* The deadline passes, a check of the adapter fails, the network fails, or a
\* tool result is too large (serialize_tool_result): the trial fails, and an
\* outstanding request stays pending.
Fail ==
    /\ pc \in {"ready", "committed", "sent", "observed"}
    /\ pc' = "failing"
    /\ reply' = None
    /\ UNCHANGED <<plan, budget, settled, committed, receipt, candidate, sent, billed, due>>

\* The provider: what it bills for a request that uses at most what was
\* counted, at most max_output_tokens, and the tool calls the route allows.
MayBill(use) ==
    LET used == [input |-> Least(use.input, budget.pending),
                 output |-> Least(use.output, plan.maxOutput),
                 tools |-> Least(use.tools, Least(plan.toolCalls, plan.toolRounds) - due.tools)]
        total == [f \in DOMAIN due |-> due[f] + used[f]]
        price == IF plan.version = "v3"
                 THEN RequestCharge(plan, used) + (IF sent = 0 THEN plan.fees ELSE 0)
                 ELSE Formula(plan, total.input, total.output, total.tools) - billed
    IN [total |-> total, price |-> price]

Send(use, bill, over) ==
    /\ pc = "committed"
    /\ bill <= MayBill(use).price
    /\ due' = MayBill(use).total
    /\ billed' = billed + bill
    /\ sent' = sent + 1
    /\ reply' = [use EXCEPT !.cost = bill + over]
    /\ pc' = "sent"
    /\ UNCHANGED <<plan, budget, settled, committed, receipt, candidate>>

-----------------------------------------------------------------------------
\* observe: cumulative usage after the response, and what it must respect.
Observed(r) ==
    [budget EXCEPT !.seenInput = @ + r.input, !.seenOutput = @ + r.output, !.tools = @ + r.tools,
                   !.formula = Formula(plan, budget.seenInput + r.input,
                                       budget.seenOutput + r.output, budget.tools + r.tools),
                   !.provider = IF ~plan.accountCharge THEN @
                                ELSE (IF @ = None THEN 0 ELSE @) + r.cost,
                   !.authoritative = IF plan.accountCharge THEN @ + 1 ELSE @,
                   !.usage = IF plan.version = "v3"
                             THEN Append(@, [input |-> r.input, output |-> r.output, tools |-> r.tools])
                             ELSE @,
                   !.pending = None]

WithinBounds(r) ==
    LET next == Observed(r)
    IN /\ r.known
       /\ r.input <= budget.pending /\ next.seenInput <= plan.totalInput
       /\ r.output <= plan.maxOutput /\ next.seenOutput <= plan.totalOutput
       /\ next.tools <= plan.toolCalls /\ next.tools <= plan.toolRounds
       /\ next.formula <= Maximum(plan)
       /\ plan.accountCharge => next.provider <= Maximum(plan)

Observe ==
    /\ pc = "sent"
    /\ budget.pending # None
    /\ WithinBounds(reply)
    /\ budget' = Observed(reply)
    /\ pc' = "observed"
    /\ UNCHANGED <<plan, reply, settled, committed, receipt, candidate, sent, billed, due>>

RejectUsage ==
    /\ pc = "sent"
    /\ ~WithinBounds(reply)
    /\ pc' = "failing"
    /\ reply' = None
    /\ UNCHANGED <<plan, budget, settled, committed, receipt, candidate, sent, billed, due>>

\* A response with tool calls is answered with their results.  One without
\* ends the loop of run_chat_http; a client behind the OpenCode gateway may
\* still ask again.
Continue ==
    /\ pc = "observed"
    /\ pc' \in (IF reply.tools > 0 THEN {"ready"} ELSE {"ready", "succeeding"})
    /\ reply' = None
    /\ UNCHANGED <<plan, budget, settled, committed, receipt, candidate, sent, billed, due>>

\* An append to the evidence raises OSError, before or after the bytes are in
\* the log.  run_exam catches it with the errors of a failed trial.
AppendFails ==
    /\ pc \in {"ready", "committed", "sent", "observed"}
    /\ committed' \in (IF pc = "ready" THEN {committed, committed + 1} ELSE {committed})
    /\ pc' = "failing"
    /\ reply' = None
    /\ UNCHANGED <<plan, budget, settled, receipt, candidate, sent, billed, due>>

-----------------------------------------------------------------------------
\* finalize, first half: what the shared ledger is told.  A v1 budget has no
\* shared reservation.
Charge ==
    CASE plan.version = "v2" -> IF budget.provider = None THEN 0 ELSE budget.provider
      [] plan.version = "v3" -> UsageCharge(plan, budget.usage) + plan.fees

ChargeKnownSoFar == \* mutant: a lost response is forgotten
    \/ plan.version = "v2" /\ (budget.rounds = 0 \/ budget.authoritative > 0)
    \/ plan.version = "v3"

ChargeKnown ==
    \/ /\ plan.version = "v2"
       /\ \/ budget.rounds = 0
          \/ budget.pending = None /\ budget.authoritative = budget.rounds
    \/ /\ plan.version = "v3"
       /\ \/ budget.rounds = 0
          \/ budget.pending = None /\ Len(budget.usage) = budget.rounds

Settle ==
    /\ pc \in {"succeeding", "failing"}
    /\ pc = "succeeding" => budget.pending = None
    /\ ChargeKnown => Charge <= Maximum(plan)
    /\ settled' = IF ChargeKnown THEN Charge ELSE settled
    /\ pc' = IF pc = "succeeding" THEN "completed" ELSE "failed"
    /\ UNCHANGED <<plan, budget, reply, committed, receipt, candidate, sent, billed, due>>

\* finalize, second half: the receipt.
WriteReceipt ==
    /\ pc \in {"completed", "failed"}
    /\ receipt' = [status |-> pc, body |-> budget, settled |-> settled # None,
                   charge |-> IF plan.version = "v3" THEN settled ELSE None]
    /\ pc' = "receipted"
    /\ UNCHANGED <<plan, budget, reply, settled, committed, candidate, sent, billed, due>>

\* run_exam binds the receipt into its result, which execute_private_attempt
\* finalizes the candidate attempt with.
CloseCandidateUnbound == \* mutant: the failure of a trial binds no receipt
    /\ pc = "receipted"
    /\ candidate' = IF receipt.status = "completed" THEN [status |-> "ok", receipt |-> receipt]
                    ELSE [status |-> "failed", receipt |-> None]
    /\ pc' = "done"
    /\ UNCHANGED <<plan, budget, reply, settled, committed, receipt, sent, billed, due>>

CloseCandidate ==
    /\ pc = "receipted"
    /\ candidate' = [status |-> IF receipt.status = "completed" THEN "ok" ELSE "failed",
                     receipt |-> receipt]
    /\ pc' = "done"
    /\ UNCHANGED <<plan, budget, reply, settled, committed, receipt, sent, billed, due>>

\* The process dies, or an exception run_exam does not catch ends it.
Crash ==
    /\ pc \notin {"done", "dead"}
    /\ pc' = "dead"
    /\ budget' = FreshBudget
    /\ reply' = None
    /\ UNCHANGED <<plan, settled, committed, receipt, candidate, sent, billed, due>>

\* RequestBudgetController.bind, when the experiment is resumed
Bind ==
    /\ pc = "dead"
    /\ receipt = None
    /\ receipt' = [status |-> "interrupted", body |-> None, settled |-> FALSE, charge |-> None]
    /\ UNCHANGED <<plan, pc, budget, reply, settled, committed, candidate, sent, billed, due>>

\* ... and then the schedule closes the candidate attempt it finds open.
InterruptCandidate ==
    /\ pc = "dead"
    /\ receipt # None /\ candidate = None
    /\ candidate' = [status |-> "interrupted", receipt |-> None]
    /\ UNCHANGED <<plan, pc, budget, reply, settled, committed, receipt, sent, billed, due>>

\* Bounds: a report exceeds what was counted or allowed by at most Excess.
Uses ==
    [input : 0..plan.maxInput + Excess, output : 0..plan.maxOutput + Excess,
     tools : 0..plan.toolCalls + Excess, known : {TRUE}, cost : {0}]
    \cup [input : {plan.maxInput}, output : {plan.maxOutput},
          tools : {plan.toolCalls}, known : {FALSE}, cost : {0}]

Request == \E n \in Counted(plan) : CommitRequest(n) \/ RefuseRequest(n)
Provider ==
    /\ pc = "committed"
    /\ \E use \in Uses : \E bill \in 0..MayBill(use).price, over \in 0..Excess : Send(use, bill, over)

Next ==
    \/ Request \/ Provider
    \/ Observe \/ RejectUsage \/ Continue \/ Fail \/ AppendFails
    \/ Settle \/ WriteReceipt \/ CloseCandidate
    \/ Crash \/ Bind \/ InterruptCandidate

Spec == Init /\ [][Next]_vars

-----------------------------------------------------------------------------
\* Whatever is lost, refused or interrupted, the provider can never have
\* charged more for the segment than the maximum the shared ledger reserved
\* for it (the checks of prepare and commit_request together).
BilledWithinMaximum == billed <= Maximum(plan)

\* The provider never holds a request whose worst case is not in the evidence,
\* a process that died included.
RequestsAreCommitted == sent <= committed

\* The ledger is told a charge only when it covers everything the provider
\* billed, and never more than it reserved: a lost response, missing billing or
\* a rejected report leaves the worst case reserved (finalize).
SettlementCoversBill == settled # None => billed <= settled /\ settled <= Maximum(plan)

\* Sum of one amount over a sequence of observed requests
UsageSum(usage, amount) == Total([i \in DOMAIN usage |-> usage[i][amount]])

\* _verify_usage_bound_result
UsageVerified(r) ==
    /\ r.body.provider = None
    /\ Len(r.body.usage) <= r.body.rounds
    /\ UsageSum(r.body.usage, "input") = r.body.seenInput
    /\ UsageSum(r.body.usage, "output") = r.body.seenOutput
    /\ UsageSum(r.body.usage, "tools") = r.body.tools
    /\ r.settled =>
          /\ Len(r.body.usage) = r.body.rounds
          /\ r.charge = UsageCharge(plan, r.body.usage) + plan.fees
          /\ r.charge <= Maximum(plan)
    /\ ~r.settled => r.charge = None

\* verify_request_budget_evidence: what the receipt says of the trial
ResultVerified(r) ==
    /\ plan.version = "v3" => UsageVerified(r)
    /\ r.body.formula = Formula(plan, r.body.seenInput, r.body.seenOutput, r.body.tools)
    /\ plan.accountCharge /\ r.body.provider # None => r.body.provider <= Maximum(plan)
    /\ r.body.rounds <= plan.toolCalls + 1
    /\ r.body.input <= plan.totalInput
    /\ r.body.output <= plan.totalOutput
    /\ r.body.output = r.body.rounds * plan.maxOutput
    /\ r.body.seenInput <= r.body.input
    /\ r.body.seenOutput <= r.body.output
    /\ r.body.tools <= plan.toolCalls /\ r.body.tools <= plan.toolRounds

\* verify_request_budget_evidence of receipt r and candidate result c
Verified(r, c) ==
    IF c.status = "interrupted" THEN r.status = "interrupted"
    ELSE /\ r.status = (IF c.status = "ok" THEN "completed" ELSE "failed")
         /\ ResultVerified(r)
         /\ c.receipt = r

\* A process that dies between the two final records leaves a candidate that
\* the resume closes as interrupted beside a receipt that is not: the verifier
\* rejects the pair (request_budget.py:434-436), and every resume raises.
HalfClosed == candidate.status = "interrupted" /\ receipt.status # "interrupted"

\* Once both attempts of a segment are final, the verifier of a resumed
\* experiment accepts what they say of each other and of the usage, however the
\* trial ended; the one exception is the half-closed pair.  (What a death or a
\* failing call leaves of the files of either attempt is EvidenceStore's.)
VerifierAccepts ==
    receipt # None /\ candidate # None => HalfClosed \/ Verified(receipt, candidate)
=============================================================================
