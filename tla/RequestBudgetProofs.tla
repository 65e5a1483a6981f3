------------------------- MODULE RequestBudgetProofs -------------------------
(***************************************************************************)
(* Theorems about one segment's request budget, for every mechanism, price *)
(* and number of requests, and whatever is lost on the way: the provider   *)
(* never bills more than was reserved nor for a request that is not in the *)
(* evidence, a settlement covers the bill, and every closed trial verifies.*)
(***************************************************************************)
EXTENDS RequestBudget, UnitSumTheorems

-----------------------------------------------------------------------------
Amount == [input : Nat, output : Nat, tools : Nat]
Report == [input : Nat, output : Nat, tools : Nat, known : BOOLEAN, cost : Nat]
Budget ==
    [rounds : Nat, input : Nat, output : Nat, seenInput : Nat, seenOutput : Nat, tools : Nat,
     formula : Nat, provider : Nat \cup {None}, authoritative : Nat, usage : Seq(Amount),
     pending : Nat \cup {None}]

BudgetType ==
    /\ plan \in MechanismFields /\ Prepared(plan)
    /\ budget \in Budget
    /\ pc \in {"sent", "observed"} => reply \in Report
    /\ settled \in Nat \cup {None}
    /\ committed \in Nat /\ sent \in Nat /\ billed \in Nat /\ due \in Amount

Open == budget.pending # None
Live == pc # "dead"
Closing == {"completed", "failed", "receipted", "done"}
Working == {"ready", "committed", "sent", "observed", "succeeding", "failing", "completed", "failed"}

\* A request is in the evidence before it is on its way.
CountInv ==
    /\ sent <= committed /\ budget.rounds <= committed /\ sent <= plan.toolCalls + 1
    /\ Live => sent <= budget.rounds
    /\ pc = "committed" => sent < budget.rounds
    /\ pc \in {"committed", "sent"} => Open
    /\ Open => budget.pending \in Counted(plan)

\* What was observed of each request adds up to what was observed in all.
SumsAgree(b) ==
    /\ UsageSum(b.usage, "input") = b.seenInput
    /\ UsageSum(b.usage, "output") = b.seenOutput
    /\ UsageSum(b.usage, "tools") = b.tools

\* The budget object keeps to what was prepared, as the verifier asks.
PlanInv ==
    Live =>
       /\ budget.rounds <= plan.toolCalls + 1
       /\ budget.input <= plan.totalInput /\ budget.output <= plan.totalOutput
       /\ budget.output = budget.rounds * plan.maxOutput
       /\ budget.seenInput <= budget.input /\ budget.seenOutput <= budget.output
       /\ Open => /\ budget.seenInput + budget.pending <= budget.input
                  /\ budget.seenOutput + plan.maxOutput <= budget.output
                  /\ Len(budget.usage) < budget.rounds
       /\ budget.tools <= plan.toolCalls /\ budget.tools <= plan.toolRounds
       /\ budget.formula = Formula(plan, budget.seenInput, budget.seenOutput, budget.tools)
       /\ plan.accountCharge /\ budget.provider # None => budget.provider <= Maximum(plan)
       /\ ~plan.accountCharge => budget.provider = None
       /\ Len(budget.usage) <= budget.rounds
       /\ plan.version = "v3" => SumsAgree(budget)

\* What the provider is owed is within what was counted, and has a price.
RequestPrice(m) ==
    CeilQuantum(m.inputRate, m.maxInput, m.quantum) + CeilQuantum(m.outputRate, m.outputBound, m.quantum)

DueInv ==
    /\ due.tools <= plan.toolCalls /\ due.tools <= plan.toolRounds
    /\ due.input <= plan.totalInput /\ due.output <= plan.totalOutput
    /\ Live => due.input <= budget.input /\ due.output <= budget.output
    /\ pc = "committed" => /\ due.input + budget.pending <= budget.input
                           /\ due.output + plan.maxOutput <= budget.output

PriceInv ==
    /\ sent = 0 => billed = 0
    /\ IF plan.version = "v3"
       THEN billed <= sent * RequestPrice(plan) + due.tools * plan.toolFee + plan.fees
       ELSE billed <= Formula(plan, due.input, due.output, due.tools)

\* What the budget knows of covers what was billed, unless a request is open.
ReportedCharge == IF budget.provider = None THEN 0 ELSE budget.provider
ChargeInv ==
    Live =>
       /\ ~plan.accountCharge => budget.authoritative = 0
       /\ plan.accountCharge =>
             /\ pc = "sent" => billed <= ReportedCharge + reply.cost
             /\ ~Open \/ pc = "committed" => billed <= ReportedCharge
       /\ plan.version = "v3" =>
             /\ pc = "sent" => billed <= UsageCharge(plan, budget.usage) + plan.fees + RequestCharge(plan, reply)
             /\ ~Open \/ pc = "committed" =>
                   billed <= UsageCharge(plan, budget.usage) + (IF sent = 0 THEN 0 ELSE plan.fees)

SettledInv ==
    /\ SettlementCoversBill
    /\ settled # None =>
          /\ pc \in Closing \cup {"dead"}
          /\ plan.version = "v3" /\ pc \in Closing =>
                /\ Len(budget.usage) = budget.rounds
                /\ settled = UsageCharge(plan, budget.usage) + plan.fees

\* A receipt is the last thing a trial writes of its budget, and the candidate's
\* result is bound to it, unless the one or the other was interrupted.
ReceiptInv ==
    /\ pc \in Working => receipt = None
    /\ receipt # None =>
          /\ receipt.status \in {"completed", "failed", "interrupted"}
          /\ receipt.status # "interrupted" => ResultVerified(receipt)
    /\ pc = "receipted" => receipt.status \in {"completed", "failed"}
    /\ candidate # None =>
          \/ candidate.status = "interrupted"
          \/ /\ candidate.receipt = receipt
             /\ \/ candidate.status = "ok" /\ receipt.status = "completed"
                \/ candidate.status = "failed" /\ receipt.status = "failed"
    /\ pc # "done" /\ candidate # None => candidate.status = "interrupted"

BudgetInv == BudgetType /\ CountInv /\ PlanInv /\ DueInv /\ PriceInv /\ ChargeInv /\ SettledInv /\ ReceiptInv

-----------------------------------------------------------------------------
LEMMA MillionType == Million \in Nat \ {0}
BY BudgetAssumption

\* Rounding a division up keeps the order.
LEMMA RoundsUp ==
    ASSUME NEW d \in Nat \ {0}, NEW a \in Nat, NEW b \in Nat, a <= b
    PROVE  /\ (a + d - 1) \div d \in Nat /\ (b + d - 1) \div d \in Nat
           /\ (a + d - 1) \div d <= (b + d - 1) \div d
<1> DEFINE x == a + d - 1
           y == b + d - 1
<1>1. x \in Nat /\ y \in Nat /\ x <= y
  OBVIOUS
<1> HIDE DEF x, y
<1>2. x \div d \in Nat /\ y \div d \in Nat /\ x \div d <= y \div d
  BY <1>1
<1> QED
  BY <1>2 DEF x, y

LEMMA Times ==
    ASSUME NEW k \in Nat, NEW a \in Nat, NEW b \in Nat, a <= b
    PROVE  k * a \in Nat /\ k * b \in Nat /\ k * a <= k * b /\ a * k <= b * k /\ a * k \in Nat /\ b * k \in Nat
OBVIOUS

\* More tokens never cost less.
LEMMA CeilGrows ==
    ASSUME NEW rate \in Nat, NEW a \in Nat, NEW b \in Nat, a <= b
    PROVE  Ceil(rate, a) \in Nat /\ Ceil(rate, b) \in Nat /\ Ceil(rate, a) <= Ceil(rate, b)
<1>1. rate * a \in Nat /\ rate * b \in Nat /\ rate * a <= rate * b
  BY Times
<1> QED
  BY <1>1, MillionType, RoundsUp DEF Ceil

LEMMA CeilQuantumGrows ==
    ASSUME NEW rate \in Nat, NEW a \in Nat, NEW b \in Nat, a <= b, NEW quantum \in Nat \ {0}
    PROVE  /\ CeilQuantum(rate, a, quantum) \in Nat /\ CeilQuantum(rate, b, quantum) \in Nat
           /\ CeilQuantum(rate, a, quantum) <= CeilQuantum(rate, b, quantum)
<1> DEFINE d == Million * quantum
           x == (rate * a + d - 1) \div d
           y == (rate * b + d - 1) \div d
<1>1. rate * a \in Nat /\ rate * b \in Nat /\ rate * a <= rate * b
  BY Times
<1>2. d \in Nat \ {0}
  BY MillionType
<1>3. x \in Nat /\ y \in Nat /\ x <= y
  <2> HIDE DEF d
  <2> QED
    BY <1>1, <1>2, RoundsUp
<1>4. x * quantum \in Nat /\ y * quantum \in Nat /\ x * quantum <= y * quantum
  <2> HIDE DEF x, y
  <2> QED
    BY <1>3, Times
<1> QED
  BY <1>4 DEF CeilQuantum

LEMMA FormulaGrows ==
    ASSUME NEW m \in MechanismFields, NEW i \in Nat, NEW o \in Nat, NEW t \in Nat,
           NEW i2 \in Nat, NEW o2 \in Nat, NEW t2 \in Nat, i <= i2, o <= o2, t <= t2
    PROVE  /\ Formula(m, i, o, t) \in Nat /\ Formula(m, i2, o2, t2) \in Nat
           /\ Formula(m, i, o, t) <= Formula(m, i2, o2, t2)
<1>0. m.inputRate \in Nat /\ m.outputRate \in Nat /\ m.toolFee \in Nat
  BY DEF MechanismFields
<1>1. /\ Ceil(m.inputRate, i) \in Nat /\ Ceil(m.inputRate, i2) \in Nat
      /\ Ceil(m.inputRate, i) <= Ceil(m.inputRate, i2)
  BY <1>0, CeilGrows
<1>2. /\ Ceil(m.outputRate, o) \in Nat /\ Ceil(m.outputRate, o2) \in Nat
      /\ Ceil(m.outputRate, o) <= Ceil(m.outputRate, o2)
  BY <1>0, CeilGrows
<1>3. t * m.toolFee \in Nat /\ t2 * m.toolFee \in Nat /\ t * m.toolFee <= t2 * m.toolFee
  BY <1>0, Times
<1> QED
  BY <1>1, <1>2, <1>3 DEF Formula

LEMMA FormulaType ==
    ASSUME NEW m \in MechanismFields, NEW i \in Nat, NEW o \in Nat, NEW t \in Nat
    PROVE  Formula(m, i, o, t) \in Nat
<1>1. i <= i /\ o <= o /\ t <= t
  OBVIOUS
<1> QED
  BY <1>1, FormulaGrows

LEMMA NothingIsFree ==
    ASSUME NEW m \in MechanismFields
    PROVE  Formula(m, 0, 0, 0) = 0
<1>1. (Million - 1) \div Million = 0
  BY MillionType
<1>2. m.inputRate \in Nat /\ m.outputRate \in Nat /\ m.toolFee \in Nat
  BY DEF MechanismFields
<1>3. \A r \in Nat : Ceil(r, 0) = 0
  <2> SUFFICES ASSUME NEW r \in Nat PROVE Ceil(r, 0) = 0
    OBVIOUS
  <2>1. r * 0 + Million - 1 = Million - 1
    BY MillionType
  <2> QED
    BY <1>1, <2>1 DEF Ceil
<1> QED
  BY <1>2, <1>3 DEF Formula

LEMMA MaximumType ==
    ASSUME NEW m \in MechanismFields
    PROVE  Maximum(m) \in Nat
<1>1. m.totalInput \in Nat /\ m.totalOutput \in Nat /\ m.toolRounds \in Nat
  BY DEF MechanismFields
<1>2. m.totalInput <= m.totalInput /\ m.totalOutput <= m.totalOutput /\ m.toolRounds <= m.toolRounds
  BY <1>1
<1> QED
  BY <1>1, <1>2, FormulaGrows DEF Maximum

\* The price of a request is in its tokens and its tool calls.
LEMMA RequestCharges ==
    ASSUME NEW m \in MechanismFields, NEW u, NEW v,
           u.input \in Nat, u.output \in Nat, u.tools \in Nat,
           v.input \in Nat, v.output \in Nat, v.tools \in Nat,
           u.input <= v.input, u.output <= v.output, u.tools <= v.tools
    PROVE  /\ RequestCharge(m, u) \in Nat /\ RequestCharge(m, v) \in Nat
           /\ RequestCharge(m, u) <= RequestCharge(m, v)
<1>0. m.inputRate \in Nat /\ m.outputRate \in Nat /\ m.toolFee \in Nat /\ m.quantum \in Nat \ {0}
  BY DEF MechanismFields
<1>1. /\ CeilQuantum(m.inputRate, u.input, m.quantum) \in Nat /\ CeilQuantum(m.inputRate, v.input, m.quantum) \in Nat
      /\ CeilQuantum(m.inputRate, u.input, m.quantum) <= CeilQuantum(m.inputRate, v.input, m.quantum)
  BY <1>0, CeilQuantumGrows
<1>2. /\ CeilQuantum(m.outputRate, u.output, m.quantum) \in Nat /\ CeilQuantum(m.outputRate, v.output, m.quantum) \in Nat
      /\ CeilQuantum(m.outputRate, u.output, m.quantum) <= CeilQuantum(m.outputRate, v.output, m.quantum)
  BY <1>0, CeilQuantumGrows
<1>3. u.tools * m.toolFee \in Nat /\ v.tools * m.toolFee \in Nat /\ u.tools * m.toolFee <= v.tools * m.toolFee
  BY <1>0, Times
<1> QED
  BY <1>1, <1>2, <1>3 DEF RequestCharge

\* At the bounds of one request, it costs RequestPrice and its tool calls.
LEMMA RequestWithinPrice ==
    ASSUME NEW m \in MechanismFields, NEW u \in Amount, u.input <= m.maxInput, u.output <= m.outputBound
    PROVE  /\ RequestPrice(m) \in Nat /\ RequestCharge(m, u) \in Nat
           /\ RequestCharge(m, u) <= RequestPrice(m) + u.tools * m.toolFee
<1>0. /\ m.inputRate \in Nat /\ m.outputRate \in Nat /\ m.toolFee \in Nat /\ m.quantum \in Nat \ {0}
      /\ m.maxInput \in Nat /\ m.outputBound \in Nat /\ u.input \in Nat /\ u.output \in Nat /\ u.tools \in Nat
  BY DEF MechanismFields, Amount
<1>1. /\ CeilQuantum(m.inputRate, u.input, m.quantum) \in Nat /\ CeilQuantum(m.inputRate, m.maxInput, m.quantum) \in Nat
      /\ CeilQuantum(m.inputRate, u.input, m.quantum) <= CeilQuantum(m.inputRate, m.maxInput, m.quantum)
  BY <1>0, CeilQuantumGrows
<1>2. /\ CeilQuantum(m.outputRate, u.output, m.quantum) \in Nat /\ CeilQuantum(m.outputRate, m.outputBound, m.quantum) \in Nat
      /\ CeilQuantum(m.outputRate, u.output, m.quantum) <= CeilQuantum(m.outputRate, m.outputBound, m.quantum)
  BY <1>0, CeilQuantumGrows
<1>3. u.tools * m.toolFee \in Nat
  BY <1>0, Times
<1> QED
  BY <1>1, <1>2, <1>3 DEF RequestCharge, RequestPrice

\* One weight more, at place n.
OneMore(S, f, g, n) ==
    /\ IsFiniteSet(S) /\ n \notin S /\ f \in [S -> Nat] /\ g \in [S \cup {n} -> Nat]
    /\ \A i \in S : g[i] = f[i]

LEMMA SumOfOneMore ==
    \A S, f, g, n : OneMore(S, f, g, n) => Total(f) \in Nat /\ Total(g) = Total(f) + g[n]
BY TotalExtend DEF OneMore

\* The sum of the request charges, and one more.
LEMMA UsageGrows ==
    ASSUME NEW m \in MechanismFields, NEW usage \in Seq(Amount), NEW u \in Amount
    PROVE  /\ UsageCharge(m, usage) \in Nat
           /\ UsageCharge(m, Append(usage, u)) = UsageCharge(m, usage) + RequestCharge(m, u)
<1> DEFINE S == DOMAIN usage
           n == Len(usage) + 1
           f == [i \in S |-> RequestCharge(m, usage[i])]
           g == [i \in DOMAIN Append(usage, u) |-> RequestCharge(m, Append(usage, u)[i])]
<1>1. \A v \in Amount : RequestCharge(m, v) \in Nat
  BY RequestCharges DEF Amount
<1>2. DOMAIN Append(usage, u) = S \cup {n} /\ n \notin S /\ Append(usage, u)[n] = u
  OBVIOUS
<1>3. \A i \in S : Append(usage, u)[i] = usage[i] /\ usage[i] \in Amount
  OBVIOUS
<1>4. f \in [S -> Nat] /\ g \in [S \cup {n} -> Nat] /\ g[n] = RequestCharge(m, u) /\ \A i \in S : g[i] = f[i]
  BY <1>1, <1>2, <1>3
<1>5. IsFiniteSet(S)
  <2>1. S = 1..Len(usage) /\ Len(usage) \in Nat
    OBVIOUS
  <2> QED
    BY <2>1, FS_Interval
<1>6. Total(f) \in Nat /\ Total(g) = Total(f) + g[n]
  <2> HIDE DEF S, n, f, g
  <2>1. OneMore(S, f, g, n)
    BY <1>2, <1>4, <1>5 DEF OneMore
  <2> QED
    BY <2>1, SumOfOneMore
<1>7. UsageCharge(m, usage) = Total(f) /\ UsageCharge(m, Append(usage, u)) = Total(g)
  BY DEF UsageCharge
<1> QED
  BY <1>4, <1>6, <1>7

\* One amount of every observed request, and of one request more.
LEMMA UsageAdds ==
    ASSUME NEW usage \in Seq(Amount), NEW u \in Amount, NEW a \in {"input", "output", "tools"}
    PROVE  /\ UsageSum(usage, a) \in Nat
           /\ UsageSum(Append(usage, u), a) = UsageSum(usage, a) + u[a]
<1> DEFINE S == DOMAIN usage
           n == Len(usage) + 1
           f == [i \in S |-> usage[i][a]]
           g == [i \in DOMAIN Append(usage, u) |-> Append(usage, u)[i][a]]
<1>1. \A v \in Amount : v[a] \in Nat
  BY DEF Amount
<1>2. DOMAIN Append(usage, u) = S \cup {n} /\ n \notin S /\ Append(usage, u)[n] = u
  OBVIOUS
<1>3. \A i \in S : Append(usage, u)[i] = usage[i] /\ usage[i] \in Amount
  OBVIOUS
<1>4. f \in [S -> Nat] /\ g \in [S \cup {n} -> Nat] /\ g[n] = u[a] /\ \A i \in S : g[i] = f[i]
  BY <1>1, <1>2, <1>3
<1>5. IsFiniteSet(S)
  <2>1. S = 1..Len(usage) /\ Len(usage) \in Nat
    OBVIOUS
  <2> QED
    BY <2>1, FS_Interval
<1>6. Total(f) \in Nat /\ Total(g) = Total(f) + g[n]
  <2> HIDE DEF S, n, f, g
  <2>1. OneMore(S, f, g, n)
    BY <1>2, <1>4, <1>5 DEF OneMore
  <2> QED
    BY <2>1, SumOfOneMore
<1>7. UsageSum(usage, a) = Total(f) /\ UsageSum(Append(usage, u), a) = Total(g)
  BY DEF UsageSum
<1> QED
  BY <1>4, <1>6, <1>7

\* Nothing observed adds up to nothing.
LEMMA NothingIsObserved ==
    SumsAgree(FreshBudget)
<1>1. \A a : UsageSum(<<>>, a) = 0
  <2> SUFFICES ASSUME NEW a PROVE UsageSum(<<>>, a) = 0
    OBVIOUS
  <2> DEFINE f == [i \in DOMAIN <<>> |-> <<>>[i][a]]
  <2>1. DOMAIN f = {}
    OBVIOUS
  <2>2. Total(f) = 0
    <3> HIDE DEF f
    <3> QED
      BY <2>1, TotalZero
  <2> QED
    BY <2>2 DEF UsageSum
<1> QED
  BY <1>1 DEF SumsAgree, FreshBudget

-----------------------------------------------------------------------------
\* The numbers of a mechanism.
LEMMA PlanTypes ==
    ASSUME NEW m \in MechanismFields
    PROVE  /\ m.maxInput \in Nat \ {0} /\ m.outputBound \in Nat /\ m.maxRequests \in Nat /\ m.fees \in Nat
           /\ m.toolFee \in Nat /\ m.totalInput \in Nat /\ m.totalOutput \in Nat /\ m.toolRounds \in Nat
           /\ m.maxOutput \in Nat \ {0} /\ m.toolCalls \in Nat /\ m.accountCharge \in BOOLEAN
           /\ m.version \in {"v1", "v2", "v3"}
BY DEF MechanismFields

LEMMA BudgetTypes ==
    ASSUME NEW b \in Budget
    PROVE  /\ b.rounds \in Nat /\ b.input \in Nat /\ b.output \in Nat /\ b.seenInput \in Nat
           /\ b.seenOutput \in Nat /\ b.tools \in Nat /\ b.formula \in Nat
           /\ b.provider \in Nat \cup {None} /\ b.authoritative \in Nat
           /\ b.usage \in Seq(Amount) /\ b.pending \in Nat \cup {None}
BY DEF Budget

LEMMA CountedIsPositive ==
    ASSUME NEW m \in MechanismFields, NEW n \in Counted(m)
    PROVE  n \in Nat \ {0} /\ n <= m.maxInput /\ n # None /\ (m.version # "v1" => n = m.maxInput)
BY PlanTypes, BudgetAssumption DEF Counted

\* Steps that leave the money alone on the way to the end of a trial.
LEMMA Frame ==
    ASSUME BudgetInv, UNCHANGED <<plan, budget, settled, receipt, candidate, sent, billed, due>>,
           committed' \in {committed, committed + 1},
           pc \in {"ready", "committed", "sent", "observed"},
           pc' \in {"ready", "succeeding", "failing"}
    PROVE  BudgetInv'
<1> USE DEF BudgetInv
<1>1. BudgetType'
  BY DEF BudgetType
<1>2. CountInv'
  BY BudgetTypes DEF BudgetType, CountInv, Live, Open
<1>3. PlanInv'
  BY DEF PlanInv, Live, Open
<1>4. DueInv'
  BY DEF DueInv, Live
<1>5. PriceInv' /\ ChargeInv'
  BY DEF PriceInv, ChargeInv, Live, Open, ReportedCharge
<1>6. SettledInv'
  BY DEF SettledInv, SettlementCoversBill, Closing
<1>7. ReceiptInv'
  BY DEF ReceiptInv, Working, ResultVerified, UsageVerified
<1> QED
  BY <1>1, <1>2, <1>3, <1>4, <1>5, <1>6, <1>7

LEMMA WayToTheEnd ==
    ASSUME BudgetInv,
           \/ \E n \in Counted(plan) : RefuseRequest(n)
           \/ RejectUsage \/ Continue \/ Fail \/ AppendFails
    PROVE  BudgetInv'
<1>1. /\ UNCHANGED <<plan, budget, settled, receipt, candidate, sent, billed, due>>
      /\ committed' \in {committed, committed + 1}
      /\ pc \in {"ready", "committed", "sent", "observed"}
      /\ pc' \in {"ready", "succeeding", "failing"}
  BY DEF RefuseRequest, RejectUsage, Continue, Fail, AppendFails
<1> QED
  BY <1>1, Frame

LEMMA Distribute ==
    ASSUME NEW n \in Nat, NEW k \in Nat
    PROVE  (n + 1) * k = n * k + k /\ n * k \in Nat
OBVIOUS

\* The worst case of a request is added before it is sent.
LEMMA CommitStep ==
    ASSUME BudgetInv, NEW n \in Counted(plan), CommitRequest(n)
    PROVE  BudgetInv'
<1> USE DEF BudgetInv
<1>0. /\ plan \in MechanismFields /\ budget \in Budget
      /\ committed \in Nat /\ sent \in Nat /\ billed \in Nat /\ due \in Amount
  BY DEF BudgetType
<1>1. n \in Nat \ {0} /\ n # None
  BY <1>0, CountedIsPositive
<1>2. /\ pc = "ready" /\ pc' = "committed" /\ budget.pending = None /\ budget.rounds < plan.toolCalls + 1
      /\ budget.input + n <= plan.totalInput /\ budget.output + plan.maxOutput <= plan.totalOutput
      /\ committed' = committed + 1 /\ UNCHANGED <<plan, reply, settled, receipt, candidate, sent, billed, due>>
      /\ budget' = [budget EXCEPT !.rounds = @ + 1, !.input = @ + n, !.output = @ + plan.maxOutput, !.pending = n]
  BY DEF CommitRequest, Affordable
<1>3. /\ budget' \in Budget
      /\ budget'.rounds = budget.rounds + 1 /\ budget'.input = budget.input + n
      /\ budget'.output = budget.output + plan.maxOutput /\ budget'.pending = n
      /\ budget'.seenInput = budget.seenInput /\ budget'.seenOutput = budget.seenOutput
      /\ budget'.tools = budget.tools /\ budget'.formula = budget.formula
      /\ budget'.provider = budget.provider /\ budget'.authoritative = budget.authoritative
      /\ budget'.usage = budget.usage
  <2>1. /\ budget.rounds + 1 \in Nat /\ budget.input + n \in Nat /\ budget.output + plan.maxOutput \in Nat
        /\ n \in Nat \cup {None}
    BY <1>0, <1>1, PlanTypes, BudgetTypes
  <2> QED
    BY <1>0, <1>2, <2>1 DEF Budget
<1>4. BudgetType'
  BY <1>2, <1>3 DEF BudgetType
<1>5. CountInv'
  BY <1>0, <1>1, <1>2, <1>3, BudgetTypes, PlanTypes, SMTT(30) DEF CountInv, Live, Open
<1>6. PlanInv'
  <2>1. (budget.rounds + 1) * plan.maxOutput = budget.rounds * plan.maxOutput + plan.maxOutput
    BY <1>0, BudgetTypes, PlanTypes, Distribute
  <2>2. Len(budget.usage) \in Nat
    BY <1>0, BudgetTypes
  <2>3. budget'.output = budget'.rounds * plan.maxOutput
    BY <1>2, <1>3, <2>1 DEF PlanInv, Live
  <2>4. /\ budget.rounds \in Nat /\ budget.input \in Nat /\ budget.output \in Nat /\ budget.seenInput \in Nat
        /\ budget.seenOutput \in Nat /\ plan.maxOutput \in Nat /\ plan.toolCalls \in Nat
    BY <1>0, BudgetTypes, PlanTypes
  <2>5. /\ budget'.rounds <= plan.toolCalls + 1
        /\ budget'.input <= plan.totalInput /\ budget'.output <= plan.totalOutput
        /\ budget'.seenInput + n <= budget'.input /\ budget'.seenInput <= budget'.input
        /\ budget'.seenOutput + plan.maxOutput <= budget'.output /\ budget'.seenOutput <= budget'.output
        /\ Len(budget'.usage) < budget'.rounds /\ Len(budget'.usage) <= budget'.rounds
    <3>1. budget.seenInput <= budget.input /\ budget.seenOutput <= budget.output /\ Len(budget.usage) <= budget.rounds
      BY <1>2 DEF PlanInv, Live
    <3>2. /\ n \in Nat /\ budget.rounds < plan.toolCalls + 1
          /\ budget.input + n <= plan.totalInput /\ budget.output + plan.maxOutput <= plan.totalOutput
          /\ budget'.rounds = budget.rounds + 1 /\ budget'.input = budget.input + n
          /\ budget'.output = budget.output + plan.maxOutput /\ budget'.usage = budget.usage
          /\ budget'.seenInput = budget.seenInput /\ budget'.seenOutput = budget.seenOutput
      BY <1>1, <1>2, <1>3
    <3>3. budget'.rounds <= plan.toolCalls + 1
      BY <2>4, <3>2
    <3>4. budget'.input <= plan.totalInput /\ budget'.output <= plan.totalOutput
      BY <2>4, <3>2
    <3>5. budget'.seenInput + n <= budget'.input /\ budget'.seenInput <= budget'.input
      BY <2>4, <3>1, <3>2
    <3>6. budget'.seenOutput + plan.maxOutput <= budget'.output /\ budget'.seenOutput <= budget'.output
      BY <2>4, <3>1, <3>2
    <3>7. Len(budget'.usage) < budget'.rounds /\ Len(budget'.usage) <= budget'.rounds
      BY <2>2, <2>4, <3>1, <3>2
    <3> QED
      BY <3>3, <3>4, <3>5, <3>6, <3>7
  <2>6. plan.version = "v3" => SumsAgree(budget')
    BY <1>2, <1>3 DEF PlanInv, Live, SumsAgree
  <2> QED
    BY <1>1, <1>2, <1>3, <2>3, <2>5, <2>6 DEF PlanInv, Live, Open
<1>7. DueInv'
  <2>1. /\ budget.input \in Nat /\ budget.output \in Nat /\ plan.maxOutput \in Nat
        /\ due.input \in Nat /\ due.output \in Nat
    BY <1>0, BudgetTypes, PlanTypes DEF Amount
  <2>2. /\ due.input + n <= budget'.input /\ due.output + plan.maxOutput <= budget'.output
        /\ due.input <= budget'.input /\ due.output <= budget'.output
    BY <1>1, <1>2, <1>3, <2>1 DEF DueInv, Live
  <2> QED
    BY <1>2, <1>3, <2>2 DEF DueInv, Live
<1>8. PriceInv' /\ ChargeInv'
  BY <1>2, <1>3 DEF PriceInv, ChargeInv, Live, Open, ReportedCharge
<1>9. SettledInv'
  BY <1>2 DEF SettledInv, SettlementCoversBill, Closing
<1>10. ReceiptInv'
  BY <1>2 DEF ReceiptInv, Working, ResultVerified, UsageVerified
<1> QED
  BY <1>4, <1>5, <1>6, <1>7, <1>8, <1>9, <1>10

\* What the provider reports, and how that becomes due.
LEMMA UseTypes ==
    ASSUME plan \in MechanismFields, NEW use \in Uses
    PROVE  use \in Report
<1>1. /\ plan.maxInput \in Nat /\ plan.outputBound \in Nat /\ plan.maxOutput \in Nat /\ plan.toolCalls \in Nat
      /\ Excess \in Nat
  BY PlanTypes, BudgetAssumption
<1>2. /\ 0..plan.maxInput + Excess \subseteq Nat /\ 0..plan.maxOutput + Excess \subseteq Nat
      /\ 0..plan.toolCalls + Excess \subseteq Nat
  BY <1>1
<1>3. \A I \in SUBSET Nat, O \in SUBSET Nat, T \in SUBSET Nat, C \in SUBSET Nat, K \in SUBSET BOOLEAN :
         [input : I, output : O, tools : T, known : K, cost : C] \subseteq Report
  BY DEF Report
<1>4. /\ {plan.maxInput} \in SUBSET Nat /\ {plan.maxOutput} \in SUBSET Nat /\ {plan.toolCalls} \in SUBSET Nat
      /\ {TRUE} \in SUBSET BOOLEAN /\ {FALSE} \in SUBSET BOOLEAN /\ {0} \in SUBSET Nat
  BY <1>1
<1>5. [input : 0..plan.maxInput + Excess, output : 0..plan.maxOutput + Excess,
       tools : 0..plan.toolCalls + Excess, known : {TRUE}, cost : {0}] \subseteq Report
  BY <1>2, <1>3, <1>4
<1>6. [input : {plan.maxInput}, output : {plan.maxOutput},
       tools : {plan.toolCalls}, known : {FALSE}, cost : {0}] \subseteq Report
  BY <1>3, <1>4
<1> QED
  BY <1>5, <1>6 DEF Uses

LEMMA LeastIsLeast ==
    ASSUME NEW a \in Nat, NEW b \in Nat
    PROVE  Least(a, b) \in Nat /\ Least(a, b) <= a /\ Least(a, b) <= b
BY DEF Least

\* What a request uses, as the provider counts it.
UsedBy(use) ==
    [input |-> Least(use.input, budget.pending), output |-> Least(use.output, plan.maxOutput),
     tools |-> Least(use.tools, Least(plan.toolCalls, plan.toolRounds) - due.tools)]
DueWith(use) == [f \in DOMAIN due |-> due[f] + UsedBy(use)[f]]

LEMMA UsedTypes ==
    ASSUME BudgetInv, pc = "committed", NEW use \in Uses
    PROVE  /\ UsedBy(use) \in Amount /\ DueWith(use) \in Amount
           /\ UsedBy(use).input <= use.input /\ UsedBy(use).input <= budget.pending
           /\ UsedBy(use).output <= use.output /\ UsedBy(use).output <= plan.maxOutput
           /\ UsedBy(use).tools <= use.tools
           /\ DueWith(use).input = due.input + UsedBy(use).input
           /\ DueWith(use).output = due.output + UsedBy(use).output
           /\ DueWith(use).tools = due.tools + UsedBy(use).tools
           /\ DueWith(use).tools <= plan.toolCalls /\ DueWith(use).tools <= plan.toolRounds
<1>1. plan \in MechanismFields /\ due \in Amount
  BY DEF BudgetInv, BudgetType
<1>2. use.input \in Nat /\ use.output \in Nat /\ use.tools \in Nat
  BY <1>1, UseTypes DEF Report
<1>3. budget.pending \in Nat
  BY <1>1, CountedIsPositive DEF BudgetInv, CountInv
<1>4. /\ plan.maxOutput \in Nat /\ plan.toolCalls \in Nat /\ plan.toolRounds \in Nat
      /\ due.input \in Nat /\ due.output \in Nat /\ due.tools \in Nat
  BY <1>1, PlanTypes DEF Amount
<1>5. due.tools <= plan.toolCalls /\ due.tools <= plan.toolRounds
  BY DEF BudgetInv, DueInv
<1> DEFINE i == Least(use.input, budget.pending)
           o == Least(use.output, plan.maxOutput)
           c == Least(plan.toolCalls, plan.toolRounds)
           x == Least(use.tools, c - due.tools)
<1>6. i \in Nat /\ i <= use.input /\ i <= budget.pending
  BY <1>2, <1>3, LeastIsLeast
<1>7. o \in Nat /\ o <= use.output /\ o <= plan.maxOutput
  BY <1>2, <1>4, LeastIsLeast
<1>8. c \in Nat /\ c <= plan.toolCalls /\ c <= plan.toolRounds /\ due.tools <= c
  BY <1>4, <1>5 DEF Least
<1>9. x \in Nat /\ x <= use.tools /\ due.tools + x <= c
  <2>1. c - due.tools \in Nat
    BY <1>4, <1>8
  <2> HIDE DEF c
  <2>2. x \in Nat /\ x <= use.tools /\ x <= c - due.tools
    BY <1>2, <2>1, LeastIsLeast
  <2> HIDE DEF x
  <2> QED
    BY <1>4, <1>8, <2>2
<1>10. UsedBy(use) = [input |-> i, output |-> o, tools |-> x]
  BY DEF UsedBy
<1> HIDE DEF i, o, x
<1>11. UsedBy(use) \in Amount /\ UsedBy(use).input = i /\ UsedBy(use).output = o /\ UsedBy(use).tools = x
  BY <1>6, <1>7, <1>9, <1>10 DEF Amount
<1>12. DOMAIN due = {"input", "output", "tools"}
  BY <1>1 DEF Amount
<1>13. DueWith(use) = [input |-> due.input + i, output |-> due.output + o, tools |-> due.tools + x]
  <2> DEFINE u == UsedBy(use)
  <2>1. DueWith(use) = [f \in {"input", "output", "tools"} |-> due[f] + u[f]]
    BY <1>12 DEF DueWith
  <2> HIDE DEF u
  <2> QED
    BY <1>11, <2>1 DEF u
<1>14. due.input + i \in Nat /\ due.output + o \in Nat /\ due.tools + x \in Nat
  BY <1>4, <1>6, <1>7, <1>9
<1>15. DueWith(use) \in Amount
  BY <1>13, <1>14 DEF Amount
<1>16. due.tools + x <= plan.toolCalls /\ due.tools + x <= plan.toolRounds
  <2> HIDE DEF c
  <2> QED
    BY <1>4, <1>8, <1>9, <1>14
<1> QED
  BY <1>6, <1>7, <1>9, <1>11, <1>13, <1>15, <1>16

\* The provider bills what it was sent, and answers.
LEMMA SendStep ==
    ASSUME BudgetInv, NEW use \in Uses, NEW bill \in 0..MayBill(use).price, NEW over \in 0..Excess,
           Send(use, bill, over)
    PROVE  BudgetInv'
<1> DEFINE used == UsedBy(use)
           price == IF plan.version = "v3"
                    THEN RequestCharge(plan, used) + (IF sent = 0 THEN plan.fees ELSE 0)
                    ELSE Formula(plan, due'.input, due'.output, due'.tools) - billed
<1>0. /\ plan \in MechanismFields /\ budget \in Budget
      /\ committed \in Nat /\ sent \in Nat /\ billed \in Nat /\ due \in Amount
  BY DEF BudgetInv, BudgetType
<1>1. /\ pc = "committed" /\ pc' = "sent" /\ billed' = billed + bill /\ sent' = sent + 1
      /\ reply' = [use EXCEPT !.cost = bill + over] /\ due' = DueWith(use)
      /\ UNCHANGED <<plan, budget, settled, committed, receipt, candidate>>
  BY DEF Send, MayBill, DueWith, UsedBy
<1>2. use \in Report
  BY <1>0, UseTypes
<1>3. MayBill(use).price = price
  BY <1>1 DEF MayBill, DueWith, UsedBy
<1>4. /\ used \in Amount /\ due' \in Amount
      /\ used.input <= use.input /\ used.input <= budget.pending
      /\ used.output <= use.output /\ used.output <= plan.maxOutput
      /\ used.tools <= use.tools
      /\ due'.input = due.input + used.input /\ due'.output = due.output + used.output
      /\ due'.tools = due.tools + used.tools
      /\ due'.tools <= plan.toolCalls /\ due'.tools <= plan.toolRounds
  BY <1>1, UsedTypes
<1> HIDE DEF used
<1>5. /\ used.input \in Nat /\ used.output \in Nat /\ used.tools \in Nat
      /\ due.input \in Nat /\ due.output \in Nat /\ due.tools \in Nat
      /\ due'.input \in Nat /\ due'.output \in Nat /\ due'.tools \in Nat
      /\ use.input \in Nat /\ use.output \in Nat /\ use.tools \in Nat
  BY <1>0, <1>2, <1>4 DEF Amount, Report
<1>6. /\ plan.maxOutput \in Nat /\ plan.fees \in Nat /\ plan.toolFee \in Nat /\ plan.maxInput \in Nat
      /\ plan.outputBound \in Nat /\ plan.toolCalls \in Nat
  BY <1>0, PlanTypes
<1>7. RequestCharge(plan, used) \in Nat /\ Formula(plan, due'.input, due'.output, due'.tools) \in Nat
  <2>1. RequestCharge(plan, used) \in Nat
    <3>1. used.input <= used.input /\ used.output <= used.output /\ used.tools <= used.tools
      BY <1>5
    <3> QED
      BY <1>0, <1>5, <3>1, RequestCharges
  <2>2. due'.input <= due'.input /\ due'.output <= due'.output /\ due'.tools <= due'.tools
    BY <1>5
  <2> QED
    BY <1>0, <1>5, <2>1, <2>2, FormulaGrows
<1>8. bill \in Nat /\ bill <= price /\ over \in Nat
  <2>1. price \in Int
    BY <1>0, <1>6, <1>7
  <2>2. bill \in 0..price
    BY <1>3
  <2> HIDE DEF price
  <2> QED
    BY <2>1, <2>2, BudgetAssumption
<1>9. /\ reply' \in Report /\ reply'.input = use.input /\ reply'.output = use.output
      /\ reply'.tools = use.tools /\ reply'.cost = bill + over
  <2>1. bill + over \in Nat
    BY <1>8
  <2> QED
    BY <1>1, <1>2, <2>1 DEF Report
<1>10. BudgetType'
  <2>1. billed + bill \in Nat /\ sent + 1 \in Nat
    BY <1>0, <1>8
  <2> QED
    BY <1>1, <1>4, <1>9, <2>1 DEF BudgetInv, BudgetType
<1>11. CountInv'
  <2>1. budget.rounds \in Nat
    BY <1>0, BudgetTypes
  <2>2. sent < budget.rounds /\ budget.rounds <= committed /\ budget.rounds <= plan.toolCalls + 1
    BY <1>1 DEF BudgetInv, CountInv, PlanInv, Live
  <2>3. sent + 1 <= committed /\ sent + 1 <= plan.toolCalls + 1 /\ sent + 1 <= budget.rounds
    BY <1>0, <1>6, <2>1, <2>2
  <2> QED
    BY <1>1, <2>3 DEF BudgetInv, CountInv, Live, Open
<1>12. PlanInv'
  BY <1>1 DEF BudgetInv, PlanInv, Live, Open
<1>13. DueInv'
  <2>1. /\ due.input + budget.pending <= budget.input /\ due.output + plan.maxOutput <= budget.output
        /\ budget.input <= plan.totalInput /\ budget.output <= plan.totalOutput
    BY <1>1 DEF BudgetInv, DueInv, PlanInv, Live
  <2>2. budget.pending \in Nat
    BY <1>0, <1>1, CountedIsPositive DEF BudgetInv, CountInv
  <2>3. /\ budget.input \in Nat /\ budget.output \in Nat /\ plan.totalInput \in Nat /\ plan.totalOutput \in Nat
    BY <1>0, PlanTypes, BudgetTypes
  <2>4. due'.input <= budget.input /\ due'.input <= plan.totalInput
    BY <1>4, <1>5, <2>1, <2>2, <2>3
  <2>5. due'.output <= budget.output /\ due'.output <= plan.totalOutput
    BY <1>4, <1>5, <1>6, <2>1, <2>3
  <2> QED
    BY <1>1, <1>4, <2>4, <2>5 DEF DueInv
<1>14. PriceInv'
  <2>1. CASE plan.version = "v3"
    <3> DEFINE a == sent * RequestPrice(plan)
               b == due.tools * plan.toolFee
               c == used.tools * plan.toolFee
    <3>1. used.input <= plan.maxInput /\ used.output <= plan.outputBound
      <4>1. budget.pending \in Nat /\ budget.pending <= plan.maxInput
        BY <1>0, <1>1, CountedIsPositive DEF BudgetInv, CountInv
      <4>2. plan.maxOutput <= plan.outputBound
        BY <2>1 DEF BudgetInv, BudgetType, Prepared
      <4> QED
        BY <1>4, <1>5, <1>6, <4>1, <4>2
    <3>2. RequestPrice(plan) \in Nat /\ RequestCharge(plan, used) <= RequestPrice(plan) + c
      BY <1>0, <1>4, <3>1, RequestWithinPrice
    <3>3. (sent + 1) * RequestPrice(plan) = a + RequestPrice(plan) /\ a \in Nat
      BY <1>0, <3>2, Distribute
    <3>4. due'.tools * plan.toolFee = b + c /\ b \in Nat /\ c \in Nat
      BY <1>4, <1>5, <1>6
    <3>5. bill <= RequestCharge(plan, used) + (IF sent = 0 THEN plan.fees ELSE 0)
      BY <1>8, <2>1
    <3>6. billed <= a + b + plan.fees /\ (sent = 0 => billed = 0)
      BY <2>1 DEF BudgetInv, PriceInv
    <3> HIDE DEF a, b, c
    <3>7. billed + bill <= a + RequestPrice(plan) + (b + c) + plan.fees
      BY <1>0, <1>6, <1>7, <1>8, <3>2, <3>3, <3>4, <3>5, <3>6
    <3>8. billed' <= sent' * RequestPrice(plan) + due'.tools * plan.toolFee + plan.fees
      BY <1>1, <3>3, <3>4, <3>7
    <3> QED
      BY <1>0, <1>1, <2>1, <3>8 DEF PriceInv
  <2>2. CASE plan.version # "v3"
    <3>1. billed + bill <= Formula(plan, due'.input, due'.output, due'.tools)
      BY <1>0, <1>7, <1>8, <2>2
    <3> QED
      BY <1>0, <1>1, <2>2, <3>1 DEF PriceInv
  <2> QED
    BY <2>1, <2>2
<1>15. ChargeInv'
  <2>1. ASSUME plan.accountCharge PROVE billed' <= (ReportedCharge + reply.cost)'
    <3>1. billed <= ReportedCharge
      BY <1>1, <2>1 DEF BudgetInv, ChargeInv, Live
    <3>2. ReportedCharge \in Nat /\ ReportedCharge' = ReportedCharge
      BY <1>0, <1>1, BudgetTypes DEF ReportedCharge
    <3> QED
      BY <1>0, <1>1, <1>8, <1>9, <3>1, <3>2
  <2>2. ASSUME plan.version = "v3"
        PROVE  billed' <= UsageCharge(plan, budget.usage) + plan.fees + RequestCharge(plan, reply')
    <3>1. billed <= UsageCharge(plan, budget.usage) + (IF sent = 0 THEN 0 ELSE plan.fees)
      BY <1>1, <2>2 DEF BudgetInv, ChargeInv, Live
    <3>2. RequestCharge(plan, reply') \in Nat /\ RequestCharge(plan, used) <= RequestCharge(plan, reply')
      BY <1>0, <1>4, <1>5, <1>9, RequestCharges
    <3>3. UsageCharge(plan, budget.usage) \in Nat
      BY <1>0, <1>4, BudgetTypes, UsageGrows
    <3>4. bill <= RequestCharge(plan, used) + (IF sent = 0 THEN plan.fees ELSE 0)
      BY <1>8, <2>2
    <3> QED
      BY <1>0, <1>1, <1>6, <1>7, <1>8, <3>1, <3>2, <3>3, <3>4
  <2>3. Open' /\ pc' = "sent" /\ (~plan.accountCharge => budget.authoritative = 0)
    BY <1>1 DEF BudgetInv, CountInv, ChargeInv, Live, Open
  <2> QED
    BY <1>1, <2>1, <2>2, <2>3 DEF ChargeInv, ReportedCharge
<1>16. SettledInv'
  BY <1>1 DEF BudgetInv, SettledInv, SettlementCoversBill, Closing
<1>17. ReceiptInv'
  BY <1>1 DEF BudgetInv, ReceiptInv, Working, ResultVerified, UsageVerified
<1> QED
  BY <1>10, <1>11, <1>12, <1>13, <1>14, <1>15, <1>16, <1>17 DEF BudgetInv

\* What a response reports is added up, and its request is no longer open.
LEMMA ObserveStep ==
    ASSUME BudgetInv, Observe
    PROVE  BudgetInv'
<1> DEFINE u == [input |-> reply.input, output |-> reply.output, tools |-> reply.tools]
<1>0. /\ plan \in MechanismFields /\ budget \in Budget /\ reply \in Report /\ pc = "sent" /\ Live
      /\ committed \in Nat /\ sent \in Nat /\ billed \in Nat
  BY DEF BudgetInv, BudgetType, Observe, Live
<1>1. /\ pc' = "observed" /\ Open /\ WithinBounds(reply) /\ budget' = Observed(reply)
      /\ UNCHANGED <<plan, reply, settled, committed, receipt, candidate, sent, billed, due>>
  BY DEF Observe, Open
<1>2. /\ budget.rounds \in Nat /\ budget.input \in Nat /\ budget.output \in Nat /\ budget.seenInput \in Nat
      /\ budget.seenOutput \in Nat /\ budget.tools \in Nat /\ budget.authoritative \in Nat
      /\ budget.usage \in Seq(Amount) /\ budget.provider \in Nat \cup {None}
  BY <1>0, BudgetTypes
<1>3. reply.input \in Nat /\ reply.output \in Nat /\ reply.tools \in Nat /\ reply.cost \in Nat
  BY <1>0 DEF Report
<1>4. budget.pending \in Nat
  BY <1>0, <1>1, CountedIsPositive DEF BudgetInv, CountInv
<1>5. /\ plan.maxOutput \in Nat /\ plan.toolFee \in Nat /\ plan.fees \in Nat
      /\ plan.accountCharge \in BOOLEAN
  BY <1>0, PlanTypes
<1>6. /\ budget'.rounds = budget.rounds /\ budget'.input = budget.input /\ budget'.output = budget.output
      /\ budget'.seenInput = budget.seenInput + reply.input
      /\ budget'.seenOutput = budget.seenOutput + reply.output
      /\ budget'.tools = budget.tools + reply.tools /\ budget'.pending = None
      /\ budget'.formula = Formula(plan, budget.seenInput + reply.input,
                                   budget.seenOutput + reply.output, budget.tools + reply.tools)
      /\ budget'.provider = IF ~plan.accountCharge THEN budget.provider ELSE ReportedCharge + reply.cost
      /\ budget'.authoritative = IF plan.accountCharge THEN budget.authoritative + 1 ELSE budget.authoritative
      /\ budget'.usage = IF plan.version = "v3" THEN Append(budget.usage, u) ELSE budget.usage
      /\ DOMAIN budget' = DOMAIN budget
  BY <1>0, <1>1 DEF Observed, Budget, ReportedCharge
<1>7. u \in Amount /\ u.input = reply.input /\ u.output = reply.output /\ u.tools = reply.tools
  BY <1>3 DEF Amount
<1> HIDE DEF u
<1>8. budget' \in Budget
  <2>1. /\ budget.seenInput + reply.input \in Nat /\ budget.seenOutput + reply.output \in Nat
        /\ budget.tools + reply.tools \in Nat /\ budget.authoritative + 1 \in Nat
    <3>1. \A a \in Nat, b \in Nat : a + b \in Nat
      OBVIOUS
    <3> HIDE DEF Open
    <3> QED
      BY <1>2, <1>3, <3>1
  <2>2. budget'.formula \in Nat
    <3>1. Formula(plan, budget.seenInput + reply.input, budget.seenOutput + reply.output, budget.tools + reply.tools) \in Nat
      BY <1>0, <2>1, FormulaType
    <3> QED
      BY <1>6, <3>1
  <2>3. budget'.provider \in Nat \cup {None}
    <3>1. ReportedCharge + reply.cost \in Nat
      BY <1>2, <1>3, SMTT(30) DEF ReportedCharge
    <3> QED
      BY <1>2, <1>6, <3>1
  <2>4. budget'.usage \in Seq(Amount)
    BY <1>2, <1>6, <1>7
  <2>5. budget'.authoritative \in Nat
    BY <1>2, <1>6, <2>1
  <2>6. budget' = [rounds |-> budget'.rounds, input |-> budget'.input, output |-> budget'.output,
                   seenInput |-> budget'.seenInput, seenOutput |-> budget'.seenOutput, tools |-> budget'.tools,
                   formula |-> budget'.formula, provider |-> budget'.provider,
                   authoritative |-> budget'.authoritative, usage |-> budget'.usage, pending |-> budget'.pending]
    BY <1>0, <1>1 DEF Observed, Budget
  <2> QED
    BY <1>2, <1>6, <2>1, <2>2, <2>3, <2>4, <2>5, <2>6 DEF Budget
<1>9. BudgetType'
  BY <1>0, <1>1, <1>8 DEF BudgetInv, BudgetType
<1>10. CountInv'
  BY <1>0, <1>1, <1>6 DEF BudgetInv, CountInv, Live, Open
<1>11. PlanInv'
  <2>1. /\ budget.seenInput + budget.pending <= budget.input
        /\ budget.seenOutput + plan.maxOutput <= budget.output
        /\ Len(budget.usage) < budget.rounds
        /\ budget.rounds <= plan.toolCalls + 1
        /\ budget.input <= plan.totalInput /\ budget.output <= plan.totalOutput
        /\ budget.output = budget.rounds * plan.maxOutput
        /\ plan.accountCharge /\ budget.provider # None => budget.provider <= Maximum(plan)
    BY <1>0, <1>1 DEF BudgetInv, PlanInv, Live, Open
  <2>2. /\ reply.input <= budget.pending /\ reply.output <= plan.maxOutput
        /\ budget'.tools <= plan.toolCalls /\ budget'.tools <= plan.toolRounds
        /\ plan.accountCharge => budget'.provider <= Maximum(plan)
    BY <1>1 DEF WithinBounds
  <2> HIDE DEF Open
  <2>0. \A seen, room, part, all \in Nat : part <= room /\ seen + room <= all => seen + part <= all
    OBVIOUS
  <2>3. budget'.seenInput <= budget'.input
    <3>1. budget.seenInput + reply.input <= budget.input
      BY <1>2, <1>3, <1>4, <2>0, <2>1, <2>2
    <3> QED
      BY <1>6, <3>1
  <2>4. budget'.seenOutput <= budget'.output
    <3>1. budget.seenOutput + reply.output <= budget.output
      BY <1>2, <1>3, <1>5, <2>0, <2>1, <2>2, SMTT(30)
    <3> QED
      BY <1>6, <3>1
  <2>5. Len(budget'.usage) <= budget'.rounds
    <3>1. Len(Append(budget.usage, u)) = Len(budget.usage) + 1 /\ Len(budget.usage) \in Nat
      BY <1>2, <1>7
    <3>2. Len(budget'.usage) \in {Len(budget.usage), Len(budget.usage) + 1}
      BY <1>6, <3>1
    <3> QED
      BY <1>2, <1>6, <2>1, <3>1, <3>2
  <2>6. plan.version = "v3" => SumsAgree(budget')
    <3>1. plan.version = "v3" => SumsAgree(budget)
      BY <1>0 DEF BudgetInv, PlanInv
    <3>2. \A a \in {"input", "output", "tools"} :
             UsageSum(Append(budget.usage, u), a) = UsageSum(budget.usage, a) + u[a]
      BY <1>2, <1>7, UsageAdds
    <3>3. /\ UsageSum(Append(budget.usage, u), "input") = UsageSum(budget.usage, "input") + u.input
          /\ UsageSum(Append(budget.usage, u), "output") = UsageSum(budget.usage, "output") + u.output
          /\ UsageSum(Append(budget.usage, u), "tools") = UsageSum(budget.usage, "tools") + u.tools
      BY <3>2
    <3> QED
      BY <1>6, <1>7, <3>1, <3>3 DEF SumsAgree
  <2>7. ~plan.accountCharge => budget'.provider = None
    BY <1>0, <1>6 DEF BudgetInv, PlanInv
  <2> QED
    BY <1>1, <1>6, <2>1, <2>2, <2>3, <2>4, <2>5, <2>6, <2>7 DEF PlanInv, Live, Open
<1>12. DueInv' /\ PriceInv'
  BY <1>0, <1>1, <1>6 DEF BudgetInv, DueInv, PriceInv, Live
<1>13. ChargeInv'
  <2>1. ASSUME plan.accountCharge PROVE billed' <= ReportedCharge'
    <3>1. billed <= ReportedCharge + reply.cost
      BY <1>0, <2>1 DEF BudgetInv, ChargeInv, Live
    <3>2. ReportedCharge + reply.cost \in Nat
      BY <1>2, <1>3, SMTT(30) DEF ReportedCharge
    <3>3. ReportedCharge' = ReportedCharge + reply.cost
      BY <1>6, <2>1, <3>2, BudgetAssumption DEF ReportedCharge
    <3> QED
      BY <1>1, <3>1, <3>3
  <2>2. ASSUME plan.version = "v3"
        PROVE  billed' <= UsageCharge(plan, budget'.usage) + (IF sent' = 0 THEN 0 ELSE plan.fees)
    <3>1. billed <= UsageCharge(plan, budget.usage) + plan.fees + RequestCharge(plan, reply)
      BY <1>0, <2>2 DEF BudgetInv, ChargeInv, Live
    <3>2. RequestCharge(plan, u) = RequestCharge(plan, reply)
      BY <1>7 DEF RequestCharge
    <3>3. RequestCharge(plan, u) \in Nat
      <4>1. u.input <= u.input /\ u.output <= u.output /\ u.tools <= u.tools
        BY <1>3, <1>7
      <4> QED
        BY <1>0, <1>3, <1>7, <4>1, RequestCharges
    <3>4. /\ UsageCharge(plan, budget.usage) \in Nat
          /\ UsageCharge(plan, budget'.usage) = UsageCharge(plan, budget.usage) + RequestCharge(plan, u)
      BY <1>0, <1>2, <1>6, <1>7, <2>2, UsageGrows
    <3>5. sent = 0 => billed = 0
      BY DEF BudgetInv, PriceInv
    <3> QED
      BY <1>0, <1>1, <1>5, <3>1, <3>2, <3>3, <3>4, <3>5
  <2>3. ~plan.accountCharge => budget'.authoritative = 0
    BY <1>0, <1>6 DEF BudgetInv, ChargeInv
  <2> QED
    BY <1>1, <2>1, <2>2, <2>3 DEF ChargeInv
<1>14. SettledInv'
  BY <1>0, <1>1 DEF BudgetInv, SettledInv, SettlementCoversBill, Closing
<1>15. ReceiptInv'
  BY <1>0, <1>1 DEF BudgetInv, ReceiptInv, Working, ResultVerified, UsageVerified
<1> QED
  BY <1>9, <1>10, <1>11, <1>12, <1>13, <1>14, <1>15 DEF BudgetInv

\* The ledger is told a charge that covers the bill, or nothing.
LEMMA SettleStep ==
    ASSUME BudgetInv, Settle
    PROVE  BudgetInv'
<1>0. /\ plan \in MechanismFields /\ budget \in Budget /\ settled \in Nat \cup {None}
      /\ sent \in Nat /\ billed \in Nat /\ Live
  BY DEF BudgetInv, BudgetType, Settle, Live
<1>1. /\ pc \in {"succeeding", "failing"} /\ pc' \in {"completed", "failed"}
      /\ ChargeKnown => Charge <= Maximum(plan) /\ settled' = Charge
      /\ ~ChargeKnown => settled' = settled
      /\ UNCHANGED <<plan, budget, reply, committed, receipt, candidate, sent, billed, due>>
  BY DEF Settle
<1>2. /\ budget.rounds \in Nat /\ budget.provider \in Nat \cup {None} /\ budget.usage \in Seq(Amount)
      /\ plan.fees \in Nat /\ plan.accountCharge \in BOOLEAN
  BY <1>0, BudgetTypes, PlanTypes
<1>3. UsageCharge(plan, budget.usage) \in Nat
  <2>1. [input |-> 0, output |-> 0, tools |-> 0] \in Amount
    BY DEF Amount
  <2> QED
    BY <1>0, <1>2, <2>1, UsageGrows
<1>4. settled = None
  BY <1>1 DEF BudgetInv, SettledInv, Closing
<1>5. budget.rounds = 0 => billed = 0
  <2>1. sent <= budget.rounds /\ (sent = 0 => billed = 0)
    BY <1>0 DEF BudgetInv, CountInv, PriceInv
  <2> QED
    BY <1>0, <1>2, <2>1
<1>6. ASSUME ChargeKnown, plan.version = "v2"
      PROVE  Charge = ReportedCharge /\ Charge \in Nat /\ billed <= Charge
  <2>1. Charge = ReportedCharge
    BY <1>6 DEF Charge, ReportedCharge
  <2>2. ReportedCharge \in Nat
    BY <1>2 DEF ReportedCharge
  <2>3. CASE budget.rounds = 0
    BY <1>0, <1>5, <2>1, <2>2, <2>3
  <2>4. CASE budget.rounds # 0
    <3>1. budget.pending = None /\ budget.authoritative = budget.rounds
      BY <1>6, <2>4 DEF ChargeKnown
    <3>2. plan.accountCharge
      BY <1>0, <1>2, <2>4, <3>1 DEF BudgetInv, ChargeInv
    <3> QED
      BY <1>0, <2>1, <2>2, <3>1, <3>2 DEF BudgetInv, ChargeInv, Open
  <2> QED
    BY <2>3, <2>4
<1>7. ASSUME ChargeKnown, plan.version = "v3"
      PROVE  /\ Charge = UsageCharge(plan, budget.usage) + plan.fees /\ Charge \in Nat /\ billed <= Charge
             /\ Len(budget.usage) = budget.rounds
  <2>1. Charge = UsageCharge(plan, budget.usage) + plan.fees
    BY <1>7 DEF Charge
  <2>2. Charge \in Nat
    BY <1>2, <1>3, <2>1
  <2>3. CASE budget.rounds = 0
    <3>1. Len(budget.usage) <= 0 /\ Len(budget.usage) \in Nat
      BY <1>0, <1>2, <2>3 DEF BudgetInv, PlanInv
    <3> QED
      BY <1>0, <1>5, <2>1, <2>2, <2>3, <3>1
  <2>4. CASE budget.rounds # 0
    <3>1. budget.pending = None /\ Len(budget.usage) = budget.rounds
      BY <1>7, <2>4 DEF ChargeKnown
    <3>2. billed <= UsageCharge(plan, budget.usage) + (IF sent = 0 THEN 0 ELSE plan.fees)
      BY <1>0, <1>7, <3>1 DEF BudgetInv, ChargeInv, Open
    <3> QED
      BY <1>0, <1>2, <1>3, <2>1, <2>2, <3>1, <3>2
  <2> QED
    BY <2>1, <2>2, <2>3, <2>4
<1>8. ChargeKnown => plan.version \in {"v2", "v3"}
  BY DEF ChargeKnown
<1>9. BudgetType'
  BY <1>0, <1>1, <1>4, <1>6, <1>7, <1>8 DEF BudgetInv, BudgetType
<1>10. CountInv' /\ PlanInv' /\ DueInv' /\ PriceInv' /\ ChargeInv'
  <2>1. CountInv' /\ PlanInv'
    BY <1>0, <1>1 DEF BudgetInv, CountInv, PlanInv, Live, Open
  <2>2. DueInv' /\ PriceInv'
    BY <1>0, <1>1 DEF BudgetInv, DueInv, PriceInv, Live
  <2>3. ChargeInv'
    BY <1>0, <1>1 DEF BudgetInv, ChargeInv, ReportedCharge, Live, Open
  <2> QED
    BY <2>1, <2>2, <2>3
<1>11. SettledInv'
  <2>1. SettlementCoversBill'
    BY <1>1, <1>4, <1>6, <1>7, <1>8 DEF SettlementCoversBill
  <2>2. settled' # None => ChargeKnown /\ settled' = Charge
    BY <1>1, <1>4
  <2> QED
    BY <1>1, <1>7, <2>1, <2>2 DEF SettledInv, Closing
<1>12. ReceiptInv'
  BY <1>1 DEF BudgetInv, ReceiptInv, Working, ResultVerified, UsageVerified
<1> QED
  BY <1>9, <1>10, <1>11, <1>12 DEF BudgetInv

\* What the budget knows at the end is what its verifier asks of the receipt.
LEMMA ReceiptStep ==
    ASSUME BudgetInv, WriteReceipt
    PROVE  BudgetInv'
<1>0. /\ pc \in {"completed", "failed"} /\ pc' = "receipted" /\ Live
      /\ receipt' = [status |-> pc, body |-> budget, settled |-> settled # None,
                     charge |-> IF plan.version = "v3" THEN settled ELSE None]
      /\ UNCHANGED <<plan, budget, reply, settled, committed, candidate, sent, billed, due>>
  BY DEF WriteReceipt, Live
<1>1. BudgetType' /\ CountInv' /\ PlanInv'
  BY <1>0 DEF BudgetInv, BudgetType, CountInv, PlanInv, Live, Open
<1>2. DueInv' /\ PriceInv' /\ ChargeInv'
  BY <1>0 DEF BudgetInv, DueInv, PriceInv, ChargeInv, ReportedCharge, Live, Open
<1>3. SettledInv'
  BY <1>0 DEF BudgetInv, SettledInv, SettlementCoversBill, Closing
<1>4. ReceiptInv'
  <2>1. /\ receipt'.status = pc /\ receipt'.body = budget /\ receipt'.settled = (settled # None)
        /\ receipt'.charge = IF plan.version = "v3" THEN settled ELSE None
    BY <1>0
  <2>2. plan.version = "v3" => UsageVerified(receipt)'
    <3>1. /\ Len(budget.usage) <= budget.rounds
          /\ ~plan.accountCharge => budget.provider = None
          /\ plan.version = "v3" => SumsAgree(budget) /\ ~plan.accountCharge
      BY <1>0 DEF BudgetInv, PlanInv, BudgetType, Prepared
    <3>2. plan.version = "v3" /\ settled # None =>
             /\ Len(budget.usage) = budget.rounds
             /\ settled = UsageCharge(plan, budget.usage) + plan.fees
             /\ settled <= Maximum(plan)
      BY <1>0 DEF BudgetInv, SettledInv, SettlementCoversBill, Closing
    <3> QED
      BY <1>0, <2>1, <3>1, <3>2 DEF UsageVerified, SumsAgree
  <2>3. /\ budget.formula = Formula(plan, budget.seenInput, budget.seenOutput, budget.tools)
        /\ plan.accountCharge /\ budget.provider # None => budget.provider <= Maximum(plan)
        /\ budget.rounds <= plan.toolCalls + 1
        /\ budget.input <= plan.totalInput /\ budget.output <= plan.totalOutput
        /\ budget.output = budget.rounds * plan.maxOutput
        /\ budget.seenInput <= budget.input /\ budget.seenOutput <= budget.output
        /\ budget.tools <= plan.toolCalls /\ budget.tools <= plan.toolRounds
    BY <1>0 DEF BudgetInv, PlanInv
  <2>4. ResultVerified(receipt)'
    BY <1>0, <2>1, <2>2, <2>3 DEF ResultVerified
  <2> QED
    BY <1>0, <2>1, <2>4 DEF BudgetInv, ReceiptInv, Working
<1> QED
  BY <1>1, <1>2, <1>3, <1>4 DEF BudgetInv

LEMMA FreshBudgetType ==
    /\ FreshBudget \in Budget
    /\ FreshBudget.rounds = 0 /\ FreshBudget.input = 0 /\ FreshBudget.output = 0
    /\ FreshBudget.seenInput = 0 /\ FreshBudget.seenOutput = 0 /\ FreshBudget.tools = 0
    /\ FreshBudget.formula = 0 /\ FreshBudget.provider = None /\ FreshBudget.authoritative = 0
    /\ FreshBudget.usage = <<>> /\ FreshBudget.pending = None
<1>1. <<>> \in Seq(Amount)
  OBVIOUS
<1> QED
  BY <1>1 DEF FreshBudget, Budget

\* The candidate's result is bound to the receipt.
LEMMA CandidateStep ==
    ASSUME BudgetInv, CloseCandidate \/ InterruptCandidate
    PROVE  BudgetInv'
<1>0. /\ pc \in {"receipted", "dead"} /\ pc' \in {"done", "dead"} /\ (pc = "receipted" <=> pc' = "done")
      /\ UNCHANGED <<plan, budget, reply, settled, committed, receipt, sent, billed, due>>
  BY DEF CloseCandidate, InterruptCandidate
<1>1. BudgetType' /\ CountInv' /\ PlanInv'
  BY <1>0 DEF BudgetInv, BudgetType, CountInv, PlanInv, Live, Open
<1>2. DueInv' /\ PriceInv' /\ ChargeInv'
  BY <1>0 DEF BudgetInv, DueInv, PriceInv, ChargeInv, ReportedCharge, Live, Open
<1>3. SettledInv'
  BY <1>0 DEF BudgetInv, SettledInv, SettlementCoversBill, Closing
<1>4. pc = "receipted" => receipt.status \in {"completed", "failed"}
  BY DEF BudgetInv, ReceiptInv, CloseCandidate, InterruptCandidate
<1>5. \/ candidate'.status = "interrupted"
      \/ /\ pc = "receipted" /\ candidate'.receipt = receipt
         /\ \/ candidate'.status = "ok" /\ receipt.status = "completed"
            \/ candidate'.status = "failed" /\ receipt.status = "failed"
  BY <1>4 DEF CloseCandidate, InterruptCandidate
<1>6. ResultVerified(receipt)' = ResultVerified(receipt)
  BY <1>0 DEF ResultVerified, UsageVerified
<1>7. ReceiptInv'
  BY <1>0, <1>4, <1>5, <1>6 DEF BudgetInv, ReceiptInv, Working
<1> QED
  BY <1>1, <1>2, <1>3, <1>7 DEF BudgetInv

\* A process that dies loses its budget; the evidence and the ledger stay.
LEMMA DeathStep ==
    ASSUME BudgetInv, Crash \/ Bind
    PROVE  BudgetInv'
<1>1. CASE Crash
  <2>1. /\ pc # "done" /\ pc' = "dead" /\ budget' = FreshBudget
        /\ UNCHANGED <<plan, settled, committed, receipt, candidate, sent, billed, due>>
    BY <1>1 DEF Crash
  <2>2. BudgetType'
    BY <2>1, FreshBudgetType DEF BudgetInv, BudgetType
  <2>3. CountInv'
    BY <2>1, FreshBudgetType DEF BudgetInv, BudgetType, CountInv, Live, Open
  <2>4. PlanInv' /\ ChargeInv'
    BY <2>1 DEF PlanInv, ChargeInv, Live
  <2>5. DueInv' /\ PriceInv'
    BY <2>1 DEF BudgetInv, DueInv, PriceInv, Live
  <2>6. SettledInv'
    BY <2>1 DEF BudgetInv, SettledInv, SettlementCoversBill, Closing
  <2>7. ReceiptInv'
    BY <2>1 DEF BudgetInv, ReceiptInv, Working, ResultVerified, UsageVerified
  <2> QED
    BY <2>2, <2>3, <2>4, <2>5, <2>6, <2>7 DEF BudgetInv
<1>2. CASE Bind
  <2>1. /\ pc = "dead" /\ receipt'.status = "interrupted" /\ UNCHANGED candidate
        /\ UNCHANGED <<plan, pc, budget, reply, settled, committed, sent, billed, due>>
    BY <1>2 DEF Bind
  <2>2. BudgetType' /\ CountInv' /\ PlanInv'
    BY <2>1 DEF BudgetInv, BudgetType, CountInv, PlanInv, Live, Open
  <2>3. DueInv' /\ PriceInv' /\ ChargeInv'
    BY <2>1 DEF BudgetInv, DueInv, PriceInv, ChargeInv, ReportedCharge, Live, Open
  <2>4. SettledInv'
    BY <2>1 DEF BudgetInv, SettledInv, SettlementCoversBill, Closing
  <2>5. ReceiptInv'
    BY <2>1 DEF BudgetInv, ReceiptInv, Working
  <2> QED
    BY <2>2, <2>3, <2>4, <2>5 DEF BudgetInv
<1> QED
  BY <1>1, <1>2

LEMMA StutterStep ==
    ASSUME BudgetInv, UNCHANGED vars
    PROVE  BudgetInv'
<1>1. UNCHANGED <<plan, pc, budget, reply, settled, committed, receipt, candidate, sent, billed, due>>
  BY DEF vars
<1>2. BudgetType' /\ CountInv' /\ PlanInv'
  BY <1>1 DEF BudgetInv, BudgetType, CountInv, PlanInv, Live, Open
<1>3. DueInv' /\ PriceInv' /\ ChargeInv'
  BY <1>1 DEF BudgetInv, DueInv, PriceInv, ChargeInv, ReportedCharge, Live, Open
<1>4. SettledInv'
  BY <1>1 DEF BudgetInv, SettledInv, SettlementCoversBill, Closing
<1>5. ReceiptInv'
  BY <1>1 DEF BudgetInv, ReceiptInv, Working, ResultVerified, UsageVerified
<1> QED
  BY <1>2, <1>3, <1>4, <1>5 DEF BudgetInv

LEMMA Step ==
    ASSUME BudgetInv, [Next]_vars
    PROVE  BudgetInv'
<1>1. CASE Request
  <2>1. PICK n \in Counted(plan) : CommitRequest(n) \/ RefuseRequest(n)
    BY <1>1 DEF Request
  <2> QED
    BY <2>1, CommitStep, WayToTheEnd
<1>2. CASE Provider
  <2>1. PICK use \in Uses : \E bill \in 0..MayBill(use).price, over \in 0..Excess : Send(use, bill, over)
    BY <1>2 DEF Provider
  <2>2. PICK bill \in 0..MayBill(use).price, over \in 0..Excess : Send(use, bill, over)
    BY <2>1
  <2> QED
    BY <2>2, SendStep
<1>3. CASE Observe
  BY <1>3, ObserveStep
<1>4. CASE RejectUsage \/ Continue \/ Fail \/ AppendFails
  BY <1>4, WayToTheEnd
<1>5. CASE Settle
  BY <1>5, SettleStep
<1>6. CASE WriteReceipt
  BY <1>6, ReceiptStep
<1>7. CASE Crash \/ Bind
  BY <1>7, DeathStep
<1>8. CASE CloseCandidate \/ InterruptCandidate
  BY <1>8, CandidateStep
<1>9. CASE UNCHANGED vars
  BY <1>9, StutterStep
<1> QED
  BY <1>1, <1>2, <1>3, <1>4, <1>5, <1>6, <1>7, <1>8, <1>9 DEF Next

LEMMA Start ==
    ASSUME Init
    PROVE  BudgetInv
<1>1. /\ plan \in MechanismFields /\ Prepared(plan) /\ pc = "ready" /\ budget = FreshBudget
      /\ settled = None /\ committed = 0 /\ receipt = None /\ candidate = None
      /\ sent = 0 /\ billed = 0 /\ due = [input |-> 0, output |-> 0, tools |-> 0]
  BY BudgetAssumption DEF Init
<1>2. due \in Amount /\ due.input = 0 /\ due.output = 0 /\ due.tools = 0
  BY <1>1 DEF Amount
<1>3. /\ plan.totalInput \in Nat /\ plan.totalOutput \in Nat /\ plan.toolCalls \in Nat
      /\ plan.toolRounds \in Nat /\ plan.maxOutput \in Nat /\ plan.toolFee \in Nat /\ plan.fees \in Nat
  BY <1>1, PlanTypes
<1>4. BudgetType
  BY <1>1, <1>2, FreshBudgetType DEF BudgetType
<1>5. CountInv
  BY <1>1, <1>3, FreshBudgetType DEF CountInv, Open
<1>6. PlanInv
  <2>1. Len(<<>>) = 0 /\ 0 = 0 * plan.maxOutput
    BY <1>3
  <2> QED
    BY <1>1, <1>3, <2>1, FreshBudgetType, NothingIsFree, NothingIsObserved DEF PlanInv, Open
<1>7. DueInv
  BY <1>1, <1>2, <1>3, FreshBudgetType DEF DueInv
<1>8. PriceInv
  <2>1. 0 * RequestPrice(plan) = 0 /\ 0 * plan.toolFee = 0
    <3>1. RequestPrice(plan) \in Nat
      <4>1. due.input <= plan.maxInput /\ due.output <= plan.outputBound
        BY <1>1, <1>2, PlanTypes
      <4> QED
        BY <1>1, <1>2, <4>1, RequestWithinPrice
    <3> QED
      BY <1>3, <3>1
  <2> QED
    BY <1>1, <1>2, <1>3, <2>1, NothingIsFree DEF PriceInv
<1>9. ChargeInv
  <2>1. UsageCharge(plan, budget.usage) \in Nat
    BY <1>1, <1>2, FreshBudgetType, BudgetTypes, UsageGrows
  <2> QED
    BY <1>1, <2>1, FreshBudgetType DEF ChargeInv, ReportedCharge
<1>10. SettledInv /\ ReceiptInv
  BY <1>1 DEF SettledInv, SettlementCoversBill, ReceiptInv
<1> QED
  BY <1>4, <1>5, <1>6, <1>7, <1>8, <1>9, <1>10 DEF BudgetInv

\* The inductive invariant holds in every state of every segment.
THEOREM BudgetIsInvariant == Spec => []BudgetInv
<1>1. Init => BudgetInv
  BY Start
<1>2. BudgetInv /\ [Next]_vars => BudgetInv'
  BY Step
<1> QED
  BY <1>1, <1>2, PTL DEF Spec

-----------------------------------------------------------------------------
LEMMA BoundTypes ==
    ASSUME NEW m \in MechanismFields
    PROVE  RequestPrice(m) \in Nat /\ MaximumUsageBound(m) \in Nat
<1> DEFINE i == CeilQuantum(m.inputRate, m.maxInput, m.quantum)
           o == CeilQuantum(m.outputRate, m.outputBound, m.quantum)
<1>1. /\ m.maxRequests \in Nat /\ m.toolRounds \in Nat /\ m.toolFee \in Nat /\ m.fees \in Nat
      /\ m.maxInput \in Nat /\ m.outputBound \in Nat
  BY PlanTypes
<1>2. i \in Nat /\ o \in Nat
  <2>1. m.inputRate \in Nat /\ m.outputRate \in Nat /\ m.quantum \in Nat \ {0}
    BY DEF MechanismFields
  <2>2. m.maxInput <= m.maxInput /\ m.outputBound <= m.outputBound
    BY <1>1
  <2> QED
    BY <1>1, <2>1, <2>2, CeilQuantumGrows
<1>3. /\ RequestPrice(m) = i + o
      /\ MaximumUsageBound(m) = m.maxRequests * i + m.maxRequests * o + m.toolRounds * m.toolFee + m.fees
  BY DEF RequestPrice, MaximumUsageBound
<1> HIDE DEF i, o
<1>4. m.maxRequests * i \in Nat /\ m.maxRequests * o \in Nat /\ m.toolRounds * m.toolFee \in Nat
  BY <1>1, <1>2
<1>5. /\ i + o \in Nat
      /\ m.maxRequests * i + m.maxRequests * o + m.toolRounds * m.toolFee + m.fees \in Nat
  BY <1>1, <1>2, <1>4
<1> QED
  BY <1>3, <1>5

\* The price of the most requests a mechanism allows.
LEMMA PriceOfAll ==
    ASSUME NEW m \in MechanismFields, NEW n \in Nat, NEW t \in Nat, n <= m.maxRequests, t <= m.toolRounds
    PROVE  n * RequestPrice(m) + t * m.toolFee + m.fees <= MaximumUsageBound(m)
<1> DEFINE i == CeilQuantum(m.inputRate, m.maxInput, m.quantum)
           o == CeilQuantum(m.outputRate, m.outputBound, m.quantum)
<1>1. /\ m.maxRequests \in Nat /\ m.toolRounds \in Nat /\ m.toolFee \in Nat /\ m.fees \in Nat
      /\ m.maxInput \in Nat /\ m.outputBound \in Nat
  BY PlanTypes
<1>2. i \in Nat /\ o \in Nat
  <2>1. m.inputRate \in Nat /\ m.outputRate \in Nat /\ m.quantum \in Nat \ {0}
    BY DEF MechanismFields
  <2>2. m.maxInput <= m.maxInput /\ m.outputBound <= m.outputBound
    BY <1>1
  <2> QED
    BY <1>1, <2>1, <2>2, CeilQuantumGrows
<1>3. RequestPrice(m) = i + o /\ MaximumUsageBound(m) = m.maxRequests * i + m.maxRequests * o + m.toolRounds * m.toolFee + m.fees
  BY DEF RequestPrice, MaximumUsageBound
<1> HIDE DEF i, o
<1>4. n * (i + o) <= m.maxRequests * (i + o) /\ n * (i + o) \in Nat
  <2>1. i + o \in Nat
    BY <1>2
  <2> QED
    BY <1>1, <2>1, Times
<1>5. /\ m.maxRequests * (i + o) = m.maxRequests * i + m.maxRequests * o
      /\ m.maxRequests * i \in Nat /\ m.maxRequests * o \in Nat
  BY <1>1, <1>2
<1>6. t * m.toolFee <= m.toolRounds * m.toolFee /\ t * m.toolFee \in Nat /\ m.toolRounds * m.toolFee \in Nat
  BY <1>1, Times
<1> DEFINE a == n * (i + o)
           b == m.maxRequests * i
           c == m.maxRequests * o
           d == t * m.toolFee
           e == m.toolRounds * m.toolFee
<1>7. a + d + m.fees <= b + c + e + m.fees
  <2>1. a \in Nat /\ b \in Nat /\ c \in Nat /\ d \in Nat /\ e \in Nat /\ a <= b + c /\ d <= e
    BY <1>4, <1>5, <1>6
  <2> HIDE DEF a, b, c, d, e
  <2> QED
    BY <1>1, <2>1
<1> QED
  BY <1>3, <1>7

\* The provider has never billed more than the maximum that was reserved, for
\* any mechanism prepare accepts and whatever was lost, refused or interrupted.
THEOREM NeverMoreThanReserved == Spec => []BilledWithinMaximum
<1>1. BudgetInv => BilledWithinMaximum
  <2> SUFFICES ASSUME BudgetInv PROVE BilledWithinMaximum
    OBVIOUS
  <2>1. /\ plan \in MechanismFields /\ Prepared(plan) /\ sent \in Nat /\ billed \in Nat
        /\ due.input \in Nat /\ due.output \in Nat /\ due.tools \in Nat
    BY DEF BudgetInv, BudgetType, Amount
  <2>2. /\ due.input <= plan.totalInput /\ due.output <= plan.totalOutput /\ due.tools <= plan.toolRounds
        /\ sent <= plan.toolCalls + 1
    BY DEF BudgetInv, DueInv, CountInv
  <2>3. /\ plan.totalInput \in Nat /\ plan.totalOutput \in Nat /\ plan.toolRounds \in Nat
        /\ plan.toolCalls \in Nat /\ plan.maxRequests \in Nat /\ plan.toolFee \in Nat /\ plan.fees \in Nat
    BY <2>1, PlanTypes
  <2>4. CASE plan.version = "v3"
    <3>1. plan.maxRequests >= plan.toolCalls + 1 /\ MaximumUsageBound(plan) <= Maximum(plan)
      BY <2>1, <2>4 DEF Prepared
    <3>2. sent <= plan.maxRequests
      BY <2>1, <2>2, <2>3, <3>1
    <3> DEFINE p == sent * RequestPrice(plan) + due.tools * plan.toolFee + plan.fees
    <3>3. p <= MaximumUsageBound(plan)
      BY <2>1, <2>2, <3>2, PriceOfAll
    <3>4. billed <= p
      BY <2>4 DEF BudgetInv, PriceInv
    <3>5. p \in Int /\ MaximumUsageBound(plan) \in Int /\ Maximum(plan) \in Int
      <4>1. RequestPrice(plan) \in Nat /\ MaximumUsageBound(plan) \in Nat
        BY <2>1, BoundTypes
      <4> QED
        BY <2>1, <2>3, <4>1, MaximumType
    <3> HIDE DEF p
    <3> QED
      BY <2>1, <3>1, <3>3, <3>4, <3>5 DEF BilledWithinMaximum
  <2>5. CASE plan.version # "v3"
    <3>1. billed <= Formula(plan, due.input, due.output, due.tools)
      BY <2>5 DEF BudgetInv, PriceInv
    <3>2. /\ Formula(plan, due.input, due.output, due.tools) \in Nat /\ Maximum(plan) \in Nat
          /\ Formula(plan, due.input, due.output, due.tools) <= Maximum(plan)
      BY <2>1, <2>2, <2>3, FormulaGrows DEF Maximum
    <3> QED
      BY <2>1, <3>1, <3>2 DEF BilledWithinMaximum
  <2> QED
    BY <2>4, <2>5
<1> QED
  BY <1>1, BudgetIsInvariant, PTL

\* A request the provider holds is in the evidence, a crash after it included.
THEOREM EveryRequestIsCommitted == Spec => []RequestsAreCommitted
<1>1. BudgetInv => RequestsAreCommitted
  BY DEF BudgetInv, CountInv, RequestsAreCommitted
<1> QED
  BY <1>1, BudgetIsInvariant, PTL

\* What finalize settles is at least what the provider billed and at most what
\* was reserved, so a settlement frees no money that may be owed.
THEOREM SettlementIsSound == Spec => []SettlementCoversBill
<1>1. BudgetInv => SettlementCoversBill
  BY DEF BudgetInv, SettledInv
<1> QED
  BY <1>1, BudgetIsInvariant, PTL

\* Once the budget attempt and the candidate attempt of a segment are final,
\* verify_request_budget_evidence accepts them: the statuses agree, the usage
\* adds up to what was observed, the settlement is the bound of that usage, and
\* the result is bound to the receipt.  The one pair it rejects is the
\* half-closed one, of a process that died between the two final records.
THEOREM EveryReceiptVerifies == Spec => []VerifierAccepts
<1>1. BudgetInv => VerifierAccepts
  BY DEF BudgetInv, ReceiptInv, VerifierAccepts, HalfClosed, Verified
<1> QED
  BY <1>1, BudgetIsInvariant, PTL
=============================================================================
