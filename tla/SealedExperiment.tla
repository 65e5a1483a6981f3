---------------------------- MODULE SealedExperiment ----------------------------
(***************************************************************************)
(* One frozen experiment from its sources to its scores: the plan, the     *)
(* readiness check of readiness.py, an execution in the same directory     *)
(* that nothing keeps from running meanwhile, and the offline scoring of   *)
(* research_scoring.py.                                                    *)
(*                                                                         *)
(* The execution is that of ResearchSchedule, reduced to the order of its  *)
(* files, its commitments and the stop of what they do not admit: other    *)
(* crashes and stops are there.  Here candidates answer.                   *)
(***************************************************************************)
EXTENDS ExecutionPlans

CONSTANTS
    Experiments, \* what an operator may propose, with the candidates' answers per condition
                 \* (says), and the bound of the segments without a usable answer (faults)
    Primary,     \* the repeats primary scoring insists on (3 in the code)
    Foreign,     \* what another execution commits at a time
    MaxRows,     \* bound: rows of other executions, of one kind
    MaxLies      \* bound: probes that are not truthful

\* Amounts are whole numbers.  The plan of an experiment that can be frozen is a
\* sequence, not empty, of cells of its suites, routes and conditions; what they
\* reserve under a route is no less than what one of them does.
ASSUME PlanAssumption ==
    /\ Foreign \in Nat /\ MaxRows \in Nat
    /\ \A e \in Experiments :
          /\ {e.cap, e.spent, e.credit} \subseteq Nat
          /\ \A s \in DOMAIN e.suites :
                LET limits == e.suites[s].limits IN {limits.timeout, limits.output, limits.tools} \subseteq Nat
          /\ \A r \in DOMAIN e.routes :
                LET route == e.routes[r] IN
                {route.inputRate, route.outputRate, route.toolRate, route.maxInput, route.maxOutput,
                 route.maxRounds, e.auths[r].ceiling} \subseteq Nat
          /\ Plannable(e) =>
                LET plan == Cells(e) IN
                /\ Len(plan) \in Nat \ {0} /\ DOMAIN plan = 1..Len(plan) /\ ReservationTotal(plan) \in Nat
                /\ \A c \in DOMAIN plan :
                      /\ \E s \in DOMAIN e.suites, r \in DOMAIN e.routes, p \in 1..e.repeats :
                         \E condition \in e.routes[r].conditions :
                            LET segments == SegmentPlan(e.suites[s], e.protocol).segments IN
                            /\ Len(segments) \in Nat \ {0} /\ DOMAIN segments = 1..Len(segments)
                            /\ plan[c] = Cell(e.suites[s], e.routes[r], p, condition, Len(segments))
                      /\ ReservationTotal(Own(plan, plan[c].route)) \in Nat
                      /\ plan[c].reserved <= ReservationTotal(Own(plan, plan[c].route))

\* The items of an exam are a sequence, and what is said to one is a JSON value.
ASSUME AnswerAssumption ==
    \A e \in Experiments : \A s \in DOMAIN e.suites : e.suites[s].kind # "gec" =>
        LET items == e.suites[s].exam.items IN
        /\ Len(items) \in Nat /\ DOMAIN items = 1..Len(items)
        /\ \A i \in DOMAIN items, condition \in {"closed-book", "sources"} :
              LET answer == e.says[condition][items[i].text] IN
              answer.type = "text" => answer = Text(answer.value)

VARIABLES
    experiment, cells,  \* the inputs, and the execution plan (None: refused)
    root,               \* the execution directory: a version per file
    ledger,             \* its rows by funding kind: what those of this execution retain, and
                        \* of the others how many were taken and how many settled for nothing
    next, answers, faults, \* the execution: where it is, records per cell, faults so far
    phase, left, seen, before, budget, \* locals of check_research
    cell, lies, failures, steady,   \* and its probes; steady is a history variable
    aggregated, report  \* scoring: the derived aggregates exist; the report, or Refused

execution == <<root, ledger, next, answers, faults>>
readiness == <<phase, left, seen, before, budget, cell, lies, failures, steady>>
scoring == <<aggregated, report>>
sealedVars == <<experiment, cells, execution, readiness, scoring>>

Suite(c) == cells[c].suite
Plan(c) == SegmentPlan(Suite(c), experiment.protocol)
Attempts == UNION {{c} \X (1..cells[c].segments) : c \in DOMAIN cells}

\* The files an execution may leave; experiment.json and execution-plan.json are one.
Artifacts ==
    {<<"cell", c, 0>> : c \in DOMAIN cells}
    \cup {<<kind, a[1], a[2]>> : kind \in {"budget-stop", "temp", "events", "final"}, a \in Attempts}
    \cup {<<"frozen", 0, 0>>, <<"result", 0, 0>>, <<"stop", 0, 0>>}

\* They are read in the order of their paths: budget-stop.json, which names an
\* attempt, the cells, the evidence, and the others at the root.
Place(n) ==
    CASE n[1] = "budget-stop" -> <<0, 0, 0, 0>>
      [] n[1] = "cell" -> <<0, n[2], 0, 0>>
      [] n[1] = "temp" -> <<1, n[2], n[3], 0>>
      [] n[1] = "events" -> <<1, n[2], n[3], 1>>
      [] n[1] = "final" -> <<1, n[2], n[3], 2>>
      [] n[1] = "frozen" -> <<2, 0, 0, 0>>
      [] n[1] = "result" -> <<3, 0, 0, 0>>
      [] OTHER -> <<4, 0, 0, 0>>
Precedes(m, n) ==
    \E i \in 1..4 : Place(m)[i] < Place(n)[i] /\ \A j \in 1..(i - 1) : Place(m)[j] = Place(n)[j]

Present == {n \in DOMAIN root : root[n] > 0}
Frozen == <<"frozen", 0, 0>>
Result == <<"result", 0, 0>>
StopFile == <<"stop", 0, 0>>
BudgetStops == {n \in Present : n[1] = "budget-stop"}

Funding == {"metered", "existing_credit"}

SealedInit ==
    /\ experiment \in Experiments
    /\ cells = IF Plannable(experiment) THEN Cells(experiment) ELSE None
    /\ root = IF cells = None THEN <<>> ELSE [n \in Artifacts |-> 0]
    /\ ledger = [kind \in Funding |-> [own |-> IF kind = "metered" THEN experiment.spent ELSE 0,
                                       taken |-> 0, settled |-> 0]]
    /\ next = <<"start", 1, 1>> /\ faults = 0
    /\ answers = IF cells = None THEN <<>> ELSE [c \in DOMAIN cells |-> <<>>]
    /\ phase = "idle" /\ left = {} /\ seen = {} /\ before = None /\ budget = None
    /\ cell = 1 /\ lies = 0 /\ failures = 0 /\ steady = TRUE
    /\ aggregated = FALSE /\ report = None

Ready == cells # None /\ RuntimeAccepts(experiment, cells)

\* _totals of the shared ledger; without one, the commitments of the budgets.
Retained(rows, kind) == rows[kind].own + Foreign * (rows[kind].taken - rows[kind].settled)
Left(rows, kind) == (IF kind = "metered" THEN experiment.cap ELSE experiment.credit) - Retained(rows, kind)

\* _maximum_segment_charge
Maximum(route) == TokenCost(route) + route.maxRounds * route.toolRate

\* What a segment may still cost: of the shared cap, or of the frozen sum.
Available(c, rows) ==
    IF Sequential(experiment) THEN Left(rows, "metered")
    ELSE experiment.cap - ReservationTotal(cells) + cells[c].reserved

Auth(c) == experiment.auths[CHOOSE r \in DOMAIN experiment.routes : experiment.routes[r].id = cells[c].route.id]

-----------------------------------------------------------------------------
(* The execution (run_research). *)

Write(n) == root' = [root EXCEPT ![n] = @ + 1]
Go(step, c, s) == next' = <<step, c, s>>

Begin ==
    /\ next[1] = "start" /\ Ready
    /\ Write(Frozen) /\ Go("reserve", 1, 1)
    /\ UNCHANGED <<ledger, answers, faults>>

\* The probe of a segment, and what a truthful one says.
SegmentRequest(c, s) ==
    Request(cells[c].route, Suite(c).limits, cells[c].condition, Len(Plan(c).segments[s].packet), <<c, s>>, 0)
SegmentClaims(c, s) == Truthful(cells[c].route, SegmentRequest(c, s), experiment.credit, 0)
Admitted(c, s) ==
    ValidClaims(SegmentClaims(c, s), SegmentRequest(c, s), cells[c].route, 0, 1, cells[c].reserved,
                Available(c, ledger), Auth(c))

\* for_attempt commits the worst case: in the shared ledger, or of credit alone.
Commits(c) == cells[c].route.kind = "existing_credit" \/ (cells[c].route.kind = "metered" /\ Sequential(experiment))
Fits(c) == Commits(c) => Maximum(cells[c].route) <= Left(ledger, cells[c].route.kind)

StartSegment ==
    LET c == next[2] IN
    /\ next[1] = "reserve"
    /\ Fits(c) /\ Admitted(c, next[3])
    /\ ledger' = IF Commits(c) THEN [ledger EXCEPT ![cells[c].route.kind].own = @ + Maximum(cells[c].route)] ELSE ledger
    /\ Write(<<"events", c, next[3]>>) /\ Go("answer", c, next[3])
    /\ UNCHANGED <<answers, faults>>

\* SpendingCapExceeded: of the cap before the probe, of the credit after it.
\* budget-stop.json names the segment; one that names another is an error.
OverBudget(c, s) ==
    Sequential(experiment) /\ ~Fits(c) /\ (cells[c].route.kind = "existing_credit" => Admitted(c, s))

StopForBudget ==
    LET this == <<"budget-stop", next[2], next[3]>> IN
    /\ next[1] = "reserve" /\ OverBudget(next[2], next[3])
    /\ IF BudgetStops \subseteq {this}
       THEN root' = [root EXCEPT ![this] = 1] /\ Go("stop", next[2], next[3])
       ELSE UNCHANGED root /\ Go("raised", next[2], next[3])
    /\ UNCHANGED <<ledger, answers, faults>>

\* What the probe or for_attempt refuses otherwise stops the experiment too.
StopForAdmission ==
    /\ next[1] = "reserve" /\ ~OverBudget(next[2], next[3])
    /\ ~Admitted(next[2], next[3]) \/ ~Fits(next[2])
    /\ Go("stop", next[2], next[3])
    /\ UNCHANGED <<root, ledger, answers, faults>>

WriteStop ==
    /\ next[1] = "stop"
    /\ Write(StopFile) /\ Go("stopped", 0, 0)
    /\ UNCHANGED <<ledger, answers, faults>>

\* An invocation that raised, or died before stop.json, is resumed: it comes to
\* the same segment again, and finds in order what it finds on the way.
Resume ==
    /\ next[1] \in {"stop", "raised"}
    /\ Go("reserve", next[2], next[3])
    /\ UNCHANGED <<root, ledger, answers, faults>>

\* What the candidate says to the items it is shown.
Says(c, packet) == [k \in DOMAIN packet |-> experiment.says[cells[c].condition][packet[k].text]]

\* The segment's receipt, with those of its probe and of its budget.
BudgetStatus(c, status) ==
    IF ~cells[c].route.mechanism THEN None ELSE IF status = "ok" THEN "completed" ELSE "failed"
Record(c, s, status, responses) ==
    [segment |-> s, status |-> status, packet |-> Plan(c).segments[s].packet, responses |-> responses,
     admission |-> Receipt(SegmentClaims(c, s), SegmentRequest(c, s), <<c, s>>),
     budget |-> BudgetStatus(c, status)]

\* The answers, a failed trial, or answers for one item too few.
Answer ==
    /\ next[1] = "answer"
    /\ LET c == next[2]
           s == next[3]
           packet == Plan(c).segments[s].packet
       IN \/ /\ answers' = [answers EXCEPT ![c] = Append(@, Record(c, s, "ok", Says(c, packet)))]
             /\ UNCHANGED faults
          \/ /\ faults < experiment.faults /\ faults' = faults + 1
             /\ \E r \in {Record(c, s, "failed", <<>>), Record(c, s, "ok", Tail(Says(c, packet)))} :
                   answers' = [answers EXCEPT ![c] = Append(@, r)]
    /\ Write(<<"events", next[2], next[3]>>) /\ Go("temp", next[2], next[3])
    /\ UNCHANGED ledger

Stage ==
    /\ next[1] = "temp"
    /\ Write(<<"temp", next[2], next[3]>>) /\ Go("publish", next[2], next[3])
    /\ UNCHANGED <<ledger, answers, faults>>

Usable(c, record) ==
    /\ record.status = "ok" /\ Extractable(record.packet, record.responses)
    /\ Complete(Plan(c), record.responses)

PublishPast == \* mutant: a sentence without an answer does not end the cell
    /\ next[1] = "publish"
    /\ root' = [root EXCEPT ![<<"temp", next[2], next[3]>>] = 0, ![<<"final", next[2], next[3]>>] = 1]
    /\ LET record == Last(answers[next[2]]) IN
       IF record.status = "ok" /\ Extractable(record.packet, record.responses) /\ next[3] < cells[next[2]].segments
       THEN Go("reserve", next[2], next[3] + 1) ELSE Go("seal", next[2], 0)
    /\ UNCHANGED <<ledger, answers, faults>>
\* link and unlink of the final record; the next segment, or the end of the cell.
Publish ==
    /\ next[1] = "publish"
    /\ root' = [root EXCEPT ![<<"temp", next[2], next[3]>>] = 0, ![<<"final", next[2], next[3]>>] = 1]
    /\ IF Usable(next[2], Last(answers[next[2]])) /\ next[3] < cells[next[2]].segments
       THEN Go("reserve", next[2], next[3] + 1) ELSE Go("seal", next[2], 0)
    /\ UNCHANGED <<ledger, answers, faults>>

\* The cell: its status, and the responses if every segment was usable.
CellOk(c) == \A k \in DOMAIN answers[c] : Usable(c, answers[c][k])

Seal ==
    /\ next[1] = "seal"
    /\ Write(<<"cell", next[2], 0>>)
    /\ IF next[2] < Len(cells) THEN Go("reserve", next[2] + 1, 1) ELSE Go("manifest", 0, 0)
    /\ UNCHANGED <<ledger, answers, faults>>

Manifest ==
    /\ next[1] = "manifest"
    /\ Write(Result) /\ Go("done", 0, 0)
    /\ UNCHANGED <<ledger, answers, faults>>

\* Other executions under the same cap, and with the same account.
Others(kind) ==
    /\ experiment.observed /\ Sequential(experiment)
    /\ \/ /\ ledger[kind].taken < MaxRows /\ Foreign <= Left(ledger, kind)
          /\ ledger' = [ledger EXCEPT ![kind].taken = @ + 1]
       \/ /\ ledger[kind].settled < ledger[kind].taken
          /\ ledger' = [ledger EXCEPT ![kind].settled = @ + 1]
    /\ UNCHANGED <<root, next, answers, faults>>

Execute ==
    /\ \/ Begin \/ StartSegment \/ StopForBudget \/ StopForAdmission \/ WriteStop \/ Resume
       \/ Answer \/ Stage \/ Publish \/ Seal \/ Manifest
       \/ \E r \in DOMAIN experiment.routes : experiment.routes[r].kind \in Funding /\ Others(experiment.routes[r].kind)
    /\ UNCHANGED <<experiment, cells, readiness, scoring>>

-----------------------------------------------------------------------------
(* The readiness check (check_research). *)

\* A retained stop.json is an error, of the second snapshot as well.
Check ==
    /\ phase = "idle" /\ experiment.observed
    /\ phase' = IF Ready /\ root[StopFile] = 0 THEN "list" ELSE "raised"
    /\ UNCHANGED <<left, seen, before, budget, cell, lies, failures, steady>>

CheckAgain ==
    /\ phase = "probe" /\ cell = Len(cells) + 1
    /\ IF root[StopFile] = 0 THEN phase' = "relist" /\ UNCHANGED failures
       ELSE phase' = "done" /\ failures' = failures + 1
    /\ UNCHANGED <<left, seen, before, budget, cell, lies, steady>>

\* sorted(root.rglob("*")) is complete before the first file is read.
List(from, to) ==
    /\ phase = from /\ phase' = to
    /\ left' = Present /\ seen' = {}
    /\ UNCHANGED <<before, budget, cell, lies, failures, steady>>

\* A name that is gone when its turn comes is neither file nor directory.
Read(at, gone) ==
    /\ phase = at
    /\ \E n \in left :
          /\ \A m \in left \ {n} : Precedes(n, m)
          /\ IF root[n] = 0
             THEN gone /\ UNCHANGED <<left, seen>>
             ELSE /\ seen' = seen \cup {<<n, root[n]>>} /\ left' = left \ {n}
                  /\ UNCHANGED <<phase, failures>>
    /\ UNCHANGED <<before, budget, cell, lies, steady>>

Raise == phase' = "raised" /\ UNCHANGED failures
Changed == phase' = "done" /\ failures' = failures + 1

\* inspect_readiness: the rows, or nothing if there are no budgets yet.
Inspectable == experiment.controller /\ ~Sequential(experiment) => root[Frozen] = 0
Budget == IF Sequential(experiment) THEN ledger ELSE None

ReadBudget ==
    /\ phase = "before" /\ left = {}
    /\ IF Inspectable THEN phase' = "probe" /\ budget' = Budget /\ before' = seen
       ELSE phase' = "raised" /\ UNCHANGED <<budget, before>>
    /\ UNCHANGED <<left, seen, cell, lies, failures, steady>>

\* The largest segment of a cell stands for it.
Largest(c) ==
    CHOOSE n \in {Len(Plan(c).segments[s].packet) : s \in 1..cells[c].segments} :
       \A s \in 1..cells[c].segments : n >= Len(Plan(c).segments[s].packet)

\* check_readiness_capacity, against the commitments that were read.
Committed == IF Sequential(experiment) THEN Retained(budget, "existing_credit") ELSE 0
FitsBudget(route, claims) ==
    CASE route.kind = "existing_credit" -> claims.credit # Never /\ Maximum(route) <= claims.credit - Committed
      [] route.kind = "metered" -> Sequential(experiment) => Maximum(route) <= Left(budget, "metered")
      [] OTHER -> TRUE

Approved(c, claims, request) ==
    /\ ValidClaims(claims, request, cells[c].route, 0, 1, cells[c].reserved, Available(c, budget), Auth(c))
    /\ experiment.controller => FitsBudget(cells[c].route, claims)

ProbeOf(c) == Request(cells[c].route, Suite(c).limits, cells[c].condition, Largest(c), "this", 0)
Tree == {<<n, root[n]>> : n \in Present}

Probe ==
    /\ phase = "probe" /\ cell <= Len(cells)
    /\ LET request == ProbeOf(cell)
           truth == Truthful(cells[cell].route, request, experiment.credit, 0)
       IN \/ /\ failures' = failures + (IF Approved(cell, truth, request) THEN 0 ELSE 1)
             /\ UNCHANGED lies
          \/ /\ lies < MaxLies /\ lies' = lies + 1
             /\ failures' = failures + (IF Approved(cell, [truth EXCEPT !.healthy = FALSE], request) THEN 0 ELSE 1)
    /\ steady' = (steady /\ Tree = before /\ Budget = budget)
    /\ cell' = cell + 1
    /\ UNCHANGED <<phase, left, seen, before, budget>>

SameNames(a, b) == {n[1] : n \in a} = {n[1] : n \in b} \* mutant: names are compared, not contents
Same(a, b) == a = b

\* Both comparisons end in one failed check, at most.
Compare ==
    /\ phase = "again" /\ left = {}
    /\ phase' = "done"
    /\ failures' = failures + (IF Same(seen, before) /\ Inspectable /\ Budget = budget THEN 0 ELSE 1)
    /\ UNCHANGED <<left, seen, before, budget, cell, lies, steady>>

Observe ==
    /\ \/ Check
       \/ List("list", "before")
       \/ Read("before", Raise)
       \/ ReadBudget
       \/ Probe
       \/ CheckAgain
       \/ List("relist", "again")
       \/ Read("again", Changed)
       \/ Compare
    /\ UNCHANGED <<experiment, cells, execution, scoring>>

-----------------------------------------------------------------------------
(* Scoring (score_sealed_experiment), of what the execution has sealed. *)

Fails(c, k) == ~Usable(c, answers[c][k])
Terminal(c) == \E k \in DOMAIN answers[c] : Fails(c, k)

\* verify_admission_evidence and verify_request_budget_evidence; what the latter
\* asks of its totals is in RequestBudget.
Backed(c, record) ==
    /\ VerifiedReceipt(record.admission, <<c, record.segment>>, cells[c].route, cells[c].reserved)
    /\ record.budget = BudgetStatus(c, record.status)

\* Receipts end at the first failure, and only there; the artifact agrees.
CellVerified(c) ==
    /\ \A k \in DOMAIN answers[c] : Backed(c, answers[c][k])
    /\ \A k \in DOMAIN answers[c] : Fails(c, k) => k = Len(answers[c])
    /\ ~Terminal(c) => Len(answers[c]) = cells[c].segments
    /\ CellOk(c) <=> ~Terminal(c)
    /\ ~Terminal(c) => CanReassemble(Plan(c), answers[c])

Verified ==
    /\ root[Result] > 0
    /\ \A c \in DOMAIN cells : root[<<"cell", c, 0>>] > 0 /\ CellVerified(c)

RunOf(c) ==
    [packet |-> SuitePacket(Suite(c)), condition |-> cells[c].condition, status |-> "ok",
     comparison |-> <<>>, responses |-> Reassemble(Plan(c), answers[c])]

\* No score of a failed cell, nor of one the container could not score.
CellScore(c, works) ==
    LET packet == SuitePacket(Suite(c))
        key == SuiteKey(Suite(c))
    IN IF Terminal(c) THEN None
       ELSE IF Suite(c).kind = "gec" THEN ScoreGec(packet, key, RunOf(c), works)
       ELSE ScoreRun(packet, key, RunOf(c)).points

OfSeries(c, suite, route, condition) ==
    cells[c].suite = suite /\ cells[c].route = route /\ cells[c].condition = condition

\* Values by repeat, of the cells that have a score.
Series(scores, suite, route, condition) ==
    LET own == {c \in DOMAIN cells : OfSeries(c, suite, route, condition) /\ scores[c] # None} IN
    [p \in {cells[c].repeat : c \in own} |->
        scores[CHOOSE c \in own : cells[c].repeat = p]]

Whole(series) == DOMAIN series = 1..Primary

\* The report: a mean is represented by its sum, a paired delta by its values.
Summaries(scores) ==
    LET of(s, r, condition) == Series(scores, experiment.suites[s], experiment.routes[r], condition)
        pairs == (DOMAIN experiment.suites) \X (DOMAIN experiment.routes)
        series == pairs \X {"closed-book", "sources"}
        Of(y) == of(y[1][1], y[1][2], y[2])
    IN [scores |-> scores,
        means |-> {<<y, Sum(Of(y))>> : y \in {y \in series : Whole(Of(y))}},
        deltas |-> {<<x, [p \in 1..Primary |-> Of(<<x, "sources">>)[p] - Of(<<x, "closed-book">>)[p]]>> :
                       x \in {x \in pairs : Whole(Of(<<x, "sources">>)) /\ Whole(Of(<<x, "closed-book">>))}}]

HasGec == \E s \in DOMAIN experiment.suites : experiment.suites[s].kind = "gec"

Refused == [scores |-> None]

\* Refused before anything is read: too few repeats, or a stop of either kind.
Barred == experiment.repeats # Primary \/ root[StopFile] > 0 \/ BudgetStops # {}

RefuseToScore ==
    /\ next[1] \in {"done", "stopped"} /\ report = None
    /\ Barred /\ report' = Refused
    /\ UNCHANGED <<experiment, cells, execution, readiness, aggregated>>

\* Derived aggregates are made once; a scoring that dies after the first one
\* leaves it behind.
Score ==
    /\ next[1] = "done" /\ report = None /\ ~Barred
    /\ aggregated' = (aggregated \/ HasGec)
    /\ \/ UNCHANGED report /\ HasGec
       \/ \E works \in IF HasGec THEN BOOLEAN ELSE {TRUE} :
             report' = IF Verified /\ ~aggregated
                       THEN LET scores == [c \in DOMAIN cells |-> CellScore(c, works)]
                            IN Summaries(scores)
                       ELSE Refused
    /\ UNCHANGED <<experiment, cells, execution, readiness>>

SealedNext == cells # None /\ (Execute \/ Observe \/ RefuseToScore \/ Score)

SealedSpec == SealedInit /\ [][SealedNext]_sealedVars

-----------------------------------------------------------------------------
\* What a cell's next segment may cost is there, of the cap and of the credit.
Covered(c) ==
    /\ cells[c].reserved <= Available(c, budget)
    /\ cells[c].route.kind = "existing_credit" => Maximum(cells[c].route) <= experiment.credit - Committed

\* A check without a failure speaks of one state of the execution directory
\* and of the ledger: every probe was made in the state that was hashed first,
\* torn as the two readings may be, and the next segment of every cell fits
\* what was left of the cap and what was not yet committed of the credit.
ReadinessIsTruthful ==
    phase = "done" /\ failures = 0 => steady /\ lies = 0 /\ \A c \in DOMAIN cells : Covered(c)

\* An experiment that could be frozen, whose routes say what is true of them
\* and have what they need, passes if nobody disturbs the check: the limits of
\* the manifest never demand more than its own rates and bounds let a probe promise.
HonestProbesPass ==
    /\ phase = "done" /\ lies = 0
    /\ root[StopFile] = 0
    /\ left = {} /\ seen = before /\ Budget = budget /\ Inspectable
    /\ \A c \in DOMAIN cells : Covered(c)
    => failures = 0

\* What a scored cell is worth, from the source alone: the answers that the
\* candidate gives to each question, or the sentences it corrects.
Deserved(item, answer) ==
    IF item.kind = "single" THEN {x \in {item.correct} : answer = Text(x)}
    ELSE {r \in item.rows : answer # Null /\ answer.value[r] = item.correct[r]}
Worth(suite, condition) ==
    LET says == experiment.says[condition]
        items == suite.exam.items
    IN IF suite.kind = "gec"
       THEN Cardinality({b \in DOMAIN suite.blocks :
               ~suite.blocks[b].heading /\ says[suite.blocks[b].text] = Text(suite.blocks[b].reference)})
       ELSE Sum([i \in DOMAIN items |-> Cardinality(Deserved(items[i], says[items[i].text]))])

\* The same answers, as one run of the whole packet.
Unsegmented(suite, condition) ==
    LET packet == SuitePacket(suite) IN
    [packet |-> packet, condition |-> condition, status |-> "ok", comparison |-> <<>>,
     responses |-> [i \in DOMAIN packet |-> experiment.says[condition][packet[i].text]]]

Scores == report # None /\ report.scores # None

\* Preparation, segmentation, reassembly and scoring together change nothing:
\* a cell of an exam scores what its candidate's answers are worth, any cell
\* with a fault scores nothing, and a delta is the one of the unsegmented pair.
ExamsAreEarned ==
    Scores =>
        /\ \A c \in DOMAIN cells :
              /\ \A k \in DOMAIN answers[c] : answers[c][k].responses = <<>> => report.scores[c] = None
              /\ Suite(c).kind # "gec" =>
                    report.scores[c] = IF Terminal(c) THEN None ELSE Worth(Suite(c), cells[c].condition)
        /\ \A d \in report.deltas :
              LET suite == experiment.suites[d[1][1]]
                  packet == SuitePacket(suite)
                  control == Unsegmented(suite, "closed-book")
                  treatment == Unsegmented(suite, "sources")
              IN suite.kind # "gec" =>
                    /\ ValidKey(packet, SuiteKey(suite)) /\ Comparable(packet, control, treatment)
                    /\ \A p \in 1..Primary :
                          d[2][p] = CompareRuns(packet, SuiteKey(suite), control, treatment).delta

\* The same of documents, whose segments follow the headings, and of the means:
\* a mean is of all repeats or is not given.
DocumentsAreEarned ==
    Scores =>
        /\ \A c \in DOMAIN cells : Suite(c).kind = "gec" =>
              /\ report.scores[c] \in {None, Worth(Suite(c), cells[c].condition)}
              /\ \A s \in 1..cells[c].segments :
                    \E d \in DOMAIN Documents(Suite(c).blocks) :
                       [k \in DOMAIN Documents(Suite(c).blocks)[d] |-> Documents(Suite(c).blocks)[d][k].text]
                          = [k \in DOMAIN Plan(c).segments[s].packet |-> Plan(c).segments[s].packet[k].text]
        /\ \A m \in report.means : m[2] = Primary * Worth(experiment.suites[m[1][1][1]], m[1][2])

\* A published score is earned.
ScoresAreEarned == ExamsAreEarned /\ DocumentsAreEarned

\* Scoring accepts what an execution has published, unless an earlier scoring
\* died and left its aggregates in the same place, or an invocation died between
\* budget-stop.json and stop.json and the segment fitted when it was resumed:
\* the result stands beside that file, and is not scored.
SealedIsScored ==
    [][(report' # report /\ report' = Refused) =>
          aggregated \/ experiment.repeats # Primary \/ root[StopFile] > 0 \/ BudgetStops # {}]_sealedVars
=============================================================================
