--------------------------- MODULE ResearchSchedule ---------------------------
(***************************************************************************)
(* One frozen experiment (scheduling.run_research) under the sequential    *)
(* shared cap: the invocation that holds the schedule lock, and everything *)
(* that survives its death - the evidence of candidates, admissions and    *)
(* request budgets, the shared ledger's row for each segment, and the      *)
(* artifacts of the execution root.  An invocation may die between any two *)
(* steps, also while it writes an artifact, and the operator resumes.      *)
(* Executions of other roots take and free the same cap meanwhile.         *)
(*                                                                         *)
(* The stores appear by their promises: EvidenceStore, SpendingLedger and  *)
(* RequestBudget have modules of their own.                                *)
(***************************************************************************)
EXTENDS UnitSums, Sequences, Functions

CONSTANTS
    Cells,       \* the plan: a sequence of cells, each a sequence of segments
    Budgeted,    \* segments whose route has a request budget
    Cost,        \* reserved_micro_usd of every segment
    Cap,         \* authorized_cap_micro_usd of the ledger
    OtherHolds,  \* bound: what other executions may hold of it
    Sessions,    \* session identities an adapter may report
    MaxCrashes,  \* bound: deaths of an invocation
    MaxProbes,   \* bound: admission probes of a segment
    None, Partial

CellIds == DOMAIN Cells
Segments == UNION {{Cells[c][i] : i \in DOMAIN Cells[c]} : c \in CellIds}

ASSUME PlanAssumption ==
    /\ Cells \in Seq(Seq(Segments)) /\ Cells # <<>>
    /\ \A c \in CellIds : Cells[c] # <<>>
    /\ \A c, d \in CellIds : \A i \in DOMAIN Cells[c], j \in DOMAIN Cells[d] :
          Cells[c][i] = Cells[d][j] => c = d /\ i = j
    /\ Budgeted \subseteq Segments
    /\ Cost \in [Segments -> Nat]
    /\ \A s \in Segments \ Budgeted : Cost[s] = 0
    /\ Cap \in Nat /\ OtherHolds \subseteq Nat /\ 0 \in OtherHolds
    /\ MaxCrashes \in Nat /\ MaxProbes \in Nat

VARIABLES
    frozen,     \* experiment.json and execution-plan.json
    stop,       \* stop.json
    budgetStop, \* budget-stop.json: the segment that did not fit
    cell,       \* <cell>.json of each cell
    manifest,   \* result-manifest.json
    probes,     \* admission evidence of each segment, in order
    row,        \* the segment's row in the shared ledger
    others,     \* what other executions hold of the cap
    budgetEv,   \* request-budget evidence of each segment
    attempt,    \* candidate evidence of each segment
    calls,      \* history: executions of each segment
    cut,        \* the evidence stores that hold an attempt cut short
    pc, at, existing, seen, failure, outcome, \* the invocation's own state
    why,        \* reason it stops or raises
    orphans,    \* history: segments committed, and not started, when it began
    crashes     \* deaths so far

artifacts == <<frozen, stop, budgetStop, cell, manifest>>
stores == <<probes, row, budgetEv, attempt, calls>>
run == <<pc, at, existing, seen, failure, outcome, why>>
vars == <<artifacts, stores, run, others, orphans, cut, crashes>>

EvidenceStores == {"candidate", "admission", "budget"}
NoRow == [state |-> "none", amount |-> 0]
NoAttempt == [state |-> "none", kind |-> None, session |-> None]
Complete(o) == [state |-> "complete", kind |-> o.kind, session |-> o.session]

Segment == Cells[at.cell][at.index]
Retained == Total([s \in Segments |-> row[s].amount])

\* remaining_ceiling_micro_usd
Available == Cap - Retained - others

Resting ==
    /\ at' = [cell |-> 1, index |-> 1]
    /\ existing' = {} /\ seen' = {} /\ failure' = None /\ outcome' = None

Init ==
    /\ frozen = None /\ stop = None /\ budgetStop = None /\ manifest = None
    /\ cell = [c \in CellIds |-> None]
    /\ probes = [s \in Segments |-> <<>>]
    /\ row = [s \in Segments |-> NoRow]
    /\ others = 0
    /\ budgetEv = [s \in Segments |-> "none"]
    /\ attempt = [s \in Segments |-> NoAttempt]
    /\ calls = [s \in Segments |-> 0]
    /\ pc = "idle" /\ at = [cell |-> 1, index |-> 1]
    /\ existing = {} /\ seen = {} /\ failure = None /\ outcome = None /\ why = None
    /\ orphans = {} /\ cut = {} /\ crashes = 0

\* The invocation ends, in an exception or after it has reported.
EndWith(reason) == pc' = "idle" /\ why' = reason /\ Resting
Raise(reason) == EndWith(reason) /\ UNCHANGED <<artifacts, stores, others, cut, crashes, orphans>>

Goto(step) == pc' = step /\ UNCHANGED <<at, existing, seen, failure, outcome, why>>
StopFor(reason) ==
    /\ pc' = "write_stop" /\ why' = reason
    /\ UNCHANGED <<at, existing, seen, failure, outcome>>

-----------------------------------------------------------------------------
\* The lock is taken; a first invocation freezes the plan, and a resumed one
\* looks for stop.json and verifies the candidate evidence.
Resumable == stop = None /\ frozen # Partial

Begin ==
    /\ pc = "idle"
    /\ Resumable /\ "candidate" \notin cut
    /\ frozen' = "frozen"
    /\ existing' = {s \in Segments : attempt[s].state # "none"}
    /\ orphans' = {s \in Segments : attempt[s].state = "none" /\ (row[s] # NoRow \/ budgetEv[s] # "none")}
    /\ pc' = "bind" /\ why' = None
    /\ UNCHANGED <<stop, budgetStop, cell, manifest, stores, at, seen, failure, outcome, others, cut, crashes>>

BudgetsClosed == \A s \in Segments : budgetEv[s] # "open"

\* verify_all raises on an attempt that was cut short: of the candidates before
\* bind, of the budgets in bind, of the admissions after it.
Unreadable ==
    /\ \/ pc = "idle" /\ Resumable /\ "candidate" \in cut
       \/ pc = "bind" /\ "budget" \in cut
       \/ pc = "bind" /\ "admission" \in cut /\ BudgetsClosed
    /\ Raise("unreadable_evidence")

\* RequestBudgetController.bind: abandoned budgets are interrupted.
InterruptBudget(s) ==
    /\ pc = "bind" /\ "budget" \notin cut
    /\ budgetEv[s] = "open"
    /\ budgetEv' = [budgetEv EXCEPT ![s] = "interrupted"]
    /\ UNCHANGED <<artifacts, probes, row, attempt, calls, run, others, cut, crashes, orphans>>

\* Abandoned admission probes are interrupted.
InterruptProbe(s) ==
    /\ pc = "bind" /\ cut = {}
    /\ BudgetsClosed
    /\ \E i \in DOMAIN probes[s] :
          /\ probes[s][i] = "open"
          /\ probes' = [probes EXCEPT ![s][i] = "interrupted"]
    /\ UNCHANGED <<artifacts, row, budgetEv, attempt, calls, run, others, cut, crashes, orphans>>

Bound ==
    /\ pc = "bind" /\ cut = {}
    /\ BudgetsClosed
    /\ \A s \in Segments : \A i \in DOMAIN probes[s] : probes[s][i] # "open"
    /\ Goto("segment")
    /\ UNCHANGED <<artifacts, stores, others, cut, crashes, orphans>>

-----------------------------------------------------------------------------
\* A segment that an earlier invocation started is never started again.
ReuseAsFailed == \* mutant: whatever did not finish has failed
    /\ pc = "segment" /\ Segment \in existing
    /\ attempt' = [attempt EXCEPT ![Segment] =
                      IF @.state = "open" THEN Complete([kind |-> "failed", session |-> None])
                                          ELSE @]
    /\ Goto("receipt")
    /\ UNCHANGED <<artifacts, probes, row, budgetEv, calls, others, cut, crashes, orphans>>

Reuse ==
    /\ pc = "segment" /\ Segment \in existing
    /\ attempt' = [attempt EXCEPT ![Segment] =
                      IF @.state = "open" THEN Complete([kind |-> "interrupted", session |-> None])
                                          ELSE @]
    /\ Goto("receipt")
    /\ UNCHANGED <<artifacts, probes, row, budgetEv, calls, others, cut, crashes, orphans>>

\* The ceiling is read before admission.
ReadCeilingAlways == \* mutant: also for a segment that was started
    /\ pc = "segment"
    /\ Goto(IF Cost[Segment] > Available THEN "write_budget_stop" ELSE "probe")
    /\ UNCHANGED <<artifacts, stores, others, cut, crashes, orphans>>

ReadCeiling ==
    /\ pc = "segment" /\ Segment \notin existing
    /\ Goto(IF Cost[Segment] > Available THEN "write_budget_stop" ELSE "probe")
    /\ UNCHANGED <<artifacts, stores, others, cut, crashes, orphans>>

\* Endpoint drift, or a probe that cannot be started
AdmissionRaises ==
    /\ pc = "segment" /\ Segment \notin existing
    /\ StopFor("admission_failed")
    /\ UNCHANGED <<artifacts, stores, others, cut, crashes, orphans>>

StartProbe ==
    /\ pc = "probe"
    /\ Len(probes[Segment]) < MaxProbes
    /\ probes' = [probes EXCEPT ![Segment] = Append(@, "open")]
    /\ Goto("probing")
    /\ UNCHANGED <<artifacts, row, budgetEv, attempt, calls, others, cut, crashes, orphans>>

EndProbe(verdict) ==
    /\ pc = "probing"
    /\ probes' = [probes EXCEPT ![Segment][Len(probes[Segment])] = verdict]
    /\ IF verdict = "passed" THEN Goto(IF Segment \in Budgeted THEN "reserve" ELSE "start")
                             ELSE StopFor("admission_failed")
    /\ UNCHANGED <<artifacts, row, budgetEv, attempt, calls, others, cut, crashes, orphans>>

\* for_attempt, up to the ledger's transaction
FreshBudget(s) == budgetEv[s] = "none" \* mutant: a replayed reservation will do
Fresh(s) == budgetEv[s] = "none" /\ row[s] = NoRow

Grantable(s) == Fresh(s) \* mutant: the ceiling read before admission will do
MayReserve(s) == Fresh(s) /\ Cost[s] <= Available

Reserve ==
    /\ pc = "reserve"
    /\ MayReserve(Segment)
    /\ row' = [row EXCEPT ![Segment] = [state |-> "unresolved", amount |-> Cost[Segment]]]
    /\ Goto("open_budget")
    /\ UNCHANGED <<artifacts, probes, budgetEv, attempt, calls, others, cut, crashes, orphans>>

\* An existing commitment, or a reservation that only replays, is an error.
RefuseBudgetReplay == \* mutant: only an existing budget is refused
    /\ pc = "reserve"
    /\ budgetEv[Segment] # "none"
    /\ StopFor("admission_failed")
    /\ UNCHANGED <<artifacts, stores, others, cut, crashes, orphans>>

RefuseReplay ==
    /\ pc = "reserve"
    /\ ~Fresh(Segment)
    /\ StopFor("admission_failed")
    /\ UNCHANGED <<artifacts, stores, others, cut, crashes, orphans>>

RefuseOverCap ==
    /\ pc = "reserve"
    /\ Fresh(Segment)
    /\ Cost[Segment] > Available
    /\ Goto("write_budget_stop")
    /\ UNCHANGED <<artifacts, stores, others, cut, crashes, orphans>>

OpenBudget ==
    /\ pc = "open_budget"
    /\ budgetEv' = [budgetEv EXCEPT ![Segment] = "open"]
    /\ Goto("start")
    /\ UNCHANGED <<artifacts, probes, row, attempt, calls, others, cut, crashes, orphans>>

-----------------------------------------------------------------------------
\* execute_attempt: evidence, run_exam (whose last act is the budget's
\* settlement and receipt), evidence.
StartAttempt ==
    /\ pc = "start"
    /\ attempt' = [attempt EXCEPT ![Segment].state = "open"]
    /\ Goto("execute")
    /\ UNCHANGED <<artifacts, probes, row, budgetEv, calls, others, cut, crashes, orphans>>

\* How a trial can end: "invalid" is an ok result whose responses do not
\* normalize, "overrun" a request_budget_error, "drift" an ok result the stop
\* rule rejects (model, effort, tokens, tool calls, cost), "failed" the rest.
Kinds == {"ok", "invalid", "candidate_failed", "failed", "overrun", "drift"}
Reporting == {"ok", "invalid", "candidate_failed", "drift"}

Execute(kind, session) ==
    /\ pc = "execute"
    /\ kind \notin Reporting => session = None
    /\ calls' = [calls EXCEPT ![Segment] = @ + 1]
    /\ outcome' = [kind |-> kind, session |-> session]
    /\ pc' = IF Segment \in Budgeted THEN "settle" ELSE "finish"
    /\ UNCHANGED <<artifacts, probes, row, budgetEv, attempt, at, existing, seen, failure, why, others, cut, crashes, orphans>>

\* The charge is known, or the worst case stays reserved.
Settle(known, charge) ==
    /\ pc = "settle"
    /\ charge <= Cost[Segment]
    /\ row' = IF known THEN [row EXCEPT ![Segment] = [state |-> "settled", amount |-> charge]] ELSE row
    /\ Goto("close_budget")
    /\ UNCHANGED <<artifacts, probes, budgetEv, attempt, calls, others, cut, crashes, orphans>>

CloseBudget ==
    /\ pc = "close_budget"
    /\ budgetEv' = [budgetEv EXCEPT ![Segment] =
                       IF outcome.kind \in {"ok", "invalid", "drift"} THEN "completed" ELSE "failed"]
    /\ Goto("finish")
    /\ UNCHANGED <<artifacts, probes, row, attempt, calls, others, cut, crashes, orphans>>

Finish ==
    /\ pc = "finish"
    /\ attempt' = [attempt EXCEPT ![Segment] = Complete(outcome)]
    /\ pc' = "receipt" /\ outcome' = None
    /\ UNCHANGED <<artifacts, probes, row, budgetEv, calls, at, existing, seen, failure, why, others, cut, crashes, orphans>>

-----------------------------------------------------------------------------
\* verify_request_budget_evidence
BudgetMatches(s) ==
    budgetEv[s] = CASE attempt[s].kind = "interrupted" -> "interrupted"
                    [] attempt[s].kind \in {"ok", "invalid", "drift"} -> "completed"
                    [] OTHER -> "failed"

BudgetMismatch ==
    /\ pc = "receipt"
    /\ Segment \in Budgeted /\ ~BudgetMatches(Segment)
    /\ Raise("budget_mismatch")

\* What the receipt means for the experiment, in the order of the checks:
\* stop everything, stop the cell, or go on.
RepeatsSession(o) == o.session # None /\ o.session \in seen \* mutant: may be missing
Reused(o) == o.session = None \/ o.session \in seen

Answered(o) == o.kind \in {"ok", "candidate_failed"} \* mutant: it has responses
Succeeded(o) == o.kind = "ok"

Advance ==
    /\ IF at.index < Len(Cells[at.cell])
       THEN pc' = "segment" /\ at' = [at EXCEPT !.index = @ + 1]
       ELSE pc' = "cell_end" /\ UNCHANGED at
    /\ UNCHANGED failure

Judge ==
    LET o == attempt[Segment]
    IN /\ pc = "receipt"
       /\ Segment \in Budgeted => BudgetMatches(Segment)
       /\ \/ /\ o.kind \in {"overrun", "drift"}
             /\ StopFor(o.kind)
          \/ /\ o.kind \in {"failed", "interrupted"}
             /\ failure' = o.kind /\ pc' = "cell_end"
             /\ UNCHANGED <<at, existing, seen, outcome, why>>
          \/ /\ o.kind \in {"ok", "invalid", "candidate_failed"} /\ Reused(o)
             /\ StopFor("missing_or_reused_session")
          \/ /\ o.kind \in {"ok", "invalid", "candidate_failed"} /\ ~Reused(o)
             /\ seen' = seen \cup {o.session}
             /\ IF Succeeded(o) THEN Advance
                ELSE failure' = o.kind /\ pc' = "cell_end" /\ UNCHANGED at
             /\ UNCHANGED <<existing, outcome, why>>
       /\ UNCHANGED <<artifacts, stores, others, cut, crashes, orphans>>

-----------------------------------------------------------------------------
\* _immutable_json: written once, compared ever after.
Publishes(old, new) == old = None \/ old = new

NewCellResult == \* mutant: counts what this invocation ran
    [status |-> IF failure = None THEN "ok" ELSE "failed", failure |-> failure,
     receipts |-> Cardinality({i \in 1..at.index : Cells[at.cell][i] \notin existing})]

CellResult == [status |-> IF failure = None THEN "ok" ELSE "failed", failure |-> failure,
               receipts |-> at.index]
Later == {Cells[at.cell][i] : i \in at.index + 1..Len(Cells[at.cell])}

WriteCell ==
    /\ pc = "cell_end"
    /\ Later \cap existing = {}
    /\ Publishes(cell[at.cell], CellResult)
    /\ cell' = [cell EXCEPT ![at.cell] = CellResult]
    /\ failure' = None
    /\ IF at.cell < Len(Cells)
       THEN pc' = "segment" /\ at' = [cell |-> at.cell + 1, index |-> 1]
       ELSE pc' = "manifest" /\ UNCHANGED at
    /\ UNCHANGED <<frozen, stop, budgetStop, manifest, stores, existing, seen, outcome, why, others, cut, crashes, orphans>>

CellDiffers ==
    /\ pc = "cell_end"
    /\ Later \cap existing # {} \/ ~Publishes(cell[at.cell], CellResult)
    /\ Raise("cell_differs")

\* The manifest binds the cells and the three sets of receipts.
Manifest == [cells |-> cell, attempts |-> attempt, probes |-> probes, budgets |-> budgetEv]

WriteManifest ==
    /\ pc = "manifest"
    /\ Publishes(manifest, Manifest)
    /\ manifest' = Manifest
    /\ EndWith(None)
    /\ UNCHANGED <<frozen, stop, budgetStop, cell, stores, others, cut, crashes, orphans>>

ManifestDiffers ==
    /\ pc = "manifest"
    /\ ~Publishes(manifest, Manifest)
    /\ Raise("manifest_differs")

\* budget-stop.json first, stop.json second.
WriteBudgetStop ==
    /\ pc = "write_budget_stop"
    /\ Publishes(budgetStop, Segment)
    /\ budgetStop' = Segment
    /\ StopFor("budget_exhausted")
    /\ UNCHANGED <<frozen, stop, cell, manifest, stores, others, cut, crashes, orphans>>

BudgetStopDiffers ==
    /\ pc = "write_budget_stop"
    /\ ~Publishes(budgetStop, Segment)
    /\ Raise("budget_stop_differs")

WriteStop ==
    /\ pc = "write_stop"
    /\ stop' = [reason |-> why, segment |-> Segment]
    /\ EndWith(why)
    /\ UNCHANGED <<frozen, budgetStop, cell, manifest, stores, others, cut, crashes, orphans>>

-----------------------------------------------------------------------------
\* The evidence store an invocation may be writing at this step: start, append
\* and finalize are several file-system calls each (EvidenceStore).
Writing(store) ==
    \/ /\ store = "candidate"
       /\ \/ pc \in {"start", "execute", "settle", "close_budget", "finish"}
          \/ pc = "segment" /\ attempt[Segment].state = "open"
    \/ /\ store = "budget"
       /\ \/ pc = "open_budget"
          \/ pc \in {"execute", "settle", "close_budget"} /\ Segment \in Budgeted
          \/ pc = "bind" /\ ~BudgetsClosed
    \/ /\ store = "admission"
       /\ \/ pc \in {"probe", "probing"}
          \/ pc = "bind" /\ BudgetsClosed /\ \E s \in Segments : "open" \in Range(probes[s])

\* Death between two steps, or in the middle of one.  The artifact being
\* written may stay behind, created and incomplete (write_private_json), and so
\* may the directory, the log or the final record of an attempt.
Crash ==
    /\ pc # "idle" \/ frozen = None
    /\ crashes < MaxCrashes
    /\ crashes' = crashes + 1
    /\ pc' = "idle" /\ why' = None /\ Resting
    /\ \/ UNCHANGED <<artifacts, cut>>
       \/ (\E store \in EvidenceStores : Writing(store) /\ cut' = cut \cup {store}) /\ UNCHANGED artifacts
       \/ /\ pc = "idle" /\ frozen' = Partial
          /\ UNCHANGED <<stop, budgetStop, cell, manifest, cut>>
       \/ /\ pc = "write_stop" /\ stop' = Partial
          /\ UNCHANGED <<frozen, budgetStop, cell, manifest, cut>>
       \/ /\ pc = "write_budget_stop" /\ budgetStop = None /\ budgetStop' = Partial
          /\ UNCHANGED <<frozen, stop, cell, manifest, cut>>
       \/ /\ pc = "cell_end" /\ cell[at.cell] = None
          /\ cell' = [cell EXCEPT ![at.cell] = Partial]
          /\ UNCHANGED <<frozen, stop, budgetStop, manifest, cut>>
       \/ /\ pc = "manifest" /\ manifest = None /\ manifest' = Partial
          /\ UNCHANGED <<frozen, stop, budgetStop, cell, cut>>
    /\ UNCHANGED <<stores, others, orphans>>

\* Another execution reserves or settles in the same ledger.
Others ==
    /\ others' \in {h \in OtherHolds : Retained + h <= Cap}
    /\ UNCHANGED <<artifacts, stores, run, cut, crashes, orphans>>

Step ==
    \/ Begin \/ Unreadable
    \/ \E s \in Segments : InterruptBudget(s) \/ InterruptProbe(s)
    \/ Bound \/ Reuse \/ ReadCeiling \/ AdmissionRaises \/ StartProbe
    \/ \E v \in {"passed", "failed"} : EndProbe(v)
    \/ Reserve \/ RefuseReplay \/ RefuseOverCap \/ OpenBudget
    \/ StartAttempt
    \/ \E k \in Kinds, i \in Sessions \cup {None} : Execute(k, i)
    \/ \E known \in BOOLEAN, charge \in 0..Cap : Settle(known, charge)
    \/ CloseBudget \/ Finish
    \/ BudgetMismatch \/ Judge
    \/ WriteCell \/ CellDiffers \/ WriteManifest \/ ManifestDiffers
    \/ WriteBudgetStop \/ BudgetStopDiffers \/ WriteStop

Next == Step \/ Crash \/ Others

Spec == Init /\ [][Next]_vars

\* The invocation is not suspended for ever, and the operator resumes.
FairSpec == Spec /\ WF_vars(Step)

-----------------------------------------------------------------------------
States == {"idle", "bind", "segment", "probe", "probing", "reserve", "open_budget", "start",
           "execute", "settle", "close_budget", "finish", "receipt", "cell_end", "manifest",
           "write_budget_stop", "write_stop"}
Reasons == Kinds \cup {"admission_failed", "missing_or_reused_session", "budget_exhausted",
                       "budget_mismatch", "cell_differs", "manifest_differs",
                       "budget_stop_differs", "unreadable_evidence", None}
CellFile == [status : {"ok", "failed"}, failure : Kinds \cup {"interrupted", None}, receipts : Nat]

Receipts == [kind : Kinds \cup {"interrupted"}, session : Sessions \cup {None}]

\* An absent artifact, one that was cut short and one that is complete differ,
\* and so do a reason, a receipt or its kind and none.
ASSUME MarkAssumption ==
    /\ None # Partial
    /\ None \notin CellFile /\ Partial \notin CellFile
    /\ None \notin Receipts
    /\ None \notin Kinds \cup {"interrupted", "cell_differs", "manifest_differs"}

\* Every variable holds what the code may put there.
TypeOK ==
    /\ frozen \in {None, Partial, "frozen"}
    /\ stop \in {None, Partial} \/ stop \in [reason : Reasons, segment : Segments]
    /\ budgetStop \in {None, Partial} \cup Segments
    /\ \A c \in CellIds : cell[c] \in {None, Partial} \/ cell[c] \in CellFile
    /\ probes \in [Segments -> Seq({"open", "passed", "failed", "interrupted"})]
    /\ row \in [Segments -> [state : {"none", "unresolved", "settled"}, amount : Nat]]
    /\ others \in OtherHolds
    /\ budgetEv \in [Segments -> {"none", "open", "completed", "failed", "interrupted"}]
    /\ attempt \in [Segments -> [state : {"none", "open", "complete"},
                                 kind : Kinds \cup {"interrupted", None},
                                 session : Sessions \cup {None}]]
    /\ calls \in [Segments -> Nat]
    /\ pc \in States /\ why \in Reasons /\ existing \subseteq Segments
    /\ at.cell \in CellIds /\ at.index \in DOMAIN Cells[at.cell]
    /\ seen \subseteq Sessions /\ failure \in Kinds \cup {"interrupted", None}
    /\ outcome = None \/ outcome \in [kind : Kinds, session : Sessions \cup {None}]
    /\ orphans \subseteq Segments /\ cut \subseteq EvidenceStores
    /\ crashes \in 0..MaxCrashes

\* No crash, resume or replay makes a segment run twice.
NeverRetried == \A s \in Segments : calls[s] <= 1

\* Whatever has run has, durably, an approval, an attempt, and if its route is
\* budgeted a reservation and a budget; all executions together stay in the cap.
CommittedBeforeCall ==
    /\ \A s \in Segments : calls[s] > 0 =>
          /\ "passed" \in Range(probes[s])
          /\ attempt[s].state # "none"
          /\ s \in Budgeted => row[s].state # "none" /\ budgetEv[s] # "none"
    /\ Retained + others <= Cap

\* A segment whose commitment was abandoned before its candidate started is
\* never run by a later invocation (docs/request-budget.md, "permanently
\* ineligible for retry").
AbandonedNeverRuns == \A s \in orphans : calls[s] = 0 /\ attempt[s].state = "none"

\* The frozen stop-cell policy: behind a segment that did not succeed, no
\* segment of its cell ever runs, across any number of resumes.
CellStopsAtFailure ==
    \A c \in CellIds : \A i, j \in DOMAIN Cells[c] :
       /\ i < j /\ calls[Cells[c][j]] > 0
       => attempt[Cells[c][i]].state = "complete" /\ attempt[Cells[c][i]].kind = "ok"

\* A published result rests on complete cells, complete receipts and sessions
\* that are all there and all different, also when earlier invocations saw
\* some of them.
Sealing == {"ok", "invalid", "candidate_failed"}
ManifestIsSound ==
    manifest \notin {None, Partial} =>
       /\ stop = None
       /\ \A c \in CellIds :
             /\ cell[c] \in CellFile
             /\ cell[c].status = "ok" => \A i \in DOMAIN Cells[c] : attempt[Cells[c][i]].kind = "ok"
       /\ \A s \in Segments : attempt[s].state # "open" /\ attempt[s].kind \notin {"overrun", "drift"}
       /\ \A s, t \in Segments :
             attempt[s].kind \in Sealing /\ attempt[t].kind \in Sealing
                => attempt[s].session # None /\ (attempt[s].session = attempt[t].session => s = t)

\* A resumed invocation recomputes exactly what earlier ones published: only an
\* artifact that was cut short makes the comparison fail.
ResumeReproduces ==
    why \in {"cell_differs", "manifest_differs"} =>
       manifest = Partial \/ \E c \in CellIds : cell[c] = Partial

\* A published manifest stays the truth: no later invocation probes, runs,
\* interrupts or rewrites anything that it binds.
ManifestStaysTrue == manifest \notin {None, Partial} => manifest = Manifest

\* The experiment keeps a register of its segments: a segment waits for those
\* before it in its cell, and only the invocation's own run ends it with
\* anything but an interruption.
Ahead(s) ==
    {t \in Segments : \E c \in CellIds : \E i, j \in DOMAIN Cells[c] :
                        i < j /\ Cells[c][i] = t /\ Cells[c][j] = s}
ReceiptOf(a) == IF a.state = "complete" THEN [kind |-> a.kind, session |-> a.session] ELSE None

Register == INSTANCE TrialRegister WITH
    Trials <- Segments, Verdicts <- Receipts, Waits <- [s \in Segments |-> Ahead(s)],
    Passing <- {r \in Receipts : r.kind = "ok"}, Uncalled <- {r \in Receipts : r.kind = "interrupted"},
    opened <- {s \in Segments : attempt[s].state # "none"},
    verdict <- [s \in Segments |-> ReceiptOf(attempt[s])],
    published <- [s \in Segments |-> IF manifest \in {None, Partial} THEN None ELSE ReceiptOf(manifest.attempts[s])]
ImplementsTrialRegister == Register!Spec

\* However often it dies, the experiment is decided: stopped, or its result is
\* published.  The dead ends of the code are an artifact that was cut short; an
\* attempt of any of the three stores that was (a directory whose log was not
\* begun, a torn line, a final record in part), which every resume refuses to
\* read; a budget closed for a candidate that was not; and a budget-stop.json
\* that names another segment than the one that does not fit now.
Decided == stop # None \/ manifest # None
CutShort == cut # {} \/ frozen = Partial \/ budgetStop = Partial \/ \E c \in CellIds : cell[c] = Partial
HalfClosed ==
    \E s \in Budgeted : attempt[s].kind = "interrupted" /\ budgetEv[s] \in {"completed", "failed"}
BudgetStopMoved == pc = "write_budget_stop" /\ ~Publishes(budgetStop, Segment)
EventuallyDecided == <>(Decided \/ CutShort \/ HalfClosed \/ BudgetStopMoved)

\* docs/research-execution.md: "an incomplete attempt is finalized as
\* interrupted", and resume continues with unstarted cells.
InterruptedSegmentsResume == why # "budget_mismatch"
=============================================================================
