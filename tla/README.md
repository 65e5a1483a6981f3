# A verification development of ukrainian-llm-eval

ukrainian-llm-eval runs frozen language-model exams: it reserves money in a
shared ledger, admits a candidate, sends it a packet of questions through one
of several adapters, and preserves what happened so that a run that died can
be resumed without repeating, losing or overspending anything.  The modules
here specify the parts of that program that decide *what is durable and in
which order*, check them with TLC on small instances, and prove their safety
properties with TLAPS for every instance, all but a half of one.

Paths below are relative to the repository; `ukrainian_llm_eval/` stands for
`src/ukrainian_llm_eval/`.


## 1. The system

### 1.1 Parts, their state and their operations

| Part | Code | State it keeps | Operations |
|---|---|---|---|
| Shared spending ledger | `spending_ledger.py` | one SQLite file: its identity (ledger ID, cap, schema) and one row per reservation | open/migrate, `reserve`, `settle`, `reconcile_existing_credit`, `snapshot`, `inspect_readiness` |
| Evidence store | `evidence.py` | a directory per attempt: `events.jsonl` (hash chain, flock), `final.json`, `.final-*.tmp` | `start`, `append`, `finalize`, `verify` (with recovery), `verify_all`, `resume`, `inspect_all` |
| Request budget | `request_budget.py` | counters of one segment in memory, an evidence attempt of its own, a row of the ledger | `prepare`, `bind`, `for_attempt`, `commit_request`, `observe`, `serialize_tool_result`, `finalize`, verifier |
| Research scheduler | `scheduling.py` (`run_research`), `execution.py` | `experiment.json`, `execution-plan.json`, `<cell>.json`, `budget-stop.json`, `stop.json`, `result-manifest.json`, a schedule lock, three evidence stores | one generator that walks cells and segments; a resume walks them again |
| Pair scheduler | `scheduling.py` (`run_pair`) | `plan.json`, a result and an evidence file per slot, `stop.json`, the lock | one generator over repeats and conditions |
| Trial runner | `runner.py`, `execution.py` | none of its own | `run_exam`, `execute_attempt`, `preflight` |
| HTTP adapters | `adapters.py`, `responses_http.py` | conversation, counters, identifiers seen, deadline | the request/tool loop |
| OpenCode gateway | `opencode_gateway.py`, `opencode_batch.py`, `native_opencode.py` | `error`, `requests`, `pending_calls`, `tool_calls`, `finished` under one lock, served to handler threads | `completion`, `mcp`, shutdown |
| MCP proxy | `mcp_proxy.py` | call count, upstream session | `handle` |
| Native adapters | `native_kimi.py`, `native_codex.py`, `native_cursor.py`, `native_agy.py`, `adapters.py` (claude) | a supervised process group and its event stream | probe, spawn, read, kill, parse, account |
| AGY gate | `agy_hook.py`, `ReferenceServer` of `native_agy.py` | a count and receipts under a flock; a bridge, its calls and an error under a lock | permit a tool, serve a lookup |
| Admission | `admission.py`, `admission_command.py` | an evidence attempt per probe; a child process, two capture threads, a deadline | `invoke_validated_admission`, `invoke_admission` |
| Offline readiness | `readiness.py` | two readings of the execution directory and of the ledger | `check_research` |
| Frozen documents | `benchmark_manifest.py`, `segmentation.py`, `core.py` | immutable JSON | validate, derive, reassemble |
| Scoring | `core.py`, `gec*.py`, `research_scoring.py`, `src/scorer` | derived aggregates, once | score, compare, summarise |
| Codex controls | `codex_*.py` | a control receipt | probes of one Codex release |
| Importers, typography, command line | `importers.py`, `ulp.py`, `typography.py`, `__main__.py` | none | formatting, argument parsing |

### 1.2 How they interact

```
 run_research ── admission probe ──> admission evidence (EvidenceStore)
      │
      ├── for_attempt ──> SharedSpendingLedger.reserve   (SQLite, shared by
      │                └> budget evidence start           other executions)
      │
      └── execute_attempt ─> candidate evidence start
              └─ run_exam ─> adapter loop: commit_request ─> provider ─> observe
                    └─ RequestBudget.finalize: ledger.settle, then budget receipt
              └─ candidate evidence finalize
      ── verify_request_budget_evidence, session check, <cell>.json, manifest
```

Four stores become durable one after the other for every segment, and no two
of them atomically.  The order of the writes is the recovery protocol.

### 1.3 What is hard, and what makes each part correct

*Ledger*: several processes decide on the same rows; a process may die around
`COMMIT`; a first-schema file is migrated under them; the balance of a credit
account is read outside the transaction that uses it.  Correct when the cap
holds at every moment, only one caller is ever told that a reservation is new,
and commitments and settlements never change.

*Evidence store*: appends, finalizations and verifications of several
processes interleave at file-system calls; a process dies between any two; the
machine loses what was not synced.  Correct when the log is append-only, gets
one verdict that counts exactly its lines, and stays readable.

*Request budget*: a lost answer is billed; roundings add up; a rejected report
must neither settle too little nor write a receipt a later resume refuses.
Correct when what the provider may have charged never exceeds the reservation
or the settlement, and the verifier accepts the two final records of a trial
however it ended, unless a death came between them (section 3.1).

*Research scheduler*: every step may be the last of its invocation, and the
next invocation sees only what is durable; other executions take the cap
meanwhile.  Correct when no segment runs twice, none runs without its durable
commitments, a cell stops at its first failure, published artifacts are
reproduced, a decision is final, and a resumed experiment is decided.

*Admission*: a probe is a foreign command with children, pipes and a deadline,
and its files may change while it is started.  Correct when the report is exact,
nobody of its group survives, every probe ends, and only a probe of the frozen
bytes that read this request approves.

*Native adapters*: a foreign client uses tools in parallel, through a proxy or
a gate the adapter does not watch, and reports on itself in a stream.  Correct
when a trial that is accepted is one in which nothing happened that it does not
say, and every trial ends.

*Readiness and scoring*: a check that reads a directory twice speaks of one
state only if nothing changed; a score passes through preparation,
segmentation, reassembly and aggregation.  Correct when a check without failure
is of one state, honest routes pass, and a cell scores what its answers are
worth.

`PROJECT.json` lists the hazards line by line.


## 2. The modules

| Module | Specifies |
|---|---|
| `UnitSums` | `Total(f)`, the sum of a weight function over a finite set, as a recursive function over cardinalities (SQL `SUM`, and every other sum of the project) |
| `UnitSumTheorems` | facts about `Total` the proofs need, proved |
| `NoValue` | Python's `None`, for the modules that are composed and proved about together |
| `SharedCap` | abstract: one cap, allotments that close once and downwards |
| `SpendingLedger` | `SharedSpendingLedger` |
| `SpendingLedgerProofs` | theorems about its states and its steps, and that it implements `SharedCap` |
| `AttemptLog` | abstract: an append-only log that gets one verdict |
| `EvidenceStore` | `EvidenceStore` at the level of file-system calls |
| `EvidenceStoreProofs` | theorems about its states, and that it implements `AttemptLog` |
| `RequestBudget` | `RequestBudget`, its request loop and its verifier |
| `RequestBudgetProofs` | theorems about its states |
| `TrialRegister` | abstract: trials that are opened, called and closed at most once, in order, and verdicts that are published for good |
| `ResearchSchedule` | `run_research`, `execute_attempt`, crashes and resumes |
| `ResearchScheduleProofs` | theorems about its states, and that it implements `TrialRegister` |
| `PairSchedule` | `run_pair`, deaths and resumes |
| `PairScheduleProofs` | theorems about its states and its calls, and that it implements `TrialRegister` |
| `OpenCodeGateway` | `OpenCodeGateway`, `Bridge.handle` behind it, and how `run_opencode` reads and closes it |
| `AdmissionCommand` | `invoke_admission`: snapshot, child, descendant, capture threads, deadline, kill |
| `AdmissionClaims` | the arithmetic and rules of claims and receipts, as operators |
| `AdmissionProbe` | `invoke_validated_admission`: both, with the evidence |
| `ExamPackets` | packets, keys and scores of `core.py` and `gec*.py`, as operators |
| `SegmentPlans` | `segmentation.py`, as operators |
| `ExecutionPlans` | suites, routes, cells and reservations of `benchmark_manifest.py`, and `validate_research_runtime`, as operators |
| `SealedExperiment` | one experiment from sources to scores, with the readiness check beside its execution |
| `AdmissionProofs` | theorems about `AdmissionProbe` and `SealedExperiment` |
| `CliStreams` | the parsers of five clients' streams, one line at a time, as operators |
| `NativeTrial` | a native adapter, its client, the proxy, AGY's hook and server |
| `HttpTrial` | `run_chat_http` and `run_responses_http` |
| `ExamTrial` | `run_exam` over both |
| `TrialProofs` | theorems about `ExamTrial` and `OpenCodeGateway` |
| `MC<Module>` | constants of the TLC runs, one `.cfg` per run |

`ResearchSchedule` composes the others by their promises: a ledger row appears
when `reserve` commits (`SpendingLedger`), an attempt has a beginning and one
durable verdict (`EvidenceStore`/`AttemptLog`), a budget is open, then
completed, failed or interrupted (`RequestBudget`).  `AdmissionProbe` puts
`AdmissionCommand` between the evidence and the verdict on its claims,
`SealedExperiment` uses the claims, plans and packets, and `ExamTrial` adds
`HttpTrial` to `NativeTrial`, which reads its client with `CliStreams`.

Operators commented `\* mutant` occur in no specification.  Each is a plausible
error of the operator that follows it; PROJECT.json pairs it with a property,
and with the error in the operator's place TLC finds that property violated.
They document what each property is able to see.

### 2.1 SpendingLedger

| Module | Code |
|---|---|
| `identity`, `rows` | tables `ledger` and `reservations`; `None` is an absent row or SQL `NULL` |
| `writer`, `txn` | SQLite's write lock, and the row an open transaction is about to write |
| `handle`, `receipt` | a `SharedSpendingLedger` object; the dictionary `reserve` returned to its caller |
| `balance`, `posted`, `seen` | external: the provider account, and the balance an executor read |
| `Open` | `__init__`/`_initialize`: create, migrate, or refuse another ID or cap |
| `Reserve`, `Settle`, `Reconcile`, then `Commit` | the three writing methods, in two steps: `BEGIN IMMEDIATE` and all reads; the write and `COMMIT` |
| `Crash` | the executor dies; SQLite rolls an open transaction back |

Every transaction of the code takes the write lock before its first read, so
the reads and the staged write are one step.  `Commit` is another because a
process may die in between, and because what it writes was decided earlier:
the invariant has to say that the decision still holds.  Two errors that leave
the file unchanged (a refused reservation, an unknown ID) are not steps.

### 2.2 EvidenceStore

One attempt is enough: attempts share no files.  A step is one system call
that changes what another process or a later one can see: `mkdir`, creating
`events.jsonl`, each half of a line, `fsync`, creating, filling and syncing a
temporary, `link`, `unlink`, directory syncs; checks that run under the flock
are part of the step that takes it.  `at` is the process's place in the code.
The chain of hashes is abstracted to what it detects (`torn`, and a record
that does not count the lines that are there).

The list-then-stat of `_pending_finalization` runs after the lock is released
and is two steps (`ListPending`, `StatPending`).  `Crash` loses a process;
`PowerLoss` loses any part of what has not been synced: the tail of the log,
names made or removed since the last directory sync, the bytes of a temporary
whose `fsync` has not run.  `disk` is what it cannot take; an `fsync` that
returns covers everything written before it, an earlier one that failed
included.

`CallFails` is any call that raises while its process lives on: what it was to
do is not done, and what was done before stays.  The interesting one is
`os.fsync` of the temporary (`evidence.py:708`), which is outside the error
path that unlinks it: a whole temporary stays, and `run_exam`, which catches
the `OSError`, finalizes again (`runner.py:306-309`).  `slipped` is a history
variable that says that an executor has appended or finalized beside a
temporary that an earlier finalization left.

### 2.3 RequestBudget

`budget` has the fields of the Python object; `plan` is the frozen mechanism
(v1 exact counter, v2 provider bound with or without reported charges, v3 usage
bound), filtered by `Prepared`, the conditions `prepare` imposes.  The provider
(`Send`) bills within the attested bounds and prices, reports any usage and any
charge not below the bill, and its answer may be lost (`Fail` after `Send`).
`Settle` and `WriteReceipt` are the two halves of `finalize`, and
`CloseCandidate` is the final record of the candidate's attempt, bound to the
receipt; the process may die before, between and after them.  After a death
`Bind` and `InterruptCandidate` close what a resume finds open, in its order.
`Verified` is `verify_request_budget_evidence` of the two final records: the
statuses they must have beside each other, and `ResultVerified` with
`UsageVerified`, its comparisons of counters, totals and charges.

### 2.4 ResearchSchedule

`pc`, `at`, `existing`, `seen`, `failure` and `outcome` are the local variables
of the generator; everything else is durable.  Each action is one durable
write or one decision with what surrounds it.  `Crash` resets the locals and
may leave the artifact that was being written behind, created and incomplete
(`Partial`; `write_private_json` creates the file exclusively and then writes).
Starting, appending to and finalizing an attempt are several file-system calls
each (section 2.2): a death at a step that is `Writing` one of the three stores
may leave an attempt cut short there, such as a directory without its log.
`cut` is the set of stores that hold one; `verify_all` of such a store raises
in every later invocation (`Unreadable`), in the order in which the stores are
read.  `Others` is another execution that reserves or settles in the same
ledger.

### 2.5 OpenCodeGateway

`at` is where each handler thread is, `lock` is `gateway.lock`, `main` is where
`run_opencode` is; `requests`, `pending`, `toolCalls`, `finished`, `final`
(`structured_output`) and `error` are the fields of the gateway, `committed`
and `observed` what the request budget has recorded.  The CLI is outside: a
thread may be handed any POST at any time (`Connect` and the inputs of
`Accept`, `Lookup` and `Pass`), and the CLI may hang up on any reply.  `asked`
and `made` are history variables of the calls a provider asked for and the
reference server saw.  The code looks for the first pending call of a name, so
the calls of a response, the pending ones and both histories are a sequence per
name.  Two orders of the code are kept because they are easy to overlook: `Raise` releases the lock before `Retain` sets the error, and
`RejectCalls` leaves the calls before the rejected one pending.

### 2.6 PairSchedule

`plan`, `evidence`, `results`, `receipts` and `stop` are durable, the rest are
locals of the generator `run_pair`; `calls` is a history variable.  Each action
is one durable write or one decision; `Trouble` is a death (which may leave the
file or the attempt that was being written behind, incomplete) or an exception
that ends the generator.  An attempt that was cut short is `Partial`, and `Load`
is the `verify_all` that refuses it.  A verdict stands for result and receipt; a session is named by the
first slot that shows it, which loses nothing because sessions are only
compared.

### 2.7 AdmissionProbe

`pc` is where `invoke_admission` is, `capture` the two `_Capture` objects with
their threads, `proc` the child and one descendant of it, which may be in its
group or not and hold the pipes or not.  `disk`, `payload` and `snapshot` are
the three places a declared file's bytes are in.  Output is counted in chunks.
A `join` or `wait` with a timeout may give up at any time (`JoinReturns`,
`Reap`).  `request`, `Claimed`, `Accept` and `Receipt` are the request, what
the child may claim (the truth, or one distortion of it), `validate_claims` and
the receipt; the segment and its route are drawn when the child has ended,
because nothing depends on them before.

### 2.8 SealedExperiment

`cells` is the execution plan of an experiment an operator proposes, or `None`
where building it raises.  The execution is `run_research` reduced to the order
of its files, its commitments and what it does when they are refused; its other
crashes and stops are in `ResearchSchedule`.  `root` gives every file a
version, so that a content change is visible.  `ledger` has, per kind of
funding, what this execution retains and what others have taken and settled:
`StartSegment` commits a segment's maximum, of the cap or of the existing
credit, with or without a shared ledger.  A segment that does not fit stops the
execution (`OverBudget`, `StopForBudget`), as does one whose probe is not
`Admitted` or whose credit does not suffice (`StopForAdmission`); `WriteStop`
comes later, and `Resume` is the invocation after a death between
`budget-stop.json` and `stop.json`, or after the error that a budget stop
naming another segment is.  A record carries the receipts of its probe and its
budget.

`List`, `Read`, `ReadBudget`, `Probe`, `CheckAgain` and `Compare` are
`check_research`: names are listed before the first file is read, each file is
read at its turn, and a `stop.json` is refused before either reading.
`FitsBudget` is `check_readiness_capacity`, credit net of the commitments that
were read.  `Score` and `RefuseToScore` are `score_sealed_experiment`: `Barred`
is what it refuses before it reads anything, a stop of either kind included;
`Verified` (with `Backed`, the receipts of probes and budgets) and `CellScore`
are its checks and its scores.  `Worth` is the reference definition: what a
candidate's answers are worth, from the source alone, without packets or
segments.
`Artifacts` are the files an execution may leave and `Precedes` the order of
their paths, in which they are read.

Two assumptions state what TLC evaluates on every instance: `PlanAssumption`
that amounts are naturals and that a plan that can be frozen is a sequence of
cells of its own suites, routes and conditions, no dearer one by one than
together; `AnswerAssumption` that exam items are a sequence and that an answer
is a JSON value.

### 2.9 ExamTrial

`pc` is where the adapter is, `stream` what its parser knows after the lines
printed so far (`Read` folds one line), `calls` the tools the client asked for
and how far each has come, `bridge` the `Bridge` object (a process of the
client's group that reads line by line, or AGY's server with its lock),
`hooks` the receipts of `agy_hook.py`.  `holders` are the processes that keep
an output pipe open: the client, a child in its group, a process that left the
group.  `Communicated`, `TimeoutExpired` and `CommunicatedAgain` are
`communicate()` before and after the kill; `Terminated` is Codex's selector
loop.  A line of the stream is a kind with the identifiers the checks compare;
a name in any spelling an adapter normalises is `"ref"`, any other `"shell"`.
`escaped` is the verdict that is none: an exception `run_exam` does not catch,
such as the time limit of AGY's `--help` (`native_agy.py:107`).

Five adapters have the same steps in five places; a definition that stands for
all of them is mapped to one, and these are the others:

| Definition | Counterparts |
|---|---|
| `Probe` | `_probe_cli` of `native_kimi.py:560`, `native_cursor.py:234`, `native_codex.py:359`; `_binary`, `native_agy.py:101` |
| `Spawn` | `native_kimi.py:802`, `native_cursor.py:508`, `native_codex.py:635`, `adapters.py:804` (Claude and AGY) |
| `Communicated`, `TimeoutExpired`, `CommunicatedAgain` | `native_kimi.py:790-826`, `native_cursor.py:498-532`, `adapters.py:801-819` |
| `Terminated`, `Drained` | `native_codex.py:629-733` |
| `KillGroup`, `Killed` | `native_kimi.py:815`, `native_cursor.py:521`, `adapters.py:808`, `native_codex.py:563-586` |
| `Accepts`, `Verdict`, `JudgeClient` | `native_kimi.py:1206-1274`, `native_cursor.py:965-1010`, `native_codex.py:871-899`, `adapters.py:876-892`, `native_agy.py:338-350` |

The client is external and modelled by what a trial can know of it: it does
what it likes, but what it did it has reported by the time it exits with 0; it
calls AGY's server once for each call its hook allowed, with distinct
arguments, and announces a step as it starts.  Without the first of these no
adapter could promise anything.  The output of a client that failed or was
killed is not parsed, and is dropped at its exit (`Discard`).

The file of the client is replaced once and not put back (`Upgrade`).  That is a
bound: AGY's hash is compared at the start and at the end only
(`native_agy.py:289`, `346`), so a client that is replaced and restored in
between is outside what the model, and the adapter, can tell.


## 3. What the runs check

All runs use two workers.  Deadlock checking is off where the program really
may stop: processes that are done, an experiment that is decided, an attempt
that is final.

| Run | Instance | States | Properties |
|---|---|---|---|
| `ledger_shared` | 2 executors, 2 reservations, both funding kinds, caps {2, 3}, amounts {1, 2}, account balance 3, new file and first-schema file | 0.55 M | `CapRespected`, `FreshReceiptUnique`, `CreditCovered`, `InspectorAccepts`, `CommitmentsKept`, `ImplementsSharedCap` |
| `evidence_seal` | 2 executors, 2 temporaries, 2 statuses, 3 lines, process deaths and failing calls | 0.7 M | `FinalSealsLog`, `Recoverable`, `ImplementsAttemptLog` |
| `evidence_recover` | 1 executor, 1 inspector, 2 temporaries, 3 lines, process deaths, failing calls and power losses | 0.5 M | `AckedSurvives` |
| `budget_trial` | 7 mechanisms (5 pass `prepare`), prices per 4 tokens, reports up to 1 too high | 1.3 M | `BilledWithinMaximum`, `RequestsAreCommitted`, `SettlementCoversBill`, `VerifierAccepts` |
| `schedule_safety` | cells of 2 and 1 segments, the first paid, cap 2, other executions hold 0 or 1, 3 sessions, 2 deaths, 3 probes | 1.4 M | `AbandonedNeverRuns`, `CommittedBeforeCall`, `CellStopsAtFailure`, `ManifestIsSound`, `ResumeReproduces`, `ManifestStaysTrue` |
| `schedule_live` | as above, all paid, cap for 2 of 3, 1 death | 0.6 M | `ImplementsTrialRegister`, `EventuallyDecided` |
| `gateway_serve` | 2 handler threads, 4 conforming bodies and one drifted, 2 calls with 2 arguments, closed-book and sources | 0.9 M | `SuccessIsAccounted`, `LookupsAsAsked`, `ClosedIsQuiet`, `Closes` |
| `pair_resume` | 2 repeats (4 slots), every outcome and session, 3 deaths or exceptions | 0.5 M | `CallsAreFresh`, `SuccessIsWhole`, `ImplementsTrialRegister`, `EventuallySettled` |
| `admission_run` | 1 declared file, 2 chunks of output over a limit of 1, 1 descendant, timeout 1 of 3 ticks, a route of each kind, 16 distortions | 0.8 M | `ReportIsExact`, `NoSurvivors`, `ApprovalIsEarned`, `Returns` |
| `experiment_score` | 85 experiments: questions or 3 sentences in 2 documents, 2 repeats, 2 faults; 3 kinds of route, 2 caps, 3 balances, 1 row of another execution, 1 untruthful probe | 0.8 M | `ReadinessIsTruthful`, `HonestProbesPass`, `ScoresAreEarned`, `SealedIsScored` |
| `exam_trial` | 17 trials: every adapter with and without tools, 1 or 2 tools allowed, 2 asked for, 1 mishap | 0.8 M | `AcceptedTrialsAreClean`, `TrialsEnd` |

The states are those of the complete state graph up to the declared symmetry.

**The ledger.**  Two executors are every way two transactions, two handles and
two receipts can meet; two reservations of 1 or 2 under a cap of 2 or 3 are
each of: both fit, one fits, the second fits only after the first is settled
below its worst case.  A second cap shows that a file never serves two, and the
first-schema row that a migration leaves nothing the readiness inspector
refuses.  `CreditCovered` is the promise that the ledger makes about the *real*
account: what may still be charged to it is covered by what it holds, although
reservations are decided on an older observation.  It needs the operator's
discipline that a charge is reconciled while no older observation is in use;
with `ReconcileEarly = TRUE` it fails (section 3.1).
`ImplementsSharedCap` is the refinement of `SharedCap`: metered rows are
allotments, everything else is invisible.

**The evidence store.**  `FinalSealsLog` and `ImplementsAttemptLog` say that
whoever publishes the final record (a finalization, or a verification that
finishes the one of a dead process), it counts exactly the log, gives the
attempt its only verdict, and nothing follows.  They hold with two executors
that die anywhere and whose calls may fail.  `Recoverable` says that whatever
they leave behind, `verify` accepts or finishes, and names all the dead ends:
a start that ended between `mkdir` and the last byte of the first line; a line
or a temporary that was cut short; an executor that went on (`slipped`) although
a finalization had left its temporary, as `run_exam` does after a failing
`fsync` of it and a second executor may after the death of a first; and a
power loss, which may take a line that a final record counts.  In all of them
`verify` raises for ever.  `AckedSurvives`: no power loss takes an
event whose append has returned.  Two temporaries are enough for one left
behind and one in use; three lines for start, event and interruption.

**The request budget.**  Prices are quoted per 4 tokens instead of a million,
so that every rounding up occurs with 1 to 3 tokens.  The totals of the
mechanisms are tight for two requests (three for one mechanism), so that the
cumulative limits bite after the individual ones held; `Excess` 1 lets every
report pass each limit by one.  Two mechanisms are rejected by `Prepared`; they
are there because the comparisons that reject them are what keeps the others
safe.  `VerifierAccepts` is about the two final records together: whatever the
trial came to, a resume accepts what they say of each other and of the usage,
but for the pair a death between them leaves (`HalfClosed`, which is the run
`schedule_halfclosed`).

**The scheduler.**  A cell of two segments has a segment before and one after a
failure, and a second cell a place to go on; a cap for two of three segments
makes the budget stop occur, and `Others` moves it between the check and the
reservation.  Two deaths are enough to die in the work of an invocation and in
the recovery from it.  Three sessions allow all distinct and all repeated.
`MaxProbes` bounds the one thing a resume repeats, a probe.
`EventuallyDecided` names all the ways in which no resume decides the
experiment: an artifact cut short, an attempt cut short in any of the three
stores, a budget that was closed for a candidate that was not, and a
`budget-stop.json` that names another segment than the one that does not fit
now (`BudgetStopMoved`; one that names the same segment must not be a dead end).
`ManifestStaysTrue` says that a manifest, once written, keeps describing the
stores and the cells: nothing it binds is run, interrupted or rewritten by any
later invocation.  `ImplementsTrialRegister` is the refinement of
`TrialRegister`: a segment waits for the one before it in its cell, a call may
happen only in an open trial, and all cells are published together.  A segment
runs at most once (`NeverRetried`) is proved only, and follows from the
refinement's `Call`.

**The gateway.**  One thread in the critical section, one behind it, is every
race there is: with `MaxToolCalls` and `MaxParallel` 2 there are three rounds, so that two calls
can be pending at once, and a body more than rounds, so that the limit of
rounds ends what duplicates do not.  `SuccessIsAccounted` is about the reads of
`run_opencode` without the lock: it could miss a request that is still being
served, and does not, because a final answer sets `finished` before it is
delivered and the number of answers the CLI lists must equal the number of
accepted requests.  `ClosedIsQuiet` is the comment at
`opencode_gateway.py:177-178`.

**The pair scheduler.**  Four slots have one before, one after and two between
a reuse and its discovery; three troubles are a death after a verdict, one in
the invocation that discovers the reuse, and one more.  `CallsAreFresh` says
that the fresh-session policy survives them: validation repeats on every resume
what the loop decides once.  `SuccessIsWhole` is `docs/running.md:513-515`:
exit 0 speaks of the whole schedule, not of the last invocation.
`EventuallySettled` excludes files and attempts that a death has cut short, and
nothing else.  In the
refinement of the same `TrialRegister` slots wait for all before them, whatever
their verdicts, and their receipts are published one by one.

**Admission.**  Two chunks over a limit of one are: nothing, all of it, an
overflow, and a descendant's chunk after the child has ended.  The descendant
is in the group with the pipes, in it without them, or outside with them: the
cases in which the kill, the joins, or neither end it.  `ReportIsExact` is
about the joins: unless the report says `cleanup_failed`, its counts are those
of everything ever written.  `ApprovalIsEarned` relates a completed attempt to
the bytes that ran, to the request they read, and to the arithmetic of the
route; each distortion is one a check of `validate_claims` must see.
`Returns` asks nothing of the processes.

**The experiment.**  The scored instances have two conditions, every pair of
answer sheets and up to two faults; a matching question has two rows, so that
parts of an item count, and of two documents one has two sentences, so that
local identifiers repeat between segments.  `Primary` is 2 for 3 repeats.  The
observed instances run beside the readiness check: a reservation of 3 under
caps of 3 and 6 or a credit of 2, 4 and 6, with and without a shared ledger, on
which another execution commits `Foreign` = 3 at a time (`MaxRows` 1: one row
of it at most, which is enough for a balance to fit before it and not after).
`ReadinessIsTruthful` says that a check without failure saw one state although
it was read piece by piece, and that the next segment of every cell fits what
was left in it of cap and credit, commitments subtracted;
`HonestProbesPass` that frozen limits and open commitments never refuse a
truthful probe that is covered, which is the comparison of a route's bounds with
the limits of its suites and of its maximum with the credit.
`ScoresAreEarned` compares scores, means and deltas with `Worth`, so that
preparation, segmentation, reassembly and scoring together must change nothing;
it has a half for exams, faults and deltas (`ExamsAreEarned`) and one for
documents and means (`DocumentsAreEarned`).
`SealedIsScored` says that every sealed execution, faults included, is one the
scoring accepts, with the receipts of its probes and budgets; after a scoring
that died the derived aggregates keep the next one from it, which the code
means, and a result that stands beside a `budget-stop.json` is not scored
(section 3.1).

**The trials.**  With two calls there are a repeated identifier, a call above a
limit of one, two in parallel, and a lookup that overtakes another; the one
mishap is a second session, another model, a repeated request, a restarted
proxy (which forgets its count) or a replaced client.  AGY has only the limit
of two: its calls are asked for before the hook sees them, and the second is
there to overtake.  `AcceptedTrialsAreClean` lists what an accepted trial
claims per adapter, and thereby what the adapters differ in: Cursor and Codex
do not see the model, Claude and Cursor not a repeated request.  Accepted
trials with two tools occur for every adapter that has tools.  `TrialsEnd` has
one exception, which the code has too: see below.

**Liveness and fairness.**  `FairSpec` adds `WF_vars(Step)`: an invocation that
can take a step takes one, and an experiment that ended without a decision is
resumed by its operator.  The first is the scheduling of one Python process
whose calls all have deadlines (admission has a timeout, adapters a total
deadline, `flock` is non-blocking); the second is what the documents ask of the
operator.  `Crash` and `Others` are not fair.  `EventuallyDecided` excludes the
dead ends listed above; it says there are no others.  `FairSpec` of
`PairSchedule` is the same.  `FairSpec` of the
gateway asks that its threads and the adapter run (`WF` of `Serve(h)` and `Adapter`), which holds because every call
they block in has the remaining time as its timeout; nothing is asked of the
CLI.  `Closes` needs no fairness of the lock: after shutdown no new thread comes.
`FairSpec` of the admission probe and `FairTrialSpec` ask the same of the caller
and of its own threads, and that time passes.  Nothing is asked of a child, a
client or what they leave behind: a killed process of the group is only known
not to hold its pipes any more where the code waits for that.  The one wait
without a timeout is `communicate()` after the kill; it may last for ever if a
process that left the group holds a pipe, and `TrialsEnd` says that nothing
else does.

### 3.1 Findings

A run with one property taken from a document, and a behaviour of the code that
violates it:

| Run | Says | Does |
|---|---|---|
| `schedule_halfclosed` | `docs/research-execution.md:97-99`: an incomplete attempt is finalized as interrupted and resume continues | after a death between the budget's receipt and the candidate's, every resume raises in `verify_request_budget_evidence` |

More differences have no run of their own.

- `docs/running.md:534-535` says the report of the evidence has "a corruption
  marker for unreadable entries".  `verify` lists temporaries after it released
  the lock (`ListPending`, `StatPending`); one that is unlinked meanwhile makes
  an intact attempt "corrupt".
- `execution.py:38-39` says "An exception from storage is fatal".  `run_exam`
  catches `OSError` with the errors of a trial, finalizes the budget, and the
  experiment goes on.
- `runner.py:170-171` says that "any preflight or provider failure becomes an
  immutable failed trial".  Output that is not UTF-8 raises in `communicate()`,
  an AGY step without its fields in `parse_events`, and `git init` with
  `CalledProcessError` or `TimeoutExpired`, which AGY's `--help` raises too
  (`native_agy.py:107`); `run_exam` catches none of them
  (`Escaped`).  The attempt stays open until a resume interrupts it.
- `docs/native-agy.md:76` says "The process has a wall-clock deadline".  The
  processes of its group have; one that left the group and holds an output pipe
  keeps `communicate()` waiting after the kill, as it does for Kimi, Cursor and
  Claude (`TrialsEnd`).  Codex closes its pipes, as `docs/native-codex.md:198-200`
  says.
- `docs/research-scheduling.md:284-287` says that with `budget-stop.json` no
  result manifest is produced.  Only `stop.json` is read on resume; after a
  death between the two files, freed money lets the experiment finish with a
  manifest.  That manifest is sound, but `research_scoring.py:53` refuses to
  score an experiment that has a `budget-stop.json` (`Barred`).
- `docs/research-execution.md:97-99`, quoted above, has a second exception.
  `EvidenceStore.start` makes the directory before the log (`evidence.py:603-610`);
  a death in between leaves an attempt that `verify_all` rejects on every resume
  (`Unreadable`, `Load`).  So does an append that was torn, and a failing
  `fsync` of the budget's final temporary, after which `run_exam` finalizes the
  same attempt again (`slipped`).
- `docs/request-budget.md:201-203` says a settlement "remains retained against
  later balance observations until separate authoritative reconciliation".  A
  reconciliation between the observation and `reserve` is applied to the older
  observation, so that the charge is counted in neither, and `CreditCovered`
  fails with `ReconcileEarly = TRUE`.
- `docs/research-scheduling.md:270-272` says that a durable stop record keeps a
  resume from bypassing failed admission.  After a death between the probe's
  verdict and `stop.json`, `StartProbe` is enabled again for the segment.
- The docstring of the gateway class calls it a "one-attempt gate".  A response
  that is rejected after the budget has bound it releases the lock before
  `gateway.error` is set, and a thread that waits for the lock may still commit
  and send one more request; it is accounted for, and the trial fails.
- `docs/request-budget.md:180-182` says an orphan commitment stops the
  experiment as `admission_failed`.  The ceiling is read first
  (`scheduling.py:402`) and counts the orphan's own reservation, so that the
  stop may say `budget_exhausted` instead.  Either way it does not run
  (`AbandonedNeverRuns`).


## 4. What is proved

Every theorem is about the whole specification: any interleaving, any number of
deaths, and every value of the constants that the named assumptions of the
modules admit.  TLC evaluates these assumptions on the instances of section 3.

`SpendingLedgerProofs` proves, for all sets of executors, reservations,
accounts, bindings, evidence hashes, ledger IDs, caps and amounts, that `Spec`
implies

| Theorem | Property |
|---|---|
| `TypeCorrect` | `TypeOK` (needs no run of its own) |
| `LedgerInvariant` | `LedgerInv` (the inductive invariant) |
| `CapIsRespected` | `CapRespected` |
| `FreshReceiptIsUnique` | `FreshReceiptUnique` |
| `InspectorNeverRefuses` | `InspectorAccepts` |
| `CommitmentsAreKept` | `CommitmentsKept` |
| `CreditIsCovered` (no early reconciliation) | `CreditCovered` |
| `LedgerImplementsCap` | `ImplementsSharedCap` |

*Assumptions.*  `LedgerAssumption`: finitely many reservations, amounts and
caps are naturals.  `NoneAssumption`: `None` is none of the other values.

*Argument.*  `CapRespected` alone is not inductive: `Commit` writes a row that
was staged in an earlier step.  `LedgerInv` says of every open transaction that
the table it *would* leave (`Staged`) is well formed and within the cap, that
its executor holds the write lock, and that a receipt saying "new" is about a
row that is not there yet; and of every handle that it has the file's identity,
because `reserve` tests the handle's cap and the theorem is about the file's.
Nobody else can change `rows` while the lock is held, so `Commit` preserves it.
`Open` preserves it because a migration changes only settlement kinds, which no
sum reads.  The sums need three facts, proved in `UnitSumTheorems`: `Total` is
a natural, depends only on the values, and changes by the difference when one
value does.

`CommitmentsKept` is about steps, and the write of a transaction is decided a
step before `Commit`.  `StagedKeeps` says that a staged row keeps the commitment
of the row it will overwrite; the four writers establish it under the lock
(`SameRowKept`, `SettledRowKept`, `ReconciledRowKept`, `MigratedRowKept`), and
it holds until `Commit` because no other executor can write or migrate in
between.

`CreditCovered` speaks of the balance an account has, while `reserve` compares
with one that was read earlier.  `CreditInv` connects the two, for the table and
for every table that is staged: an older balance is at most what the account has
plus the charges it has posted that the ledger still retains.  Such a charge
leaves the ledger by a reconciliation only, so the theorem has the operator's
discipline, `~ReconcileEarly`, as its hypothesis; without it the property is
false (section 3.1).

The refinement maps the bound cap, what each row holds of it (`HeldBy`) and the
open and closed metered rows to `SharedCap`.  Only two actions are visible:
the `Open` that binds a new file (`OpenMaps`) and `Commit` (`CommitMaps`),
which is an allotment, a closing or a stutter according to the row it replaces.
That needs `StagedKeeps`, `LedgerInv` for the sum, and `StagedOpens`: a row is
staged where there is none only as an unresolved one.  `HeldTotal` shows that
the one sum of `SharedCap` is the two sums of `_totals`, because no row is in
both (`TotalDisjoint`).

`RequestBudgetProofs` proves, for every set of mechanisms and any prices,
limits, quanta, fees and reports, that `Spec` implies

| Theorem | Property |
|---|---|
| `BudgetIsInvariant` | `BudgetInv` (the inductive invariant) |
| `NeverMoreThanReserved` | `BilledWithinMaximum` |
| `EveryRequestIsCommitted` | `RequestsAreCommitted` |
| `SettlementIsSound` | `SettlementCoversBill` |
| `EveryReceiptVerifies` | `VerifierAccepts` |

*Assumptions.*  `BudgetAssumption`: the mechanisms have the fields the code
reads, with naturals in them, a price is per a positive number of tokens, and
`None` is no natural.

*Argument.*  The provider bills while the budget object does not know yet, and
the object dies while the evidence stays.  `CountInv` puts what is sent between
the commitments of the object and those of the evidence; `PlanInv` keeps the
object within the plan, with room for the open request already taken.  `DueInv`
and `PriceInv` are about the provider: what it is owed for is within what was
counted, so its price is, because rounding up is monotone (`RoundsUp` and the
lemmas after it), and that is within the maximum, which `Prepared` compared once.
`ReceiptInv` says what each final record may be: a receipt carries the counters
of the budget it closed, whose totals are the sums over its requests, and the
candidate is closed after it, bound to it, or interrupted by a resume.
`ChargeInv` says when what the budget has heard covers the bill: after the
observation of each request and before the next, which is where `finalize` may
settle for less than the maximum (`SettledInv`).

`AdmissionProofs` proves of `AdmissionProbe`, for every set of declared files, every limit,
deadline and amount of output, every kind of descendant, and all segments and
distortions, that `Spec` implies

| Theorem | Property |
|---|---|
| `NobodySurvives` | `NoSurvivors` |
| `ReportsAreExact` | `ReportIsExact` |
| `ApprovalsAreEarned` | `ApprovalIsEarned` |

*Assumptions.*  `CommandAssumption` and `ClaimsAssumption` type the constants;
`NothingAssumption` and `ClaimsAssumption` keep `None` and `Never` apart from
the values they stand beside; `ProbeAssumption` says that rates and amounts are
naturals, as `benchmark_manifest.py` requires of them, and
`DistortionAssumption` that claimed amounts are integers and that a command
which has not read its request does not guess the nonce.

*Argument.*  `GroupInv`: there is nobody before the spawn, the child leads its
group and holds both pipes, and from the kill on nobody of the group acts; only
`Fork` could break that, and it needs a child that has not been killed.
`CaptureInv`: what a reader has counted and what is in its pipe are together
what was written, and a reader that has ended without an error leaves an empty
pipe that nobody holds; `HeldStays` shows that nobody ever holds it again,
because only a holder's descendant could.  So the counts that `JoinAndJudge`
takes from threads that have ended stay exact, which is `ResultInv`; with a
thread that has not ended there is no such report.  `ReapInv` ties the exit
status to a child that has gone.  For `ApprovalIsEarned`, `SnapshotInv` follows
the declared bytes from the read to the snapshot, past every later change of
the disk; `AcceptedClaims` takes the verdict on the claims apart, and
`DoneStays` shows that nothing it rests on moves afterwards.

`EvidenceStoreProofs` proves, for any numbers of executors, inspectors and
temporaries, that `Spec` implies

| Theorem | Property |
|---|---|
| `FinalSealsTheLog` | `FinalSealsLog` |
| `AcknowledgedSurvives` | `AckedSurvives` |
| `AttemptsAreRecoverable` | `Recoverable` |
| `StoreImplementsLog` (no power loss) | `ImplementsAttemptLog` |

*Assumptions.*  `StoreAssumption`: the bound on events is positive, and `None`
is no process, temporary, status or sequence of lines.

*Argument.*  The checks of an append and of a publication run one step before
what they allow.  `StartInv`: only one process starts the attempt, and nobody
else finds a valid log before its first line is whole.  `LockInv`: from the
checks on, the process holds the flock, the log is valid and not closed, and no
final record exists.  `RecordInv`: a temporary counts the lines that are there
while its writer holds the lock, and is whole before it is linked; so is the
temporary of a dead process that `verify` links, because `verify` compares it
under the lock.  `SealInv` follows, until a power loss: that one may take a
line a record counts.  `DiskInv` relates each process's place to what is on the
disk: an append returns only after its line, and a start only after the
directory entries, are there.  The refinement has three visible actions, the
end of a write and the two links; a power loss is excluded because a lost tail
is no step of an append-only log.

`AttemptsAreRecoverable` has no hypothesis on the number of executors; what may
go wrong with several, or with one that goes on after a failure, is `slipped`.
Until then `PendingInv` holds: of the temporaries at most one is in the
directory, it counts the lines, it is the one that is linked if one is, and
whoever appends or is about to create another found none.  `PendingMoves` has
the steps that make no temporary and write no line, failing calls and deaths
among them; the others hold the lock.  With all processes idle what
`PendingInv` leaves open is a temporary that was cut short.

`ResearchScheduleProofs` proves, for every plan of cells and segments, any cap
and reservations, any number of crashes, and whatever other executions hold,
that `Spec` implies

| Theorem | Property |
|---|---|
| `TypeCorrectness` | `TypeOK` (needs no run of its own) |
| `EachRunsOnce` | `NeverRetried` (the same) |
| `AbandonmentIsFinal` | `AbandonedNeverRuns` |
| `FailureStopsTheCell` | `CellStopsAtFailure` |
| `RunsAreCommitted` | `CommittedBeforeCall` |
| `PublishedIsSound` | `ManifestIsSound` |
| `ResumeIsReproducible` | `ResumeReproduces` |
| `ManifestIsFinal` | `ManifestStaysTrue` |
| `ExperimentKeepsRegister` | `ImplementsTrialRegister` |

*Assumptions.*  `PlanAssumption`: the plan is not empty, nor is a cell of it, a
segment has one place in it, and amounts are naturals.  `MarkAssumption`: the
marks for no file and a cut one are no contents of a file.

*Argument.*  An invocation decides from `existing`, a set it read when it began,
whether to start a segment.  `AheadInv` says why that set is still right when it
is used: what lies ahead of the invocation is as it found it.  `CallInv` ties a
call to the attempt that was opened for it and is not complete yet, so an
attempt that exists is a call that may have happened; `BehindInv` says that
what is behind the position in its cell has succeeded, which needs that a
success is never revised; `OrphanInv` says that a commitment is never withdrawn
and that only a segment without one passes `Fresh`, and that a segment whose
route has no budget never has one.  `Stays`, `Moves` and `Ends` are the three
ways a step can move the invocation while it leaves the attempts alone.

`CommitInv` is for the money: what has run was approved by a probe that passed,
holds its reservation and has its budget's evidence, and what is retained stays
within the cap with what other executions hold, because the ceiling is compared
in the transaction that reserves.

`ResultInv` is for what is published.  A cell's result is the one its attempts
give (`CellInv`), and these never change once one of them has decided the cell
(`DecidedComplete`); the sessions in `seen` are those of the attempts behind the
invocation and of no others, all different (`SeenInv`); after recovery nothing
is open but what the invocation opened itself (`OpenInv`).  A manifest that is
written makes the experiment `Final`, in which every later invocation passes
through reads and comparisons only.  So whatever a resumed invocation computes
is what an earlier one wrote, and the manifest, which is a function of the
stores and the cells, stays the one that describes them (`ManifestIsFinal`).

The refinement maps opened attempts, calls, decided verdicts and, once there is
a manifest, all of them as published to `TrialRegister`.  Its visible steps are
the start of an attempt, the call, the two ways an attempt is closed (by its
invocation or by a recovery), and the manifest.  For `Open`, `AheadInv` says that
an attempt of the position does not exist yet and `BehindInv` that what is
before it in its cell has succeeded.  For `Close`, `CallInv` says that
the attempt under way is open and `RanInv` that a trial whose return is being
settled was called, so that a verdict that speaks of an answer has a call.  For `Publish`,
`StartedInv` says that a receipt is there exactly when its attempt is complete,
and that what an attempt waits for has succeeded, so that all receipts can be
published at once.

`TrialProofs` proves of `OpenCodeGateway`, for any number of threads, bodies, tools,
arguments and calls in a response, and every limit of calls, that `Spec` implies

| Theorem | Property |
|---|---|
| `SuccessAccounts` | `SuccessIsAccounted` |
| `AccountingClosesLast` | `ClosedIsQuiet` |
| `LookupsFollowTheProvider` | `LookupsAsAsked` |

*Assumptions.*  `GatewayAssumption`: conforming bodies are bodies, the limits
are naturals, the tools are finitely many, and `None` is no thread.

*Argument.*  `ServeInv`: whoever serves a POST has the lock.  `FlowInv` is a chain
of counts: delivered, measured, observed, sent, committed, accepted, each at most
the next, with the request under way in the gap it has come to.  The adapter
compares the two ends without the lock, at different times, so equality of the
ends means something only if they cannot move: `FinishInv` says that a told
answer is a final one, after which nothing is accepted, and the chain then
closes.  `Follows` relates the three sequences of a tool: the pending calls are
the end of what was asked for, and the calls made are embedded in what is before
it, in order.  It survives the rejection of a response that leaves earlier calls
pending.

It also proves of `ExamTrial`, for every set of trials with any adapters, tools
and limits, and any numbers of calls and mishaps, that `TrialSpec` implies

| Theorem | Property |
|---|---|
| `TrialsAreClean` | `AcceptedTrialsAreClean` |

*Assumptions.*  `TrialsAssumption`: a trial names one of the adapters, tools of the
condition and a positive limit of calls.  `TrialAssumption` and
`ModelsAssumption` type the constants and keep the models apart.

*Argument.*  An adapter accepts a trial on what its parser has been told, and
the property is about what the client did, through a proxy the adapter does not
watch.  `TrialInv` has an account for each way the two are apart.  `FetchInv`:
whatever went upstream belongs to a call of its own, the one under way
included, so that lookups are bounded by calls.  `ReportInv`: a session or a
model the client has used is known to the parser or still `due`, as far as the
adapter looks at all, and it differs from adapter to adapter what they look at.
`CountInv`: what each parser counts is the set of calls it was told of.
`ExitInv`: a client that has ended with 0 has told everything, so that `due` is
empty and the parser's account is the client's; only then is a trial judged.
`BrokerInv` is for the two HTTP adapters, which make the lookups themselves:
what is behind `next` has been made and nothing else has.  `AcceptInv` says that
the verdict stays true afterwards, because no lookup is under way; AGY's server
is a thread of the adapter and not of the client's group, so for it that is a
conjunct of its own.  The lemmas follow a
line of a stream from the client to the parser (`TakeType`, `LineReported` and
their neighbours), with one step per adapter where the adapters differ, and
`JudgedClean` and `InspectedClean` show of the two ways a trial is accepted that
it is clean.

`PairScheduleProofs` proves, for any number of repeats and of deaths, that
`Spec` implies

| Theorem | Property |
|---|---|
| `SuccessMeansWhole` | `SuccessIsWhole` |
| `ProvidersAreCalledFresh` | `CallsAreFresh` |
| `ScheduleKeepsRegister` | `ImplementsTrialRegister` |

*Assumptions.*  `PairAssumption`: there is a repeat.  `MarkAssumption`: the marks
are different from each other and from a verdict.

*Argument.*  `existing` is a snapshot of the evidence taken when the invocation
began; `WorkInv` says that from the current slot on it is still true, and what
of the current slot has become of it at each step.  It also says which sessions
have been compared (`Compared`: all, or all but the current slot's while a new
verdict has not been judged): they are different, and all in `seen`.  A call
happens where all have been compared, so `FreshIsClean` gives `CallsAreFresh`.
The slots before the current one are published, successes unless a failure is
remembered, which at the last slot is `SuccessIsWhole`.  The same facts map
every step to a step of `TrialRegister`: evidence opens and closes a slot, and
`WorkInv` says that a slot that is opened is fresh and that the receipt that is
published is that of its evidence.

`AdmissionProofs` proves of `SealedExperiment`, for every set of experiments,
whatever their suites, routes, caps and answers, any number of foreign
commitments and of untruthful probes, that `SealedSpec` implies

| Theorem | Property |
|---|---|
| `ReadinessIsSound` | `ReadinessIsTruthful` |
| `HonestProbesAreApproved` | `HonestProbesPass` |
| `SealedExperimentsAreScored` | `SealedIsScored` |
| `ExamScoresAreEarned` | `ExamsAreEarned`, a half of `ScoresAreEarned` |

*Assumptions.*  `PlanAssumption` and `AnswerAssumption` (section 2.8),
`ClaimsAssumption`, and `NoneIsNoNumber`: `None` is no number.  What
`PlanAssumption` says of `Cells` is what nested `FlattenSeq` and `SortSeq`
compute; that holds for every plan, but proving it is an induction over data,
so it is stated, and TLC evaluates it on every instance.

*Argument.*  `ReadinessIsTruthful` is about two readings, each torn: files
change while others are read.  That both saw the same does not yet say that
nothing changed in between, since a file could change and change back, or be
read before and after changes that cancel.  `ReadinessInv` says why it cannot.
Versions grow, except that a temporary is unlinked once its final record is
linked, and the two together grow (`Age`).  So a state that differs from what
was read first (`Disturbed`: a file has moved on, one is there that was not
read, or the ledger's rows are others) stays different whatever the execution
does (`DisturbedStays`), and the second listing, which is made after the
probes, contains what is different (`ListingNotices`) or its reading comes to
it (`Noticed`).  A probe that was made in another state therefore makes the
last comparison fail; and each file's first reading is of the state in which
the probes begin, or that state is `Disturbed` (`TornIsDisturbed`).

The ledger is read once before the probes and once after.  `LedgersAgree` and
`LedgerMovesOn` say the same of it: rows are added and settled, so that a
reading that is equal later was true in between; `LedgerGrows` and `OthersWrite`
show it of every step, and `LookingAgainKeeps` that a `stop.json` written
meanwhile is a failure.  `ApprovedIsCovered` and `CoverageIsRead` relate an
approved probe to what was left of cap and credit in the state that was read.

`HonestInv` relates each probe to the frozen numbers: what a cell reserves is
the charge that its probe must claim (`ChargeIsReserved`), the operator's
authorization covers it, because `Ready` compared it with the sum over the
route (`CellIsAuthorized`), and `RouteCapacity` bounds the output and lookups
of a segment by those of its route, so that every comparison of
`validate_claims` is passed by the truth (`HonestIsApproved`).  What is left, of
the cap and of the credit net of commitments, is that of the one reading the
check compares with, so that what covers a cell covered its probe.

`AnswersInv` follows the records of the cells: each is of the next segment, was
admitted, is backed by receipts the verifiers accept (`RecordIsBacked`), and
only the last of a cell may have failed, and a cell that the execution has left
is one whose receipts can be verified and whose answers can be put together
(`PastIsVerified`).  With the files that are there by then this is `Verified`,
so that scoring refuses nothing that was sealed.

For `ExamsAreEarned`, `ReportInv` says that a record is what the candidate says
to the segment's items or a fault (`Told`), that scoring runs only when the
execution is done, and that what it published is still what it would publish.
An exam has one segment per question (`ExamOfPlan`), so a usable record is the
answer to that question (`UsableIsSaid`), the reassembled cell is the answers
to the exam in order (`ExamIsReassembled`), and each question earns what its
answer deserves (`ItemIsScored`); the sum over the questions is the same sum
(`CellIsWorth`), for every repeat of a series (`SeriesIsWorth`) and for the
unsegmented runs that `core.py` would compare (`PairIsWorth`).  A fault leaves
fewer answers than the segment has items, and every segment has one
(`FaultFails`).

*Only model-checked*: `DocumentsAreEarned`, the other half of
`ScoresAreEarned`.  Documents are grouped with a fold, headings are left out and
missing answers skipped by selecting from a sequence, and a mean is the sum of a
function over the repeats; what these recursive definitions compute for every
input needs an induction over data, which none of the installed provers can
instantiate.  Liveness (`EventuallyDecided`, `EventuallySettled`, `Closes`,
`Returns`, `TrialsEnd`) needs fairness, which is beyond the prover too.


## 5. What is not modelled

*The native adapters' preparation*: provisioning of homes, credentials and
settings, neutral workspaces, the arguments of the command lines, and the
shapes of the client's catalogues.  They are checks of files in one order
before anything runs, with nothing concurrent; they raise, and a trial that
raises is there.  What they cannot see is a hazard all the same: a credential
the client renews in a temporary home is lost with it, and Cursor's global MCP
configuration is looked at once, before the start (`native_cursor.py:932`).

*The Codex controls and reference controls* write and compare receipts of one
release of one program.  *The batch API* of `opencode_batch.py` is polled in
one process and appears as one provider call.  *The verification of a
benchmark's files* (`benchmark_manifest.py:96-363`), importers, typography,
argument parsing, example probes and the scorer container are formatting,
hashing or I/O around one process.

In the modelled parts: permissions and ownership of files, symbolic links, JSON
shapes, digests (two documents are equal or not), usage numbers of clients,
wording.

Widths do not matter: amounts are Python integers, and SQLite columns hold 64
bits, far above the caps the validators admit.


## 6. Plan

1. *Done*: the modules of section 2 with their runs; the refinements of
   `SharedCap`, `AttemptLog` and `TrialRegister`; proofs of every safety property
   but `DocumentsAreEarned`.
2. `DocumentsAreEarned`, with a prover that can instantiate the induction
   theorems of the library; the facts of `Cells` in `PlanAssumption` would become
   lemmas with the same means.
3. `run_research` without a shared cap, with crashes; the batch API.
