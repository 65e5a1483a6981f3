----------------------------- MODULE PairSchedule -----------------------------
(***************************************************************************)
(* run_pair of scheduling.py: a schedule of repeats under both conditions, *)
(* one trial per slot, executed, killed and resumed.  The schedule lock    *)
(* admits one invocation at a time; what it knows is lost with it, what it *)
(* has written stays.                                                      *)
(*                                                                         *)
(* The verdict of an attempt stands for its result and its receipt.  A     *)
(* session is named by the first slot that could see it.                   *)
(***************************************************************************)
EXTENDS Naturals

CONSTANTS
    Repeats,     \* config["repeats"]
    MaxTroubles, \* bound: deaths, and exceptions that end an invocation
    None, Started, Partial

ASSUME PairAssumption == Repeats \in Nat \ {0} /\ MaxTroubles \in Nat

N == 2 * Repeats
Slots == 1..N
Verdict(status, session) == [status |-> status, session |-> session]
Verdicts == [status : {"ok", "candidate", "failed", "interrupted"}, session : Slots \cup {None}]

ASSUME MarkAssumption ==
    /\ None \notin Verdicts \cup {"ok"}
    /\ Started \notin Verdicts \cup {None}
    /\ Partial \notin Verdicts \cup {None, Started}

VARIABLES
    plan,      \* plan.json: "absent", "bare" (only its directory), "partial", "whole"
    evidence,  \* evidence store: None, Started, the verdict of a final receipt, or
               \* Partial: an attempt cut short, which verify rejects
    results, receipts, \* the two files of a slot: None, Partial or a verdict
    stop,      \* stop.json
    calls,     \* history: executions of a slot by a provider
    pc, at, existing, seen, failed, result, \* the generator's locals
    exit,      \* how the last invocation ended
    troubles

files == <<plan, results, receipts, stop>>
locals == <<at, existing, seen, failed, result>>
vars == <<files, evidence, calls, pc, locals, exit, troubles>>

Init ==
    /\ plan = "absent" /\ stop = None
    /\ evidence = [s \in Slots |-> None] /\ calls = [s \in Slots |-> 0]
    /\ results = [s \in Slots |-> None] /\ receipts = [s \in Slots |-> None]
    /\ pc = "idle" /\ at = 1 /\ existing = evidence /\ seen = {} /\ failed = FALSE
    /\ result = None
    /\ exit = None /\ troubles = 0

\* The generator ends, and its locals with it.
Leave(how) ==
    /\ pc' = "idle" /\ exit' = how
    /\ at' = 1 /\ existing' = [s \in Slots |-> None] /\ seen' = {} /\ failed' = FALSE
    /\ result' = None

-----------------------------------------------------------------------------
\* A new schedule: mkdir refuses a directory that is there.
Create ==
    /\ pc = "idle" /\ plan = "absent"
    /\ plan' = "bare" /\ pc' = "planning" /\ exit' = None
    /\ UNCHANGED <<results, receipts, stop, evidence, calls, locals, troubles>>

\* verify_all: one attempt it rejects ends the invocation.
Load ==
    IF \E s \in Slots : evidence[s] = Partial THEN Leave("raised")
    ELSE pc' = "loaded" /\ existing' = evidence /\ exit' = None /\ UNCHANGED <<at, seen, failed, result>>

WritePlan ==
    /\ pc = "planning"
    /\ plan' = "whole" /\ Load
    /\ UNCHANGED <<results, receipts, stop, evidence, calls, troubles>>

Resume ==
    /\ pc = "idle"
    /\ IF plan = "whole" THEN Load /\ UNCHANGED plan
       ELSE Leave("raised") /\ plan' = IF plan = "absent" THEN "bare" ELSE plan
    /\ UNCHANGED <<results, receipts, stop, evidence, calls, troubles>>

ReadStop ==
    /\ pc = "loaded" /\ stop # None
    /\ Leave(IF stop # Partial /\ existing[stop.attempt] = stop.receipt THEN "stopped" ELSE "raised")
    /\ UNCHANGED <<files, evidence, calls, troubles>>

-----------------------------------------------------------------------------
EligibleOk(v) == v \in Verdicts /\ v.status = "ok" \* mutant: candidate failures may share
Eligible(v) == v \in Verdicts /\ v.status \in {"ok", "candidate"}

Stale(v, sessions) == Eligible(v) /\ (v.session = None \/ v.session \in sessions)

Sessions(upTo) == {existing[s].session : s \in {t \in 1..upTo : Eligible(existing[t])}}

\* Every preserved result is validated before preflight and any new execution.
Validate ==
    /\ pc = "loaded" /\ stop = None
    /\ LET reused == {s \in Slots : Stale(existing[s], Sessions(s - 1))}
       IN IF reused # {}
          THEN /\ at' = CHOOSE s \in reused : \A t \in reused : s <= t
               /\ pc' = "stopping" /\ result' = existing[at']
               /\ UNCHANGED seen
          ELSE /\ pc' = IF \E s \in Slots : existing[s] = None THEN "preflight" ELSE "slot"
               /\ seen' = Sessions(N)
               /\ UNCHANGED <<at, result>>
    /\ UNCHANGED <<files, evidence, calls, existing, failed, exit, troubles>>

Preflight ==
    /\ pc = "preflight"
    /\ pc' = "slot"
    /\ UNCHANGED <<files, evidence, calls, locals, exit, troubles>>

WriteStop ==
    /\ pc = "stopping"
    /\ stop' = [attempt |-> at, receipt |-> result]
    /\ Leave("stopped")
    /\ UNCHANGED <<plan, results, receipts, evidence, calls, troubles>>

-----------------------------------------------------------------------------
Reuse ==
    /\ pc = "slot" /\ existing[at] \in Verdicts
    /\ pc' = "result" /\ result' = existing[at]
    /\ UNCHANGED <<files, evidence, calls, at, existing, seen, failed, exit, troubles>>

Interrupted == Verdict("interrupted", None)

InterruptNothing == \* mutant: an attempt that was started has no result, and is refused
    /\ pc = "slot" /\ existing[at] = Started
    /\ Leave("raised")
    /\ UNCHANGED <<files, evidence, calls, troubles>>

Interrupt ==
    /\ pc = "slot" /\ existing[at] = Started
    /\ evidence' = [evidence EXCEPT ![at] = Interrupted]
    /\ pc' = "result" /\ result' = Interrupted
    /\ UNCHANGED <<files, calls, at, existing, seen, failed, exit, troubles>>

\* execute_attempt: start, the trial, finalize
StartAgain == \* mutant: whatever has no verdict yet
    /\ pc = "slot" /\ existing[at] \notin Verdicts
    /\ evidence' = [evidence EXCEPT ![at] = Started]
    /\ pc' = "started"
    /\ UNCHANGED <<files, calls, locals, exit, troubles>>

Start ==
    /\ pc = "slot" /\ existing[at] = None /\ evidence[at] = None
    /\ evidence' = [evidence EXCEPT ![at] = Started]
    /\ pc' = "started"
    /\ UNCHANGED <<files, calls, locals, exit, troubles>>

Execute(v) ==
    /\ pc = "started"
    /\ calls' = [calls EXCEPT ![at] = @ + 1]
    /\ result' = v /\ pc' = "executed"
    /\ UNCHANGED <<files, evidence, at, existing, seen, failed, exit, troubles>>

Finalize ==
    /\ pc = "executed"
    /\ evidence' = [evidence EXCEPT ![at] = result]
    /\ pc' = "result"
    /\ UNCHANGED <<files, calls, locals, exit, troubles>>

-----------------------------------------------------------------------------
\* What is there must be what would be written.
Publish(file, next) ==
    IF file[at] \in {None, result}
    THEN file' = [file EXCEPT ![at] = result] /\ pc' = next /\ UNCHANGED <<locals, exit>>
    ELSE Leave("raised") /\ UNCHANGED file

WriteResult ==
    /\ pc = "result"
    /\ Publish(results, "receipt")
    /\ UNCHANGED <<plan, receipts, stop, evidence, calls, troubles>>

WriteReceipt ==
    /\ pc = "receipt"
    /\ Publish(receipts, "judge")
    /\ UNCHANGED <<plan, results, stop, evidence, calls, troubles>>

New == existing[at] = None

FailedNew(v) == New /\ v.status # "ok" \* mutant: failures of earlier invocations do not count
FailedNow(v) == v.status # "ok"

Last == at = N

Reused ==
    /\ pc = "judge" /\ New /\ Stale(result, seen)
    /\ pc' = "stopping"
    /\ UNCHANGED <<files, evidence, calls, locals, exit, troubles>>

\* A new failure that is not the candidate's ends the invocation, not the schedule.
Failed ==
    /\ pc = "judge" /\ New /\ ~Eligible(result)
    /\ Leave("failed")
    /\ UNCHANGED <<files, evidence, calls, troubles>>

Continue ==
    /\ pc = "judge" /\ (New => Eligible(result) /\ ~Stale(result, seen))
    /\ IF Last THEN Leave(IF failed \/ FailedNow(result) THEN "failed" ELSE "ok")
       ELSE /\ failed' = (failed \/ FailedNow(result))
            /\ seen' = IF New THEN seen \cup {result.session} ELSE seen
            /\ pc' = "slot" /\ at' = at + 1 /\ result' = None
            /\ UNCHANGED <<existing, exit>>
    /\ UNCHANGED <<files, evidence, calls, troubles>>
-----------------------------------------------------------------------------
\* The attempt whose directory, log or final record is being written: start,
\* append and finalize are several file-system calls each (EvidenceStore).
Writing == \/ pc = "slot" /\ existing[at] \in {None, Started}
           \/ pc \in {"started", "executed"}

\* The process dies, or an exception (of preflight, of storage) ends the
\* generator, and what it was writing may stay behind, created and incomplete.
Trouble ==
    /\ pc # "idle" /\ troubles < MaxTroubles
    /\ troubles' = troubles + 1
    /\ Leave("raised")
    /\ \/ UNCHANGED <<files, evidence>>
       \/ Writing /\ evidence' = [evidence EXCEPT ![at] = Partial] /\ UNCHANGED files
       \/ pc = "planning" /\ plan' = "partial" /\ UNCHANGED <<results, receipts, stop, evidence>>
       \/ /\ pc = "result" /\ results[at] = None
          /\ results' = [results EXCEPT ![at] = Partial] /\ UNCHANGED <<plan, receipts, stop, evidence>>
       \/ /\ pc = "receipt" /\ receipts[at] = None
          /\ receipts' = [receipts EXCEPT ![at] = Partial] /\ UNCHANGED <<plan, results, stop, evidence>>
       \/ pc = "stopping" /\ stop' = Partial /\ UNCHANGED <<plan, results, receipts, evidence>>
    /\ UNCHANGED calls

\* What run_exam may return for slot s.  An answer may come without a session;
\* a failure of the candidate shows one, or is a generic failure.
Outcomes(s) ==
    {Verdict("failed", None), Verdict("ok", None)}
    \cup {Verdict(status, session) : status \in {"ok", "candidate"}, session \in 1..s}

Step ==
    \/ Create \/ WritePlan \/ Resume \/ ReadStop \/ Validate \/ Preflight \/ WriteStop
    \/ Reuse \/ Interrupt \/ Start \/ (\E v \in Outcomes(at) : Execute(v)) \/ Finalize
    \/ WriteResult \/ WriteReceipt \/ Reused \/ Failed \/ Continue

Next == Step \/ Trouble

Spec == Init /\ [][Next]_vars

\* One process runs, its calls have deadlines, and the operator resumes a
\* schedule that is not settled.
FairSpec == Spec /\ WF_vars(Step)

-----------------------------------------------------------------------------
\* The slots whose verdict shows no session, or one of an earlier slot
Violating ==
    LET counts(s) == evidence[s] \in Verdicts /\ evidence[s].status \in {"ok", "candidate"}
    IN {s \in Slots : /\ counts(s)
                      /\ \/ evidence[s].session = None
                         \/ \E t \in 1..s - 1 : counts(t) /\ evidence[t].session = evidence[s].session}

\* A provider is called for a slot at most once in the life of the schedule,
\* after every earlier slot has its verdict, and never once the evidence shows
\* a missing or reused session, whatever died before stop.json was written.
CallsAreFresh ==
    [][\A s \in Slots : calls'[s] # calls[s] =>
          /\ calls[s] = 0 /\ evidence[s] = Started
          /\ \A t \in 1..s - 1 : evidence[t] \in Verdicts
          /\ Violating = {}]_vars

\* An invocation says success only of a whole schedule: every slot, those of
\* earlier invocations included, is a published success in a session of its own
\* (docs/running.md: "a failure retained from an earlier invocation" counts).
SuccessIsWhole ==
    exit = "ok" => /\ \A s \in Slots : /\ evidence[s] \in Verdicts /\ evidence[s].status = "ok"
                                     /\ receipts[s] = evidence[s]
                   /\ Violating = {} /\ stop = None

\* The schedule keeps a register of its slots: each waits for all before it,
\* whatever their verdicts, and only a trial that was executed is closed with
\* anything but an interruption; its receipt is published once, in order.
Register == INSTANCE TrialRegister WITH
    Trials <- Slots, Waits <- [s \in Slots |-> 1..s - 1],
    Passing <- Verdicts, Uncalled <- {v \in Verdicts : v.status = "interrupted"},
    opened <- {s \in Slots : evidence[s] # None},
    verdict <- [s \in Slots |-> IF evidence[s] \in Verdicts THEN evidence[s] ELSE None],
    published <- [s \in Slots |-> IF receipts[s] \in Verdicts THEN receipts[s] ELSE None]
ImplementsTrialRegister == Register!Spec

\* A schedule that is resumed is settled: stopped for good, or every slot is
\* published.  What no resume repairs is what a death or a failing call left
\* incomplete: the directory without its plan, the plan, a result, a receipt,
\* stop.json, and an attempt that verify rejects (a directory without its log,
\* a torn line, a final record cut short).
Settled ==
    \/ stop \notin {None, Partial}
    \/ \A s \in Slots : receipts[s] \in Verdicts
DeadEnd ==
    \/ pc = "idle" /\ plan \in {"bare", "partial"}
    \/ stop = Partial \/ \E s \in Slots : Partial \in {results[s], receipts[s], evidence[s]}
EventuallySettled == <>[](Settled \/ DeadEnd)
=============================================================================
