-------------------------- MODULE PairScheduleProofs --------------------------
(***************************************************************************)
(* Theorems about run_pair, for any number of repeats, deaths and resumed  *)
(* invocations: a provider is called for a slot once and never after a     *)
(* session was reused, success is only said of a whole schedule, and the   *)
(* schedule keeps the abstract register of its trials.                     *)
(***************************************************************************)
EXTENDS PairSchedule, TLAPS

USE PairAssumption, MarkAssumption

Cell == {None, Started} \cup Verdicts
Attempt == Cell \cup {Partial}

PairType ==
    /\ evidence \in [Slots -> Attempt] /\ existing \in [Slots -> Cell]
    /\ receipts \in [Slots -> {None, Partial} \cup Verdicts] /\ calls \in [Slots -> Nat]
    /\ failed \in BOOLEAN

Before == {"idle", "planning", "loaded", "preflight"}
Judged == {"result", "receipt", "judge"}
Working == {"slot", "started", "executed"} \cup Judged

\* Before the first slot, what is known is what is there.
SnapshotInv ==
    /\ pc \in Before => at = 1 /\ ~failed
    /\ pc \in {"loaded", "preflight"} => existing = evidence
    /\ pc \in {"preflight"} \cup Working => stop = None

\* The verdicts in slots S show sessions, all different, which are seen.
Fresh(S) ==
    \A s \in S : Eligible(evidence[s]) =>
        /\ evidence[s].session # None /\ evidence[s].session \in seen
        /\ \A t \in S \ {s} : Eligible(evidence[t]) => evidence[t].session # evidence[s].session

\* The slots whose verdict has been compared with the others
Compared == IF pc \in Judged /\ New THEN Slots \ {at} ELSE Slots

\* The slots before this one are published; those after it are as they were
\* loaded; this one has got as far as the generator has.
WorkInv ==
    /\ pc \in {"preflight"} \cup Working => Fresh(Compared)
    /\ pc \in Working =>
          /\ at \in Slots
          /\ \A s \in 1..at - 1 : /\ evidence[s] \in Verdicts /\ receipts[s] = evidence[s]
                                  /\ failed \/ evidence[s].status = "ok"
          /\ \A s \in Slots : s > at => existing[s] = evidence[s]
    /\ pc = "slot" => existing[at] = evidence[at]
    /\ pc \in {"started", "executed"} => existing[at] = None /\ evidence[at] = Started
    /\ pc = "started" => calls[at] = 0
    /\ pc = "executed" => calls[at] # 0
    /\ pc \in {"executed"} \cup Judged => result \in Verdicts
    /\ pc \in Judged => evidence[at] = result
    /\ pc = "judge" => receipts[at] = result

\* A slot without evidence was never called for.
CallInv == \A s \in Slots : evidence[s] = None => calls[s] = 0

Whole ==
    /\ \A s \in Slots : evidence[s] \in Verdicts /\ evidence[s].status = "ok" /\ receipts[s] = evidence[s]
    /\ Violating = {} /\ stop = None
SuccessInv == exit = "ok" => pc = "idle" /\ Whole

PairInv == PairType /\ SnapshotInv /\ WorkInv /\ CallInv /\ SuccessInv

-----------------------------------------------------------------------------
LEMMA SlotNumbers ==
    /\ N \in Nat /\ N > 0 /\ Slots \subseteq Nat /\ 1 \in Slots /\ N \in Slots
    /\ \A s \in Slots : s \in Nat /\ 1 <= s /\ s <= N
    /\ \A s \in Nat : 1 <= s /\ s <= N => s \in Slots
    /\ \A s \in Slots : s # N => s + 1 \in Slots
  BY DEF PairAssumption, N, Slots

\* Different sessions everywhere are no violation.
LEMMA FreshIsClean == ASSUME Fresh(Slots) PROVE Violating = {}
<1> SUFFICES ASSUME NEW s \in Slots, Eligible(evidence[s]),
                    evidence[s].session = None \/
                    \E t \in 1..s - 1 : Eligible(evidence[t]) /\ evidence[t].session = evidence[s].session
             PROVE  FALSE
  BY DEF Violating, Eligible
<1>1. evidence[s].session # None
  BY DEF Fresh
<1>2. PICK t \in 1..s - 1 : Eligible(evidence[t]) /\ evidence[t].session = evidence[s].session
  BY <1>1
<1>3. t \in Slots \ {s}
  BY SlotNumbers
<1> QED
  BY <1>2, <1>3 DEF Fresh

LEMMA PairBegins == Init => PairInv
<1> SUFFICES ASSUME Init PROVE PairInv
  OBVIOUS
<1>1. PairType
  BY DEF Init, PairType, Cell, Attempt
<1>2. SnapshotInv /\ WorkInv /\ CallInv
  BY DEF Init, SnapshotInv, WorkInv, CallInv, Before, Working, Judged
<1>3. SuccessInv
  BY DEF Init, SuccessInv, MarkAssumption
<1> QED
  BY <1>1, <1>2, <1>3 DEF PairInv

\* When the generator ends without success, nothing is left to hold of it.
LEMMA LeaveKeeps ==
    ASSUME PairInv, NEW how, how # "ok", Leave(how), UNCHANGED calls,
           evidence' = evidence \/ evidence' = [evidence EXCEPT ![at] = Partial],
           receipts' \in [Slots -> {None, Partial} \cup Verdicts]
    PROVE  PairInv'
<1>1. PairType'
  BY DEF PairInv, PairType, Leave, Cell, Attempt
<1>2. SnapshotInv' /\ WorkInv'
  BY DEF Leave, SnapshotInv, WorkInv, Before, Working, Judged
<1>3. CallInv'
  BY DEF PairInv, PairType, CallInv, MarkAssumption
<1>4. SuccessInv'
  BY DEF SuccessInv, Leave
<1> QED
  BY <1>1, <1>2, <1>3, <1>4 DEF PairInv

\* What is loaded is what is there, and none of it cut short.
LEMMA LoadKeeps ==
    ASSUME PairInv, pc \in {"idle", "planning"}, Load, UNCHANGED <<results, receipts, stop, evidence, calls>>
    PROVE  PairInv'
<1>0. PairType /\ SnapshotInv /\ CallInv
  BY DEF PairInv
<1>1. CASE Leave("raised")
  BY <1>0, <1>1, LeaveKeeps DEF PairType
<1>2. CASE /\ \A s \in Slots : evidence[s] # Partial
           /\ pc' = "loaded" /\ existing' = evidence /\ exit' = None
           /\ UNCHANGED <<at, seen, failed, result>>
  <2>1. existing' \in [Slots -> Cell]
    BY <1>0, <1>2 DEF PairType, Attempt
  <2>2. PairType'
    BY <1>0, <1>2, <2>1 DEF PairType
  <2> QED
    BY <1>0, <1>2, <2>2 DEF PairInv, SnapshotInv, WorkInv, CallInv, SuccessInv, Before, Working, Judged, MarkAssumption
<1> QED
  BY <1>1, <1>2 DEF Load

\* The steps that come before the first slot.
LEMMA LoadingSteps ==
    ASSUME PairInv, Create \/ WritePlan \/ Resume \/ ReadStop \/ Validate \/ Preflight \/ WriteStop
    PROVE  PairInv'
<1> USE DEF files, locals
<1>0. PairType /\ SnapshotInv /\ WorkInv /\ CallInv /\ SuccessInv
  BY DEF PairInv
<1>1. CASE Create
  BY <1>0, <1>1 DEF Create, PairInv, PairType, SnapshotInv, WorkInv, CallInv, SuccessInv, Before, Working, Judged, MarkAssumption
<1>2. CASE WritePlan
  BY <1>2, LoadKeeps DEF WritePlan
<1>3. CASE Resume
  <2>1. CASE plan = "whole"
    BY <1>3, <2>1, LoadKeeps DEF Resume
  <2>2. CASE plan # "whole"
    BY <1>0, <1>3, <2>2, LeaveKeeps DEF Resume, PairType
  <2> QED
    BY <2>1, <2>2
<1>4. CASE ReadStop
  <2>1. Leave("stopped") \/ Leave("raised")
    BY <1>4 DEF ReadStop
  <2> QED
    BY <1>0, <1>4, <2>1, LeaveKeeps DEF ReadStop, PairType
<1>5. CASE WriteStop
  BY <1>0, <1>5, LeaveKeeps DEF WriteStop, PairType
<1>6. CASE Preflight
  <2>1. /\ pc = "preflight" /\ pc' = "slot" /\ at = 1 /\ ~failed /\ stop = None /\ existing = evidence /\ Fresh(Compared)
        /\ UNCHANGED <<files, evidence, calls, locals, exit>>
    BY <1>0, <1>6 DEF Preflight, SnapshotInv, WorkInv, Before
  <2>2. Fresh(Slots)'
    BY <2>1 DEF Compared, Fresh, Judged
  <2>3. WorkInv'
    BY <2>1, <2>2, SlotNumbers DEF WorkInv, Compared, Working, Judged
  <2> QED
    BY <1>0, <2>1, <2>3 DEF PairInv, PairType, SnapshotInv, CallInv, SuccessInv, Before, Working, Judged
<1>7. CASE Validate
  <2> DEFINE reused == {s \in Slots : Stale(existing[s], Sessions(s - 1))}
  <2>0. /\ pc = "loaded" /\ stop = None /\ at = 1 /\ ~failed /\ existing = evidence
        /\ UNCHANGED <<files, evidence, calls, existing, failed, exit>>
    BY <1>0, <1>7 DEF Validate, SnapshotInv, Before
  <2>1. CASE pc' = "stopping"
    BY <1>0, <2>0, <2>1 DEF PairInv, PairType, SnapshotInv, WorkInv, CallInv, SuccessInv, Before, Working, Judged
  <2>2. CASE reused = {} /\ pc' \in {"preflight", "slot"} /\ seen' = Sessions(N) /\ at' = at
    <3>1. \A s \in Slots : Eligible(evidence[s]) =>
             evidence[s].session # None /\ evidence[s].session \notin Sessions(s - 1)
      BY <2>0, <2>2 DEF Stale
    <3>2. \A s \in Slots : Eligible(evidence[s]) => evidence[s].session \in Sessions(N)
      BY <2>0, SlotNumbers DEF Sessions, Slots
    <3>3. ASSUME NEW s \in Slots, NEW t \in Slots, t < s, Eligible(evidence[s]), Eligible(evidence[t])
          PROVE  evidence[t].session # evidence[s].session
      <4>1. t \in 1..s - 1
        BY <3>3, SlotNumbers
      <4>2. evidence[t].session \in Sessions(s - 1)
        BY <2>0, <3>3, <4>1 DEF Sessions
      <4> QED
        BY <3>1, <3>3, <4>2
    <3>4. Fresh(Slots)'
      <4> SUFFICES ASSUME NEW s \in Slots, Eligible(evidence[s])
                   PROVE  /\ evidence[s].session # None /\ evidence[s].session \in Sessions(N)
                          /\ \A t \in Slots \ {s} : Eligible(evidence[t]) => evidence[t].session # evidence[s].session
        BY <2>0, <2>2 DEF Fresh, Eligible
      <4>1. \A t \in Slots \ {s} : t < s \/ s < t
        BY SlotNumbers
      <4> QED
        BY <3>1, <3>2, <3>3, <4>1
    <3>5. WorkInv'
      BY <2>0, <2>2, <3>4, SlotNumbers DEF WorkInv, Compared, Working, Judged
    <3> QED
      BY <1>0, <2>0, <2>2, <3>5 DEF PairInv, PairType, SnapshotInv, CallInv, SuccessInv, Before, Working, Judged
  <2> QED
    BY <1>7, <2>1, <2>2 DEF Validate
<1> QED
  BY <1>1, <1>2, <1>3, <1>4, <1>5, <1>6, <1>7

\* What holds for a slot as soon as it holds for its evidence.
LEMMA SlotFacts ==
    ASSUME PairInv, pc \in Working
    PROVE  /\ at \in Slots /\ stop = None /\ Fresh(Compared)
           /\ evidence[at] \in Cell /\ existing[at] \in Cell
           /\ \A s \in 1..at - 1 : s \in Slots /\ s # at
           /\ \A s \in 1..at - 1 : /\ evidence[s] \in Verdicts /\ receipts[s] = evidence[s]
                                   /\ failed \/ evidence[s].status = "ok"
           /\ \A s \in Slots : s > at => existing[s] = evidence[s] /\ s # at
           /\ exit # "ok"
<1>1. pc \in {"preflight"} \cup Working /\ pc # "idle"
  BY DEF Working, Judged
<1>2. at \in Slots /\ stop = None /\ exit # "ok"
  BY <1>1 DEF PairInv, PairType, SnapshotInv, WorkInv, SuccessInv
<1>3. Fresh(Compared)
  BY <1>1 DEF PairInv, WorkInv
<1>4. evidence[at] \in Cell /\ existing[at] \in Cell
  BY <1>2 DEF PairInv, PairType, WorkInv, Working, Judged, Cell
<1>5. /\ \A s \in 1..at - 1 : /\ evidence[s] \in Verdicts /\ receipts[s] = evidence[s]
                              /\ failed \/ evidence[s].status = "ok"
      /\ \A s \in Slots : s > at => existing[s] = evidence[s]
  BY DEF PairInv, WorkInv
<1>6. /\ \A s \in 1..at - 1 : s \in Slots /\ s # at
      /\ \A s \in Slots : s > at => s # at
  BY <1>2, SlotNumbers
<1> QED
  BY <1>2, <1>3, <1>4, <1>5, <1>6

\* A slot gets its verdict: reused, interrupted or executed.
LEMMA ExecutionSteps ==
    ASSUME PairInv, Reuse \/ Interrupt \/ Start \/ (\E v \in Outcomes(at) : Execute(v)) \/ Finalize
    PROVE  PairInv'
<1> USE DEF files, locals
<1>0. /\ PairType /\ SnapshotInv /\ WorkInv /\ CallInv /\ SuccessInv
      /\ pc \in {"slot", "started", "executed"} /\ pc \in Working
  BY DEF PairInv, Reuse, Interrupt, Start, Execute, Finalize, Working
<1>1. /\ at \in Slots /\ stop = None /\ exit # "ok" /\ Fresh(Slots)
      /\ evidence[at] \in Cell /\ existing[at] \in Cell
      /\ \A s \in 1..at - 1 : s \in Slots /\ s # at
      /\ \A s \in 1..at - 1 : /\ evidence[s] \in Verdicts /\ receipts[s] = evidence[s]
                              /\ failed \/ evidence[s].status = "ok"
      /\ \A s \in Slots : s > at => existing[s] = evidence[s] /\ s # at
  BY <1>0, SlotFacts DEF Compared, Judged
<1>2. /\ UNCHANGED <<plan, results, receipts, stop, at, existing, seen, failed, exit>>
      /\ \A s \in Slots : s # at => evidence'[s] = evidence[s] /\ calls'[s] = calls[s]
      /\ evidence' \in [Slots -> Attempt] => PairType'
      /\ pc' \in Working
  <2>1. /\ UNCHANGED <<plan, results, receipts, stop, at, existing, seen, failed, exit>>
        /\ evidence' = evidence \/ \E v : evidence' = [evidence EXCEPT ![at] = v]
        /\ calls' = calls \/ calls' = [calls EXCEPT ![at] = @ + 1]
        /\ pc' \in Working
    BY DEF Reuse, Interrupt, Start, Execute, Finalize, Working, Judged
  <2>2. calls' \in [Slots -> Nat]
    BY <1>0, <1>1, <2>1 DEF PairType
  <2> QED
    BY <1>0, <2>1, <2>2 DEF PairType
<1>3. ASSUME evidence'[at] = evidence[at] \/ ~Eligible(evidence'[at]) PROVE Fresh(Slots)'
  <2>1. \A s \in Slots : Eligible(evidence'[s]) => evidence'[s] = evidence[s]
    BY <1>2, <1>3
  <2> QED
    BY <1>1, <1>2, <2>1 DEF Fresh, Eligible
<1>4. Fresh(Slots \ {at})'
  <2>1. \A s \in Slots \ {at} : evidence'[s] = evidence[s]
    BY <1>2
  <2> QED
    BY <1>1, <1>2, <2>1 DEF Fresh, Eligible
<1>5. /\ at' \in Slots /\ exit' # "ok" /\ stop' = None
      /\ \A s \in 1..at' - 1 : /\ evidence'[s] \in Verdicts /\ receipts'[s] = evidence'[s]
                               /\ failed' \/ evidence'[s].status = "ok"
      /\ \A s \in Slots : s > at' => existing'[s] = evidence'[s]
  BY <1>1, <1>2
<1>6. CASE Reuse
  <2>1. /\ pc' = "result" /\ evidence' = evidence /\ calls' = calls
        /\ result' \in Verdicts /\ evidence'[at] = result' /\ existing'[at] # None
    BY <1>0, <1>6 DEF Reuse, WorkInv, MarkAssumption
  <2>2. Fresh(Slots)'
    BY <1>3, <2>1
  <2>3. WorkInv'
    BY <1>2, <1>5, <2>1, <2>2 DEF WorkInv, Compared, New, Working, Judged
  <2> QED
    BY <1>0, <1>2, <1>5, <2>1, <2>3 DEF PairInv, PairType, SnapshotInv, CallInv, SuccessInv, Before, Working
<1>7. CASE Interrupt
  <2>1. Interrupted \in Verdicts /\ ~Eligible(Interrupted)
    BY DEF Interrupted, Verdict, Verdicts, Eligible
  <2>2. /\ pc' = "result" /\ evidence' = [evidence EXCEPT ![at] = Interrupted] /\ calls' = calls
        /\ result' = Interrupted /\ evidence'[at] = Interrupted /\ evidence[at] # None
    BY <1>0, <1>1, <1>7 DEF Interrupt, WorkInv, PairType, MarkAssumption
  <2>3. Fresh(Slots)'
    BY <1>3, <2>1, <2>2
  <2>4. WorkInv'
    BY <1>2, <1>4, <1>5, <2>1, <2>2, <2>3 DEF WorkInv, Compared, Working, Judged
  <2>5. evidence' \in [Slots -> Attempt]
    BY <1>0, <2>1, <2>2 DEF PairType, Cell, Attempt
  <2>6. CallInv'
    BY <1>0, <1>2, <2>1, <2>2 DEF CallInv, MarkAssumption
  <2> QED
    BY <1>0, <1>2, <1>5, <2>2, <2>4, <2>5, <2>6 DEF PairInv, SnapshotInv, SuccessInv, Before, Working
<1>8. CASE Start
  <2>1. /\ pc' = "started" /\ existing[at] = None /\ evidence[at] = None /\ calls[at] = 0
        /\ evidence' = [evidence EXCEPT ![at] = Started] /\ evidence'[at] = Started /\ calls' = calls
    BY <1>0, <1>1, <1>8 DEF Start, CallInv, PairType
  <2>2. Fresh(Slots)'
    BY <1>3, <2>1 DEF Eligible, MarkAssumption
  <2>3. WorkInv'
    BY <1>2, <1>5, <2>1, <2>2 DEF WorkInv, Compared, Working, Judged
  <2>4. evidence' \in [Slots -> Attempt]
    BY <1>0, <2>1 DEF PairType, Cell, Attempt
  <2>5. CallInv'
    BY <1>0, <1>2, <2>1 DEF CallInv
  <2> QED
    BY <1>0, <1>2, <1>5, <2>1, <2>3, <2>4, <2>5 DEF PairInv, SnapshotInv, SuccessInv, Before, Working
<1>9. ASSUME NEW v \in Outcomes(at), Execute(v) PROVE PairInv'
  <2>1. v \in Verdicts
    BY <1>1, SlotNumbers DEF Outcomes, Verdict, Verdicts
  <2>2. /\ pc' = "executed" /\ existing[at] = None /\ evidence[at] = Started /\ evidence' = evidence /\ result' = v
        /\ calls'[at] # 0
    BY <1>0, <1>1, <1>9 DEF Execute, WorkInv, PairType
  <2>3. Fresh(Slots)'
    BY <1>3, <2>2
  <2>4. WorkInv'
    BY <1>2, <1>5, <2>1, <2>2, <2>3 DEF WorkInv, Compared, Working, Judged
  <2>5. CallInv'
    BY <1>0, <1>2, <2>2 DEF CallInv, MarkAssumption
  <2> QED
    BY <1>0, <1>2, <1>5, <2>2, <2>4, <2>5 DEF PairInv, PairType, SnapshotInv, SuccessInv, Before, Working
<1>10. CASE Finalize
  <2>1. /\ pc' = "result" /\ existing'[at] = None /\ result \in Verdicts /\ result' = result
        /\ evidence' = [evidence EXCEPT ![at] = result] /\ evidence'[at] = result /\ calls' = calls
    BY <1>0, <1>1, <1>2, <1>10 DEF Finalize, WorkInv, PairType
  <2>2. WorkInv'
    BY <1>2, <1>4, <1>5, <2>1 DEF WorkInv, Compared, New, Working, Judged
  <2>3. evidence' \in [Slots -> Attempt]
    BY <1>0, <2>1 DEF PairType, Cell, Attempt
  <2>4. CallInv'
    BY <1>0, <1>2, <2>1 DEF CallInv, MarkAssumption
  <2> QED
    BY <1>0, <1>2, <1>5, <2>1, <2>2, <2>3, <2>4 DEF PairInv, SnapshotInv, SuccessInv, Before, Working
<1> QED
  BY <1>6, <1>7, <1>8, <1>9, <1>10

\* A slot is published and judged, or the invocation ends.
LEMMA PublishingSteps ==
    ASSUME PairInv, WriteResult \/ WriteReceipt \/ Reused \/ Failed \/ Continue
    PROVE  PairInv'
<1> USE DEF files, locals
<1>0. /\ PairType /\ SnapshotInv /\ WorkInv /\ CallInv /\ SuccessInv
      /\ pc \in Judged /\ pc \in Working
  BY DEF PairInv, WriteResult, WriteReceipt, Reused, Failed, Continue, Working, Judged
<1>1. /\ at \in Slots /\ stop = None /\ exit # "ok" /\ Fresh(Compared)
      /\ \A s \in 1..at - 1 : s \in Slots /\ s # at
      /\ \A s \in 1..at - 1 : /\ evidence[s] \in Verdicts /\ receipts[s] = evidence[s]
                              /\ failed \/ evidence[s].status = "ok"
      /\ \A s \in Slots : s > at => existing[s] = evidence[s] /\ s # at
  BY <1>0, SlotFacts
<1>2. result \in Verdicts /\ evidence[at] = result
  BY <1>0 DEF WorkInv
<1>3. CASE WriteResult
  <2>1. CASE Leave("raised")
    BY <1>0, <1>3, <2>1, LeaveKeeps DEF WriteResult, PairType
  <2>2. CASE pc' = "receipt" /\ UNCHANGED <<receipts, locals, exit>>
    <3>1. UNCHANGED <<evidence, stop, calls>>
      BY <1>3 DEF WriteResult
    <3>2. Fresh(Compared)'
      BY <1>0, <1>1, <2>2, <3>1 DEF Fresh, Compared, New, Judged
    <3>3. WorkInv'
      BY <1>1, <1>2, <2>2, <3>1, <3>2 DEF WorkInv, Working, Judged
    <3> QED
      BY <1>0, <1>1, <2>2, <3>1, <3>3 DEF PairInv, PairType, SnapshotInv, CallInv, SuccessInv, Before, Working
  <2> QED
    BY <1>3, <2>1, <2>2 DEF WriteResult, Publish
<1>4. CASE WriteReceipt
  <2>1. CASE Leave("raised") /\ receipts' = receipts
    BY <1>0, <1>4, <2>1, LeaveKeeps DEF WriteReceipt, PairType
  <2>2. CASE pc' = "judge" /\ receipts' = [receipts EXCEPT ![at] = result] /\ UNCHANGED <<locals, exit>>
    <3>1. UNCHANGED <<evidence, stop, calls>>
      BY <1>4 DEF WriteReceipt
    <3>2. Fresh(Compared)'
      BY <1>0, <1>1, <2>2, <3>1 DEF Fresh, Compared, New, Judged
    <3>3. receipts'[at] = result /\ \A s \in Slots : s # at => receipts'[s] = receipts[s]
      BY <1>0, <1>1, <2>2 DEF PairType
    <3>4. WorkInv'
      BY <1>1, <1>2, <2>2, <3>1, <3>2, <3>3 DEF WorkInv, Working, Judged
    <3>5. receipts' \in [Slots -> {None, Partial} \cup Verdicts]
      BY <1>0, <1>2, <2>2 DEF PairType
    <3> QED
      BY <1>0, <1>1, <2>2, <3>1, <3>4, <3>5 DEF PairInv, PairType, SnapshotInv, CallInv, SuccessInv, Before, Working
  <2> QED
    BY <1>4, <2>1, <2>2 DEF WriteReceipt, Publish
<1>5. CASE Reused
  BY <1>0, <1>5 DEF Reused, PairInv, PairType, SnapshotInv, WorkInv, CallInv, SuccessInv, Before, Working, Judged
<1>6. CASE Failed
  BY <1>0, <1>6, LeaveKeeps DEF Failed, PairType
<1>7. CASE Continue
  <2>1. /\ pc = "judge" /\ receipts[at] = result
        /\ New => Eligible(result) /\ result.session # None /\ result.session \notin seen
        /\ UNCHANGED <<files, evidence, calls>>
    BY <1>0, <1>7 DEF Continue, WorkInv, Stale
  <2>3. \A s \in 1..at : /\ evidence[s] \in Verdicts /\ receipts[s] = evidence[s]
                         /\ failed \/ FailedNow(result) \/ evidence[s].status = "ok"
    <3>1. \A s \in 1..at : s = at \/ s \in 1..at - 1
      BY <1>1, SlotNumbers
    <3> QED
      BY <1>1, <1>2, <2>1, <3>1 DEF FailedNow
  <2>4. \A s \in Slots : Eligible(evidence[s]) =>
           /\ evidence[s].session # None
           /\ \A t \in Slots \ {s} : Eligible(evidence[t]) => evidence[t].session # evidence[s].session
    <3>1. CASE ~New
      BY <1>1, <3>1 DEF Compared, Fresh
    <3>2. CASE New
      <4>1. Fresh(Slots \ {at})
        BY <1>0, <1>1, <3>2 DEF Compared
      <4> QED
        BY <1>1, <1>2, <2>1, <3>2, <4>1 DEF Fresh
    <3> QED
      BY <3>1, <3>2
  <2>5. \A s \in Slots : Eligible(evidence[s]) =>
           evidence[s].session \in (IF New THEN seen \cup {result.session} ELSE seen)
    <3>1. CASE ~New
      BY <1>1, <3>1 DEF Compared, Fresh
    <3>2. CASE New
      <4>1. Fresh(Slots \ {at})
        BY <1>0, <1>1, <3>2 DEF Compared
      <4> QED
        BY <1>1, <1>2, <3>2, <4>1 DEF Fresh
    <3> QED
      BY <3>1, <3>2
  <2>6. CASE ~Last
    <3>1. /\ (failed' <=> failed \/ FailedNow(result)) /\ failed' \in BOOLEAN
          /\ seen' = (IF New THEN seen \cup {result.session} ELSE seen)
          /\ pc' = "slot" /\ at' = at + 1 /\ UNCHANGED <<existing, exit>>
      BY <1>0, <1>7, <2>6 DEF Continue, PairType
    <3>2. Fresh(Slots)'
      BY <2>1, <2>4, <2>5, <3>1 DEF Fresh, Eligible
    <3>3. at' \in Slots /\ at' - 1 = at /\ at' > at
      BY <1>1, <2>6, <3>1, SlotNumbers DEF Last
    <3>4. \A s \in Slots : s > at' => s > at
      BY <1>1, <3>1, SlotNumbers
    <3>5. WorkInv'
      BY <1>1, <2>1, <2>3, <3>1, <3>2, <3>3, <3>4 DEF WorkInv, Compared, Working, Judged
    <3> QED
      BY <1>0, <1>1, <2>1, <3>1, <3>5 DEF PairInv, PairType, SnapshotInv, CallInv, SuccessInv, Before, Working, Judged
  <2>7. CASE Last
    <3>1. CASE failed \/ FailedNow(result)
      BY <1>0, <1>7, <2>7, <3>1, LeaveKeeps DEF Continue, PairType
    <3>2. CASE ~(failed \/ FailedNow(result))
      <4>1. \A s \in Slots : evidence[s] \in Verdicts /\ evidence[s].status = "ok" /\ receipts[s] = evidence[s]
        BY <1>1, <2>3, <2>7, <3>2, SlotNumbers DEF Last, Slots
      <4>2. Violating = {}
        <5>1. \A s \in Slots : \A t \in 1..s - 1 : t \in Slots \ {s}
          BY SlotNumbers
        <5> QED
          BY <2>4, <5>1 DEF Violating, Eligible
      <4>3. Whole'
        BY <1>1, <2>1, <4>1, <4>2 DEF Whole, Violating
      <4>4. Leave("ok")
        BY <1>7, <2>7, <3>2 DEF Continue
      <4>5. SnapshotInv' /\ WorkInv'
        BY <4>4 DEF Leave, SnapshotInv, WorkInv, Before, Working, Judged
      <4>6. PairType'
        BY <1>0, <2>1, <4>4 DEF PairType, Leave, Cell
      <4> QED
        BY <1>0, <2>1, <4>3, <4>4, <4>5, <4>6 DEF PairInv, CallInv, SuccessInv, Leave
    <3> QED
      BY <3>1, <3>2
  <2> QED
    BY <2>6, <2>7
<1> QED
  BY <1>3, <1>4, <1>5, <1>6, <1>7

LEMMA PairStep == PairInv /\ [Next]_vars => PairInv'
<1> SUFFICES ASSUME PairInv, [Next]_vars PROVE PairInv'
  OBVIOUS
<1>1. CASE Step
  BY <1>1, LoadingSteps, ExecutionSteps, PublishingSteps DEF Step
<1>2. CASE Trouble
  <2>1. /\ Leave("raised") /\ UNCHANGED calls
        /\ evidence' = evidence \/ evidence' = [evidence EXCEPT ![at] = Partial]
    BY <1>2 DEF Trouble
  <2>2. receipts' = receipts \/ receipts' = [receipts EXCEPT ![at] = Partial]
    BY <1>2 DEF Trouble, files
  <2>3. receipts' \in [Slots -> {None, Partial} \cup Verdicts]
    BY <2>2 DEF PairInv, PairType
  <2> QED
    BY <2>1, <2>3, LeaveKeeps
<1>3. CASE UNCHANGED vars
  BY <1>3 DEF vars, files, locals, PairInv, PairType, SnapshotInv, WorkInv, Fresh, Compared, New, CallInv, SuccessInv,
              Whole, Violating
<1> QED
  BY <1>1, <1>2, <1>3 DEF Next

\* Success is only said of a schedule in which every slot, those of earlier
\* invocations included, is a published success in a session of its own.
THEOREM SuccessMeansWhole == Spec => []SuccessIsWhole
<1>1. PairInv => SuccessIsWhole
  BY DEF PairInv, SuccessInv, Whole, SuccessIsWhole
<1> QED
  BY <1>1, PairBegins, PairStep, PTL DEF Spec

\* Whatever died before, a provider is called for a slot once, in order, and
\* never once the evidence shows a missing or a reused session.
THEOREM ProvidersAreCalledFresh == Spec => CallsAreFresh
<1>1. PairInv /\ [Next]_vars =>
         [\A s \in Slots : calls'[s] # calls[s] =>
             /\ calls[s] = 0 /\ evidence[s] = Started
             /\ \A t \in 1..s - 1 : evidence[t] \in Verdicts
             /\ Violating = {}]_vars
  <2> SUFFICES ASSUME PairInv, Next, NEW s \in Slots, calls'[s] # calls[s]
               PROVE  /\ calls[s] = 0 /\ evidence[s] = Started
                      /\ \A t \in 1..s - 1 : evidence[t] \in Verdicts
                      /\ Violating = {}
    BY DEF vars
  <2>1. calls' # calls
    OBVIOUS
  <2>2. PICK v \in Outcomes(at) : Execute(v)
    BY <2>1 DEF Next, Step, Trouble, Create, WritePlan, Resume, ReadStop, Validate, Preflight, WriteStop, Reuse,
                Interrupt, Start, Finalize, WriteResult, WriteReceipt, Reused, Failed, Continue
  <2>3. pc = "started" /\ calls' = [calls EXCEPT ![at] = @ + 1] /\ calls \in [Slots -> Nat]
    BY <2>2 DEF Execute, PairInv, PairType
  <2>4. s = at
    BY <2>3
  <2>5. Fresh(Slots)
    BY <2>3 DEF PairInv, WorkInv, Compared, Working, Judged
  <2> QED
    BY <2>3, <2>4, <2>5, FreshIsClean DEF PairInv, WorkInv, Working
<1> QED
  BY <1>1, PairBegins, PairStep, PTL DEF Spec, CallsAreFresh

-----------------------------------------------------------------------------
Opened == {s \in Slots : evidence[s] # None}
VerdictOf == [s \in Slots |-> IF evidence[s] \in Verdicts THEN evidence[s] ELSE None]
Published == [s \in Slots |-> IF receipts[s] \in Verdicts THEN receipts[s] ELSE None]

LEMMA RegisterBegins == Init => Register!Init
<1> SUFFICES ASSUME Init PROVE Register!Init
  OBVIOUS
<1>1. Opened = {} /\ VerdictOf = Register!Nothing /\ Published = Register!Nothing
  BY DEF Init, Opened, VerdictOf, Published, Register!Nothing
<1> QED
  BY <1>1 DEF Init, Register!Init, Opened, VerdictOf, Published

\* What the register shows changes with the evidence, the calls and the receipts.
LEMMA RegisterSame ==
    ASSUME PairType, UNCHANGED <<evidence, calls>>,
           receipts' = receipts \/ (receipts[at] \notin Verdicts /\ receipts' = [receipts EXCEPT ![at] = Partial])
    PROVE  UNCHANGED <<Opened, calls, VerdictOf, Published>>
<1>1. \A s \in Slots : receipts'[s] = receipts[s] \/ (receipts[s] \notin Verdicts /\ receipts'[s] \notin Verdicts)
  BY DEF MarkAssumption, PairType
<1>2. Published' = Published
  BY <1>1 DEF Published
<1> QED
  BY <1>2 DEF Opened, VerdictOf

\* An attempt that gets its directory is opened, whether or not it gets its log.
LEMMA OpenMaps ==
    ASSUME PairInv, pc = "slot", evidence[at] = None, UNCHANGED <<receipts, calls>>,
           NEW e \in {Started, Partial}, evidence' = [evidence EXCEPT ![at] = e]
    PROVE  Register!Next
<1>0. /\ PairType /\ at \in Slots /\ None # e
      /\ None \notin Verdicts /\ Started \notin Verdicts /\ Partial \notin Verdicts
  BY DEF PairInv, WorkInv, Working, MarkAssumption
<1>1. \A u \in 1..at - 1 : evidence[u] \in Verdicts /\ VerdictOf[u] \in Verdicts
  <2>1. \A u \in 1..at - 1 : u \in Slots /\ evidence[u] \in Verdicts
    BY SlotFacts DEF Working
  <2> QED
    BY <2>1 DEF VerdictOf
<1>2. at \notin Opened /\ Opened' = Opened \cup {at}
  BY <1>0 DEF Opened, PairType
<1>3. VerdictOf' = VerdictOf /\ Published' = Published
  BY <1>0 DEF VerdictOf, Published, PairType
<1>4. PICK t \in Slots : t = at
  BY <1>0
<1>5. Register!Open(t)
  BY <1>0, <1>1, <1>2, <1>3, <1>4 DEF Register!Open, Opened, VerdictOf, Published
<1> QED
  BY <1>5 DEF Register!Next

\* Each step is one of the register's, or none of its business.
LEMMA RegisterMaps ==
    ASSUME PairInv, Next
    PROVE  Register!Next \/ UNCHANGED <<Opened, calls, VerdictOf, Published>>
<1> USE DEF files, locals
<1>0. /\ PairType /\ WorkInv /\ CallInv
      /\ None \notin Verdicts /\ Started \notin Verdicts /\ Partial \notin Verdicts
  BY DEF PairInv, MarkAssumption
<1>1. CASE Start
  <2>1. /\ pc = "slot" /\ evidence[at] = None /\ evidence' = [evidence EXCEPT ![at] = Started]
        /\ UNCHANGED <<receipts, calls>>
    BY <1>1 DEF Start
  <2> QED
    BY <1>0, <2>1, OpenMaps
<1>2. ASSUME NEW v \in Outcomes(at), Execute(v) PROVE Register!Next
  <2>1. /\ at \in Slots /\ evidence[at] = Started /\ calls[at] = 0 /\ calls' = [calls EXCEPT ![at] = 1]
        /\ UNCHANGED <<evidence, receipts>>
    BY <1>0, <1>2 DEF Execute, WorkInv, Working, PairType
  <2>2. at \in Opened /\ VerdictOf[at] = None
    BY <1>0, <2>1 DEF Opened, VerdictOf, MarkAssumption
  <2>3. Register!Call(at)
    BY <2>1, <2>2 DEF Register!Call, Register!Running, Opened, VerdictOf, Published
  <2> QED
    BY <2>1, <2>3 DEF Register!Next
<1>3. ASSUME NEW v \in Verdicts, at \in Slots, evidence[at] = Started, evidence' = [evidence EXCEPT ![at] = v],
             calls[at] = 0 => v.status = "interrupted", UNCHANGED <<receipts, calls>>
      PROVE  Register!Next
  <2>1. at \in Opened /\ VerdictOf[at] = None /\ Opened' = Opened
    BY <1>0, <1>3 DEF Opened, VerdictOf, PairType, MarkAssumption
  <2>2. VerdictOf' = [VerdictOf EXCEPT ![at] = v] /\ Published' = Published
    BY <1>0, <1>3 DEF VerdictOf, Published, PairType
  <2>3. Register!Close(at, v)
    BY <1>3, <2>1, <2>2 DEF Register!Close, Register!Running, Opened, VerdictOf, Published
  <2> QED
    BY <1>3, <2>3 DEF Register!Next
<1>4. CASE Interrupt
  <2>1. Interrupted \in Verdicts /\ Interrupted.status = "interrupted"
    BY DEF Interrupted, Verdict, Verdicts
  <2> QED
    BY <1>0, <1>3, <1>4, <2>1 DEF Interrupt, WorkInv, Working
<1>5. CASE Finalize
  BY <1>0, <1>3, <1>5 DEF Finalize, WorkInv, Working, Judged
<1>6. CASE WriteReceipt
  <2>1. CASE receipts' = receipts
    BY <1>0, <1>6, <2>1, RegisterSame DEF WriteReceipt
  <2>2. CASE receipts[at] = result
    BY <1>0, <1>6, <2>2, RegisterSame DEF WriteReceipt, Publish, PairType
  <2>3. CASE receipts[at] = None /\ receipts' = [receipts EXCEPT ![at] = result]
    <3>1. at \in Slots /\ result \in Verdicts /\ evidence[at] = result /\ UNCHANGED <<evidence, calls>>
      BY <1>0, <1>6 DEF WriteReceipt, WorkInv, Working, Judged
    <3>2. \A u \in 1..at - 1 : Published[u] # None
      <4>1. \A u \in 1..at - 1 : u \in Slots /\ receipts[u] \in Verdicts
        BY <1>6, SlotFacts DEF WriteReceipt, Working, Judged
      <4> QED
        BY <1>0, <4>1 DEF Published
    <3>3. VerdictOf[at] # None /\ Published[at] = None
      BY <1>0, <2>3, <3>1 DEF VerdictOf, Published
    <3>4. Published' = [s \in Slots |-> IF s \in {at} THEN VerdictOf[s] ELSE Published[s]]
      BY <1>0, <2>3, <3>1 DEF VerdictOf, Published, PairType
    <3>5. Opened' = Opened /\ VerdictOf' = VerdictOf
      BY <3>1 DEF Opened, VerdictOf
    <3>6. PICK T \in SUBSET Slots : T = {at}
      BY <3>1
    <3>7. Register!Publish(T)
      BY <3>1, <3>2, <3>3, <3>4, <3>5, <3>6 DEF Register!Publish, Opened, VerdictOf, Published
    <3>8. Register!Next
      BY <3>7 DEF Register!Next
    <3> QED
      BY <3>8
  <2> QED
    BY <1>6, <2>1, <2>2, <2>3 DEF WriteReceipt, Publish
<1>7. CASE Trouble
  <2>1. CASE UNCHANGED evidence
    <3>1. receipts' = receipts \/ (receipts[at] = None /\ receipts' = [receipts EXCEPT ![at] = Partial])
      BY <1>7 DEF Trouble
    <3> QED
      BY <1>0, <1>7, <2>1, <3>1, RegisterSame DEF Trouble
  <2>2. CASE Writing /\ evidence' = [evidence EXCEPT ![at] = Partial] /\ UNCHANGED files
    <3>1. at \in Slots /\ evidence[at] \in {None, Started} /\ UNCHANGED <<calls, receipts>>
      BY <1>0, <1>7, <2>2 DEF Writing, WorkInv, Working, Trouble
    <3>2. VerdictOf' = VerdictOf /\ Published' = Published
      BY <1>0, <2>2, <3>1 DEF VerdictOf, Published, PairType
    <3>3. CASE evidence[at] = Started
      <4>1. Opened' = Opened
        BY <1>0, <2>2, <3>3 DEF Opened, PairType, MarkAssumption
      <4> QED
        BY <3>1, <3>2, <4>1
    <3>4. CASE evidence[at] = None
      BY <1>0, <1>7, <2>2, <3>1, <3>2, <3>4, OpenMaps DEF Writing, WorkInv
    <3> QED
      BY <3>1, <3>3, <3>4
  <2> QED
    BY <1>7, <2>1, <2>2 DEF Trouble
<1>8. CASE Create \/ WritePlan \/ Resume \/ ReadStop \/ Validate \/ Preflight \/ WriteStop
  BY <1>0, <1>8, RegisterSame DEF Create, WritePlan, Resume, ReadStop, Validate, Preflight, WriteStop
<1>9. CASE Reuse \/ WriteResult \/ Reused \/ Failed \/ Continue
  BY <1>0, <1>9, RegisterSame DEF Reuse, WriteResult, Reused, Failed, Continue
<1> QED
  BY <1>1, <1>2, <1>4, <1>5, <1>6, <1>7, <1>8, <1>9 DEF Next, Step

\* A schedule that is executed, killed and resumed keeps the register of its
\* trials: each is opened, called and closed at most once and in order, and what
\* is published is its verdict, for good.
THEOREM ScheduleKeepsRegister == Spec => ImplementsTrialRegister
<1>1. PairInv /\ [Next]_vars => [Register!Next]_Register!registerVars
  <2> SUFFICES ASSUME PairInv, [Next]_vars
               PROVE  Register!Next \/ UNCHANGED <<Opened, calls, VerdictOf, Published>>
    BY DEF Register!registerVars, Opened, VerdictOf, Published
  <2>1. CASE UNCHANGED vars
    BY <2>1, RegisterSame DEF vars, files, PairInv
  <2> QED
    BY <2>1, RegisterMaps
<1> QED
  BY <1>1, PairBegins, PairStep, RegisterBegins, PTL DEF Spec, ImplementsTrialRegister, Register!Spec
=============================================================================
