------------------------ MODULE ResearchScheduleProofs ------------------------
(***************************************************************************)
(* Theorems about an experiment, for every plan, every number of crashes   *)
(* and whatever other executions hold of the cap: no segment runs twice,   *)
(* none runs behind a failure of its cell, none is called for without a    *)
(* commitment of its own, none whose commitment was abandoned ever runs,   *)
(* what is published is what the evidence gives, for good, and the         *)
(* experiment keeps the abstract register of its trials.                   *)
(***************************************************************************)
EXTENDS ResearchSchedule, UnitSumTheorems

\* Facts about sequences, their ranges and sums.
LEMMA InitialSegment == \A n \in Nat : IsFiniteSet(1..n)
BY FS_Interval

LEMMA SumUpdate ==
    \A S : IsFiniteSet(S) =>
       \A f \in [S -> Nat], x \in S, v \in Nat :
          Total(f) \in Nat /\ Total([f EXCEPT ![x] = v]) = Total(f) - f[x] + v
BY TotalUpdate, UnitsFinite

LEMMA RangeOfUpdate ==
    \A S, i, v, x : \A q \in Seq(S) :
       i \in DOMAIN q =>
          /\ x \in Range([q EXCEPT ![i] = x])
          /\ q[i] # x /\ x \in Range(q) => x \in Range([q EXCEPT ![i] = v])
BY DEF Range

LEMMA Appended ==
    \A S : \A q \in Seq(S), v \in S :
       /\ Append(q, v) \in Seq(S) /\ Append(q, v) # <<>>
       /\ Append(q, v)[Len(Append(q, v))] = v
       /\ \A x \in Range(q) : x \in Range(Append(q, v))
<1> SUFFICES ASSUME NEW S, NEW q \in Seq(S), NEW v \in S
             PROVE  /\ Append(q, v) \in Seq(S) /\ Append(q, v) # <<>>
                    /\ Append(q, v)[Len(Append(q, v))] = v
                    /\ \A x \in Range(q) : x \in Range(Append(q, v))
  OBVIOUS
<1>1. Append(q, v) \in Seq(S) /\ Append(q, v) # <<>> /\ Append(q, v)[Len(Append(q, v))] = v
  OBVIOUS
<1>2. \A i \in DOMAIN q : i \in DOMAIN Append(q, v) /\ Append(q, v)[i] = q[i]
  OBVIOUS
<1>3. \A x \in Range(q) : x \in Range(Append(q, v))
  BY <1>2 DEF Range
<1> QED
  BY <1>1, <1>3

USE PlanAssumption

Attempt == [state : {"none", "open", "complete"}, kind : Kinds \cup {"interrupted", None}, session : Sessions \cup {None}]
Row == [state : {"none", "unresolved", "settled"}, amount : Nat]
Budget == {"none", "open", "completed", "failed", "interrupted"}
Outcome == [kind : Kinds, session : Sessions \cup {None}]

PlanType ==
    /\ at \in [cell : Nat, index : Nat] /\ at.cell \in CellIds /\ at.index \in DOMAIN Cells[at.cell]
    /\ attempt \in [Segments -> Attempt] /\ calls \in [Segments -> Nat]
    /\ row \in [Segments -> Row] /\ budgetEv \in [Segments -> Budget]
    /\ existing \subseteq Segments /\ orphans \subseteq Segments
    /\ pc \in States
    /\ pc \in {"settle", "close_budget", "finish"} => outcome \in Outcome

Before == {"probe", "probing", "reserve", "open_budget", "start"}
During == {"execute", "settle", "close_budget", "finish"}
Committed == {"open_budget", "start"} \cup During

Beyond(c, i) == c > at.cell \/ (c = at.cell /\ i > at.index)
Reached(c, i) == c = at.cell /\ i = at.index

\* What an invocation has not reached yet is as it found it.
AheadInv ==
    /\ pc \in {"idle", "bind"} => at = [cell |-> 1, index |-> 1]
    /\ pc # "idle" =>
          \A c \in CellIds : \A i \in DOMAIN Cells[c] :
             Beyond(c, i) \/ (Reached(c, i) /\ pc \in {"bind", "segment"} \cup Before)
                => (attempt[Cells[c][i]].state # "none" => Cells[c][i] \in existing)
    /\ \A s \in existing : attempt[s].state # "none"
    /\ pc \in Before => Segment \notin existing

\* A segment runs between the start and the verdict of its only attempt.
CallInv ==
    /\ \A s \in Segments : calls[s] <= 1 /\ (attempt[s].state = "none" => calls[s] = 0)
    /\ pc \in During => attempt[Segment].state = "open"
    /\ pc = "execute" => calls[Segment] = 0
    /\ pc = "receipt" => attempt[Segment].state = "complete"

\* Behind the position of an invocation, its cell has succeeded.
Success(s) == attempt[s].state = "complete" /\ attempt[s].kind = "ok"
BehindInv ==
    /\ \A i \in DOMAIN Cells[at.cell] : i < at.index => Success(Cells[at.cell][i])
    /\ CellStopsAtFailure

\* A commitment is never withdrawn, and only a segment without one is committed.
Touched(s) == row[s] # NoRow \/ budgetEv[s] # "none"
OrphanInv ==
    /\ \A s \in orphans : attempt[s].state = "none" /\ Touched(s)
    /\ \A s \in Segments : Touched(s) => s \in Budgeted
    /\ pc \in {"reserve", "open_budget", "settle", "close_budget"} => Segment \in Budgeted
    /\ pc \in Committed => Segment \notin orphans

Core == PlanType /\ AheadInv /\ CallInv /\ BehindInv /\ OrphanInv

\* The invocation is at a segment, and at one place only.
LEMMA AtSegment ==
    ASSUME PlanType
    PROVE  /\ Segment \in Segments
           /\ \A c \in CellIds : \A i \in DOMAIN Cells[c] :
                 Cells[c][i] \in Segments /\ (Cells[c][i] = Segment => Reached(c, i))
<1>1. \A c \in CellIds : \A i \in DOMAIN Cells[c] : Cells[c][i] \in Segments
  BY DEF Segments
<1> QED
  BY <1>1 DEF PlanType, Segment, Reached

\* Steps that leave the evidence of candidates alone and stay at their place.
LEMMA Stays ==
    ASSUME Core, UNCHANGED <<at, attempt, calls, existing, orphans>>, pc' \in States,
           row' \in [Segments -> Row], budgetEv' \in [Segments -> Budget],
           \A s \in Segments : (Touched(s) => Touched(s)') /\ (Touched(s)' => s \in Budgeted),
           pc' = "idle" => pc = "idle", pc' = "bind" => pc = "bind", pc = "idle" => pc' = "idle",
           pc' \in {"bind", "segment"} \cup Before => pc \in {"bind", "segment"} \cup Before,
           pc' \in Before => pc \in Before \/ Segment \notin existing,
           pc' \in During => pc \in During,
           pc' = "execute" => pc = "execute", pc' = "receipt" => pc = "receipt",
           pc' \in {"settle", "close_budget", "finish"} => outcome' \in Outcome,
           pc' \in {"reserve", "open_budget", "settle", "close_budget"} => Segment \in Budgeted,
           pc' \in Committed => pc \in Committed \/ Segment \notin orphans
    PROVE  Core'
<1>0. Segment' = Segment
  BY DEF Segment
<1>1. PlanType'
  BY DEF Core, PlanType
<1>2. AheadInv'
  BY <1>0 DEF Core, AheadInv, Beyond, Reached
<1>3. CallInv'
  BY <1>0 DEF Core, CallInv
<1>4. BehindInv'
  BY DEF Core, BehindInv, Success, CellStopsAtFailure
<1>5. OrphanInv'
  BY <1>0 DEF Core, OrphanInv, PlanType
<1> QED
  BY <1>1, <1>2, <1>3, <1>4, <1>5 DEF Core

\* The end of an invocation keeps what is durable, and forgets the rest.
LEMMA Ends ==
    ASSUME Core, UNCHANGED <<attempt, calls, orphans, row, budgetEv>>, pc' = "idle", Resting
    PROVE  Core'
<1> USE DEF Resting
<1>0. at' = [cell |-> 1, index |-> 1] /\ 1 \in CellIds /\ 1 \in DOMAIN Cells[1]
  <2>1. 1 \in CellIds
    BY DEF CellIds
  <2>2. Cells[1] \in Seq(Segments) /\ Cells[1] # <<>>
    BY <2>1 DEF CellIds
  <2>3. \A q \in Seq(Segments) : q # <<>> => 1 \in DOMAIN q
    OBVIOUS
  <2> QED
    BY <2>1, <2>2, <2>3
<1>1. PlanType'
  <2>1. at' \in [cell : Nat, index : Nat] /\ at'.cell \in CellIds /\ at'.index \in DOMAIN Cells[at'.cell]
    <3>1. at'.cell = 1 /\ at'.index = 1 /\ at' \in [cell : Nat, index : Nat]
      BY <1>0
    <3> QED
      BY <1>0, <3>1
  <2>2. existing' = {} /\ pc' = "idle" /\ pc' \in States
    BY DEF States
  <2> QED
    BY <2>1, <2>2 DEF Core, PlanType
<1>2. AheadInv'
  BY <1>0 DEF Core, AheadInv, Before
<1>3. CallInv'
  BY DEF Core, CallInv, During
<1>4. BehindInv'
  <2>1. \A i \in DOMAIN Cells[1] : ~(i < 1)
    <3>1. Cells[1] \in Seq(Segments)
      BY <1>0 DEF CellIds
    <3> QED
      BY <3>1
  <2> QED
    BY <1>0, <2>1 DEF Core, BehindInv, CellStopsAtFailure
<1>5. OrphanInv'
  BY DEF Core, OrphanInv, Committed, During, Touched
<1> QED
  BY <1>1, <1>2, <1>3, <1>4, <1>5 DEF Core

\* Recovery, admission and the stops, up to the reservation.
LEMMA AdmissionSteps ==
    ASSUME Core,
           \/ \E s \in Segments : InterruptBudget(s) \/ InterruptProbe(s)
           \/ Bound \/ ReadCeiling \/ AdmissionRaises \/ StartProbe \/ \E v \in {"passed", "failed"} : EndProbe(v)
           \/ RefuseReplay \/ RefuseOverCap \/ WriteBudgetStop
    PROVE  Core'
<1> USE DEF States, Before, During, Committed
<1>1. ASSUME NEW s \in Segments, InterruptBudget(s) PROVE Core'
  <2>1. /\ budgetEv' = [budgetEv EXCEPT ![s] = "interrupted"] /\ budgetEv[s] = "open"
        /\ UNCHANGED <<at, attempt, calls, existing, orphans, row, pc, outcome>>
    BY <1>1 DEF InterruptBudget, run
  <2>2. budgetEv' \in [Segments -> Budget]
    BY <2>1 DEF Core, PlanType, Budget
  <2>3. \A t \in Segments : (Touched(t) => Touched(t)') /\ (Touched(t)' => t \in Budgeted)
    BY <2>1 DEF Core, PlanType, OrphanInv, Touched
  <2> QED
    BY <2>1, <2>2, <2>3, Stays DEF Core, PlanType, OrphanInv
<1>2. ASSUME UNCHANGED <<at, attempt, calls, existing, orphans, row, budgetEv, outcome>>
      PROVE  /\ row' \in [Segments -> Row] /\ budgetEv' \in [Segments -> Budget]
             /\ \A s \in Segments : (Touched(s) => Touched(s)') /\ (Touched(s)' => s \in Budgeted)
  BY <1>2 DEF Core, PlanType, OrphanInv, Touched
<1>3. ASSUME NEW s \in Segments, InterruptProbe(s) PROVE Core'
  <2>1. UNCHANGED <<at, attempt, calls, existing, orphans, row, budgetEv, outcome, pc>>
    BY <1>3 DEF InterruptProbe, run
  <2> QED
    BY <1>2, <2>1, Stays DEF Core, PlanType, OrphanInv
<1>4. ASSUME UNCHANGED <<at, attempt, calls, existing, orphans, row, budgetEv, outcome>>,
             pc \notin {"idle", "bind"}, pc' \in {"write_stop", "write_budget_stop"}
      PROVE  Core'
  BY <1>2, <1>4, Stays
<1>5. CASE Bound
  <2>1. UNCHANGED <<at, attempt, calls, existing, orphans, row, budgetEv, outcome>> /\ pc = "bind" /\ pc' = "segment"
    BY <1>5 DEF Bound, Goto, stores
  <2> QED
    BY <1>2, <2>1, Stays
<1>6. CASE ReadCeiling
  <2>1. /\ UNCHANGED <<at, attempt, calls, existing, orphans, row, budgetEv, outcome>> /\ pc = "segment"
        /\ pc' \in {"write_budget_stop", "probe"} /\ Segment \notin existing
    BY <1>6 DEF ReadCeiling, Goto, stores
  <2> QED
    BY <1>2, <2>1, Stays
<1>7. CASE AdmissionRaises \/ RefuseReplay \/ RefuseOverCap \/ WriteBudgetStop
  <2>1. /\ UNCHANGED <<at, attempt, calls, existing, orphans, row, budgetEv, outcome>>
        /\ pc \notin {"idle", "bind"} /\ pc' \in {"write_stop", "write_budget_stop"}
    BY <1>7 DEF AdmissionRaises, RefuseReplay, RefuseOverCap, WriteBudgetStop, Goto, StopFor, stores
  <2> QED
    BY <1>4, <2>1
<1>8. CASE StartProbe
  <2>1. UNCHANGED <<at, attempt, calls, existing, orphans, row, budgetEv, outcome>> /\ pc = "probe" /\ pc' = "probing"
    BY <1>8 DEF StartProbe, Goto
  <2> QED
    BY <1>2, <2>1, Stays
<1>9. ASSUME NEW v \in {"passed", "failed"}, EndProbe(v) PROVE Core'
  <2>1. /\ UNCHANGED <<at, attempt, calls, existing, orphans, row, budgetEv, outcome>> /\ pc = "probing"
        /\ \/ pc' = "reserve" /\ Segment \in Budgeted
           \/ pc' = "start" /\ Segment \notin Budgeted
           \/ pc' = "write_stop"
    BY <1>9 DEF EndProbe, Goto, StopFor
  <2>2. Segment \notin Budgeted => Segment \notin orphans
    BY DEF Core, PlanType, OrphanInv
  <2> QED
    BY <1>2, <2>1, <2>2, Stays
<1> QED
  BY <1>1, <1>3, <1>5, <1>6, <1>7, <1>8, <1>9

\* The commitment of a segment, and its settlement.
LEMMA BudgetSteps ==
    ASSUME Core,
           \/ Reserve \/ OpenBudget \/ CloseBudget
           \/ \E known \in BOOLEAN, charge \in 0..Cap : Settle(known, charge)
    PROVE  Core'
<1> USE DEF States, Before, During, Committed
<1>0. Segment \in Segments
  BY AtSegment DEF Core
<1>1. ASSUME NEW new \in Row, new # NoRow, Segment \in Budgeted, row' = [row EXCEPT ![Segment] = new], budgetEv' = budgetEv
      PROVE  /\ row' \in [Segments -> Row] /\ budgetEv' \in [Segments -> Budget]
             /\ \A s \in Segments : (Touched(s) => Touched(s)') /\ (Touched(s)' => s \in Budgeted)
  BY <1>0, <1>1 DEF Core, PlanType, OrphanInv, Touched
<1>2. ASSUME NEW new \in Budget \ {"none"}, Segment \in Budgeted, budgetEv' = [budgetEv EXCEPT ![Segment] = new], row' = row
      PROVE  /\ row' \in [Segments -> Row] /\ budgetEv' \in [Segments -> Budget]
             /\ \A s \in Segments : (Touched(s) => Touched(s)') /\ (Touched(s)' => s \in Budgeted)
  BY <1>0, <1>2, SMTT(30) DEF Core, PlanType, OrphanInv, Touched
<1>3. CASE Reserve
  <2> DEFINE new == [state |-> "unresolved", amount |-> Cost[Segment]]
  <2>1. new \in Row /\ new # NoRow
    BY <1>0 DEF Row, NoRow
  <2>2. /\ pc = "reserve" /\ pc' = "open_budget" /\ row' = [row EXCEPT ![Segment] = new] /\ ~Touched(Segment)
        /\ UNCHANGED <<at, attempt, calls, existing, orphans, budgetEv>>
    BY <1>3 DEF Reserve, MayReserve, Fresh, Touched, Goto
  <2>3. Segment \in Budgeted /\ Segment \notin orphans
    BY <2>2 DEF Core, OrphanInv
  <2> HIDE DEF new
  <2> QED
    BY <1>1, <2>1, <2>2, <2>3, Stays
<1>4. CASE OpenBudget
  <2>1. /\ pc = "open_budget" /\ pc' = "start" /\ budgetEv' = [budgetEv EXCEPT ![Segment] = "open"]
        /\ UNCHANGED <<at, attempt, calls, existing, orphans, row>>
    BY <1>4 DEF OpenBudget, Goto
  <2>2. Segment \in Budgeted /\ "open" \in Budget \ {"none"}
    BY <2>1 DEF Core, OrphanInv, Budget
  <2> QED
    BY <1>2, <2>1, <2>2, Stays
<1>5. CASE CloseBudget
  <2>1. PICK new \in {"completed", "failed"} : budgetEv' = [budgetEv EXCEPT ![Segment] = new]
    BY <1>5 DEF CloseBudget
  <2>2. /\ pc = "close_budget" /\ pc' = "finish"
        /\ UNCHANGED <<at, attempt, calls, existing, orphans, row, outcome>>
    BY <1>5 DEF CloseBudget, Goto
  <2>3. Segment \in Budgeted /\ outcome \in Outcome /\ new \in Budget \ {"none"}
    BY <2>2 DEF Core, OrphanInv, PlanType, Budget
  <2> QED
    BY <1>2, <2>1, <2>2, <2>3, Stays
<1>6. ASSUME NEW known \in BOOLEAN, NEW charge \in 0..Cap, Settle(known, charge) PROVE Core'
  <2> DEFINE new == [state |-> "settled", amount |-> charge]
  <2>1. new \in Row /\ new # NoRow
    BY DEF Row, NoRow
  <2>2. /\ pc = "settle" /\ pc' = "close_budget" /\ (row' = [row EXCEPT ![Segment] = new] \/ row' = row)
        /\ UNCHANGED <<at, attempt, calls, existing, orphans, budgetEv, outcome>>
    BY <1>6 DEF Settle, Goto
  <2>3. Segment \in Budgeted /\ outcome \in Outcome
    BY <2>2 DEF Core, OrphanInv, PlanType
  <2> HIDE DEF new
  <2>4. /\ row' \in [Segments -> Row] /\ budgetEv' \in [Segments -> Budget]
        /\ \A s \in Segments : (Touched(s) => Touched(s)') /\ (Touched(s)' => s \in Budgeted)
    <3>1. CASE row' = row
      BY <2>2, <3>1 DEF Core, PlanType, OrphanInv, Touched
    <3> QED
      BY <1>1, <2>1, <2>2, <2>3, <3>1
  <2> QED
    BY <2>2, <2>3, <2>4, Stays
<1> QED
  BY <1>3, <1>4, <1>5, <1>6

\* The candidate of a segment, and its verdict.
LEMMA AttemptSteps ==
    ASSUME Core,
           \/ Begin \/ Reuse \/ StartAttempt \/ Finish
           \/ \E k \in Kinds, i \in Sessions \cup {None} : Execute(k, i)
    PROVE  Core'
<1> USE DEF Before, During, Committed
<1>0. Segment \in Segments
  BY AtSegment DEF Core
<1>1. \A c \in CellIds : \A i \in DOMAIN Cells[c] :
         Cells[c][i] \in Segments /\ (Cells[c][i] = Segment => Reached(c, i))
  BY AtSegment DEF Core
<1>2. CASE Begin
  <2>1. /\ pc = "idle" /\ pc' = "bind" /\ UNCHANGED <<at, attempt, calls, row, budgetEv>>
        /\ existing' = {s \in Segments : attempt[s].state # "none"}
        /\ orphans' = {s \in Segments : attempt[s].state = "none" /\ (row[s] # NoRow \/ budgetEv[s] # "none")}
    BY <1>2 DEF Begin, stores
  <2>2. PlanType'
    BY <2>1 DEF Core, PlanType, States
  <2>3. AheadInv'
    BY <1>1, <2>1 DEF Core, AheadInv
  <2>4. CallInv'
    BY <2>1 DEF Core, CallInv
  <2>5. BehindInv'
    BY <2>1 DEF Core, BehindInv, Success, CellStopsAtFailure
  <2>6. OrphanInv'
    BY <2>1 DEF Core, OrphanInv, Touched
  <2> QED
    BY <2>2, <2>3, <2>4, <2>5, <2>6 DEF Core
\* A segment's attempt moves on, and was no success before.
<1>3. ASSUME NEW new \in Attempt, new.state # "none",
             attempt' = [attempt EXCEPT ![Segment] = new],
             attempt[Segment].state # "complete" \/ new = attempt[Segment],
             UNCHANGED <<at, calls, existing, orphans, row, budgetEv>>,
             pc \notin {"idle", "bind"}, pc' \in {"execute", "receipt"},
             pc' = "execute" => new.state = "open" /\ calls[Segment] = 0,
             pc' = "receipt" => new.state = "complete",
             Segment \notin orphans
      PROVE  Core'
  <2>0. Segment' = Segment
    BY <1>3 DEF Segment
  <2>1. attempt' \in [Segments -> Attempt] /\ attempt'[Segment] = new
        /\ \A s \in Segments : s # Segment => attempt'[s] = attempt[s]
    BY <1>0, <1>3 DEF Core, PlanType
  <2>2. PlanType'
    BY <1>3, <2>1 DEF Core, PlanType, States
  <2>3. AheadInv'
    <3>1. \A c \in CellIds : \A i \in DOMAIN Cells[c] :
             Beyond(c, i) => (attempt'[Cells[c][i]].state # "none" => Cells[c][i] \in existing)
      <4>1. \A c \in CellIds : \A i \in DOMAIN Cells[c] : Beyond(c, i) => Cells[c][i] # Segment
        BY <1>1 DEF Core, PlanType, Beyond, Reached
      <4> QED
        BY <1>1, <1>3, <2>1, <4>1 DEF Core, AheadInv
    <3>2. \A s \in existing : attempt'[s].state # "none"
      BY <1>3, <2>1 DEF Core, AheadInv, PlanType
    <3> QED
      BY <1>3, <3>1, <3>2 DEF AheadInv, Beyond
  <2>4. CallInv'
    BY <1>3, <2>0, <2>1 DEF Core, CallInv, PlanType
  <2>5. \A s \in Segments : Success(s) => Success(s)'
    BY <1>3, <2>1 DEF Success
  <2>6. BehindInv'
    <3>1. CellStopsAtFailure'
      BY <1>1, <1>3, <2>5 DEF Core, BehindInv, CellStopsAtFailure, Success
    <3> QED
      BY <1>1, <1>3, <2>5, <3>1 DEF Core, BehindInv, PlanType
  <2>7. OrphanInv'
    BY <1>3, <2>0, <2>1 DEF Core, OrphanInv, Touched, PlanType
  <2> QED
    BY <2>2, <2>3, <2>4, <2>6, <2>7 DEF Core
<1>4. CASE Reuse
  <2> DEFINE new == IF attempt[Segment].state = "open"
                    THEN Complete([kind |-> "interrupted", session |-> None]) ELSE attempt[Segment]
  <2>1. /\ pc = "segment" /\ pc' = "receipt" /\ Segment \in existing
        /\ UNCHANGED <<at, calls, existing, orphans, row, budgetEv>>
        /\ attempt' = [attempt EXCEPT ![Segment] = new]
    BY <1>4 DEF Reuse, Goto
  <2>2. attempt[Segment] \in Attempt /\ attempt[Segment].state # "none"
    BY <1>0, <2>1 DEF Core, PlanType, AheadInv
  <2>3. new \in Attempt /\ new.state = "complete"
    BY <2>2 DEF Attempt, Complete
  <2>4. Segment \notin orphans /\ (attempt[Segment].state # "complete" \/ new = attempt[Segment])
    BY <2>2 DEF Core, OrphanInv
  <2> HIDE DEF new
  <2> QED
    BY <1>3, <2>1, <2>3, <2>4
<1>5. CASE StartAttempt
  <2> DEFINE new == [attempt[Segment] EXCEPT !.state = "open"]
  <2>1. /\ pc = "start" /\ pc' = "execute" /\ UNCHANGED <<at, calls, existing, orphans, row, budgetEv>>
        /\ attempt' = [attempt EXCEPT ![Segment] = new]
    BY <1>5 DEF StartAttempt, Goto
  <2>2. attempt[Segment] \in Attempt /\ attempt[Segment].state = "none"
    BY <1>0, <2>1 DEF Core, PlanType, AheadInv, Segment, Reached
  <2>3. new \in Attempt /\ new.state = "open"
    BY <2>2 DEF Attempt
  <2>4. calls[Segment] = 0 /\ Segment \notin orphans
    BY <1>0, <2>1, <2>2 DEF Core, CallInv, OrphanInv
  <2> HIDE DEF new
  <2> QED
    BY <1>3, <2>1, <2>2, <2>3, <2>4
<1>6. CASE Finish
  <2> DEFINE new == Complete(outcome)
  <2>1. /\ pc = "finish" /\ pc' = "receipt" /\ UNCHANGED <<at, calls, existing, orphans, row, budgetEv>>
        /\ attempt' = [attempt EXCEPT ![Segment] = new]
    BY <1>6 DEF Finish
  <2>2. outcome \in Outcome /\ attempt[Segment].state = "open" /\ Segment \notin orphans
    BY <2>1 DEF Core, PlanType, CallInv, OrphanInv
  <2>3. new \in Attempt /\ new.state = "complete"
    BY <2>2 DEF Attempt, Complete, Outcome
  <2> HIDE DEF new
  <2> QED
    BY <1>3, <2>1, <2>2, <2>3
<1>7. ASSUME NEW k \in Kinds, NEW n \in Sessions \cup {None}, Execute(k, n) PROVE Core'
  <2>1. /\ pc = "execute" /\ pc' \in {"settle", "finish"} /\ (pc' = "settle" => Segment \in Budgeted)
        /\ calls' = [calls EXCEPT ![Segment] = @ + 1] /\ outcome' = [kind |-> k, session |-> n]
        /\ UNCHANGED <<at, attempt, existing, orphans, row, budgetEv>>
    BY <1>7 DEF Execute
  <2>2. Segment' = Segment
    BY <2>1 DEF Segment
  <2>3. /\ calls' \in [Segments -> Nat] /\ calls'[Segment] = 1
        /\ \A s \in Segments : s # Segment => calls'[s] = calls[s]
    BY <1>0, <2>1 DEF Core, PlanType, CallInv
  <2>4. PlanType'
    BY <2>1, <2>3 DEF Core, PlanType, States, Outcome
  <2>5. AheadInv'
    BY <2>1 DEF Core, AheadInv, Beyond
  <2>6. CallInv'
    BY <1>0, <2>1, <2>2, <2>3 DEF Core, CallInv
  <2>7. BehindInv'
    <3>1. CellStopsAtFailure'
      <4> SUFFICES ASSUME NEW c \in CellIds, NEW i \in DOMAIN Cells[c], NEW j \in DOMAIN Cells[c],
                          i < j, calls'[Cells[c][j]] > 0
                   PROVE  attempt[Cells[c][i]].state = "complete" /\ attempt[Cells[c][i]].kind = "ok"
        BY <2>1 DEF CellStopsAtFailure
      <4>1. CASE Cells[c][j] = Segment
        <5>1. c = at.cell /\ j = at.index
          BY <1>1, <4>1 DEF Reached
        <5>2. Success(Cells[c][i])
          BY <5>1 DEF Core, BehindInv
        <5> QED
          BY <5>2 DEF Success
      <4>2. CASE Cells[c][j] # Segment
        BY <1>1, <2>3, <4>2 DEF Core, BehindInv, CellStopsAtFailure
      <4> QED
        BY <4>1, <4>2
    <3> QED
      BY <2>1, <3>1 DEF Core, BehindInv, Success
  <2>8. OrphanInv'
    BY <2>1, <2>2 DEF Core, OrphanInv, Touched
  <2> QED
    BY <2>4, <2>5, <2>6, <2>7, <2>8 DEF Core
<1> QED
  BY <1>2, <1>4, <1>5, <1>6, <1>7

\* The position moves to a segment nothing is known of but what was found.
LEMMA Moves ==
    ASSUME Core, UNCHANGED <<attempt, calls, existing, orphans, row, budgetEv>>,
           at' \in [cell : Nat, index : Nat], at'.cell \in CellIds, at'.index \in DOMAIN Cells[at'.cell],
           Beyond(at'.cell, at'.index), pc # "idle", pc' = "segment",
           \A i \in DOMAIN Cells[at'.cell] : i < at'.index => Success(Cells[at'.cell][i])
    PROVE  Core'
<1> USE DEF Before, During, Committed
<1>1. PlanType'
  BY DEF Core, PlanType, States
<1>2. AheadInv'
  <2>1. \A c \in CellIds : \A i \in DOMAIN Cells[c] : (Beyond(c, i) \/ Reached(c, i))' => Beyond(c, i)
    <3>1. \A c \in CellIds : c \in Nat /\ \A i \in DOMAIN Cells[c] : i \in Nat
      BY SMTT(30) DEF CellIds
    <3> QED
      BY <3>1 DEF Beyond, Reached, Core, PlanType
  <2> QED
    BY <2>1 DEF Core, AheadInv
<1>3. CallInv'
  BY DEF Core, CallInv
<1>4. BehindInv'
  BY DEF Core, BehindInv, Success, CellStopsAtFailure
<1>5. OrphanInv'
  BY DEF Core, OrphanInv, Touched
<1> QED
  BY <1>1, <1>2, <1>3, <1>4, <1>5 DEF Core

\* The verdict on a receipt, and the artifacts of the experiment.
LEMMA VerdictSteps ==
    ASSUME Core,
           \/ Unreadable \/ BudgetMismatch \/ Judge \/ WriteCell \/ CellDiffers \/ WriteManifest \/ ManifestDiffers
           \/ BudgetStopDiffers \/ WriteStop \/ Crash \/ Others
    PROVE  Core'
<1> USE DEF States, Before, During, Committed
<1>1. ASSUME UNCHANGED <<attempt, calls, orphans, row, budgetEv>>,
             \/ pc' = "idle" /\ Resting
             \/ /\ UNCHANGED <<at, existing>>
                /\ \/ UNCHANGED <<pc, outcome>>
                   \/ pc \notin {"idle", "bind"} /\ pc' \in {"write_stop", "cell_end", "manifest"}
      PROVE  Core'
  <2>1. /\ row' \in [Segments -> Row] /\ budgetEv' \in [Segments -> Budget]
        /\ \A s \in Segments : (Touched(s) => Touched(s)') /\ (Touched(s)' => s \in Budgeted)
    BY <1>1 DEF Core, PlanType, OrphanInv, Touched
  <2>2. CASE pc' = "idle" /\ Resting
    BY <1>1, <2>2, Ends
  <2>3. CASE UNCHANGED <<at, existing, pc, outcome>>
    BY <1>1, <2>1, <2>3, Stays DEF Core, PlanType, OrphanInv
  <2>4. CASE UNCHANGED <<at, existing>> /\ pc \notin {"idle", "bind"} /\ pc' \in {"write_stop", "cell_end", "manifest"}
    BY <1>1, <2>1, <2>4, Stays
  <2> QED
    BY <1>1, <2>2, <2>3, <2>4
<1>2. CASE Unreadable \/ BudgetMismatch \/ CellDiffers \/ ManifestDiffers \/ BudgetStopDiffers
  BY <1>1, <1>2 DEF Unreadable, BudgetMismatch, CellDiffers, ManifestDiffers, BudgetStopDiffers, Raise, EndWith, stores
<1>3. CASE WriteManifest \/ WriteStop
  BY <1>1, <1>3 DEF WriteManifest, WriteStop, EndWith, stores
<1>4. CASE Crash
  BY <1>1, <1>4 DEF Crash, stores
<1>5. CASE Others
  BY <1>1, <1>5 DEF Others, stores, run
<1>6. CASE Judge
  <2>1. /\ pc = "receipt" /\ UNCHANGED <<attempt, calls, existing, orphans, row, budgetEv>>
        /\ \/ UNCHANGED at /\ pc' \in {"write_stop", "cell_end"}
           \/ Succeeded(attempt[Segment]) /\ Advance
    BY <1>6 DEF Judge, StopFor, stores
  <2>2. CASE UNCHANGED at /\ pc' \in {"write_stop", "cell_end"}
    BY <1>1, <2>1, <2>2
  <2>3. CASE Succeeded(attempt[Segment]) /\ Advance /\ at.index < Len(Cells[at.cell])
    <3>1. at' = [at EXCEPT !.index = @ + 1] /\ pc' = "segment"
      BY <2>3 DEF Advance
    <3>2. /\ at' \in [cell : Nat, index : Nat] /\ at'.cell = at.cell /\ at'.index = at.index + 1
          /\ at.cell \in CellIds /\ at.index \in Nat
      <4>1. at \in [cell : Nat, index : Nat] /\ at.cell \in CellIds
        BY DEF Core, PlanType
      <4>2. at.cell \in Nat /\ at.index \in Nat
        BY <4>1
      <4>3. at'.cell = at.cell /\ at'.index = at.index + 1 /\ at' \in [cell : Nat, index : Nat]
        <5>1. \A p \in [cell : Nat, index : Nat], n \in Nat :
                 LET q == [p EXCEPT !.index = n]
                 IN  q.cell = p.cell /\ q.index = n /\ q \in [cell : Nat, index : Nat]
          OBVIOUS
        <5>2. at' = [at EXCEPT !.index = at.index + 1] /\ at.index + 1 \in Nat
          BY <3>1, <4>2
        <5> QED
          BY <4>1, <5>1, <5>2
      <4> QED
        BY <4>1, <4>2, <4>3
    <3>3. at'.index \in DOMAIN Cells[at'.cell] /\ \A i \in DOMAIN Cells[at'.cell] : i \in Nat
      <4>1. Cells[at.cell] \in Seq(Segments)
        BY <3>2 DEF CellIds
      <4> QED
        BY <2>3, <3>2, <4>1, SMTT(30)
    <3>4. Success(Segment)
      BY <2>1, <2>3 DEF Core, CallInv, Success, Succeeded
    <3>5. \A i \in DOMAIN Cells[at'.cell] : i < at'.index => Success(Cells[at'.cell][i])
      <4> SUFFICES ASSUME NEW i \in DOMAIN Cells[at.cell], i < at.index + 1
                   PROVE  Success(Cells[at.cell][i])
        BY <3>2
      <4>1. i < at.index \/ i = at.index
        BY <3>2, <3>3, SMTT(30)
      <4> QED
        BY <3>4, <4>1 DEF Core, BehindInv, Segment
    <3>6. Beyond(at'.cell, at'.index)
      BY <3>2 DEF Beyond
    <3> QED
      BY <2>1, <3>1, <3>2, <3>3, <3>5, <3>6, Moves
  <2>4. CASE Advance /\ ~(at.index < Len(Cells[at.cell]))
    BY <2>1, <2>4, <1>1 DEF Advance
  <2> QED
    BY <2>1, <2>2, <2>3, <2>4
<1>7. CASE WriteCell
  <2>1. /\ pc = "cell_end" /\ UNCHANGED <<attempt, calls, existing, orphans, row, budgetEv>>
        /\ \/ at.cell < Len(Cells) /\ pc' = "segment" /\ at' = [cell |-> at.cell + 1, index |-> 1]
           \/ pc' = "manifest" /\ UNCHANGED at
    BY <1>7 DEF WriteCell, stores
  <2>2. CASE pc' = "manifest" /\ UNCHANGED at
    BY <1>1, <2>1, <2>2
  <2>3. CASE at.cell < Len(Cells) /\ pc' = "segment" /\ at' = [cell |-> at.cell + 1, index |-> 1]
    <3>1. /\ at.cell \in Nat /\ at'.cell = at.cell + 1 /\ at'.index = 1
          /\ at' \in [cell : Nat, index : Nat]
      BY <2>3 DEF Core, PlanType
    <3>2. at'.cell \in CellIds
      BY <2>3, <3>1 DEF CellIds
    <3>3. Cells[at'.cell] \in Seq(Segments) /\ Cells[at'.cell] # <<>>
      BY <3>2 DEF CellIds
    <3>4. \A q \in Seq(Segments) : (q # <<>> => 1 \in DOMAIN q) /\ \A i \in DOMAIN q : ~(i < 1)
      OBVIOUS
    <3>5. at'.index \in DOMAIN Cells[at'.cell] /\ \A i \in DOMAIN Cells[at'.cell] : ~(i < at'.index)
      BY <3>1, <3>3, <3>4
    <3>6. Beyond(at'.cell, at'.index)
      BY <3>1 DEF Beyond
    <3> QED
      BY <2>1, <2>3, <3>1, <3>2, <3>5, <3>6, Moves
  <2> QED
    BY <2>1, <2>2, <2>3
<1> QED
  BY <1>2, <1>3, <1>4, <1>5, <1>6, <1>7

\* An experiment that has not begun.
LEMMA Begins == Init => Core
<1> SUFFICES ASSUME Init PROVE Core
  OBVIOUS
<1> USE DEF Init
<1>1. at = [cell |-> 1, index |-> 1] /\ at.cell = 1 /\ at.index = 1 /\ at \in [cell : Nat, index : Nat]
  OBVIOUS
<1>2. 1 \in CellIds
  BY DEF CellIds
<1>3. Cells[1] \in Seq(Segments) /\ Cells[1] # <<>>
  BY <1>2 DEF CellIds
<1>4. \A q \in Seq(Segments) : (q # <<>> => 1 \in DOMAIN q) /\ \A i \in DOMAIN q : ~(i < 1)
  OBVIOUS
<1>5. 1 \in DOMAIN Cells[1] /\ \A i \in DOMAIN Cells[1] : ~(i < 1)
  BY <1>3, <1>4
<1>6. PlanType
  <2>1. NoAttempt \in Attempt /\ NoRow \in Row /\ "none" \in Budget
    BY DEF NoAttempt, Attempt, NoRow, Row, Budget
  <2>2. attempt \in [Segments -> Attempt] /\ row \in [Segments -> Row] /\ budgetEv \in [Segments -> Budget]
    BY <2>1
  <2> QED
    BY <1>1, <1>2, <1>5, <2>2 DEF PlanType, States
<1>7. AheadInv
  BY DEF AheadInv, Before
<1>8. CallInv
  BY DEF CallInv, During
<1>9. BehindInv
  <2>1. \A c \in CellIds : \A i \in DOMAIN Cells[c] : calls[Cells[c][i]] = 0
    BY DEF Segments
  <2>2. CellStopsAtFailure
    <3> HIDE DEF Init
    <3> QED
      BY <2>1 DEF CellStopsAtFailure
  <2>3. \A i \in DOMAIN Cells[at.cell] : ~(i < at.index)
    BY <1>1, <1>5
  <2> HIDE DEF Init
  <2> QED
    BY <2>2, <2>3 DEF BehindInv
<1>10. OrphanInv
  BY DEF OrphanInv, Touched, Committed, During
<1> QED
  BY <1>6, <1>7, <1>8, <1>9, <1>10 DEF Core

\* The invariant the three properties rest on.
LEMMA ExperimentCore == Spec => []Core
<1>1. ASSUME Core, [Next]_vars PROVE Core'
  <2>1. CASE Next
    BY <1>1, <2>1, AdmissionSteps, BudgetSteps, AttemptSteps, VerdictSteps DEF Next, Step
  <2>2. CASE UNCHANGED vars
    <3>1. /\ UNCHANGED <<at, attempt, calls, existing, orphans, row, budgetEv, pc, outcome>>
      BY <2>2 DEF vars, stores, run
    <3>2. Segment' = Segment
      BY <3>1 DEF Segment
    <3>3. PlanType' /\ CallInv' /\ OrphanInv'
      BY <1>1, <3>1, <3>2 DEF Core, PlanType, CallInv, OrphanInv, Touched
    <3>4. AheadInv'
      BY <1>1, <3>1, <3>2 DEF Core, AheadInv, Beyond, Reached
    <3>5. BehindInv'
      BY <1>1, <3>1 DEF Core, BehindInv, Success, CellStopsAtFailure
    <3> QED
      BY <3>3, <3>4, <3>5 DEF Core
  <2> QED
    BY <1>1, <2>1, <2>2
<1> QED
  BY Begins, <1>1, PTL DEF Spec

\* No crash, resume or replay makes a segment of the plan run twice
\* (scheduling.run_research).
THEOREM EachRunsOnce == Spec => []NeverRetried
<1>1. Core => NeverRetried
  BY DEF Core, CallInv, NeverRetried
<1> QED
  BY ExperimentCore, <1>1, PTL

\* A segment whose commitment an earlier invocation abandoned never runs
\* (request_budget.for_attempt).
THEOREM AbandonmentIsFinal == Spec => []AbandonedNeverRuns
<1>1. Core => AbandonedNeverRuns
  BY DEF Core, PlanType, CallInv, OrphanInv, AbandonedNeverRuns
<1> QED
  BY ExperimentCore, <1>1, PTL

\* Behind a failure no segment of its cell ever runs, across any number of
\* resumes (the stop-cell policy of scheduling.run_research).
THEOREM FailureStopsTheCell == Spec => []CellStopsAtFailure
<1>1. Core => CellStopsAtFailure
  BY DEF Core, BehindInv
<1> QED
  BY ExperimentCore, <1>1, PTL

-----------------------------------------------------------------------------
\* What an invocation has committed when it runs a segment.
Approved(s) == "passed" \in Range(probes[s])
Holds(s) == row[s].state # "none"

ProbeInv ==
    /\ probes \in [Segments -> Seq({"open", "passed", "failed", "interrupted"})]
    /\ pc = "probing" => probes[Segment] # <<>> /\ probes[Segment][Len(probes[Segment])] = "open"
    /\ pc \in {"reserve"} \cup Committed => Approved(Segment)
    /\ \A s \in Segments : calls[s] > 0 => Approved(s)

HoldInv ==
    /\ pc \in Committed /\ Segment \in Budgeted => Holds(Segment)
    /\ pc \in Committed \ {"close_budget", "finish"} /\ Segment \in Budgeted =>
          row[Segment].amount = Cost[Segment]
    /\ pc \in Committed \ {"open_budget"} /\ Segment \in Budgeted => budgetEv[Segment] # "none"
    /\ \A s \in Budgeted : calls[s] > 0 => Holds(s) /\ budgetEv[s] # "none"

CapInv == others \in Nat /\ Retained + others <= Cap

CommitInv == ProbeInv /\ HoldInv /\ CapInv

\* The plan is finite.
LEMMA PlanIsFinite == IsFiniteSet(Segments)
<1> DEFINE Of(c) == {Cells[c][i] : i \in DOMAIN Cells[c]}
           Sets == {Of(c) : c \in CellIds}
<1>1. \A c \in CellIds : IsFiniteSet(Of(c))
  <2> SUFFICES ASSUME NEW c \in CellIds PROVE IsFiniteSet(Of(c))
    OBVIOUS
  <2>1. Cells[c] \in Seq(Segments)
    BY DEF CellIds
  <2>2. DOMAIN Cells[c] = 1..Len(Cells[c]) /\ Len(Cells[c]) \in Nat
    BY <2>1
  <2>3. IsFiniteSet(DOMAIN Cells[c])
    BY <2>2, InitialSegment
  <2> DEFINE f == [i \in DOMAIN Cells[c] |-> Cells[c][i]]
  <2>4. f \in Surjection(DOMAIN Cells[c], Of(c))
    BY DEF Surjection
  <2> QED
    BY <2>3, <2>4, FS_Surjection
<1>2. IsFiniteSet(CellIds)
  <2>1. CellIds = 1..Len(Cells) /\ Len(Cells) \in Nat
    BY DEF CellIds
  <2> QED
    BY <2>1, InitialSegment
<1> HIDE DEF Of
<1> DEFINE g == [c \in CellIds |-> Of(c)]
<1>3. g \in Surjection(CellIds, Sets)
  BY DEF Surjection
<1>4. IsFiniteSet(Sets)
  BY <1>2, <1>3, FS_Surjection
<1>5. IsFiniteSet(UNION Sets)
  <2>1. \A T \in Sets : IsFiniteSet(T)
    BY <1>1
  <2> HIDE DEF Sets
  <2> QED
    BY <1>4, <2>1, FS_UNION
<1> QED
  BY <1>5 DEF Segments, Of

\* What the ledger retains, when one row changes.
Amounts(table) == [s \in Segments |-> table[s].amount]

LEMMA RetainedUpdate ==
    ASSUME NEW table \in [Segments -> Row], NEW s \in Segments, NEW new \in Row
    PROVE  /\ Total(Amounts(table)) \in Nat
           /\ Total(Amounts([table EXCEPT ![s] = new])) = Total(Amounts(table)) - table[s].amount + new.amount
<1>1. Amounts(table) \in [Segments -> Nat] /\ new.amount \in Nat /\ Amounts(table)[s] = table[s].amount
  BY DEF Amounts, Row
<1>2. Amounts([table EXCEPT ![s] = new]) = [Amounts(table) EXCEPT ![s] = new.amount]
  BY DEF Amounts
<1>3. /\ Total(Amounts(table)) \in Nat
      /\ Total([Amounts(table) EXCEPT ![s] = new.amount]) = Total(Amounts(table)) - Amounts(table)[s] + new.amount
  <2> HIDE PlanAssumption
  <2> QED
    BY <1>1, PlanIsFinite, SumUpdate
<1> QED
  BY <1>1, <1>2, <1>3

LEMMA RetainedIs == Retained = Total(Amounts(row))
BY DEF Retained, Amounts

\* Steps that leave the commitments alone.
LEMMA Keeps ==
    ASSUME CommitInv, UNCHANGED <<probes, row, budgetEv, calls, others>>,
           pc' \notin {"probing", "reserve"} \cup Committed \/ UNCHANGED <<pc, at>>
    PROVE  CommitInv'
<1>1. UNCHANGED at => Segment' = Segment
  BY DEF Segment
<1>2. Retained' = Retained
  BY DEF Retained
<1> QED
  BY <1>1, <1>2 DEF CommitInv, ProbeInv, HoldInv, CapInv, Approved, Holds

\* Admission probes, and their interruption.
LEMMA ProbeSteps ==
    ASSUME Core, CommitInv,
           \/ \E s \in Segments : InterruptProbe(s)
           \/ StartProbe \/ \E v \in {"passed", "failed"} : EndProbe(v)
    PROVE  CommitInv'
<1> DEFINE V == {"open", "passed", "failed", "interrupted"}
<1> USE DEF Committed, During
<1>0. Segment \in Segments /\ probes \in [Segments -> Seq(V)]
  BY AtSegment DEF Core, CommitInv, ProbeInv
<1>1. ASSUME NEW s \in Segments, InterruptProbe(s) PROVE CommitInv'
  <2>1. PICK i \in DOMAIN probes[s] : probes[s][i] = "open" /\ probes' = [probes EXCEPT ![s][i] = "interrupted"]
    BY <1>1 DEF InterruptProbe
  <2>2. pc = "bind" /\ UNCHANGED <<pc, at, row, budgetEv, calls, others>> /\ Retained' = Retained
    BY <1>1 DEF InterruptProbe, run, Retained
  <2>3. probes' = [probes EXCEPT ![s] = [probes[s] EXCEPT ![i] = "interrupted"]] /\ probes[s] \in Seq(V)
    BY <1>0, <2>1
  <2>4. [probes[s] EXCEPT ![i] = "interrupted"] \in Seq(V)
    BY <2>1, <2>3
  <2>5. probes' \in [Segments -> Seq(V)]
    BY <1>0, <2>3, <2>4
  <2>6. \A t \in Segments : Approved(t) => Approved(t)'
    <3>1. "passed" \in Range(probes[s]) => "passed" \in Range([probes[s] EXCEPT ![i] = "interrupted"])
      <4> HIDE DEF V
      <4> QED
        BY <2>1, <2>3, RangeOfUpdate
    <3> QED
      BY <1>0, <2>3, <3>1 DEF Approved
  <2> QED
    BY <2>2, <2>5, <2>6 DEF CommitInv, ProbeInv, HoldInv, CapInv, Holds
<1>2. CASE StartProbe
  <2>1. /\ pc' = "probing" /\ probes' = [probes EXCEPT ![Segment] = Append(@, "open")]
        /\ UNCHANGED <<at, row, budgetEv, calls, others>> /\ Segment' = Segment /\ Retained' = Retained
    BY <1>2 DEF StartProbe, Goto, Segment, Retained
  <2>2. probes[Segment] \in Seq(V) /\ probes'[Segment] = Append(probes[Segment], "open")
    BY <1>0, <2>1
  <2>3. \A q \in Seq(V) : /\ Append(q, "open") \in Seq(V) /\ Append(q, "open") # <<>>
                          /\ Append(q, "open")[Len(Append(q, "open"))] = "open"
                          /\ \A x \in Range(q) : x \in Range(Append(q, "open"))
    <3>1. "open" \in V
      OBVIOUS
    <3> HIDE DEF V
    <3> QED
      BY <3>1, Appended
  <2>4. probes' \in [Segments -> Seq(V)]
    BY <1>0, <2>1, <2>2, <2>3
  <2>5. probes'[Segment] # <<>> /\ probes'[Segment][Len(probes'[Segment])] = "open"
    BY <2>2, <2>3
  <2>6. \A t \in Segments : Approved(t) => Approved(t)'
    BY <1>0, <2>1, <2>2, <2>3 DEF Approved
  <2> QED
    BY <2>1, <2>4, <2>5, <2>6 DEF CommitInv, ProbeInv, HoldInv, CapInv, Holds
<1>3. ASSUME NEW v \in {"passed", "failed"}, EndProbe(v) PROVE CommitInv'
  <2> DEFINE q == probes[Segment]
             n == Len(q)
  <2>1. /\ pc = "probing" /\ probes' = [probes EXCEPT ![Segment][n] = v]
        /\ \/ pc' = "write_stop"
           \/ v = "passed" /\ pc' = "reserve"
           \/ v = "passed" /\ pc' = "start" /\ Segment \notin Budgeted
        /\ UNCHANGED <<at, row, budgetEv, calls, others>> /\ Segment' = Segment /\ Retained' = Retained
    BY <1>3 DEF EndProbe, Goto, StopFor, Segment, Retained
  <2>2. q \in Seq(V) /\ q # <<>> /\ q[n] = "open"
    BY <1>0, <2>1 DEF CommitInv, ProbeInv
  <2>3. n \in DOMAIN q
    BY <2>2
  <2>4. probes' = [probes EXCEPT ![Segment] = [q EXCEPT ![n] = v]] /\ [q EXCEPT ![n] = v] \in Seq(V)
    BY <1>0, <2>1, <2>2, <2>3
  <2>5. probes' \in [Segments -> Seq(V)] /\ probes'[Segment] = [q EXCEPT ![n] = v]
    BY <1>0, <2>4
  <2>6. "passed" \in Range(q) => "passed" \in Range([q EXCEPT ![n] = v])
    <3> HIDE DEF V
    <3> QED
      BY <2>2, <2>3, RangeOfUpdate
  <2>7. v = "passed" => Approved(Segment)'
    <3>1. v \in Range([q EXCEPT ![n] = v])
      <4> HIDE DEF V
      <4> QED
        BY <2>2, <2>3, RangeOfUpdate
    <3> QED
      BY <2>1, <2>5, <3>1 DEF Approved
  <2>8. \A t \in Segments : Approved(t) => Approved(t)'
    BY <1>0, <2>4, <2>5, <2>6 DEF Approved
  <2> QED
    BY <2>1, <2>5, <2>7, <2>8 DEF CommitInv, ProbeInv, HoldInv, CapInv, Holds
<1> QED
  BY <1>1, <1>2, <1>3

\* What is committed for a segment, and its settlement.
LEMMA HoldSteps ==
    ASSUME Core, CommitInv,
           \/ \E s \in Segments : InterruptBudget(s)
           \/ Reserve \/ OpenBudget \/ CloseBudget \/ Others
           \/ \E known \in BOOLEAN, charge \in 0..Cap : Settle(known, charge)
    PROVE  CommitInv'
<1> USE DEF Committed, During
<1>0. /\ Segment \in Segments /\ row \in [Segments -> Row] /\ budgetEv \in [Segments -> Budget]
      /\ others \in Nat /\ Retained \in Nat /\ Retained + others <= Cap
  <2>1. Segment \in Segments
    BY AtSegment DEF Core
  <2>2. row \in [Segments -> Row] /\ budgetEv \in [Segments -> Budget]
    BY DEF Core, PlanType
  <2>3. Retained \in Nat
    BY <2>1, <2>2, RetainedIs, RetainedUpdate
  <2> QED
    BY <2>1, <2>2, <2>3 DEF CommitInv, CapInv
<1>1. ASSUME NEW s \in Segments, NEW new \in Budget \ {"none"}, budgetEv' = [budgetEv EXCEPT ![s] = new],
             UNCHANGED <<at, probes, row, calls, others>>,
             \/ UNCHANGED pc
             \/ pc = "open_budget" /\ pc' = "start" /\ s = Segment
             \/ pc = "close_budget" /\ pc' = "finish"
      PROVE  CommitInv'
  <2>1. Segment' = Segment /\ Retained' = Retained
    BY <1>1 DEF Segment, Retained
  <2>2. \A t \in Segments : budgetEv'[t] # "none" <=> budgetEv[t] # "none" \/ t = s
    BY <1>0, <1>1
  <2>3. ProbeInv' /\ CapInv'
    BY <1>1, <2>1 DEF CommitInv, ProbeInv, CapInv, Approved
  <2>4. HoldInv'
    BY <1>0, <1>1, <2>1, <2>2 DEF CommitInv, HoldInv, Holds
  <2> QED
    BY <2>3, <2>4 DEF CommitInv
<1>2. ASSUME NEW s \in Segments, InterruptBudget(s) PROVE CommitInv'
  <2>1. "interrupted" \in Budget \ {"none"}
    BY DEF Budget
  <2> QED
    BY <1>1, <1>2, <2>1 DEF InterruptBudget, run
<1>3. CASE OpenBudget
  <2>1. "open" \in Budget \ {"none"}
    BY DEF Budget
  <2> QED
    BY <1>0, <1>1, <1>3, <2>1 DEF OpenBudget, Goto
<1>4. CASE CloseBudget
  <2>1. PICK new \in {"completed", "failed"} : budgetEv' = [budgetEv EXCEPT ![Segment] = new]
    BY <1>4 DEF CloseBudget
  <2>2. new \in Budget \ {"none"}
    BY DEF Budget
  <2> QED
    BY <1>0, <1>1, <1>4, <2>1, <2>2 DEF CloseBudget, Goto
<1>5. CASE Reserve
  <2> DEFINE new == [state |-> "unresolved", amount |-> Cost[Segment]]
  <2>1. /\ pc = "reserve" /\ pc' = "open_budget" /\ row' = [row EXCEPT ![Segment] = new]
        /\ row[Segment] = NoRow /\ Cost[Segment] <= Cap - Retained - others
        /\ UNCHANGED <<at, probes, calls, budgetEv, others>> /\ Segment' = Segment
    BY <1>5 DEF Reserve, MayReserve, Fresh, Available, Goto, Segment
  <2>2. new \in Row /\ new.amount = Cost[Segment] /\ new.state = "unresolved" /\ Cost[Segment] \in Nat
    BY <1>0 DEF Row
  <2> HIDE DEF new
  <2>3. Retained' = Retained - 0 + Cost[Segment]
    <3>1. Retained' = Total(Amounts(row'))
      BY DEF Retained, Amounts
    <3>2. row[Segment].amount = 0
      BY <2>1 DEF NoRow
    <3>3. Total(Amounts([row EXCEPT ![Segment] = new])) = Total(Amounts(row)) - row[Segment].amount + new.amount
      <4> HIDE PlanAssumption
      <4> QED
        BY <1>0, <2>2, RetainedUpdate
    <3> QED
      BY <2>1, <2>2, <3>1, <3>2, <3>3, RetainedIs
  <2>4. CapInv'
    BY <1>0, <2>1, <2>2, <2>3 DEF CapInv
  <2>5. row'[Segment] = new /\ \A s \in Segments : s # Segment => row'[s] = row[s]
    BY <1>0, <2>1
  <2>6. ProbeInv'
    BY <2>1 DEF CommitInv, ProbeInv, Approved
  <2>7. HoldInv'
    BY <1>0, <2>1, <2>2, <2>5 DEF CommitInv, HoldInv, Holds
  <2> QED
    BY <2>4, <2>6, <2>7 DEF CommitInv
<1>6. ASSUME NEW known \in BOOLEAN, NEW charge \in 0..Cap, Settle(known, charge) PROVE CommitInv'
  <2> DEFINE new == [state |-> "settled", amount |-> charge]
  <2>1. /\ pc = "settle" /\ pc' = "close_budget" /\ (row' = [row EXCEPT ![Segment] = new] \/ row' = row)
        /\ charge <= Cost[Segment]
        /\ UNCHANGED <<at, probes, calls, budgetEv, others>> /\ Segment' = Segment
    BY <1>6 DEF Settle, Goto, Segment
  <2>2. new \in Row /\ new.amount = charge /\ new.state = "settled" /\ charge \in Nat
    BY <1>0 DEF Row
  <2> HIDE DEF new
  <2>3. Segment \in Budgeted /\ row[Segment].amount = Cost[Segment]
    BY <2>1 DEF Core, OrphanInv, CommitInv, HoldInv
  <2>4. CapInv'
    <3>1. CASE row' = row
      BY <1>0, <2>1, <3>1 DEF CapInv, Retained
    <3>2. CASE row' = [row EXCEPT ![Segment] = new]
      <4>1. Retained' = Total(Amounts(row'))
        BY DEF Retained, Amounts
      <4>2. Retained' = Retained - Cost[Segment] + charge
        <5>1. Total(Amounts([row EXCEPT ![Segment] = new])) = Total(Amounts(row)) - row[Segment].amount + new.amount
          <6> HIDE PlanAssumption
          <6> QED
            BY <1>0, <2>2, RetainedUpdate
        <5> QED
          BY <2>2, <2>3, <3>2, <4>1, <5>1, RetainedIs
      <4> QED
        BY <1>0, <2>1, <2>2, <4>2 DEF CapInv
    <3> QED
      BY <2>1, <3>1, <3>2
  <2>5. \A s \in Segments : Holds(s) => Holds(s)'
    BY <1>0, <2>1, <2>2 DEF Holds
  <2>6. ProbeInv'
    BY <2>1 DEF CommitInv, ProbeInv, Approved
  <2>7. HoldInv'
    BY <1>0, <2>1, <2>5 DEF CommitInv, HoldInv
  <2> QED
    BY <2>4, <2>6, <2>7 DEF CommitInv
<1>7. CASE Others
  <2>1. UNCHANGED <<pc, at, probes, row, budgetEv, calls>> /\ others' \in OtherHolds /\ Retained + others' <= Cap
    BY <1>7 DEF Others, stores, run
  <2>2. Segment' = Segment /\ Retained' = Retained /\ others' \in Nat
    BY <2>1 DEF Segment, Retained
  <2> QED
    BY <2>1, <2>2 DEF CommitInv, ProbeInv, HoldInv, CapInv, Approved, Holds
<1> QED
  BY <1>2, <1>3, <1>4, <1>5, <1>6, <1>7

\* The candidate runs under what was committed for it.
LEMMA RunSteps ==
    ASSUME Core, CommitInv,
           \/ StartAttempt \/ Finish
           \/ \E k \in Kinds, i \in Sessions \cup {None} : Execute(k, i)
    PROVE  CommitInv'
<1> USE DEF Committed, During
<1>0. Segment \in Segments
  BY AtSegment DEF Core
<1>1. CASE StartAttempt \/ Finish
  <2>1. /\ UNCHANGED <<at, probes, row, budgetEv, calls, others>>
        /\ (pc = "start" /\ pc' = "execute") \/ pc' = "receipt"
        /\ Segment' = Segment /\ Retained' = Retained
    BY <1>1 DEF StartAttempt, Finish, Goto, Segment, Retained
  <2> QED
    BY <2>1 DEF CommitInv, ProbeInv, HoldInv, CapInv, Approved, Holds
<1>2. ASSUME NEW k \in Kinds, NEW i \in Sessions \cup {None}, Execute(k, i) PROVE CommitInv'
  <2>1. /\ UNCHANGED <<at, probes, row, budgetEv, others>> /\ calls' = [calls EXCEPT ![Segment] = @ + 1]
        /\ pc = "execute" /\ pc' \in {"settle", "finish"}
        /\ Segment' = Segment /\ Retained' = Retained
    BY <1>2 DEF Execute, Segment, Retained
  <2>2. \A s \in Segments : s # Segment => calls'[s] = calls[s]
    BY <1>0, <2>1 DEF Core, PlanType
  <2>3. ProbeInv' /\ CapInv'
    BY <2>1, <2>2 DEF CommitInv, ProbeInv, CapInv, Approved
  <2>4. HoldInv'
    <3>1. \A s \in Budgeted : calls'[s] > 0 => Holds(s) /\ budgetEv[s] # "none"
      BY <2>1, <2>2 DEF CommitInv, HoldInv
    <3> QED
      BY <2>1, <3>1 DEF CommitInv, HoldInv, Holds
  <2> QED
    BY <2>3, <2>4 DEF CommitInv
<1> QED
  BY <1>1, <1>2

\* Everything else: what is committed stays as it is.
LEMMA OtherSteps ==
    ASSUME Core, CommitInv,
           \/ Begin \/ Bound \/ Reuse \/ ReadCeiling \/ AdmissionRaises
           \/ RefuseReplay \/ RefuseOverCap \/ WriteBudgetStop
           \/ Unreadable \/ BudgetMismatch \/ Judge \/ WriteCell \/ CellDiffers \/ WriteManifest \/ ManifestDiffers
           \/ BudgetStopDiffers \/ WriteStop \/ Crash
    PROVE  CommitInv'
<1> USE DEF Committed, During
<1>1. CASE Begin \/ Bound \/ Reuse \/ ReadCeiling \/ AdmissionRaises \/ RefuseReplay \/ RefuseOverCap \/ WriteBudgetStop
  <2>1. UNCHANGED <<probes, row, budgetEv, calls, others>> /\ pc' \notin {"probing", "reserve"} \cup Committed
    BY <1>1 DEF Begin, Bound, Reuse, ReadCeiling, AdmissionRaises, RefuseReplay, RefuseOverCap, WriteBudgetStop,
       Goto, StopFor, stores
  <2> QED
    BY <2>1, Keeps
<1>2. CASE Unreadable \/ BudgetMismatch \/ CellDiffers \/ WriteManifest \/ ManifestDiffers \/ BudgetStopDiffers \/ WriteStop \/ Crash
  <2>1. UNCHANGED <<probes, row, budgetEv, calls, others>> /\ pc' = "idle"
    BY <1>2 DEF Unreadable, BudgetMismatch, CellDiffers, WriteManifest, ManifestDiffers, BudgetStopDiffers, WriteStop, Crash,
       Raise, EndWith, stores
  <2> QED
    BY <2>1, Keeps
<1>3. CASE Judge \/ WriteCell
  <2>1. UNCHANGED <<probes, row, budgetEv, calls, others>> /\ pc' \in {"write_stop", "cell_end", "segment", "manifest"}
    BY <1>3 DEF Judge, Advance, StopFor, WriteCell, stores
  <2> QED
    BY <2>1, Keeps
<1> QED
  BY <1>1, <1>2, <1>3

LEMMA CommitmentCore == Spec => []CommitInv
<1>1. Init => CommitInv
  <2> SUFFICES ASSUME Init PROVE CommitInv
    OBVIOUS
  <2>1. /\ probes = [s \in Segments |-> <<>>] /\ row = [s \in Segments |-> NoRow] /\ others = 0
        /\ calls = [s \in Segments |-> 0] /\ pc = "idle"
    BY DEF Init
  <2>2. Retained = 0
    <3>1. Amounts(row) = [s \in Segments |-> 0]
      BY <2>1 DEF Amounts, NoRow
    <3> QED
      BY <3>1, RetainedIs, TotalZero
  <2>3. ProbeInv
    <3>1. <<>> \in Seq({"open", "passed", "failed", "interrupted"})
      OBVIOUS
    <3> QED
      BY <2>1, <3>1 DEF ProbeInv, Committed, During
  <2>4. HoldInv
    BY <2>1 DEF HoldInv, Committed, During
  <2>5. CapInv
    BY <2>1, <2>2 DEF CapInv
  <2> QED
    BY <2>3, <2>4, <2>5 DEF CommitInv
<1>2. ASSUME Core, CommitInv, [Next]_vars PROVE CommitInv'
  <2>1. CASE Next
    BY <1>2, <2>1, ProbeSteps, HoldSteps, RunSteps, OtherSteps DEF Next, Step
  <2>2. CASE UNCHANGED vars
    BY <1>2, <2>2, Keeps DEF vars, stores, run
  <2> QED
    BY <1>2, <2>1, <2>2
<1> QED
  BY ExperimentCore, <1>1, <1>2, PTL DEF Spec

\* Whatever has run has durably been approved, attempted and, where its route
\* is budgeted, reserved and committed; and with what other executions hold it
\* stays within the cap (scheduling.run_research, request_budget.for_attempt).
THEOREM RunsAreCommitted == Spec => []CommittedBeforeCall
<1>1. Core /\ CommitInv => CommittedBeforeCall
  <2> SUFFICES ASSUME Core, CommitInv PROVE CommittedBeforeCall
    OBVIOUS
  <2>1. Retained + others <= Cap
    BY DEF CommitInv, CapInv
  <2>2. \A s \in Segments : attempt[s].state = "none" => calls[s] = 0
    BY DEF Core, CallInv
  <2>3. \A s \in Segments : calls[s] > 0 => "passed" \in Range(probes[s])
    BY DEF CommitInv, ProbeInv, Approved
  <2>4. \A s \in Budgeted : calls[s] > 0 => row[s].state # "none" /\ budgetEv[s] # "none"
    BY DEF CommitInv, HoldInv, Holds
  <2> QED
    BY <2>1, <2>2, <2>3, <2>4 DEF CommittedBeforeCall
<1> QED
  BY ExperimentCore, CommitmentCore, <1>1, PTL

-----------------------------------------------------------------------------
(***************************************************************************)
(* What an experiment publishes, however often it dies and is resumed: a   *)
(* published result rests on complete evidence, and a resumed invocation   *)
(* recomputes what earlier ones wrote.                                     *)
(***************************************************************************)
\* What an experiment has published, and what a resumed invocation makes of it.
Written(f) == f \notin {None, Partial}
Verdicts == {"ok", "invalid", "candidate_failed", "failed", "interrupted"}

\* The attempt that decides a cell: the first that was no success, or the last.
DecidedBy(c, k) ==
    /\ k \in DOMAIN Cells[c]
    /\ attempt[Cells[c][k]].state = "complete" /\ attempt[Cells[c][k]].kind \in Verdicts
    /\ attempt[Cells[c][k]].kind = "ok" => k = Len(Cells[c])
    /\ \A i \in DOMAIN Cells[c] : i < k => Success(Cells[c][i])
FailureOf(kind) == IF kind = "ok" THEN None ELSE kind
ResultOf(c, k) ==
    LET f == FailureOf(attempt[Cells[c][k]].kind)
    IN  [status |-> IF f = None THEN "ok" ELSE "failed", failure |-> f, receipts |-> k]

\* A started attempt has only successes before it in its cell, and only a
\* complete one has a kind.
StartedInv ==
    /\ \A c \in CellIds : \A i, j \in DOMAIN Cells[c] :
          i < j /\ attempt[Cells[c][j]].state # "none" => Success(Cells[c][i])
    /\ \A s \in Segments : attempt[s].state = "complete" <=> attempt[s].kind # None

\* A written cell result is the one its attempts give, and the invocation has
\* written those of the cells behind it.
CellInv ==
    /\ cell \in [CellIds -> CellFile \cup {None, Partial}]
    /\ \A c \in CellIds : Written(cell[c]) => \E k \in DOMAIN Cells[c] : DecidedBy(c, k) /\ cell[c] = ResultOf(c, k)
    /\ \A c \in CellIds : c < at.cell \/ pc = "manifest" => Written(cell[c])
    /\ pc = "cell_end" => DecidedBy(at.cell, at.index) /\ failure = FailureOf(attempt[Segment].kind)
    /\ pc # "cell_end" => failure = None

\* The sessions an invocation has seen are those of the answers behind it.
Behind(c, i) ==
    \/ c < at.cell
    \/ c = at.cell /\ (i < at.index \/ (i = at.index /\ pc = "cell_end") \/ pc = "manifest")
Answers(c, i) == attempt[Cells[c][i]].kind \in Sealing
SessionOf(c, i) == attempt[Cells[c][i]].session
SeenInv ==
    /\ \A c \in CellIds : \A i \in DOMAIN Cells[c] :
          Behind(c, i) /\ Answers(c, i) => SessionOf(c, i) # None /\ SessionOf(c, i) \in seen
    /\ \A c, d \in CellIds : \A i \in DOMAIN Cells[c], j \in DOMAIN Cells[d] :
          /\ Behind(c, i) /\ Answers(c, i) /\ Behind(d, j) /\ Answers(d, j)
          /\ SessionOf(c, i) = SessionOf(d, j)
          => c = d /\ i = j
    /\ \A x \in seen : \E c \in CellIds : \E i \in DOMAIN Cells[c] :
          Behind(c, i) /\ Answers(c, i) /\ SessionOf(c, i) = x

\* Recovery leaves nothing open but what the invocation opens itself.
NothingOpen(s) == budgetEv[s] # "open" /\ \A i \in DOMAIN probes[s] : probes[s][i] # "open"
OpenInv ==
    /\ pc \notin {"idle", "bind"} => \A s \in Segments : s # Segment => NothingOpen(s)
    /\ pc \notin {"idle", "bind", "start", "execute", "settle", "close_budget"} => budgetEv[Segment] # "open"
    /\ pc \notin {"idle", "bind"} =>
          \A i \in DOMAIN probes[Segment] :
             probes[Segment][i] = "open" => pc = "probing" /\ i = Len(probes[Segment])

\* A written manifest ends the experiment: whoever resumes it finds everything
\* as it is, and writes the same again.
Final ==
    /\ stop = None /\ manifest = Manifest
    /\ \A c \in CellIds : Written(cell[c])
    /\ \A s \in Segments : NothingOpen(s)
    /\ \A s, t \in Segments :
          attempt[s].kind \in Sealing /\ attempt[t].kind \in Sealing
             => attempt[s].session # None /\ (attempt[s].session = attempt[t].session => s = t)
    /\ pc \in {"idle", "bind", "segment", "receipt", "cell_end", "manifest"}
FinalInv ==
    /\ Written(manifest) => Final
    /\ pc # "idle" => stop = None
    /\ pc = "manifest" => at.cell = Len(Cells)

WhyInv ==
    /\ ResumeReproduces
    /\ pc # "idle" => why \notin {"cell_differs", "manifest_differs"}

ResultInv == StartedInv /\ CellInv /\ SeenInv /\ OpenInv /\ FinalInv /\ WhyInv

Base == Core /\ CommitInv

-----------------------------------------------------------------------------
\* The segments of the plan, and where they are.
LEMMA Places ==
    /\ \A s \in Segments : \E c \in CellIds : \E i \in DOMAIN Cells[c] : s = Cells[c][i]
    /\ \A c \in CellIds : c \in 1..Len(Cells) /\ Cells[c] \in Seq(Segments)
    /\ \A c \in CellIds : \A i \in DOMAIN Cells[c] : i \in 1..Len(Cells[c]) /\ Cells[c][i] \in Segments
BY DEF Segments, CellIds

\* No mark is a cell result.
LEMMA ResultIsFile ==
    ASSUME Core, NEW c \in CellIds, NEW k, DecidedBy(c, k)
    PROVE  ResultOf(c, k) \in CellFile /\ Written(ResultOf(c, k))
<1>1. k \in Nat /\ attempt[Cells[c][k]].kind \in Verdicts
  BY Places DEF DecidedBy
<1>2. ResultOf(c, k) \in CellFile
  BY <1>1 DEF ResultOf, FailureOf, Verdicts, CellFile, Kinds
<1> QED
  BY <1>2, MarkAssumption DEF Written

\* Behind the attempt that decides a cell nothing has started.
LEMMA DecidedComplete ==
    ASSUME Core, StartedInv, NEW c \in CellIds, NEW k, DecidedBy(c, k), NEW i \in DOMAIN Cells[c]
    PROVE  /\ i > k => attempt[Cells[c][i]].state = "none"
           /\ attempt[Cells[c][i]].state \in {"none", "complete"}
           /\ attempt[Cells[c][i]].kind \in Verdicts \cup {None}
           /\ attempt[Cells[c][i]].state = "complete" => i <= k
<1>1. /\ i \in Nat /\ k \in Nat /\ k \in DOMAIN Cells[c] /\ i <= Len(Cells[c])
      /\ Cells[c][i] \in Segments /\ Cells[c][k] \in Segments
  <2>1. k \in DOMAIN Cells[c]
    BY DEF DecidedBy
  <2>2. \A j \in DOMAIN Cells[c] : j \in 1..Len(Cells[c]) /\ Cells[c][j] \in Segments
    BY Places
  <2>3. Len(Cells[c]) \in Nat
    BY Places
  <2> QED
    BY <2>1, <2>2, <2>3
<1>2. CASE i < k
  BY <1>1, <1>2 DEF DecidedBy, Success, Verdicts
<1>3. CASE i = k
  BY <1>1, <1>3 DEF DecidedBy
<1>4. CASE i > k
  <2>1. attempt[Cells[c][i]].state = "none"
    <3> SUFFICES ASSUME attempt[Cells[c][i]].state # "none" PROVE FALSE
      OBVIOUS
    <3>1. Success(Cells[c][k])
      BY <1>1, <1>4 DEF StartedInv
    <3>2. k = Len(Cells[c])
      BY <3>1 DEF Success, DecidedBy
    <3> QED
      BY <1>1, <1>4, <3>2
  <2> QED
    BY <1>1, <1>4, <2>1 DEF StartedInv
<1> QED
  BY <1>1, <1>2, <1>3, <1>4

\* There is one such attempt.
LEMMA DecidedOnce ==
    ASSUME Core, StartedInv, NEW c \in CellIds, NEW k, DecidedBy(c, k), NEW n, DecidedBy(c, n)
    PROVE  n = k
<1>1. n \in Nat /\ k \in Nat /\ n \in DOMAIN Cells[c] /\ k \in DOMAIN Cells[c]
  BY Places, SMTT(30) DEF DecidedBy
<1>2. n <= k /\ k <= n
  BY <1>1, DecidedComplete DEF DecidedBy
<1> QED
  BY <1>1, <1>2

-----------------------------------------------------------------------------
\* The evidence of a candidate changes at its segment only, and never once it
\* is complete.
AttemptStep == Reuse \/ StartAttempt \/ Finish
LEMMA AttemptChange ==
    ASSUME Core, StartedInv, AttemptStep
    PROVE  /\ \A s \in Segments : s # Segment \/ attempt[s].state = "complete" => attempt'[s] = attempt[s]
           /\ attempt'[Segment].state # "none"
           /\ attempt'[Segment].state = "complete" <=> attempt'[Segment].kind # None
           /\ UNCHANGED <<artifacts, probes, budgetEv, at, existing, seen, failure, why, Segment>>
           /\ \/ pc = "segment" /\ pc' = "receipt"
              \/ pc = "start" /\ pc' = "execute"
              \/ pc = "finish" /\ pc' = "receipt"
<1>0. Segment \in Segments /\ attempt \in [Segments -> Attempt]
  BY AtSegment DEF Core, PlanType
<1>1. CASE Reuse
  <2> DEFINE new == IF attempt[Segment].state = "open"
                    THEN Complete([kind |-> "interrupted", session |-> None]) ELSE attempt[Segment]
  <2>1. /\ attempt' = [attempt EXCEPT ![Segment] = new] /\ Segment \in existing
        /\ UNCHANGED <<artifacts, probes, budgetEv, at, existing, seen, failure, why, Segment>>
        /\ pc = "segment" /\ pc' = "receipt"
    BY <1>1 DEF Reuse, Goto, Segment
  <2>2. attempt'[Segment] = new
    BY <1>0, <2>1
  <2>3. attempt[Segment].state # "none"
    BY <2>1 DEF Core, AheadInv
  <2>4. new.state # "none" /\ (new.state = "complete" <=> new.kind # None)
    <3>1. CASE attempt[Segment].state = "open"
      BY <3>1, MarkAssumption DEF Complete
    <3>2. CASE attempt[Segment].state # "open"
      BY <1>0, <2>3, <3>2 DEF StartedInv
    <3> QED
      BY <3>1, <3>2
  <2>5. attempt[Segment].state = "complete" => new = attempt[Segment]
    OBVIOUS
  <2> HIDE DEF new
  <2> QED
    BY <1>0, <2>1, <2>2, <2>4, <2>5
<1>2. CASE StartAttempt
  <2>1. /\ attempt' = [attempt EXCEPT ![Segment] = [attempt[Segment] EXCEPT !.state = "open"]]
        /\ UNCHANGED <<artifacts, probes, budgetEv, at, existing, seen, failure, why, Segment>>
        /\ pc = "start" /\ pc' = "execute"
    BY <1>2 DEF StartAttempt, Goto, Segment
  <2>2. attempt[Segment].state = "none"
    BY <1>0, <2>1 DEF Core, PlanType, AheadInv, Segment, Reached, Before
  <2>3. attempt[Segment].kind = None /\ attempt[Segment] \in Attempt
    BY <1>0, <2>2 DEF StartedInv
  <2>4. attempt'[Segment] = [attempt[Segment] EXCEPT !.state = "open"]
    BY <1>0, <2>1
  <2>5. attempt'[Segment].state = "open" /\ attempt'[Segment].kind = None
    BY <2>3, <2>4 DEF Attempt
  <2>6. \A s \in Segments : s # Segment => attempt'[s] = attempt[s]
    BY <1>0, <2>1
  <2> QED
    BY <2>1, <2>2, <2>5, <2>6
<1>3. CASE Finish
  <2>1. /\ attempt' = [attempt EXCEPT ![Segment] = Complete(outcome)]
        /\ UNCHANGED <<artifacts, probes, budgetEv, at, existing, seen, failure, why, Segment>>
        /\ pc = "finish" /\ pc' = "receipt"
    BY <1>3 DEF Finish, Segment
  <2>2. outcome \in Outcome /\ attempt[Segment].state = "open"
    BY <2>1 DEF Core, PlanType, CallInv, During
  <2>3. attempt'[Segment] = Complete(outcome)
    BY <1>0, <2>1
  <2>4. attempt'[Segment].state = "complete" /\ attempt'[Segment].kind # None
    BY <2>2, <2>3, MarkAssumption DEF Complete, Outcome
  <2> QED
    BY <1>0, <2>1, <2>2, <2>4
<1> QED
  BY <1>1, <1>2, <1>3 DEF AttemptStep

\* So what decides a cell, and the result it gives, never changes.
LEMMA DecisionKept ==
    ASSUME Core, \A s \in Segments : attempt[s].state = "complete" => attempt'[s] = attempt[s]
    PROVE  /\ \A s \in Segments : Success(s) => Success(s)'
           /\ \A c \in CellIds : \A k : DecidedBy(c, k) => DecidedBy(c, k)' /\ ResultOf(c, k)' = ResultOf(c, k)
<1>1. \A s \in Segments : Success(s) => Success(s)'
  BY DEF Success
<1>2. ASSUME NEW c \in CellIds, NEW k, DecidedBy(c, k)
      PROVE  DecidedBy(c, k)' /\ ResultOf(c, k)' = ResultOf(c, k)
  <2>1. Cells[c][k] \in Segments /\ \A i \in DOMAIN Cells[c] : Cells[c][i] \in Segments
    BY <1>2, Places DEF DecidedBy
  <2>2. attempt'[Cells[c][k]] = attempt[Cells[c][k]]
    BY <1>2, <2>1 DEF DecidedBy
  <2>3. DecidedBy(c, k)'
    BY <1>1, <1>2, <2>1, <2>2 DEF DecidedBy
  <2> QED
    BY <2>2, <2>3 DEF ResultOf
<1> QED
  BY <1>1, <1>2

\* How the steps of the invocation fall apart.
Ending == pc' = "idle" /\ Resting /\ UNCHANGED attempt
Quiet ==
    /\ UNCHANGED <<attempt, cell, at, seen, failure>>
    /\ pc' = pc \/ {pc, pc'} \cap {"cell_end", "manifest"} = {}

LEMMA StepShapes ==
    ASSUME [Next]_vars
    PROVE  \/ AttemptStep \/ Judge \/ WriteCell
           \/ Ending /\ (Crash \/ UNCHANGED cell)
           \/ Quiet
<1>1. CASE UNCHANGED vars
  BY <1>1 DEF vars, artifacts, stores, run, Quiet
<1>2. CASE \/ Begin \/ Bound \/ ReadCeiling \/ AdmissionRaises \/ StartProbe \/ OpenBudget
           \/ Reserve \/ RefuseReplay \/ RefuseOverCap \/ CloseBudget \/ WriteBudgetStop \/ Others
  BY <1>2 DEF Begin, Bound, ReadCeiling, AdmissionRaises, StartProbe, OpenBudget, Reserve, RefuseReplay,
     RefuseOverCap, CloseBudget, WriteBudgetStop, Others, Goto, StopFor, artifacts, stores, run, Quiet
<1>3. ASSUME NEW s \in Segments, InterruptBudget(s) \/ InterruptProbe(s) PROVE Quiet
  BY <1>3 DEF InterruptBudget, InterruptProbe, artifacts, run, Quiet
<1>4. ASSUME NEW v \in {"passed", "failed"}, EndProbe(v) PROVE Quiet
  BY <1>4 DEF EndProbe, Goto, StopFor, artifacts, Quiet
<1>5. ASSUME NEW k \in Kinds, NEW i \in Sessions \cup {None}, Execute(k, i) PROVE Quiet
  BY <1>5 DEF Execute, artifacts, Quiet
<1>6. ASSUME NEW known \in BOOLEAN, NEW charge \in 0..Cap, Settle(known, charge) PROVE Quiet
  BY <1>6 DEF Settle, Goto, artifacts, Quiet
<1>7. CASE Unreadable \/ BudgetMismatch \/ CellDiffers \/ WriteManifest \/ ManifestDiffers \/ BudgetStopDiffers \/ WriteStop
  BY <1>7 DEF Unreadable, BudgetMismatch, CellDiffers, WriteManifest, ManifestDiffers, BudgetStopDiffers, WriteStop,
     Raise, EndWith, artifacts, stores, Ending
<1>8. CASE Crash
  BY <1>8 DEF Crash, stores, Ending
<1> QED
  BY <1>1, <1>2, <1>3, <1>4, <1>5, <1>6, <1>7, <1>8 DEF Next, Step, AttemptStep

LEMMA CompleteKept ==
    ASSUME Core, StartedInv, [Next]_vars
    PROVE  \A s \in Segments : attempt[s].state = "complete" => attempt'[s] = attempt[s]
<1>1. AttemptStep \/ UNCHANGED attempt
  BY StepShapes DEF Ending, Quiet, Judge, WriteCell, stores
<1> QED
  BY <1>1, AttemptChange

LEMMA StartedKept ==
    ASSUME Core, StartedInv, [Next]_vars
    PROVE  StartedInv'
<1>1. CASE UNCHANGED attempt
  BY <1>1 DEF StartedInv, Success
<1>2. CASE AttemptStep
  <2>1. \A s \in Segments : Success(s) => Success(s)'
    BY CompleteKept, DecisionKept
  <2>2. ASSUME NEW c \in CellIds, NEW i \in DOMAIN Cells[c], NEW j \in DOMAIN Cells[c],
               i < j, attempt'[Cells[c][j]].state # "none"
        PROVE  Success(Cells[c][i])
    <3>1. CASE Cells[c][j] = Segment
      BY <2>2, <3>1, AtSegment DEF Core, BehindInv, Reached
    <3>2. CASE Cells[c][j] # Segment
      BY <1>2, <2>2, <3>2, AttemptChange, Places DEF StartedInv
    <3> QED
      BY <3>1, <3>2
  <2>3. \A s \in Segments : attempt'[s].state = "complete" <=> attempt'[s].kind # None
    BY <1>2, AttemptChange DEF StartedInv
  <2> QED
    BY <2>1, <2>2, <2>3, Places DEF StartedInv
<1> QED
  BY <1>1, <1>2, StepShapes DEF Ending, Quiet, Judge, WriteCell, stores

\* What the verdict on a receipt does to the position.
JudgeStops ==
    /\ \/ attempt[Segment].kind \in {"overrun", "drift"}
       \/ attempt[Segment].kind \in Sealing /\ Reused(attempt[Segment])
    /\ pc' = "write_stop" /\ UNCHANGED <<at, failure, seen>>
    /\ why' \in {"overrun", "drift", "missing_or_reused_session"}
JudgeFails ==
    /\ attempt[Segment].kind \in {"failed", "interrupted", "invalid", "candidate_failed"}
    /\ pc' = "cell_end" /\ failure' = attempt[Segment].kind /\ UNCHANGED at
JudgePasses ==
    /\ attempt[Segment].kind = "ok" /\ UNCHANGED failure
    /\ \/ pc' = "segment" /\ at'.cell = at.cell /\ at'.index = at.index + 1
       \/ pc' = "cell_end" /\ UNCHANGED at /\ at.index = Len(Cells[at.cell])
JudgeSees == \* the session of an answer is new
    IF attempt[Segment].kind \in Sealing
    THEN /\ attempt[Segment].session # None /\ attempt[Segment].session \notin seen
         /\ seen' = seen \cup {attempt[Segment].session}
    ELSE UNCHANGED seen

LEMMA JudgeShapes ==
    ASSUME Core, Judge
    PROVE  /\ pc = "receipt" /\ attempt[Segment].state = "complete"
           /\ UNCHANGED <<artifacts, stores>>
           /\ JudgeStops \/ ((JudgeFails \/ JudgePasses) /\ JudgeSees)
<1> DEFINE o == attempt[Segment]
<1>1. pc = "receipt" /\ o.state = "complete" /\ UNCHANGED <<artifacts, stores>>
  BY DEF Judge, Core, CallInv
<1>2. CASE \/ o.kind \in {"overrun", "drift"} /\ StopFor(o.kind)
           \/ /\ o.kind \in {"ok", "invalid", "candidate_failed"} /\ Reused(o)
              /\ StopFor("missing_or_reused_session")
  BY <1>1, <1>2 DEF StopFor, JudgeStops, Sealing
<1>3. CASE /\ o.kind \in {"failed", "interrupted"}
           /\ failure' = o.kind /\ pc' = "cell_end"
           /\ UNCHANGED <<at, existing, seen, outcome, why>>
  BY <1>1, <1>3 DEF JudgeFails, JudgeSees, Sealing
<1>4. CASE /\ o.kind \in {"ok", "invalid", "candidate_failed"} /\ ~Reused(o)
           /\ seen' = seen \cup {o.session}
           /\ IF Succeeded(o) THEN Advance
              ELSE failure' = o.kind /\ pc' = "cell_end" /\ UNCHANGED at
  <2>1. JudgeSees
    BY <1>4 DEF JudgeSees, Sealing, Reused
  <2>2. o.kind = "ok" => JudgePasses
    <3> SUFFICES ASSUME o.kind = "ok" PROVE JudgePasses
      OBVIOUS
    <3>1. Advance /\ at.cell \in CellIds /\ at \in [cell : Nat, index : Nat] /\ at.index \in DOMAIN Cells[at.cell]
      BY <1>4 DEF Succeeded, Core, PlanType
    <3>2. at.index \in Nat /\ at.index <= Len(Cells[at.cell]) /\ Len(Cells[at.cell]) \in Nat
      BY <3>1, Places
    <3>3. CASE at.index < Len(Cells[at.cell])
      <4>1. pc' = "segment" /\ at' = [at EXCEPT !.index = at.index + 1] /\ UNCHANGED failure
        BY <3>1, <3>3 DEF Advance
      <4>2. at'.cell = at.cell /\ at'.index = at.index + 1
        BY <3>1, <4>1
      <4> QED
        BY <4>1, <4>2 DEF JudgePasses
    <3>4. CASE ~(at.index < Len(Cells[at.cell]))
      <4>1. at.index = Len(Cells[at.cell])
        BY <3>2, <3>4
      <4> QED
        BY <3>1, <3>4, <4>1 DEF Advance, JudgePasses
    <3> QED
      BY <3>3, <3>4
  <2>3. o.kind # "ok" => JudgeFails
    BY <1>4 DEF Succeeded, JudgeFails
  <2> QED
    BY <1>1, <2>1, <2>2, <2>3
<1> QED
  BY <1>1, <1>2, <1>3, <1>4 DEF Judge

-----------------------------------------------------------------------------
LEMMA CellQuiet ==
    ASSUME Core, StartedInv, CellInv, [Next]_vars, UNCHANGED <<cell, at, failure, Segment>>,
           pc' = pc \/ {pc, pc'} \cap {"cell_end", "manifest"} = {}
    PROVE  CellInv'
<1>1. \A c \in CellIds : \A k : DecidedBy(c, k) => DecidedBy(c, k)' /\ ResultOf(c, k)' = ResultOf(c, k)
  BY CompleteKept, DecisionKept
<1>2. \A c \in CellIds : Written(cell'[c]) => \E k \in DOMAIN Cells[c] : DecidedBy(c, k)' /\ cell'[c] = ResultOf(c, k)'
  BY <1>1 DEF CellInv
<1>3. \A c \in CellIds : c < at'.cell \/ pc' = "manifest" => Written(cell'[c])
  BY DEF CellInv
<1>4. pc' = "cell_end" => DecidedBy(at.cell, at.index)' /\ failure' = FailureOf(attempt'[Segment'].kind)
  <2> SUFFICES ASSUME pc' = "cell_end"
               PROVE  DecidedBy(at.cell, at.index)' /\ failure' = FailureOf(attempt'[Segment'].kind)
    OBVIOUS
  <2>1. pc = "cell_end" /\ DecidedBy(at.cell, at.index) /\ failure = FailureOf(attempt[Segment].kind)
    BY DEF CellInv
  <2>2. DecidedBy(at.cell, at.index)'
    <3>1. ASSUME NEW c \in CellIds, NEW k, c = at.cell, k = at.index
          PROVE  DecidedBy(at.cell, at.index)'
      <4>1. DecidedBy(c, k)'
        BY <1>1, <2>1, <3>1
      <4>2. at'.cell = c /\ at'.index = k
        BY <3>1
      <4> QED
        BY <4>1, <4>2 DEF DecidedBy, Success
    <3>2. at.cell \in CellIds
      BY DEF Core, PlanType
    <3> QED
      BY <3>1, <3>2
  <2>3. attempt'[Segment] = attempt[Segment]
    BY <2>1, CompleteKept, AtSegment DEF Core, DecidedBy, Segment
  <2> QED
    BY <2>1, <2>2, <2>3
<1>5. pc' # "cell_end" => failure' = None
  BY DEF CellInv
<1>6. \A c \in CellIds : Written(cell[c])' <=> Written(cell'[c])
  BY DEF Written
<1>7. cell' \in [CellIds -> CellFile \cup {None, Partial}]
  BY DEF CellInv
<1> QED
  BY <1>2, <1>3, <1>4, <1>5, <1>6, <1>7 DEF CellInv

LEMMA CellKept ==
    ASSUME Core, StartedInv, CellInv, [Next]_vars
    PROVE  CellInv'
<1>1. CASE Quiet
  BY <1>1, CellQuiet DEF Quiet, Segment
<1>2. CASE AttemptStep
  BY <1>2, CellQuiet, AttemptChange DEF artifacts
<1>3. \A c \in CellIds : \A k : DecidedBy(c, k) => DecidedBy(c, k)' /\ ResultOf(c, k)' = ResultOf(c, k)
  BY CompleteKept, DecisionKept
<1>0. at.cell \in CellIds /\ at.index \in DOMAIN Cells[at.cell] /\ at \in [cell : Nat, index : Nat]
  BY DEF Core, PlanType
<1>4. CASE Ending /\ (Crash \/ UNCHANGED cell)
  <2>1. pc' = "idle" /\ at'.cell = 1 /\ failure' = None
    BY <1>4 DEF Ending, Resting
  <2>2. \A c \in CellIds : ~(c < 1)
    BY Places
  <2>3. \A c \in CellIds : Written(cell'[c]) => cell'[c] = cell[c]
    <3>1. CASE UNCHANGED cell
      BY <3>1
    <3>2. CASE cell' = [cell EXCEPT ![at.cell] = Partial]
      <4>1. \A c \in CellIds : cell'[c] = cell[c] \/ cell'[c] = Partial
        BY <3>2
      <4> QED
        BY <4>1 DEF Written
    <3> QED
      BY <1>4, <3>1, <3>2 DEF Crash, artifacts
  <2>4. cell' \in [CellIds -> CellFile \cup {None, Partial}]
    BY <1>4 DEF Crash, artifacts, CellInv
  <2> QED
    BY <1>3, <2>1, <2>2, <2>3, <2>4 DEF CellInv, Written
<1>5. CASE Judge
  <2>1. UNCHANGED <<cell, attempt>> /\ pc = "receipt" /\ failure = None
    BY <1>5, JudgeShapes DEF artifacts, stores, CellInv
  <2>2. CASE JudgeStops
    BY <1>5, <2>1, <2>2, CellQuiet DEF JudgeStops, Segment
  <2>3. CASE JudgeFails \/ JudgePasses
    <3>1. at'.cell = at.cell /\ pc' \in {"segment", "cell_end"}
      BY <2>3 DEF JudgeFails, JudgePasses
    <3>2. \A c \in CellIds : Written(cell[c]) => \E k \in DOMAIN Cells[c] : DecidedBy(c, k)' /\ cell[c] = ResultOf(c, k)'
      BY <1>3 DEF CellInv
    <3>3. pc' = "cell_end" => UNCHANGED at /\ DecidedBy(at.cell, at.index) /\ failure' = FailureOf(attempt[Segment].kind)
      <4> SUFFICES ASSUME pc' = "cell_end"
                   PROVE  UNCHANGED at /\ DecidedBy(at.cell, at.index) /\ failure' = FailureOf(attempt[Segment].kind)
        OBVIOUS
      <4>1. attempt[Segment].state = "complete" /\ \A i \in DOMAIN Cells[at.cell] : i < at.index => Success(Cells[at.cell][i])
        BY <1>5, JudgeShapes DEF Core, BehindInv
      <4>2. CASE JudgeFails
        BY <1>0, <4>1, <4>2 DEF JudgeFails, DecidedBy, FailureOf, Verdicts, Segment
      <4>3. CASE JudgePasses
        BY <1>0, <2>1, <4>1, <4>3 DEF JudgePasses, DecidedBy, FailureOf, Verdicts, Segment
      <4> QED
        BY <2>3, <4>2, <4>3
    <3>4. pc' # "cell_end" => failure' = None
      BY <2>1, <2>3 DEF JudgeFails, JudgePasses
    <3>5. pc' = "cell_end" => DecidedBy(at.cell, at.index)' /\ failure' = FailureOf(attempt'[Segment'].kind)
      BY <2>1, <3>3 DEF DecidedBy, Success, Segment
    <3>6. \A c \in CellIds : c < at'.cell \/ pc' = "manifest" => Written(cell[c])
      BY <2>1, <3>1 DEF CellInv
    <3>7. cell' \in [CellIds -> CellFile \cup {None, Partial}]
      BY <2>1 DEF CellInv
    <3> QED
      BY <2>1, <3>2, <3>4, <3>5, <3>6, <3>7 DEF CellInv, Written
  <2> QED
    BY <1>5, <2>2, <2>3, JudgeShapes
<1>6. CASE WriteCell
  <2>1. /\ pc = "cell_end" /\ UNCHANGED attempt /\ failure' = None /\ cell' = [cell EXCEPT ![at.cell] = CellResult]
        /\ \/ at.cell < Len(Cells) /\ pc' = "segment" /\ at' = [cell |-> at.cell + 1, index |-> 1]
           \/ ~(at.cell < Len(Cells)) /\ pc' = "manifest" /\ UNCHANGED at
    BY <1>6 DEF WriteCell, stores
  <2>2. DecidedBy(at.cell, at.index) /\ CellResult = ResultOf(at.cell, at.index)
    BY <2>1 DEF CellInv, CellResult, ResultOf, Segment
  <2>3. Written(CellResult)
    BY <1>0, <2>2, ResultIsFile
  <2>4. \A c \in CellIds : cell'[c] = cell[c] \/ (c = at.cell /\ cell'[c] = CellResult)
    BY <2>1
  <2>5. \A c \in CellIds : Written(cell'[c]) => \E k \in DOMAIN Cells[c] : DecidedBy(c, k)' /\ cell'[c] = ResultOf(c, k)'
    <3> SUFFICES ASSUME NEW c \in CellIds, Written(cell'[c])
                 PROVE  \E k \in DOMAIN Cells[c] : DecidedBy(c, k)' /\ cell'[c] = ResultOf(c, k)'
      OBVIOUS
    <3>1. \E k \in DOMAIN Cells[c] : DecidedBy(c, k) /\ cell'[c] = ResultOf(c, k)
      <4>1. CASE cell'[c] = cell[c]
        BY <4>1 DEF CellInv
      <4>2. CASE c = at.cell /\ cell'[c] = CellResult
        BY <1>0, <2>2, <4>2
      <4> QED
        BY <2>4, <4>1, <4>2
    <3> QED
      BY <1>3, <3>1
  <2>6. \A c \in CellIds : c < at'.cell \/ pc' = "manifest" => c = at.cell \/ c < at.cell
    <3>1. \A c \in CellIds : c \in Nat /\ c <= Len(Cells) /\ Len(Cells) \in Nat
      BY Places
    <3> QED
      BY <1>0, <2>1, <3>1
  <2>7. \A c \in CellIds : Written(cell[c]) => Written(cell'[c])
    BY <2>3, <2>4
  <2>8. cell' \in [CellIds -> CellFile \cup {None, Partial}] /\ Written(cell'[at.cell])
    <3>1. CellResult \in CellFile
      BY <1>0, <2>2, ResultIsFile
    <3> QED
      BY <1>0, <2>1, <2>3, <3>1 DEF CellInv
  <2> QED
    BY <2>1, <2>5, <2>6, <2>7, <2>8 DEF CellInv, Written
<1> QED
  BY <1>1, <1>2, <1>4, <1>5, <1>6, StepShapes

-----------------------------------------------------------------------------
\* No segment is at two places, and the invocation's own is behind nobody
\* before its verdict.
LEMMA HereIsNotBehind ==
    ASSUME Core, pc \notin {"cell_end", "manifest"}
    PROVE  \A c \in CellIds : \A i \in DOMAIN Cells[c] :
              Behind(c, i) => Cells[c][i] # Segment /\ ~Reached(c, i)
<1>1. at.cell \in Nat /\ at.index \in Nat
  BY DEF Core, PlanType
<1>2. \A c \in CellIds : \A i \in DOMAIN Cells[c] : Behind(c, i) => ~Reached(c, i)
  BY <1>1 DEF Behind, Reached
<1> QED
  BY <1>2, AtSegment DEF Core

\* What is remembered of answers that stay behind stays right.
LEMMA SeenSame ==
    ASSUME Core, SeenInv, UNCHANGED seen,
           \A c \in CellIds : \A i \in DOMAIN Cells[c] :
              /\ Behind(c, i) => attempt'[Cells[c][i]] = attempt[Cells[c][i]]
              /\ Behind(c, i) => Behind(c, i)'
              /\ Behind(c, i)' /\ Answers(c, i)' => Behind(c, i)
    PROVE  SeenInv'
<1>1. \A c \in CellIds : \A i \in DOMAIN Cells[c] :
         Behind(c, i) => (Answers(c, i)' <=> Answers(c, i)) /\ SessionOf(c, i)' = SessionOf(c, i)
  BY DEF Answers, SessionOf
<1> QED
  BY <1>1 DEF SeenInv

LEMMA SeenKept ==
    ASSUME Core, StartedInv, CellInv, SeenInv, [Next]_vars
    PROVE  SeenInv'
<1>0. at.cell \in CellIds /\ at.index \in DOMAIN Cells[at.cell] /\ at.cell \in Nat /\ at.index \in Nat
  BY DEF Core, PlanType
<1>1. CASE Quiet
  <2>1. \A c \in CellIds : \A i \in DOMAIN Cells[c] : Behind(c, i)' <=> Behind(c, i)
    BY <1>1 DEF Quiet, Behind
  <2> QED
    BY <1>1, <2>1, SeenSame DEF Quiet
<1>2. CASE AttemptStep
  <2>1. UNCHANGED <<at, seen>> /\ {pc, pc'} \cap {"cell_end", "manifest"} = {}
    BY <1>2, AttemptChange
  <2>2. \A c \in CellIds : \A i \in DOMAIN Cells[c] : Behind(c, i)' <=> Behind(c, i)
    BY <2>1 DEF Behind
  <2>3. \A c \in CellIds : \A i \in DOMAIN Cells[c] : Behind(c, i) => attempt'[Cells[c][i]] = attempt[Cells[c][i]]
    BY <1>2, <2>1, HereIsNotBehind, AttemptChange, Places, SMTT(30)
  <2> QED
    BY <2>1, <2>2, <2>3, SeenSame
<1>3. CASE Ending
  <2>1. seen' = {} /\ pc' = "idle" /\ at'.cell = 1 /\ at'.index = 1
    BY <1>3 DEF Ending, Resting
  <2>2. \A c \in CellIds : \A i \in DOMAIN Cells[c] : ~Behind(c, i)'
    <3>1. \A c \in CellIds : \A i \in DOMAIN Cells[c] : ~(c < 1) /\ ~(i < 1)
      BY Places
    <3> QED
      BY <2>1, <3>1 DEF Behind
  <2> QED
    BY <2>1, <2>2 DEF SeenInv
<1>4. CASE Judge /\ JudgeStops
  <2>1. UNCHANGED <<at, seen, attempt>> /\ pc = "receipt" /\ pc' = "write_stop"
    BY <1>4, JudgeShapes DEF JudgeStops, stores
  <2>2. \A c \in CellIds : \A i \in DOMAIN Cells[c] : Behind(c, i)' <=> Behind(c, i)
    BY <2>1 DEF Behind
  <2> QED
    BY <2>1, <2>2, SeenSame
<1>5. CASE Judge /\ (JudgeFails \/ JudgePasses) /\ JudgeSees
  <2>1. UNCHANGED attempt /\ pc = "receipt"
    BY <1>5, JudgeShapes DEF stores
  <2>2. \A c \in CellIds : \A i \in DOMAIN Cells[c] : Behind(c, i)' <=> Behind(c, i) \/ Reached(c, i)
    <3>1. /\ at'.cell = at.cell
          /\ \/ at'.index = at.index /\ pc' = "cell_end"
             \/ at'.index = at.index + 1 /\ pc' = "segment"
      BY <1>5 DEF JudgeFails, JudgePasses
    <3>2. \A i \in Nat : i < at.index + 1 <=> i < at.index \/ i = at.index
      BY <1>0
    <3>3. \A c \in CellIds : \A i \in DOMAIN Cells[c] : i \in Nat
      BY Places
    <3>4. CASE at'.index = at.index /\ pc' = "cell_end"
      BY <2>1, <3>1, <3>4 DEF Behind, Reached
    <3>5. CASE at'.index = at.index + 1 /\ pc' = "segment"
      BY <2>1, <3>1, <3>2, <3>3, <3>5 DEF Behind, Reached
    <3> QED
      BY <3>1, <3>4, <3>5
  <2>3. \A c \in CellIds : \A i \in DOMAIN Cells[c] :
           (Answers(c, i)' <=> Answers(c, i)) /\ SessionOf(c, i)' = SessionOf(c, i)
    BY <2>1 DEF Answers, SessionOf
  <2>4. \A c \in CellIds : \A i \in DOMAIN Cells[c] : Behind(c, i) => ~Reached(c, i)
    BY <2>1, HereIsNotBehind
  <2>5. \A c \in CellIds : \A i \in DOMAIN Cells[c] : Reached(c, i) => Cells[c][i] = Segment
    BY DEF Reached, Segment
  <2>6. CASE attempt[Segment].kind \in Sealing
    <3>1. /\ attempt[Segment].session # None /\ attempt[Segment].session \notin seen
          /\ seen' = seen \cup {attempt[Segment].session}
      BY <1>5, <2>6 DEF JudgeSees
    <3>2. \A c \in CellIds : \A i \in DOMAIN Cells[c] :
             Reached(c, i) => Answers(c, i) /\ SessionOf(c, i) = attempt[Segment].session
      BY <2>5, <2>6 DEF Answers, SessionOf
    <3>3. Reached(at.cell, at.index)
      BY DEF Reached
    <3>4. \A c \in CellIds : \A i \in DOMAIN Cells[c] :
             (Behind(c, i) /\ Answers(c, i))' => SessionOf(c, i)' # None /\ SessionOf(c, i)' \in seen'
      BY <2>2, <2>3, <3>1, <3>2 DEF SeenInv
    <3>5. ASSUME NEW c \in CellIds, NEW d \in CellIds, NEW i \in DOMAIN Cells[c], NEW j \in DOMAIN Cells[d],
                 (Behind(c, i) /\ Answers(c, i) /\ Behind(d, j) /\ Answers(d, j))',
                 SessionOf(c, i)' = SessionOf(d, j)'
          PROVE  c = d /\ i = j
      <4>1. SessionOf(c, i) = SessionOf(d, j) /\ Answers(c, i) /\ Answers(d, j)
        BY <2>3, <3>5
      <4>2. CASE Behind(c, i) /\ Behind(d, j)
        BY <4>1, <4>2 DEF SeenInv
      <4>3. CASE Reached(c, i) /\ Reached(d, j)
        BY <4>3 DEF Reached
      <4>4. CASE Behind(c, i) /\ Reached(d, j)
        BY <3>1, <3>2, <4>1, <4>4 DEF SeenInv
      <4>5. CASE Reached(c, i) /\ Behind(d, j)
        BY <3>1, <3>2, <4>1, <4>5 DEF SeenInv
      <4> QED
        BY <2>2, <3>5, <4>2, <4>3, <4>4, <4>5
    <3>6. ASSUME NEW x \in seen'
          PROVE  \E c \in CellIds : \E i \in DOMAIN Cells[c] : (Behind(c, i) /\ Answers(c, i))' /\ SessionOf(c, i)' = x
      <4>1. CASE x \in seen
        <5>1. \E c \in CellIds : \E i \in DOMAIN Cells[c] : Behind(c, i) /\ Answers(c, i) /\ SessionOf(c, i) = x
          BY <4>1 DEF SeenInv
        <5> QED
          BY <2>2, <2>3, <5>1
      <4>2. CASE x = attempt[Segment].session
        <5>1. \E c \in CellIds : \E i \in DOMAIN Cells[c] : Reached(c, i)
          BY <1>0, <3>3
        <5> QED
          BY <2>2, <2>3, <3>2, <4>2, <5>1
      <4> QED
        BY <3>1, <3>6, <4>1, <4>2
    <3> QED
      BY <3>4, <3>5, <3>6 DEF SeenInv
  <2>7. CASE attempt[Segment].kind \notin Sealing
    <3>1. UNCHANGED seen
      BY <1>5, <2>7 DEF JudgeSees
    <3>2. \A c \in CellIds : \A i \in DOMAIN Cells[c] : Reached(c, i) => ~Answers(c, i)
      BY <2>5, <2>7 DEF Answers
    <3> QED
      BY <2>1, <2>2, <2>3, <3>1, <3>2, SeenSame
  <2> QED
    BY <2>6, <2>7
<1>6. CASE WriteCell
  <2>1. /\ pc = "cell_end" /\ UNCHANGED <<attempt, seen>>
        /\ \/ at.cell < Len(Cells) /\ pc' = "segment" /\ at' = [cell |-> at.cell + 1, index |-> 1]
           \/ ~(at.cell < Len(Cells)) /\ pc' = "manifest" /\ UNCHANGED at
    BY <1>6 DEF WriteCell, stores
  <2>2. \A c \in CellIds : \A i \in DOMAIN Cells[c] : c \in Nat /\ i \in Nat /\ ~(i < 1) /\ c <= Len(Cells) /\ Len(Cells) \in Nat
    BY Places, SMTT(30)
  <2>3. \A c \in CellIds : \A i \in DOMAIN Cells[c] : Behind(c, i)' <=> c <= at.cell
    <3>1. CASE pc' = "segment" /\ at' = [cell |-> at.cell + 1, index |-> 1]
      <4>1. at'.cell = at.cell + 1 /\ at'.index = 1
        BY <3>1
      <4>2. \A c \in CellIds : \A i \in DOMAIN Cells[c] : Behind(c, i)' <=> c < at.cell + 1
        BY <2>2, <3>1, <4>1 DEF Behind
      <4> QED
        BY <1>0, <2>2, <4>2, SMTT(30)
    <3>2. CASE pc' = "manifest" /\ UNCHANGED at
      BY <1>0, <2>2, <3>2, SMTT(30) DEF Behind
    <3> QED
      BY <2>1, <3>1, <3>2
  <2>4. \A c \in CellIds : \A i \in DOMAIN Cells[c] : Behind(c, i) => c <= at.cell
    BY <1>0, <2>2 DEF Behind
  <2>5. \A c \in CellIds : \A i \in DOMAIN Cells[c] : c <= at.cell /\ Answers(c, i) => Behind(c, i)
    <3> SUFFICES ASSUME NEW c \in CellIds, NEW i \in DOMAIN Cells[c], c = at.cell, i > at.index
                 PROVE  ~Answers(c, i)
      BY <1>0, <2>1, <2>2 DEF Behind
    <3>1. DecidedBy(at.cell, at.index)
      BY <2>1 DEF CellInv
    <3>2. attempt[Cells[c][i]].state = "none"
      BY <3>1, DecidedComplete
    <3>3. attempt[Cells[c][i]].kind = None
      BY <3>2, Places DEF StartedInv
    <3> QED
      BY <3>3, MarkAssumption DEF Answers, Sealing, Kinds
  <2>6. \A c \in CellIds : \A i \in DOMAIN Cells[c] : Answers(c, i)' <=> Answers(c, i)
    BY <2>1 DEF Answers
  <2> QED
    BY <2>1, <2>3, <2>4, <2>5, <2>6, SeenSame
<1> QED
  BY <1>1, <1>2, <1>3, <1>4, <1>5, <1>6, StepShapes, JudgeShapes

-----------------------------------------------------------------------------
\* What is open is the invocation's own.
AllClosed == \A s \in Segments : NothingOpen(s)
Calm == pc \notin {"idle", "bind", "probing", "start", "execute", "settle", "close_budget"}

LEMMA CalmIsClosed ==
    ASSUME OpenInv, Calm
    PROVE  AllClosed
BY DEF OpenInv, Calm, AllClosed, NothingOpen

LEMMA ClosedIsOpenInv ==
    ASSUME PlanType', AllClosed'
    PROVE  OpenInv'
<1>1. Segment' \in Segments
  BY Places DEF PlanType, Segment
<1> QED
  BY <1>1 DEF AllClosed, NothingOpen, OpenInv

LEMMA OpenQuiet ==
    ASSUME Core, Core', OpenInv, UNCHANGED <<probes, budgetEv>>,
           \/ pc' \in {"idle", "bind"}
           \/ Calm
           \/ /\ UNCHANGED at /\ pc \notin {"idle", "bind"}
              /\ \/ pc' = pc
                 \/ pc = "start" /\ pc' = "execute"
                 \/ pc = "execute" /\ pc' \in {"settle", "finish"} /\ (pc' = "finish" => Segment \notin Budgeted)
                 \/ pc = "settle" /\ pc' = "close_budget"
    PROVE  OpenInv'
<1>1. CASE pc' \in {"idle", "bind"}
  <2>1. ~(pc' \in {"start", "execute", "settle", "close_budget"})
    BY <1>1
  <2> QED
    BY <1>1, <2>1 DEF OpenInv
<1>2. CASE Calm
  <2>1. AllClosed'
    BY <1>2, CalmIsClosed DEF AllClosed, NothingOpen
  <2> QED
    BY <2>1, ClosedIsOpenInv DEF Core
<1>3. CASE UNCHANGED at
  <2>1. Segment' = Segment /\ Segment \in Segments
    BY <1>3, AtSegment DEF Core, Segment
  <2>2. Segment \notin Budgeted => budgetEv[Segment] # "open"
    BY <2>1 DEF Core, OrphanInv, Touched
  <2>3. \A s \in Segments : NothingOpen(s)' <=> NothingOpen(s)
    BY DEF NothingOpen
  <2> QED
    BY <1>1, <1>2, <1>3, <2>1, <2>2, <2>3 DEF OpenInv, Calm
<1> QED
  BY <1>1, <1>2, <1>3

LEMMA OpenKept ==
    ASSUME Core, Core', CommitInv, StartedInv, OpenInv, [Next]_vars
    PROVE  OpenInv'
<1>0. /\ Segment \in Segments /\ budgetEv \in [Segments -> Budget]
      /\ probes \in [Segments -> Seq({"open", "passed", "failed", "interrupted"})]
  BY AtSegment DEF Core, PlanType, CommitInv, ProbeInv
<1>1. CASE UNCHANGED vars \/ Others
  <2>1. UNCHANGED <<probes, budgetEv, at, pc>>
    BY <1>1 DEF vars, Others, stores, run
  <2>2. pc' \in {"idle", "bind"} \/ pc \notin {"idle", "bind"}
    BY <2>1
  <2> QED
    BY <2>1, <2>2, OpenQuiet
<1>2. CASE Begin \/ (\E s \in Segments : InterruptBudget(s) \/ InterruptProbe(s))
  <2>1. pc' = "bind"
    BY <1>2 DEF Begin, InterruptBudget, InterruptProbe, run
  <2> QED
    BY <2>1 DEF OpenInv
<1>3. CASE Bound
  <2>1. AllClosed'
    BY <1>3 DEF Bound, BudgetsClosed, AllClosed, NothingOpen, stores
  <2> QED
    BY <2>1, ClosedIsOpenInv DEF Core
<1>4. CASE AttemptStep
  <2>1. UNCHANGED <<probes, budgetEv, at>> /\ (Calm \/ (pc = "start" /\ pc' = "execute"))
    BY <1>4, AttemptChange DEF Calm
  <2> QED
    BY <2>1, OpenQuiet
<1>5. CASE \/ ReadCeiling \/ AdmissionRaises \/ Reserve \/ RefuseReplay \/ RefuseOverCap
           \/ BudgetMismatch \/ Judge \/ WriteCell \/ CellDiffers \/ WriteManifest \/ ManifestDiffers
           \/ WriteBudgetStop \/ BudgetStopDiffers \/ WriteStop
  <2>1. Calm /\ UNCHANGED <<probes, budgetEv>>
    BY <1>5 DEF ReadCeiling, AdmissionRaises, Reserve, RefuseReplay, RefuseOverCap, BudgetMismatch, Judge, WriteCell,
       CellDiffers, WriteManifest, ManifestDiffers, WriteBudgetStop, BudgetStopDiffers, WriteStop, Raise, stores, Calm
  <2> QED
    BY <2>1, OpenQuiet
<1>6. CASE Crash \/ Unreadable
  <2>1. UNCHANGED <<probes, budgetEv>> /\ pc' = "idle"
    BY <1>6 DEF Crash, Unreadable, Raise, EndWith, stores
  <2> QED
    BY <2>1, OpenQuiet
<1>7. ASSUME NEW k \in Kinds, NEW i \in Sessions \cup {None}, Execute(k, i) PROVE OpenInv'
  <2>1. /\ UNCHANGED <<probes, budgetEv, at>> /\ pc = "execute" /\ pc' \in {"settle", "finish"}
        /\ pc' = "finish" => Segment \notin Budgeted
    BY <1>7 DEF Execute
  <2> QED
    BY <2>1, OpenQuiet
<1>8. ASSUME NEW known \in BOOLEAN, NEW charge \in 0..Cap, Settle(known, charge) PROVE OpenInv'
  BY <1>8, OpenQuiet DEF Settle, Goto
<1>9. CASE StartProbe
  <2>1. /\ pc = "probe" /\ pc' = "probing" /\ UNCHANGED <<budgetEv, at>> /\ Segment' = Segment
        /\ probes' = [probes EXCEPT ![Segment] = Append(probes[Segment], "open")]
    BY <1>9 DEF StartProbe, Goto, Segment
  <2>2. AllClosed
    BY <2>1, CalmIsClosed DEF Calm
  <2>3. /\ \A s \in Segments : s # Segment => probes'[s] = probes[s]
        /\ probes'[Segment] = Append(probes[Segment], "open") /\ probes[Segment] \in Seq({"open", "passed", "failed", "interrupted"})
    BY <1>0, <2>1
  <2>4. \A i \in DOMAIN probes'[Segment] : i # Len(probes'[Segment]) => i \in DOMAIN probes[Segment] /\ probes'[Segment][i] = probes[Segment][i]
    BY <2>3
  <2>5. \A i \in DOMAIN probes'[Segment] : probes'[Segment][i] = "open" => i = Len(probes'[Segment])
    BY <1>0, <2>2, <2>4 DEF AllClosed, NothingOpen
  <2>6. \A s \in Segments : s # Segment => NothingOpen(s)'
    BY <2>1, <2>2, <2>3 DEF AllClosed, NothingOpen
  <2>7. budgetEv'[Segment] # "open"
    BY <1>0, <2>1, <2>2 DEF AllClosed, NothingOpen
  <2> QED
    BY <2>1, <2>5, <2>6, <2>7 DEF OpenInv
<1>10. ASSUME NEW v \in {"passed", "failed"}, EndProbe(v) PROVE OpenInv'
  <2> DEFINE n == Len(probes[Segment])
  <2>1. /\ pc = "probing" /\ UNCHANGED budgetEv /\ probes' = [probes EXCEPT ![Segment][n] = v]
    BY <1>10 DEF EndProbe
  <2>2. probes[Segment] \in Seq({"open", "passed", "failed", "interrupted"})
    BY <1>0
  <2>3. /\ \A s \in Segments : s # Segment => probes'[s] = probes[s]
        /\ probes'[Segment] = [probes[Segment] EXCEPT ![n] = v]
    BY <1>0, <2>1
  <2>4. \A i \in DOMAIN probes'[Segment] : probes'[Segment][i] # "open"
    <3>1. \A i \in DOMAIN probes[Segment] : probes[Segment][i] = "open" => i = n
      BY <2>1 DEF OpenInv
    <3> HIDE DEF n
    <3> QED
      BY <2>3, <3>1
  <2>5. AllClosed'
    BY <1>0, <2>1, <2>3, <2>4 DEF AllClosed, NothingOpen, OpenInv
  <2> QED
    BY <2>5, ClosedIsOpenInv DEF Core
<1>11. CASE OpenBudget
  <2>1. /\ pc = "open_budget" /\ pc' = "start" /\ UNCHANGED <<probes, at>> /\ Segment' = Segment
        /\ budgetEv' = [budgetEv EXCEPT ![Segment] = "open"]
    BY <1>11 DEF OpenBudget, Goto, Segment
  <2>2. AllClosed
    BY <2>1, CalmIsClosed DEF Calm
  <2>3. \A s \in Segments : s # Segment => budgetEv'[s] = budgetEv[s]
    BY <1>0, <2>1
  <2> QED
    BY <1>0, <2>1, <2>2, <2>3 DEF AllClosed, NothingOpen, OpenInv
<1>12. CASE CloseBudget
  <2>1. PICK new \in {"completed", "failed"} : budgetEv' = [budgetEv EXCEPT ![Segment] = new]
    BY <1>12 DEF CloseBudget
  <2>2. /\ pc = "close_budget" /\ UNCHANGED <<probes, at>>
    BY <1>12 DEF CloseBudget, Goto
  <2>3. budgetEv'[Segment] = new /\ \A s \in Segments : s # Segment => budgetEv'[s] = budgetEv[s]
    BY <1>0, <2>1
  <2>4. AllClosed'
    BY <1>0, <2>2, <2>3 DEF AllClosed, NothingOpen, OpenInv
  <2> QED
    BY <2>4, ClosedIsOpenInv DEF Core
<1> QED
  BY <1>1, <1>2, <1>3, <1>4, <1>5, <1>6, <1>7, <1>8, <1>9, <1>10, <1>11, <1>12 DEF Next, Step, AttemptStep

-----------------------------------------------------------------------------
\* In a cell that has its result, the invocation is at a complete attempt.
LEMMA HereComplete ==
    ASSUME Core, StartedInv, CellInv, Written(cell[at.cell])
    PROVE  attempt[Segment].state = "complete" /\ attempt[Segment].kind \in Verdicts
<1>0. at.cell \in CellIds /\ at.index \in DOMAIN Cells[at.cell]
  BY DEF Core, PlanType
<1>1. PICK k \in DOMAIN Cells[at.cell] : DecidedBy(at.cell, k)
  BY <1>0 DEF CellInv
<1>2. k \in Nat /\ at.index \in Nat /\ at.index <= Len(Cells[at.cell]) /\ Len(Cells[at.cell]) \in Nat
  <2>1. Cells[at.cell] \in Seq(Segments)
    BY <1>0, Places
  <2>2. at.index \in 1..Len(Cells[at.cell]) /\ k \in 1..Len(Cells[at.cell]) /\ Len(Cells[at.cell]) \in Nat
    BY <1>0, <2>1, SMTT(30)
  <2> QED
    BY <2>2
<1>3. at.index <= k
  <2> SUFFICES ASSUME k < at.index PROVE FALSE
    BY <1>2
  <2>1. Success(Cells[at.cell][k])
    BY <1>1 DEF Core, BehindInv
  <2>2. k = Len(Cells[at.cell])
    BY <1>1, <2>1 DEF Success, DecidedBy
  <2> QED
    BY <1>2, <2>2
<1>4. CASE at.index = k
  BY <1>1, <1>4 DEF DecidedBy, Segment
<1>5. CASE at.index < k
  <2>1. Success(Cells[at.cell][at.index])
    BY <1>0, <1>1, <1>5 DEF DecidedBy
  <2> QED
    BY <2>1 DEF Success, Verdicts, Segment
<1> QED
  BY <1>2, <1>3, <1>4, <1>5

LEMMA FinalSame ==
    ASSUME Final, UNCHANGED <<attempt, cell, probes, budgetEv, stop, manifest>>,
           pc' \in {"idle", "bind", "segment", "receipt", "cell_end", "manifest"}
    PROVE  Final'
BY DEF Final, Manifest, NothingOpen, Written

\* Nothing changes what a written manifest binds.
LEMMA FinalKept ==
    ASSUME Core, Core', CommitInv, StartedInv, CellInv, SeenInv, Final, Written(manifest), [Next]_vars
    PROVE  Final'
<1>0. /\ pc \in {"idle", "bind", "segment", "receipt", "cell_end", "manifest"}
      /\ at.cell \in CellIds /\ Segment \in Segments /\ Written(cell[at.cell])
  BY AtSegment DEF Core, PlanType, Final
<1>1. attempt[Segment].state = "complete" /\ attempt[Segment].kind \in Verdicts
  BY <1>0, HereComplete
<1>2. CASE \/ StartProbe \/ Reserve \/ RefuseReplay \/ RefuseOverCap \/ OpenBudget \/ StartAttempt \/ CloseBudget \/ Finish
           \/ WriteBudgetStop \/ BudgetStopDiffers \/ WriteStop
           \/ \E v \in {"passed", "failed"} : EndProbe(v)
           \/ \E k \in Kinds, i \in Sessions \cup {None} : Execute(k, i)
           \/ \E known \in BOOLEAN, charge \in 0..Cap : Settle(known, charge)
  BY <1>0, <1>2 DEF StartProbe, Reserve, RefuseReplay, RefuseOverCap, OpenBudget, StartAttempt, CloseBudget, Finish,
     WriteBudgetStop, BudgetStopDiffers, WriteStop, EndProbe, Execute, Settle
<1>3. CASE Begin \/ Bound \/ Others \/ Unreadable \/ BudgetMismatch \/ CellDiffers \/ ManifestDiffers \/ UNCHANGED vars
  <2>1. /\ UNCHANGED <<attempt, cell, probes, budgetEv, stop, manifest>>
        /\ pc' \in {"idle", "bind", "segment", "receipt", "cell_end", "manifest"}
    BY <1>0, <1>3 DEF Begin, Bound, Others, Unreadable, BudgetMismatch, CellDiffers, ManifestDiffers, Raise, EndWith, Goto,
       vars, artifacts, stores, run
  <2> QED
    BY <2>1, FinalSame
<1>4. CASE \E s \in Segments : InterruptBudget(s) \/ InterruptProbe(s)
  BY <1>4 DEF InterruptBudget, InterruptProbe, Final, NothingOpen
<1>5. CASE ReadCeiling \/ AdmissionRaises
  <2>1. pc = "segment" /\ Segment \notin existing
    BY <1>5 DEF ReadCeiling, AdmissionRaises
  <2>2. attempt[Segment].state # "none"
    BY <1>1
  <2>3. Segment \in existing
    <3>1. at.index \in DOMAIN Cells[at.cell] /\ Reached(at.cell, at.index)
      BY DEF Core, PlanType, Reached
    <3> QED
      BY <1>0, <2>1, <2>2, <3>1 DEF Core, AheadInv, Segment
  <2> QED
    BY <2>1, <2>3
<1>6. CASE Reuse
  <2>1. \A s \in Segments : attempt'[s] = attempt[s]
    BY <1>1, <1>6, AttemptChange DEF AttemptStep
  <2>2. attempt' = attempt
    BY <2>1 DEF Core, PlanType
  <2>3. UNCHANGED <<cell, probes, budgetEv, stop, manifest>> /\ pc' = "receipt"
    BY <1>6 DEF Reuse, Goto, artifacts
  <2> QED
    BY <2>2, <2>3, FinalSame
<1>7. CASE Judge
  <2>1. UNCHANGED <<attempt, cell, probes, budgetEv, stop, manifest>> /\ pc = "receipt"
    BY <1>7, JudgeShapes DEF artifacts, stores
  <2>2. ~JudgeStops
    <3> SUFFICES ASSUME attempt[Segment].kind \in Sealing, Reused(attempt[Segment]) PROVE FALSE
      BY <1>1 DEF JudgeStops, Verdicts
    <3>1. attempt[Segment].session # None
      BY <1>0 DEF Final
    <3>2. attempt[Segment].session \in seen
      BY <3>1 DEF Reused
    <3>3. PICK c \in CellIds :
             \E i \in DOMAIN Cells[c] : Behind(c, i) /\ Answers(c, i) /\ SessionOf(c, i) = attempt[Segment].session
      BY <3>2 DEF SeenInv
    <3>4. PICK i \in DOMAIN Cells[c] : Behind(c, i) /\ Answers(c, i) /\ SessionOf(c, i) = attempt[Segment].session
      BY <3>3
    <3>5. Cells[c][i] # Segment /\ Cells[c][i] \in Segments
      BY <2>1, <3>4, HereIsNotBehind, Places
    <3> QED
      BY <1>0, <3>4, <3>5 DEF Final, Answers, SessionOf
  <2>3. pc' \in {"segment", "cell_end"}
    BY <1>7, <2>2, JudgeShapes DEF JudgeFails, JudgePasses
  <2> QED
    BY <2>1, <2>3, FinalSame
<1>8. CASE WriteCell
  <2>1. /\ cell' = [cell EXCEPT ![at.cell] = CellResult] /\ pc' \in {"segment", "manifest"}
        /\ UNCHANGED <<attempt, probes, budgetEv, stop, manifest>> /\ Publishes(cell[at.cell], CellResult)
    BY <1>8 DEF WriteCell, stores
  <2>2. cell' = cell
    BY <1>0, <2>1 DEF CellInv, Publishes, Written
  <2> QED
    BY <2>1, <2>2, FinalSame
<1>9. CASE WriteManifest
  <2>1. manifest' = manifest /\ pc' = "idle" /\ UNCHANGED <<attempt, cell, probes, budgetEv, stop>>
    BY <1>9 DEF WriteManifest, EndWith, stores, Final
  <2> QED
    BY <2>1, FinalSame
<1>10. CASE Crash
  <2>1. pc' = "idle" /\ UNCHANGED <<attempt, probes, budgetEv>>
    BY <1>10 DEF Crash, stores
  <2>2. UNCHANGED <<cell, stop, manifest>>
    BY <1>0, <1>10 DEF Crash, artifacts, Written
  <2> QED
    BY <2>1, <2>2, FinalSame
<1> QED
  BY <1>2, <1>3, <1>4, <1>5, <1>6, <1>7, <1>8, <1>9, <1>10 DEF Next, Step

\* The manifest is written of an experiment that is complete.
LEMMA FinalWritten ==
    ASSUME Core, OpenInv, CellInv, SeenInv, FinalInv, WriteManifest
    PROVE  Final'
<1>1. /\ pc = "manifest" /\ pc' = "idle" /\ manifest' = Manifest
      /\ UNCHANGED <<attempt, cell, probes, budgetEv, stop>>
  BY DEF WriteManifest, EndWith, stores
<1>2. stop = None /\ at.cell = Len(Cells)
  BY <1>1 DEF FinalInv
<1>3. \A c \in CellIds : Written(cell[c])
  BY <1>1 DEF CellInv
<1>4. AllClosed
  BY <1>1, CalmIsClosed DEF Calm
<1>5. \A c \in CellIds : \A i \in DOMAIN Cells[c] : Behind(c, i)
  <2>1. \A c \in CellIds : c < at.cell \/ c = at.cell
    BY <1>2, Places
  <2> QED
    BY <1>1, <2>1 DEF Behind
<1>6. ASSUME NEW s \in Segments, NEW t \in Segments, attempt[s].kind \in Sealing, attempt[t].kind \in Sealing
      PROVE  attempt[s].session # None /\ (attempt[s].session = attempt[t].session => s = t)
  <2>1. PICK c \in CellIds : \E i \in DOMAIN Cells[c] : s = Cells[c][i]
    BY Places
  <2>2. PICK i \in DOMAIN Cells[c] : s = Cells[c][i]
    BY <2>1
  <2>3. PICK d \in CellIds : \E j \in DOMAIN Cells[d] : t = Cells[d][j]
    BY Places
  <2>4. PICK j \in DOMAIN Cells[d] : t = Cells[d][j]
    BY <2>3
  <2>5. Behind(c, i) /\ Answers(c, i) /\ Behind(d, j) /\ Answers(d, j)
    BY <1>5, <1>6, <2>2, <2>4 DEF Answers
  <2>6. attempt[s].session # None
    BY <2>2, <2>5 DEF SeenInv, SessionOf
  <2>7. attempt[s].session = attempt[t].session => c = d /\ i = j
    BY <2>2, <2>4, <2>5 DEF SeenInv, SessionOf
  <2> QED
    BY <2>2, <2>4, <2>6, <2>7
<1>7. manifest' = Manifest'
  BY <1>1 DEF Manifest
<1>8. \A s \in Segments : NothingOpen(s)'
  BY <1>1, <1>4 DEF AllClosed, NothingOpen
<1> QED
  BY <1>1, <1>2, <1>3, <1>6, <1>7, <1>8 DEF Final, Written

LEMMA FinalInvKept ==
    ASSUME Core, Core', CommitInv, StartedInv, CellInv, SeenInv, OpenInv, FinalInv, [Next]_vars
    PROVE  FinalInv'
<1>1. Written(manifest)' => Final'
  <2> SUFFICES ASSUME Written(manifest') PROVE Final'
    BY DEF Written
  <2>1. CASE UNCHANGED manifest
    BY <2>1, FinalKept DEF FinalInv
  <2>2. CASE WriteManifest
    BY <2>2, FinalWritten
  <2>3. CASE Crash
    BY <2>3, FinalKept DEF Crash, artifacts, FinalInv, Written
  <2>4. UNCHANGED manifest \/ WriteManifest \/ Crash
    BY DEF Next, Step, Begin, Bound, Reuse, ReadCeiling, AdmissionRaises, StartProbe, EndProbe, Reserve, RefuseReplay,
       RefuseOverCap, OpenBudget, StartAttempt, Execute, Settle, CloseBudget, Finish, Unreadable, BudgetMismatch, Judge, WriteCell,
       CellDiffers, ManifestDiffers, WriteBudgetStop, BudgetStopDiffers, WriteStop, Others,
       InterruptBudget, InterruptProbe, Raise, artifacts, vars
  <2> QED
    BY <2>1, <2>2, <2>3, <2>4
<1>2. pc' # "idle" => stop' = None
  <2>1. CASE Begin
    BY <2>1 DEF Begin, Resumable
  <2>2. CASE UNCHANGED stop /\ pc # "idle"
    BY <2>2 DEF FinalInv
  <2>3. CASE UNCHANGED <<stop, pc>>
    BY <2>3 DEF FinalInv
  <2>4. CASE pc' = "idle"
    BY <2>4
  <2>5. Begin \/ (UNCHANGED stop /\ pc # "idle") \/ UNCHANGED <<stop, pc>> \/ pc' = "idle"
    BY DEF Next, Step, Bound, Reuse, ReadCeiling, AdmissionRaises, StartProbe, EndProbe, Reserve, RefuseReplay,
       RefuseOverCap, OpenBudget, StartAttempt, Execute, Settle, CloseBudget, Finish, Unreadable, BudgetMismatch, Judge, WriteCell,
       CellDiffers, WriteManifest, ManifestDiffers, WriteBudgetStop, BudgetStopDiffers, WriteStop, Crash, Others,
       InterruptBudget, InterruptProbe, Raise, EndWith, artifacts, run, vars
  <2> QED
    BY <2>1, <2>2, <2>3, <2>4, <2>5
<1>3. pc' = "manifest" => at'.cell = Len(Cells)
  <2> SUFFICES ASSUME pc' = "manifest" PROVE at'.cell = Len(Cells)
    OBVIOUS
  <2>1. CASE WriteCell
    <3>1. ~(at.cell < Len(Cells)) /\ UNCHANGED at
      BY <2>1 DEF WriteCell
    <3>2. at.cell \in CellIds
      BY DEF Core, PlanType
    <3>3. at.cell \in 1..Len(Cells) /\ Len(Cells) \in Nat
      BY <3>2 DEF CellIds
    <3> QED
      BY <3>1, <3>3
  <2>2. CASE Quiet
    BY <2>2 DEF Quiet, FinalInv
  <2>3. ~AttemptStep /\ ~Judge /\ ~Ending
    BY AttemptChange, JudgeShapes DEF JudgeStops, JudgeFails, JudgePasses, Ending
  <2> QED
    BY <2>1, <2>2, <2>3, StepShapes
<1> QED
  BY <1>1, <1>2, <1>3 DEF FinalInv

\* A comparison fails only with an artifact that was cut short.
LEMMA WhyKept ==
    ASSUME Core, StartedInv, CellInv, FinalInv, WhyInv, [Next]_vars
    PROVE  WhyInv'
<1> DEFINE Differs(w) == w \in {"cell_differs", "manifest_differs"}
<1>1. CASE CellDiffers
  <2>1. /\ pc = "cell_end" /\ UNCHANGED <<cell, manifest>> /\ pc' = "idle"
        /\ Later \cap existing # {} \/ ~Publishes(cell[at.cell], CellResult)
    BY <1>1 DEF CellDiffers, Raise, EndWith, artifacts
  <2>2. at.cell \in CellIds /\ DecidedBy(at.cell, at.index) /\ CellResult = ResultOf(at.cell, at.index)
    BY <2>1 DEF Core, PlanType, CellInv, CellResult, ResultOf, Segment
  <2>3. Later \cap existing = {}
    <3>1. ASSUME NEW i \in at.index + 1..Len(Cells[at.cell])
          PROVE  Cells[at.cell][i] \notin existing
      <4>1. Cells[at.cell] \in Seq(Segments) /\ at.index \in Nat
        BY <2>2, Places DEF Core, PlanType
      <4>2. i \in DOMAIN Cells[at.cell] /\ i > at.index
        BY <4>1
      <4>3. attempt[Cells[at.cell][i]].state = "none"
        BY <2>2, <4>2, DecidedComplete
      <4> QED
        BY <4>3 DEF Core, AheadInv
    <3> QED
      BY <3>1 DEF Later
  <2>4. cell[at.cell] # None /\ cell[at.cell] # CellResult
    BY <2>1, <2>3 DEF Publishes
  <2>5. cell[at.cell] = Partial
    <3> SUFFICES ASSUME Written(cell[at.cell]) PROVE FALSE
      BY <2>4 DEF Written
    <3>1. PICK k \in DOMAIN Cells[at.cell] : DecidedBy(at.cell, k) /\ cell[at.cell] = ResultOf(at.cell, k)
      BY <2>2 DEF CellInv
    <3>2. k = at.index
      BY <2>2, <3>1, DecidedOnce
    <3> QED
      BY <2>2, <2>4, <3>1, <3>2
  <2> QED
    BY <2>1, <2>2, <2>5 DEF WhyInv, ResumeReproduces
<1>2. CASE ManifestDiffers
  <2>1. pc = "manifest" /\ UNCHANGED <<cell, manifest>> /\ pc' = "idle" /\ ~Publishes(manifest, Manifest)
    BY <1>2 DEF ManifestDiffers, Raise, EndWith, artifacts
  <2>2. manifest = Partial
    BY <2>1 DEF FinalInv, Final, Publishes, Written
  <2> QED
    BY <2>1, <2>2 DEF WhyInv, ResumeReproduces
<1>3. CASE UNCHANGED vars \/ Others
  BY <1>3 DEF vars, Others, artifacts, run, WhyInv, ResumeReproduces
<1>4. CASE ~Differs(why')
  BY <1>4 DEF WhyInv, ResumeReproduces
<1>5. ASSUME \/ UNCHANGED why /\ pc # "idle"
             \/ why' \in {None, "admission_failed", "overrun", "drift", "missing_or_reused_session",
                         "budget_mismatch", "budget_exhausted", "budget_stop_differs", "unreadable_evidence"}
      PROVE  WhyInv'
  <2>1. ~Differs(why')
    BY <1>5, MarkAssumption DEF WhyInv
  <2> QED
    BY <1>4, <2>1
<1>6. CASE \/ Bound \/ Reuse \/ ReadCeiling \/ AdmissionRaises \/ StartProbe
           \/ \E v \in {"passed", "failed"} : EndProbe(v)
           \/ \E s \in Segments : InterruptBudget(s) \/ InterruptProbe(s)
  BY <1>5, <1>6 DEF Bound, Reuse, ReadCeiling, AdmissionRaises, StartProbe, EndProbe, InterruptBudget, InterruptProbe,
     Goto, StopFor, run
<1>7. CASE \/ Reserve \/ RefuseReplay \/ RefuseOverCap \/ OpenBudget \/ StartAttempt \/ CloseBudget \/ Finish
           \/ \E k \in Kinds, i \in Sessions \cup {None} : Execute(k, i)
           \/ \E known \in BOOLEAN, charge \in 0..Cap : Settle(known, charge)
  BY <1>5, <1>7 DEF Reserve, RefuseReplay, RefuseOverCap, OpenBudget, StartAttempt, CloseBudget, Finish, Execute, Settle,
     Goto, StopFor
<1>8. CASE Begin \/ Judge \/ WriteCell \/ Crash
  BY <1>5, <1>8 DEF Begin, Judge, WriteCell, Crash, StopFor
<1>9. CASE Unreadable \/ BudgetMismatch \/ WriteManifest \/ WriteBudgetStop \/ BudgetStopDiffers \/ WriteStop
  BY <1>5, <1>9 DEF Unreadable, BudgetMismatch, WriteManifest, WriteBudgetStop, BudgetStopDiffers, WriteStop, Raise, EndWith, StopFor
<1> QED
  BY <1>1, <1>2, <1>3, <1>6, <1>7, <1>8, <1>9 DEF Next, Step

-----------------------------------------------------------------------------
\* The files and the history, by their types.
FileInv ==
    /\ frozen \in {None, Partial, "frozen"}
    /\ stop \in {None, Partial} \/ stop \in [reason : Reasons, segment : Segments]
    /\ budgetStop \in {None, Partial} \cup Segments
    /\ others \in OtherHolds /\ why \in Reasons /\ seen \subseteq Sessions
    /\ outcome = None \/ outcome \in Outcome
    /\ crashes \in 0..MaxCrashes
    /\ cut \subseteq EvidenceStores

LEMMA FileKept ==
    ASSUME Core, FileInv, [Next]_vars
    PROVE  FileInv'
<1>0. Segment \in Segments /\ attempt[Segment] \in Attempt
  BY AtSegment DEF Core, PlanType
<1>1. CASE \/ Bound \/ Reuse \/ ReadCeiling \/ AdmissionRaises \/ StartProbe \/ Begin
           \/ \E v \in {"passed", "failed"} : EndProbe(v)
           \/ \E s \in Segments : InterruptBudget(s) \/ InterruptProbe(s)
  BY <1>1 DEF Bound, Reuse, ReadCeiling, AdmissionRaises, StartProbe, Begin, EndProbe, InterruptBudget, InterruptProbe,
     Goto, StopFor, run, artifacts, FileInv, Reasons
<1>2. CASE \/ Reserve \/ RefuseReplay \/ RefuseOverCap \/ OpenBudget \/ StartAttempt \/ CloseBudget \/ Finish
           \/ \E known \in BOOLEAN, charge \in 0..Cap : Settle(known, charge)
  BY <1>2 DEF Reserve, RefuseReplay, RefuseOverCap, OpenBudget, StartAttempt, CloseBudget, Finish, Settle,
     Goto, StopFor, artifacts, FileInv, Reasons
<1>3. ASSUME NEW k \in Kinds, NEW i \in Sessions \cup {None}, Execute(k, i) PROVE FileInv'
  BY <1>3 DEF Execute, artifacts, FileInv, Outcome
<1>4. CASE Judge
  <2>1. UNCHANGED <<artifacts, others, outcome, crashes, cut>>
    BY <1>4 DEF Judge, StopFor, Advance
  <2>2. why' \in Reasons
    BY <1>4 DEF Judge, StopFor, FileInv, Reasons, Kinds
  <2>3. seen' \subseteq Sessions
    <3>1. seen' = seen \/ (seen' = seen \cup {attempt[Segment].session} /\ attempt[Segment].session # None)
      BY <1>4, JudgeShapes DEF JudgeStops, JudgeSees
    <3>2. attempt[Segment].session \in Sessions \cup {None}
      BY <1>0 DEF Attempt
    <3> QED
      BY <3>1, <3>2 DEF FileInv
  <2> QED
    BY <2>1, <2>2, <2>3 DEF FileInv, artifacts
<1>5. CASE Unreadable \/ BudgetMismatch \/ CellDiffers \/ WriteManifest \/ ManifestDiffers \/ BudgetStopDiffers
  BY <1>5 DEF Unreadable, BudgetMismatch, CellDiffers, WriteManifest, ManifestDiffers, BudgetStopDiffers, Raise, EndWith, Resting,
     artifacts, FileInv, Reasons
<1>6. CASE WriteStop \/ WriteBudgetStop \/ WriteCell
  BY <1>0, <1>6 DEF WriteStop, WriteBudgetStop, WriteCell, EndWith, StopFor, Resting, FileInv, Reasons
<1>7. CASE Crash
  <2>1. crashes' \in 0..MaxCrashes
    BY <1>7 DEF Crash, FileInv
  <2>2. cut' \subseteq EvidenceStores
    BY <1>7 DEF Crash, FileInv
  <2> QED
    BY <1>7, <2>1, <2>2 DEF Crash, Resting, artifacts, FileInv, Reasons
<1>8. CASE Others \/ UNCHANGED vars
  BY <1>8 DEF Others, vars, artifacts, run, FileInv
<1> QED
  BY <1>1, <1>2, <1>3, <1>4, <1>5, <1>6, <1>7, <1>8 DEF Next, Step

-----------------------------------------------------------------------------
LEMMA ResultBegins == Init => ResultInv /\ FileInv
<1> SUFFICES ASSUME Init PROVE ResultInv /\ FileInv
  OBVIOUS
<1>1. \A s \in Segments : attempt[s].state = "none" /\ attempt[s].kind = None
  BY DEF Init, NoAttempt
<1>2. \A c \in CellIds : \A i \in DOMAIN Cells[c] : Cells[c][i] \in Segments /\ ~(c < 1) /\ ~(i < 1)
  BY Places, SMTT(30)
<1>3. at.cell = 1 /\ at.index = 1 /\ pc = "idle" /\ failure = None /\ seen = {} /\ manifest = None /\ why = None
  BY DEF Init
<1>4. StartedInv
  BY <1>1, <1>2 DEF StartedInv
<1>5. CellInv
  <2>1. cell = [c \in CellIds |-> None]
    BY DEF Init
  <2>2. cell \in [CellIds -> CellFile \cup {None, Partial}] /\ \A c \in CellIds : ~Written(cell[c])
    BY <2>1 DEF Written
  <2>3. \A c \in CellIds : ~(c < at.cell)
    BY <1>3, Places
  <2> QED
    BY <1>3, <2>2, <2>3 DEF CellInv
<1>6. SeenInv
  BY <1>2, <1>3 DEF SeenInv, Behind
<1>7. OpenInv
  BY <1>3 DEF OpenInv
<1>8. FinalInv
  BY <1>3 DEF FinalInv, Written
<1>9. WhyInv
  BY <1>3, MarkAssumption DEF WhyInv, ResumeReproduces
<1>10. FileInv
  BY DEF Init, FileInv, Reasons
<1> QED
  BY <1>4, <1>5, <1>6, <1>7, <1>8, <1>9, <1>10 DEF ResultInv

LEMMA ResultCore == Spec => [](ResultInv /\ FileInv)
<1>1. ASSUME Core, Core', CommitInv, ResultInv, FileInv, [Next]_vars
      PROVE  (ResultInv /\ FileInv)'
  BY <1>1, StartedKept, CellKept, SeenKept, OpenKept, FinalInvKept, WhyKept, FileKept DEF ResultInv
<1> QED
  BY ResultBegins, ExperimentCore, CommitmentCore, <1>1, PTL DEF Spec

\* Every variable holds what the code may put there, in every reachable state.
THEOREM TypeCorrectness == Spec => []TypeOK
<1>1. ASSUME Core, CommitInv, ResultInv, FileInv
      PROVE  TypeOK
  <2>1. failure \in Kinds \cup {"interrupted", None}
    <3>1. attempt[Segment].kind \in Kinds \cup {"interrupted", None}
      BY <1>1, AtSegment DEF Core, PlanType, Attempt
    <3> QED
      BY <1>1, <3>1 DEF ResultInv, CellInv, FailureOf
  <2>2. \A c \in CellIds : cell[c] \in {None, Partial} \/ cell[c] \in CellFile
    BY <1>1 DEF ResultInv, CellInv
  <2> QED
    BY <1>1, <2>1, <2>2 DEF Core, PlanType, CommitInv, ProbeInv, FileInv, TypeOK, Row, Budget, Attempt, Outcome
<1> QED
  BY ExperimentCore, CommitmentCore, ResultCore, <1>1, PTL

\* A published result rests on complete cells, complete receipts and sessions
\* that are all there and all different, whatever died on the way
\* (scheduling.run_research and its result manifest).
THEOREM PublishedIsSound == Spec => []ManifestIsSound
<1>1. ASSUME Core, ResultInv, manifest \notin {None, Partial}
      PROVE  /\ stop = None
             /\ \A c \in CellIds :
                   /\ cell[c] \in CellFile
                   /\ cell[c].status = "ok" => \A i \in DOMAIN Cells[c] : attempt[Cells[c][i]].kind = "ok"
             /\ \A s \in Segments : attempt[s].state # "open" /\ attempt[s].kind \notin {"overrun", "drift"}
             /\ \A s, t \in Segments :
                   attempt[s].kind \in Sealing /\ attempt[t].kind \in Sealing
                      => attempt[s].session # None /\ (attempt[s].session = attempt[t].session => s = t)
  <2>1. Final
    BY <1>1 DEF ResultInv, FinalInv, Written
  <2>2. ASSUME NEW c \in CellIds
        PROVE  /\ cell[c] \in CellFile
               /\ cell[c].status = "ok" => \A i \in DOMAIN Cells[c] : attempt[Cells[c][i]].kind = "ok"
               /\ \A i \in DOMAIN Cells[c] : /\ attempt[Cells[c][i]].state # "open"
                                             /\ attempt[Cells[c][i]].kind \in Verdicts \cup {None}
    <3>1. PICK k \in DOMAIN Cells[c] : DecidedBy(c, k) /\ cell[c] = ResultOf(c, k)
      BY <1>1, <2>1 DEF Final, ResultInv, CellInv
    <3>2. cell[c] \in CellFile
      BY <1>1, <3>1, ResultIsFile
    <3>3. \A i \in DOMAIN Cells[c] : /\ attempt[Cells[c][i]].state # "open"
                                     /\ attempt[Cells[c][i]].kind \in Verdicts \cup {None}
      BY <1>1, <3>1, DecidedComplete DEF ResultInv
    <3>4. ASSUME cell[c].status = "ok", NEW i \in DOMAIN Cells[c]
          PROVE  attempt[Cells[c][i]].kind = "ok"
      <4>1. attempt[Cells[c][k]].kind = "ok"
        <5>1. attempt[Cells[c][k]].kind # None
          BY <3>1, MarkAssumption DEF DecidedBy, Verdicts, Kinds
        <5> QED
          BY <3>1, <3>4, <5>1 DEF ResultOf, FailureOf
      <4>2. k = Len(Cells[c])
        BY <3>1, <4>1 DEF DecidedBy
      <4>3. i \in Nat /\ k \in Nat /\ i <= k
        BY <4>2, Places
      <4>4. CASE i = k
        BY <4>1, <4>4
      <4>5. CASE i < k
        BY <3>1, <4>5 DEF DecidedBy, Success
      <4> QED
        BY <4>3, <4>4, <4>5
    <3> QED
      BY <3>2, <3>3, <3>4
  <2>3. \A s \in Segments : attempt[s].state # "open" /\ attempt[s].kind \notin {"overrun", "drift"}
    <3>1. \A s \in Segments : attempt[s].state # "open" /\ attempt[s].kind \in Verdicts \cup {None}
      <4> SUFFICES ASSUME NEW s \in Segments
                   PROVE  attempt[s].state # "open" /\ attempt[s].kind \in Verdicts \cup {None}
        OBVIOUS
      <4>1. PICK c \in CellIds : \E i \in DOMAIN Cells[c] : s = Cells[c][i]
        BY Places
      <4>2. PICK i \in DOMAIN Cells[c] : s = Cells[c][i]
        BY <4>1
      <4>3. /\ attempt[Cells[c][i]].state # "open"
            /\ attempt[Cells[c][i]].kind \in Verdicts \cup {None}
        BY <2>2
      <4> QED
        BY <4>2, <4>3
    <3> QED
      BY <3>1, MarkAssumption DEF Verdicts, Kinds
  <2> QED
    BY <2>1, <2>2, <2>3 DEF Final
<1>2. Core /\ ResultInv => ManifestIsSound
  BY <1>1 DEF ManifestIsSound
<1> QED
  BY ExperimentCore, ResultCore, <1>2, PTL

\* A resumed invocation recomputes what earlier ones published: a comparison
\* with an artifact fails only when one was cut short (_immutable_json).
THEOREM ResumeIsReproducible == Spec => []ResumeReproduces
<1>1. ResultInv => ResumeReproduces
  BY DEF ResultInv, WhyInv
<1> QED
  BY ResultCore, <1>1, PTL

\* A published manifest binds what the stores and the cells say, for good: no
\* later invocation probes, runs, interrupts or rewrites any of it.
THEOREM ManifestIsFinal == Spec => []ManifestStaysTrue
<1>1. ResultInv => ManifestStaysTrue
  BY DEF ResultInv, FinalInv, Final, Written, ManifestStaysTrue
<1> QED
  BY ResultCore, <1>1, PTL

-----------------------------------------------------------------------------
\* A segment whose run has returned was called.
RanInv == pc \in {"settle", "close_budget", "finish"} => calls[Segment] # 0

LEMMA RanKept == ASSUME Core, RanInv, [Next]_vars PROVE RanInv'
<1>1. ASSUME NEW k \in Kinds, NEW i \in Sessions \cup {None}, Execute(k, i) PROVE RanInv'
  <2>1. calls' = [calls EXCEPT ![Segment] = @ + 1] /\ Segment' = Segment
    BY <1>1 DEF Execute, Segment
  <2>2. Segment \in Segments /\ calls \in [Segments -> Nat]
    BY AtSegment DEF Core, PlanType
  <2> QED
    BY <2>1, <2>2 DEF RanInv
<1>2. ASSUME NEW known \in BOOLEAN, NEW charge \in 0..Cap, Settle(known, charge) PROVE RanInv'
  BY <1>2 DEF Settle, Goto, RanInv, Segment
<1>3. CASE CloseBudget \/ Others \/ UNCHANGED vars
  BY <1>3 DEF CloseBudget, Goto, Others, RanInv, Segment, vars, stores, run
<1>4. ASSUME NEW v \in {"passed", "failed"}, EndProbe(v) PROVE RanInv'
  BY <1>4 DEF EndProbe, Goto, StopFor, RanInv
<1>5. ASSUME NEW s \in Segments, InterruptBudget(s) \/ InterruptProbe(s) PROVE RanInv'
  BY <1>5 DEF InterruptBudget, InterruptProbe, run, RanInv
<1>6. CASE \/ Begin \/ Bound \/ Reuse \/ ReadCeiling \/ AdmissionRaises \/ StartProbe \/ Reserve \/ RefuseReplay
           \/ RefuseOverCap \/ OpenBudget \/ StartAttempt \/ Finish \/ WriteBudgetStop
  BY <1>6 DEF Begin, Bound, Reuse, ReadCeiling, AdmissionRaises, StartProbe, Reserve, RefuseReplay, RefuseOverCap,
     OpenBudget, StartAttempt, Finish, WriteBudgetStop, Goto, StopFor, RanInv
<1>7. CASE Judge \/ WriteCell
  BY <1>7, JudgeShapes DEF JudgeStops, JudgeFails, JudgePasses, WriteCell, RanInv
<1>8. CASE Ending
  BY <1>8 DEF Ending, RanInv
<1>9. CASE Unreadable \/ BudgetMismatch \/ CellDiffers \/ WriteManifest \/ ManifestDiffers \/ BudgetStopDiffers \/ WriteStop \/ Crash
  BY <1>9 DEF Unreadable, BudgetMismatch, CellDiffers, WriteManifest, ManifestDiffers, BudgetStopDiffers, WriteStop, Crash,
     Raise, EndWith, RanInv
<1> QED
  BY <1>1, <1>2, <1>3, <1>4, <1>5, <1>6, <1>7, <1>9 DEF Next, Step

LEMMA RunsReturn == Spec => []RanInv
<1>1. Init => RanInv
  BY DEF Init, RanInv
<1> QED
  BY ExperimentCore, <1>1, RanKept, PTL DEF Spec

\* What the register shows of the experiment.
Opened == {s \in Segments : attempt[s].state # "none"}
VerdictOf == [s \in Segments |-> ReceiptOf(attempt[s])]
Published == [s \in Segments |-> IF manifest \in {None, Partial} THEN None ELSE ReceiptOf(manifest.attempts[s])]

LEMMA RegisterBegins == Init => Register!Init
<1> SUFFICES ASSUME Init PROVE Register!Init
  OBVIOUS
<1>1. \A s \in Segments : attempt[s].state = "none"
  BY DEF Init, NoAttempt
<1>2. Opened = {} /\ VerdictOf = Register!Nothing /\ Published = Register!Nothing
  BY <1>1 DEF Init, Opened, VerdictOf, Published, ReceiptOf, Register!Nothing
<1> QED
  BY <1>2 DEF Init, Register!Init, Opened, VerdictOf, Published

LEMMA RegisterSame ==
    ASSUME UNCHANGED <<attempt, calls>>, manifest' = manifest \/ {manifest, manifest'} \subseteq {None, Partial}
    PROVE  UNCHANGED <<Opened, calls, VerdictOf, Published>>
<1>1. Published' = Published
  BY DEF Published, ReceiptOf
<1> QED
  BY <1>1 DEF Opened, VerdictOf, ReceiptOf

\* An attempt is a receipt once it is complete.
LEMMA ReceiptsAre ==
    ASSUME Core, StartedInv, NEW s \in Segments
    PROVE  /\ attempt[s].state = "complete" => ReceiptOf(attempt[s]) \in Receipts
           /\ attempt[s].state # "complete" => ReceiptOf(attempt[s]) = None
           /\ Success(s) => ReceiptOf(attempt[s]).kind = "ok"
<1>1. attempt[s] \in Attempt
  BY DEF Core, PlanType
<1>2. attempt[s].state = "complete" => attempt[s].kind # None
  BY DEF StartedInv
<1> QED
  BY <1>1, <1>2 DEF Attempt, ReceiptOf, Receipts, Success

\* The candidate evidence is opened, and closed with a receipt.
LEMMA AttemptMaps ==
    ASSUME Core, StartedInv, RanInv, AttemptStep
    PROVE  Register!Next \/ UNCHANGED <<Opened, calls, VerdictOf, Published>>
<1>0. /\ Segment \in Segments /\ attempt \in [Segments -> Attempt] /\ Published' = Published
      /\ \A s \in Segments : s # Segment => attempt'[s] = attempt[s]
      /\ UNCHANGED <<calls, manifest>>
  <2>1. UNCHANGED <<calls, manifest>>
    BY AttemptChange DEF AttemptStep, Reuse, StartAttempt, Finish, artifacts
  <2>2. Published' = Published
    BY <2>1 DEF Published, ReceiptOf
  <2> QED
    BY <2>1, <2>2, AtSegment, AttemptChange DEF Core, PlanType
<1>1. PICK t \in Segments : t = Segment
  BY <1>0
<1>2. CASE StartAttempt
  <2>1. /\ attempt' = [attempt EXCEPT ![t] = [attempt[t] EXCEPT !.state = "open"]] /\ pc = "start"
    BY <1>1, <1>2 DEF StartAttempt
  <2>2. attempt[t].state = "none" /\ attempt'[t].state = "open"
    BY <1>0, <1>1, <2>1 DEF Core, PlanType, AheadInv, Segment, Reached, Before, Attempt
  <2>3. t \notin Opened /\ Opened' = Opened \cup {t}
    BY <1>0, <1>1, <2>2 DEF Opened
  <2>4. VerdictOf' = VerdictOf
    BY <1>0, <1>1, <2>2 DEF VerdictOf, ReceiptOf
  <2>5. ASSUME NEW u \in Ahead(t) PROVE VerdictOf[u] \in {r \in Receipts : r.kind = "ok"}
    <3>1. u \in Segments /\ \E c \in CellIds : \E i, j \in DOMAIN Cells[c] : i < j /\ Cells[c][i] = u /\ Cells[c][j] = t
      BY <2>5 DEF Ahead
    <3>2. PICK c \in CellIds : \E i, j \in DOMAIN Cells[c] : i < j /\ Cells[c][i] = u /\ Cells[c][j] = t
      BY <3>1
    <3>3. PICK i \in DOMAIN Cells[c], j \in DOMAIN Cells[c] : i < j /\ Cells[c][i] = u /\ Cells[c][j] = t
      BY <3>2
    <3>4. c = at.cell /\ j = at.index
      BY <1>1, <3>3, AtSegment DEF Core, Reached
    <3>5. Success(u)
      BY <3>3, <3>4 DEF Core, BehindInv
    <3> QED
      BY <3>1, <3>5, ReceiptsAre DEF VerdictOf, Success
  <2>6. \A u \in [s \in Segments |-> Ahead(s)][t] : VerdictOf[u] \in {r \in Receipts : r.kind = "ok"}
    BY <2>5
  <2>7. Register!Open(t)
    BY <1>0, <2>3, <2>4, <2>6 DEF Register!Open, Opened, VerdictOf, Published
  <2>8. Register!Next
    BY <2>7 DEF Register!Next
  <2> QED
    BY <2>8
<1>3. ASSUME NEW r \in Receipts, attempt[t].state = "open", attempt' = [attempt EXCEPT ![t] = Complete(r)],
             calls[t] = 0 => r.kind = "interrupted"
      PROVE  Register!Next
  <2>1. attempt'[t].state = "complete" /\ ReceiptOf(attempt'[t]) = r /\ ReceiptOf(attempt[t]) = None
    BY <1>0, <1>3 DEF Complete, ReceiptOf, Receipts
  <2>2. t \in Opened /\ VerdictOf[t] = None /\ Opened' = Opened
    BY <1>0, <1>1, <1>3, <2>1 DEF Opened, VerdictOf
  <2>3. VerdictOf' = [VerdictOf EXCEPT ![t] = r]
    BY <1>0, <1>1, <2>1 DEF VerdictOf, ReceiptOf
  <2>4. Register!Close(t, r)
    BY <1>0, <1>3, <2>2, <2>3 DEF Register!Close, Register!Running, Opened, VerdictOf, Published
  <2> QED
    BY <2>4 DEF Register!Next
<1>4. CASE Reuse
  <2>1. CASE attempt[t].state = "open"
    <3>1. PICK r \in Receipts : r = [kind |-> "interrupted", session |-> None]
      BY DEF Receipts
    <3>2. attempt' = [attempt EXCEPT ![t] = Complete(r)]
      BY <1>1, <1>4, <2>1, <3>1 DEF Reuse
    <3> QED
      BY <1>3, <2>1, <3>1, <3>2
  <2>2. CASE attempt[t].state # "open"
    <3>1. attempt' = attempt
      BY <1>0, <1>1, <1>4, <2>2 DEF Reuse
    <3> QED
      BY <1>0, <3>1, RegisterSame
  <2> QED
    BY <2>1, <2>2
<1>5. CASE Finish
  <2>1. /\ attempt' = [attempt EXCEPT ![t] = Complete(outcome)] /\ pc = "finish"
        /\ attempt[t].state = "open" /\ calls[t] # 0
    BY <1>1, <1>5 DEF Finish, Core, CallInv, During, RanInv
  <2>2. PICK r \in Receipts : r = outcome
    BY <2>1 DEF Core, PlanType, Outcome, Receipts
  <2> QED
    BY <1>3, <2>1, <2>2
<1> QED
  BY <1>2, <1>4, <1>5 DEF AttemptStep

\* The manifest publishes every receipt at once.
LEMMA ManifestMaps ==
    ASSUME Core, StartedInv, WriteManifest
    PROVE  Register!Next \/ UNCHANGED <<Opened, calls, VerdictOf, Published>>
<1>0. manifest' = Manifest /\ UNCHANGED <<attempt, calls>> /\ (manifest = None \/ manifest = Manifest)
  BY DEF WriteManifest, stores, Publishes
<1>1. CASE manifest' = manifest \/ {manifest, manifest'} \subseteq {None, Partial}
  BY <1>0, <1>1, RegisterSame
<1>2. CASE manifest = None /\ manifest' \notin {None, Partial}
  <2>1. PICK T \in SUBSET Segments : T = {s \in Segments : attempt[s].state = "complete"}
    OBVIOUS
  <2>2. Published = [s \in Segments |-> None] /\ Published' = VerdictOf
    BY <1>0, <1>2 DEF Published, VerdictOf, Manifest, ReceiptOf
  <2>3. VerdictOf = [s \in Segments |-> IF s \in T THEN VerdictOf[s] ELSE Published[s]]
    BY <2>1, <2>2, ReceiptsAre DEF VerdictOf
  <2>4. \A t \in T : VerdictOf[t] # None /\ Published[t] = None
    BY <2>1, <2>2, ReceiptsAre, MarkAssumption DEF VerdictOf
  <2>5. ASSUME NEW t \in T, NEW u \in Ahead(t) PROVE u \in T
    <3>1. u \in Segments /\ \E c \in CellIds : \E i, j \in DOMAIN Cells[c] : i < j /\ Cells[c][i] = u /\ Cells[c][j] = t
      BY <2>5 DEF Ahead
    <3>2. PICK c \in CellIds : \E i, j \in DOMAIN Cells[c] : i < j /\ Cells[c][i] = u /\ Cells[c][j] = t
      BY <3>1
    <3>3. PICK i \in DOMAIN Cells[c], j \in DOMAIN Cells[c] : i < j /\ Cells[c][i] = u /\ Cells[c][j] = t
      BY <3>2
    <3>4. attempt[Cells[c][j]].state # "none"
      BY <2>1, <2>5, <3>3
    <3>5. Success(u)
      BY <3>3, <3>4 DEF StartedInv
    <3> QED
      BY <2>1, <3>1, <3>5 DEF Success
  <2>6. \A t \in T : \A u \in [s \in Segments |-> Ahead(s)][t] : u \in T
    BY <2>5
  <2>7. Opened' = Opened /\ VerdictOf' = VerdictOf
    BY <1>0 DEF Opened, VerdictOf, ReceiptOf
  <2>8. Register!Publish(T)
    BY <1>0, <2>2, <2>3, <2>4, <2>6, <2>7 DEF Register!Publish, Opened, VerdictOf, Published
  <2>9. Register!Next
    BY <2>8 DEF Register!Next
  <2> QED
    BY <2>9
<1> QED
  BY <1>0, <1>1, <1>2

LEMMA RegisterMaps ==
    ASSUME Core, StartedInv, RanInv, [Next]_vars
    PROVE  Register!Next \/ UNCHANGED <<Opened, calls, VerdictOf, Published>>
<1>1. CASE AttemptStep
  BY <1>1, AttemptMaps
<1>2. CASE WriteManifest
  BY <1>2, ManifestMaps
<1>3. ASSUME NEW k \in Kinds, NEW i \in Sessions \cup {None}, Execute(k, i) PROVE Register!Next
  <2>1. PICK t \in Segments : t = Segment
    BY AtSegment DEF Core
  <2>2. /\ pc = "execute" /\ calls' = [calls EXCEPT ![t] = calls[t] + 1] /\ UNCHANGED <<attempt, manifest>>
    BY <1>3, <2>1 DEF Execute, artifacts
  <2>3. attempt[t].state = "open" /\ calls[t] = 0
    BY <2>1, <2>2 DEF Core, CallInv, During
  <2>4. t \in Opened /\ VerdictOf[t] = None
    BY <2>3 DEF Opened, VerdictOf, ReceiptOf
  <2>5. UNCHANGED <<Opened, VerdictOf, Published>>
    BY <2>2 DEF Opened, VerdictOf, Published, ReceiptOf
  <2>6. Register!Call(t)
    BY <2>2, <2>3, <2>4, <2>5 DEF Register!Call, Register!Running, Opened, VerdictOf, Published
  <2> QED
    BY <2>6 DEF Register!Next
<1>4. CASE Crash
  <2>1. UNCHANGED <<attempt, calls>>
    BY <1>4 DEF Crash, stores
  <2>2. manifest' = manifest \/ {manifest, manifest'} \subseteq {None, Partial}
    BY <1>4 DEF Crash, artifacts
  <2> QED
    BY <2>1, <2>2, RegisterSame
<1>5. CASE UNCHANGED <<attempt, calls, manifest>>
  BY <1>5, RegisterSame
<1>6. \/ AttemptStep \/ WriteManifest \/ Crash \/ UNCHANGED <<attempt, calls, manifest>>
      \/ \E k \in Kinds, i \in Sessions \cup {None} : Execute(k, i)
  BY DEF Next, Step, AttemptStep, Begin, Bound, ReadCeiling, AdmissionRaises, StartProbe, EndProbe, Reserve, RefuseReplay,
     RefuseOverCap, OpenBudget, Settle, CloseBudget, Unreadable, BudgetMismatch, Judge, WriteCell,
     CellDiffers, ManifestDiffers, WriteBudgetStop, BudgetStopDiffers, WriteStop, Others,
     InterruptBudget, InterruptProbe, Raise, artifacts, stores, vars
<1> QED
  BY <1>1, <1>2, <1>3, <1>4, <1>5, <1>6

\* However often it dies and is resumed, an experiment keeps the register of
\* its segments: each is opened behind successes only, called at most once while
\* it is open, closed once, and published once, together with all the others.
THEOREM ExperimentKeepsRegister == Spec => ImplementsTrialRegister
<1>1. Core /\ ResultInv /\ RanInv /\ [Next]_vars => [Register!Next]_Register!registerVars
  <2> SUFFICES ASSUME Core, ResultInv, RanInv, [Next]_vars
               PROVE  Register!Next \/ UNCHANGED <<Opened, calls, VerdictOf, Published>>
    BY DEF Register!registerVars, Opened, VerdictOf, Published
  <2> QED
    BY RegisterMaps DEF ResultInv
<1> QED
  BY <1>1, ExperimentCore, ResultCore, RunsReturn, RegisterBegins, PTL DEF Spec, ImplementsTrialRegister, Register!Spec
=============================================================================
