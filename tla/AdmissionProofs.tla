----------------------------- MODULE AdmissionProofs -----------------------------
(***************************************************************************)
(* Theorems about what an operator is told.                                *)
(*                                                                         *)
(* Of a readiness check and of scoring, for every set of experiments: what *)
(* passes was looked at in one state, whatever executions did meanwhile;   *)
(* what was sealed is scored; and what is published of exams is earned.    *)
(*                                                                         *)
(* Of an admission probe, for every set of declared files, for every       *)
(* limit, deadline and amount of output, and whatever its processes do:    *)
(* nobody of the child's group survives, the report is exact, and an       *)
(* approval is earned.                                                     *)
(***************************************************************************)
EXTENDS AdmissionProbe, SealedExperiment, FiniteSetTheorems, TLAPS

-----------------------------------------------------------------------------
(* The readiness check, and scoring. *)

Temp(a) == <<"temp", a[1], a[2]>>
Final(a) == <<"final", a[1], a[2]>>
Named(S) == {p[1] : p \in S}

\* A row of the ledger is never taken back: one state of it is earlier than another.
Ledgers ==
    {rows \in [Funding -> [own : Nat, taken : Nat, settled : Nat]] :
        \A kind \in Funding : rows[kind].settled <= rows[kind].taken}
Earlier(rows, later) ==
    \A kind \in Funding :
        /\ rows[kind].own <= later[kind].own
        /\ rows[kind].taken <= later[kind].taken
        /\ rows[kind].settled <= later[kind].settled

\* Versions grow, but for a temporary, which is unlinked once its final record
\* is linked: the two together grow.
Age(n) == IF n[1] = "temp" THEN root[n] + 2 * root[Final(<<n[2], n[3]>>)] ELSE root[n]

\* The execution has not come to the temporary of this attempt.
Unstaged(c, s) ==
    \/ next[1] = "start"
    \/ next[1] \in {"reserve", "stop", "raised", "answer", "temp"} /\ (c > next[2] \/ (c = next[2] /\ s >= next[3]))
    \/ next[1] = "publish" /\ (c > next[2] \/ (c = next[2] /\ s > next[3]))
    \/ next[1] = "seal" /\ c > next[2]

Working == {"reserve", "stop", "raised", "answer", "temp", "publish", "seal"}

PlanInv == experiment \in Experiments /\ (cells # None => Plannable(experiment) /\ cells = Cells(experiment))

RootInv ==
    /\ root \in [Artifacts -> Nat]
    /\ next = <<next[1], next[2], next[3]>> /\ next[2] \in Nat /\ next[3] \in Nat
    /\ next[1] \in Working => next[2] \in DOMAIN cells
    /\ \A n \in Artifacts : n[1] = "budget-stop" => root[n] <= 1
    /\ \A a \in Attempts :
          /\ root[Temp(a)] + root[Final(a)] <= 1
          /\ Unstaged(a[1], a[2]) => root[Temp(a)] = 0 /\ root[Final(a)] = 0

\* What a listing L has been read to S still says something about the files
\* that are there now.
Reading(S, L) ==
    /\ S \subseteq Artifacts \X Nat /\ L \subseteq Artifacts /\ Named(S) \subseteq L
    /\ \A p \in S : 0 < p[2] /\ p[2] <= Age(p[1]) /\ (p[1][1] = "temp" => p[2] = 1)
    /\ \A p, q \in S : p[1] = q[1] => p = q
    /\ \A n \in L : n[1] = "final" => root[n] > 0

\* The directory is no longer the one that was read first, and cannot become
\* it again.
Moved(p) == Age(p[1]) > p[2]
Extra(n) ==
    /\ Age(n) > 0 /\ n \notin Named(before)
    /\ n[1] = "temp" => Final(<<n[2], n[3]>>) \notin Named(before)
Disturbed == (\E p \in before : Moved(p)) \/ (\E n \in Artifacts : Extra(n)) \/ Budget # budget

\* The second reading has it, or is going to.
Noticed ==
    \/ \E p \in before : Moved(p) /\ p \notin seen
    \/ \E n \in Named(seen) \cup left : n \notin Named(before)
    \/ Budget # budget

Comparing == {"probe", "relist", "again"}

ReadingInv ==
    /\ phase = "before" => Reading(seen, Named(seen) \cup left) /\ left \cap Named(seen) = {}
    /\ phase \in Comparing => Reading(before, Named(before))
    /\ phase \in {"probe", "relist"} /\ ~steady => Disturbed
    /\ phase = "again" => left \subseteq Artifacts /\ (~steady => Noticed)

BudgetInv ==
    /\ ledger \in Ledgers
    /\ phase \in Comparing \cup {"done"} =>
          IF Sequential(experiment) THEN budget \in Ledgers /\ Earlier(budget, ledger) ELSE budget = None

ProbeInv ==
    /\ failures \in Nat /\ lies \in Nat /\ cell \in Nat \ {0}
    /\ phase \in {"idle", "list", "before"} => failures = 0 /\ lies = 0 /\ cell = 1 /\ steady
    /\ phase \notin {"idle", "raised"} => Ready
    /\ phase \in Comparing /\ failures = 0 =>
          lies = 0 /\ \A c \in DOMAIN cells : c < cell => Covered(c)
    /\ phase \in {"relist", "again"} => cell = Len(cells) + 1

ReadinessInv ==
    /\ PlanInv /\ BudgetInv
    /\ phase \in {"idle", "list", "before", "probe", "relist", "again", "done", "raised"}
    /\ cells # None => RootInv /\ ReadingInv
    /\ ProbeInv /\ ReadinessIsTruthful

-----------------------------------------------------------------------------
\* What a segment of a route may cost is a whole number.
LEMMA ChargeIsNatural ==
    ASSUME NEW route, NEW tools \in Nat,
           {route.inputRate, route.outputRate, route.toolRate, route.maxInput, route.maxOutput} \subseteq Nat
    PROVE  TokenCost(route) \in Nat /\ TokenCost(route) + route.toolRate * tools \in Nat
<1>1. ASSUME NEW x \in Nat, NEW y \in Nat PROVE CeilRateCost(x, y) \in Nat
  <2>1. x * y \in Nat
    OBVIOUS
  <2>2. ASSUME NEW z \in Nat PROVE (z + PerUnit - 1) \div PerUnit \in Nat
    BY ClaimsAssumption
  <2> QED
    BY <2>1, <2>2 DEF CeilRateCost
<1>2. TokenCost(route) \in Nat
  <2> DEFINE input == CeilRateCost(route.inputRate, route.maxInput)
             output == CeilRateCost(route.outputRate, route.maxOutput)
  <2>1. input \in Nat /\ output \in Nat
    BY <1>1
  <2>2. TokenCost(route) = input + output
    BY DEF TokenCost
  <2> HIDE DEF input, output
  <2> QED
    BY <2>1, <2>2
<1>3. route.toolRate * tools \in Nat
  <2>1. \A x, y \in Nat : x * y \in Nat
    OBVIOUS
  <2> QED
    BY <2>1
<1> QED
  BY <1>2, <1>3

\* A cell is of a suite, under a route, in a condition of that route.
LEMMA CellOfPlan ==
    ASSUME PlanInv, cells # None, NEW c \in DOMAIN cells
    PROVE  \E s \in DOMAIN experiment.suites, r \in DOMAIN experiment.routes :
              LET segments == SegmentPlan(cells[c].suite, experiment.protocol).segments IN
              /\ cells[c].suite = experiment.suites[s] /\ cells[c].route = experiment.routes[r]
              /\ cells[c].condition \in cells[c].route.conditions
              /\ cells[c].reserved = Reservation(cells[c].route)
              /\ cells[c].segments = Len(segments) /\ cells[c].segments \in Nat \ {0}
              /\ DOMAIN segments = 1..cells[c].segments
<1>1. PICK s \in DOMAIN experiment.suites, r \in DOMAIN experiment.routes, p \in 1..experiment.repeats :
         \E condition \in experiment.routes[r].conditions :
            LET segments == SegmentPlan(experiment.suites[s], experiment.protocol).segments IN
            /\ Len(segments) \in Nat \ {0} /\ DOMAIN segments = 1..Len(segments)
            /\ cells[c] = Cell(experiment.suites[s], experiment.routes[r], p, condition, Len(segments))
  BY PlanAssumption DEF PlanInv
<1>2. PICK condition \in experiment.routes[r].conditions :
         LET segments == SegmentPlan(experiment.suites[s], experiment.protocol).segments IN
         /\ Len(segments) \in Nat \ {0} /\ DOMAIN segments = 1..Len(segments)
         /\ cells[c] = Cell(experiment.suites[s], experiment.routes[r], p, condition, Len(segments))
  BY <1>1
<1>3. /\ cells[c].suite = experiment.suites[s] /\ cells[c].route = experiment.routes[r]
      /\ cells[c].condition = condition /\ cells[c].reserved = Reservation(experiment.routes[r])
      /\ cells[c].segments = Len(SegmentPlan(experiment.suites[s], experiment.protocol).segments)
  BY <1>2 DEF Cell
<1> QED
  BY <1>2, <1>3

\* The plan is a sequence of cells that reserve the worst case of their route.
LEMMA PlannedCells ==
    ASSUME PlanInv, cells # None
    PROVE  /\ Len(cells) \in Nat \ {0} /\ DOMAIN cells = 1..Len(cells)
           /\ ReservationTotal(cells) \in Nat /\ experiment.cap \in Nat
           /\ \A c \in DOMAIN cells : /\ cells[c].reserved \in Nat /\ cells[c].reserved = Reservation(cells[c].route)
                                      /\ Maximum(cells[c].route) \in Nat
<1>1. /\ Len(cells) \in Nat \ {0} /\ DOMAIN cells = 1..Len(cells)
      /\ ReservationTotal(cells) \in Nat /\ experiment.cap \in Nat
  BY PlanAssumption DEF PlanInv
<1>2. ASSUME NEW c \in DOMAIN cells
      PROVE  /\ cells[c].reserved \in Nat /\ cells[c].reserved = Reservation(cells[c].route)
             /\ Maximum(cells[c].route) \in Nat
  <2> DEFINE route == cells[c].route
  <2>1. PICK r \in DOMAIN experiment.routes : route = experiment.routes[r]
    BY CellOfPlan
  <2>2. {route.inputRate, route.outputRate, route.toolRate, route.maxInput, route.maxOutput, route.maxRounds} \subseteq Nat
    BY <2>1, PlanAssumption DEF PlanInv
  <2>3. cells[c].reserved = Reservation(route)
    BY CellOfPlan
  <2> HIDE DEF route
  <2>4. Reservation(route) \in Nat /\ Maximum(route) \in Nat
    <3>1. TokenCost(route) + route.toolRate * route.maxRounds \in Nat
      BY <2>2, ChargeIsNatural
    <3>2. route.toolRate * route.maxRounds = route.maxRounds * route.toolRate
      BY <2>2
    <3> QED
      BY <3>1, <3>2 DEF Reservation, Maximum
  <2> QED
    BY <2>3, <2>4 DEF route
<1> QED
  BY <1>1, <1>2

-----------------------------------------------------------------------------
\* An attempt has a temporary and a final record, and nothing else is one.
LEMMA ArtifactKinds ==
    ASSUME PlanInv, cells # None
    PROVE  /\ \A a \in Attempts : /\ a = <<a[1], a[2]>> /\ a[1] \in Nat /\ a[2] \in Nat
                                  /\ Temp(a) \in Artifacts /\ Final(a) \in Artifacts
           /\ \A n \in Artifacts : n[1] = "temp" => <<n[2], n[3]>> \in Attempts /\ n = Temp(<<n[2], n[3]>>)
           /\ \A n \in Artifacts : n[1] = "final" => <<n[2], n[3]>> \in Attempts /\ n = Final(<<n[2], n[3]>>)
<1>1. DOMAIN cells = 1..Len(cells) /\ Len(cells) \in Nat \ {0}
  BY PlannedCells
<1>2. \A a \in Attempts : a = <<a[1], a[2]>> /\ a[1] \in Nat /\ a[2] \in Nat
  BY <1>1 DEF Attempts
<1>3. \A a \in Attempts, kind \in {"budget-stop", "temp", "events", "final"} : <<kind, a[1], a[2]>> \in Artifacts
  BY DEF Artifacts
<1>4. ASSUME NEW n \in Artifacts, n[1] \in {"temp", "final"}
      PROVE  <<n[2], n[3]>> \in Attempts /\ n = <<n[1], n[2], n[3]>>
  <2>1. PICK kind \in {"budget-stop", "temp", "events", "final"}, a \in Attempts : n = <<kind, a[1], a[2]>>
    BY <1>4 DEF Artifacts
  <2>2. n[1] = kind /\ n[2] = a[1] /\ n[3] = a[2]
    BY <2>1
  <2> QED
    BY <2>1, <2>2, <1>2
<1> QED
  BY <1>2, <1>3, <1>4 DEF Temp, Final

\* A step that leaves temporaries and final records alone lets files grow.
LEMMA OthersGrow ==
    ASSUME PlanInv, cells # None, RootInv, cells' = cells, root' \in [Artifacts -> Nat],
           next' = <<next'[1], next'[2], next'[3]>>, next'[2] \in Nat, next'[3] \in Nat,
           next'[1] \in Working => next'[2] \in DOMAIN cells,
           \A n \in Artifacts : n[1] = "budget-stop" => root'[n] <= 1,
           \A n \in Artifacts : root'[n] >= root[n] /\ (n[1] \in {"temp", "final"} => root'[n] = root[n]),
           \A a \in Attempts : Unstaged(a[1], a[2])' => Unstaged(a[1], a[2])
    PROVE  RootInv' /\ \A n \in Artifacts : Age(n)' >= Age(n) /\ (n[1] = "final" => root'[n] >= root[n])
<1>1. Artifacts' = Artifacts /\ Attempts' = Attempts
  BY DEF Artifacts, Attempts
<1>2. \A a \in Attempts : root'[Temp(a)] = root[Temp(a)] /\ root'[Final(a)] = root[Final(a)]
  BY ArtifactKinds DEF Temp, Final
<1>3. RootInv'
  BY <1>1, <1>2 DEF RootInv, Temp, Final
<1>4. ASSUME NEW n \in Artifacts PROVE Age(n)' >= Age(n)
  <2>1. root'[n] \in Nat /\ root[n] \in Nat
    BY DEF RootInv
  <2>2. CASE n[1] = "temp"
    <3>1. root'[Final(<<n[2], n[3]>>)] = root[Final(<<n[2], n[3]>>)] /\ Final(<<n[2], n[3]>>) \in Artifacts
      BY <2>2, <1>2, ArtifactKinds
    <3>2. root[Final(<<n[2], n[3]>>)] \in Nat
      BY <3>1 DEF RootInv
    <3> QED
      BY <2>1, <2>2, <3>1, <3>2 DEF Age
  <2>3. CASE n[1] # "temp"
    BY <2>1, <2>3 DEF Age
  <2> QED
    BY <2>2, <2>3
<1> QED
  BY <1>3, <1>4

\* A temporary is written where there was none before.
LEMMA StageGrows ==
    ASSUME PlanInv, cells # None, RootInv, cells' = cells, Stage
    PROVE  RootInv' /\ \A n \in Artifacts : Age(n)' >= Age(n) /\ (n[1] = "final" => root'[n] >= root[n])
<1> DEFINE a0 == <<next[2], next[3]>>
<1>1. Artifacts' = Artifacts /\ Attempts' = Attempts
  BY DEF Artifacts, Attempts
<1>2. /\ next[1] = "temp" /\ next[2] \in Nat /\ next[3] \in Nat
      /\ root' = [root EXCEPT ![Temp(a0)] = @ + 1] /\ next' = <<"publish", next[2], next[3]>>
  BY DEF Stage, Write, Go, Temp, RootInv
<1>3. /\ root \in [Artifacts -> Nat] /\ root' \in [Artifacts -> Nat]
      /\ \A n \in Artifacts : root'[n] = IF n = Temp(a0) THEN root[n] + 1 ELSE root[n]
  <2>1. root \in [Artifacts -> Nat]
    BY DEF RootInv
  <2> HIDE DEF a0
  <2>2. root' = [n \in Artifacts |-> IF n = Temp(a0) THEN root[n] + 1 ELSE root[n]]
    BY <1>2, <2>1
  <2> QED
    BY <2>1, <2>2
<1>4. ASSUME NEW a \in Attempts
      PROVE  /\ root'[Final(a)] = root[Final(a)] /\ root[Final(a)] \in Nat /\ root[Temp(a)] \in Nat
             /\ root'[Temp(a)] \in {root[Temp(a)], root[Temp(a)] + 1}
             /\ root'[Temp(a)] + root'[Final(a)] <= 1
             /\ Unstaged(a[1], a[2])' => root'[Temp(a)] = 0 /\ root'[Final(a)] = 0
  <2>1. /\ Temp(a) \in Artifacts /\ Final(a) \in Artifacts /\ Final(a) # Temp(a0)
        /\ a = <<a[1], a[2]>> /\ a[1] \in Nat /\ a[2] \in Nat
    BY ArtifactKinds DEF Temp, Final
  <2>2. root[Temp(a)] + root[Final(a)] <= 1 /\ (Unstaged(a[1], a[2]) => root[Temp(a)] = 0 /\ root[Final(a)] = 0)
    BY DEF RootInv
  <2>3. CASE a = a0
    <3>1. Unstaged(a[1], a[2]) /\ ~Unstaged(a[1], a[2])'
      BY <2>3, <1>2 DEF Unstaged
    <3> QED
      BY <2>1, <2>2, <2>3, <3>1, <1>3
  <2>4. CASE a # a0
    <3>1. Temp(a) # Temp(a0)
      BY <2>1, <2>4 DEF Temp
    <3>2. Unstaged(a[1], a[2])' => Unstaged(a[1], a[2])
      BY <1>2, <2>1 DEF Unstaged
    <3> QED
      BY <2>1, <2>2, <3>1, <3>2, <1>3
  <2> QED
    BY <2>3, <2>4
<1>5. RootInv'
  <2>1. /\ next' = <<next'[1], next'[2], next'[3]>> /\ next'[2] \in Nat /\ next'[3] \in Nat
        /\ next'[2] \in DOMAIN cells
    BY <1>2 DEF RootInv, Working
  <2>2. \A n \in Artifacts : n[1] = "budget-stop" => root'[n] <= 1
    BY <1>3 DEF RootInv, Temp, Final
  <2> QED
    BY <1>1, <1>3, <1>4, <2>1, <2>2 DEF RootInv, Temp, Final
<1>6. ASSUME NEW n \in Artifacts PROVE Age(n)' >= Age(n) /\ (n[1] = "final" => root'[n] >= root[n])
  <2>1. root'[n] \in Nat /\ root[n] \in Nat /\ root'[n] >= root[n]
    BY <1>3
  <2>2. CASE n[1] = "temp"
    BY <2>1, <2>2, <1>4, ArtifactKinds DEF Age
  <2>3. CASE n[1] # "temp"
    BY <2>1, <2>3 DEF Age
  <2> QED
    BY <2>1, <2>2, <2>3
<1> QED
  BY <1>5, <1>6

\* A final record is linked where there was none, and its temporary is gone for good.
LEMMA PublishGrows ==
    ASSUME PlanInv, cells # None, RootInv, cells' = cells, Publish
    PROVE  RootInv' /\ \A n \in Artifacts : Age(n)' >= Age(n) /\ (n[1] = "final" => root'[n] >= root[n])
<1> DEFINE a0 == <<next[2], next[3]>>
<1>1. Artifacts' = Artifacts /\ Attempts' = Attempts
  BY DEF Artifacts, Attempts
<1>2. /\ next[1] = "publish" /\ next[2] \in Nat /\ next[3] \in Nat
      /\ root' = [root EXCEPT ![Temp(a0)] = 0, ![Final(a0)] = 1]
      /\ next' = <<"reserve", next[2], next[3] + 1>> \/ next' = <<"seal", next[2], 0>>
  BY DEF Publish, Go, Temp, Final, RootInv
<1>3. /\ root \in [Artifacts -> Nat] /\ root' \in [Artifacts -> Nat]
      /\ \A n \in Artifacts : root'[n] = IF n = Final(a0) THEN 1 ELSE IF n = Temp(a0) THEN 0 ELSE root[n]
  <2>1. Temp(a0) # Final(a0)
    BY DEF Temp, Final
  <2> QED
    BY <1>2, <2>1 DEF RootInv
<1>4. ASSUME NEW a \in Attempts
      PROVE  /\ root[Final(a)] \in Nat /\ root[Temp(a)] \in Nat /\ root'[Final(a)] \in Nat /\ root'[Temp(a)] \in Nat
             /\ root[Temp(a)] + root[Final(a)] <= 1 /\ root'[Temp(a)] + root'[Final(a)] <= 1
             /\ root'[Final(a)] >= root[Final(a)]
             /\ root'[Temp(a)] + 2 * root'[Final(a)] >= root[Temp(a)] + 2 * root[Final(a)]
             /\ Unstaged(a[1], a[2])' => root'[Temp(a)] = 0 /\ root'[Final(a)] = 0
  <2>1. /\ Temp(a) \in Artifacts /\ Final(a) \in Artifacts /\ Final(a) # Temp(a0) /\ Temp(a) # Final(a0)
        /\ a = <<a[1], a[2]>> /\ a[1] \in Nat /\ a[2] \in Nat
    BY ArtifactKinds DEF Temp, Final
  <2>2. root[Temp(a)] + root[Final(a)] <= 1 /\ (Unstaged(a[1], a[2]) => root[Temp(a)] = 0 /\ root[Final(a)] = 0)
    BY DEF RootInv
  <2>3. root[Temp(a)] \in Nat /\ root[Final(a)] \in Nat
    BY <2>1, <1>3
  <2>4. CASE a = a0
    <3>1. ~Unstaged(a[1], a[2])'
      BY <2>4, <1>2 DEF Unstaged
    <3>2. root'[Temp(a)] = 0 /\ root'[Final(a)] = 1
      BY <2>1, <2>4, <1>3
    <3> QED
      BY <2>2, <2>3, <3>1, <3>2
  <2>5. CASE a # a0
    <3>1. Temp(a) # Temp(a0) /\ Final(a) # Final(a0)
      BY <2>1, <2>5 DEF Temp, Final
    <3>2. Unstaged(a[1], a[2])' => Unstaged(a[1], a[2])
      BY <1>2, <2>1 DEF Unstaged
    <3>3. root'[Temp(a)] = root[Temp(a)] /\ root'[Final(a)] = root[Final(a)]
      BY <2>1, <3>1, <1>3
    <3> QED
      BY <2>2, <2>3, <3>2, <3>3
  <2> QED
    BY <2>4, <2>5
<1>5. RootInv'
  <2>1. /\ next' = <<next'[1], next'[2], next'[3]>> /\ next'[2] \in Nat /\ next'[3] \in Nat
        /\ next'[2] \in DOMAIN cells
    BY <1>2 DEF RootInv, Working
  <2>2. \A n \in Artifacts : n[1] = "budget-stop" => root'[n] <= 1
    BY <1>3 DEF RootInv, Temp, Final
  <2> QED
    BY <1>1, <1>3, <1>4, <2>1, <2>2 DEF RootInv, Temp, Final
<1>6. ASSUME NEW n \in Artifacts PROVE Age(n)' >= Age(n) /\ (n[1] = "final" => root'[n] >= root[n])
  <2>1. root'[n] \in Nat /\ root[n] \in Nat
    BY <1>3
  <2>2. CASE n[1] = "temp"
    <3>1. n[1] # "final"
      BY <2>2
    <3> QED
      BY <2>2, <3>1, <1>4, ArtifactKinds DEF Age
  <2>3. CASE n[1] = "final"
    BY <2>1, <2>3, <1>4, ArtifactKinds DEF Age
  <2>4. CASE n[1] \notin {"temp", "final"}
    <3>1. n # Temp(a0) /\ n # Final(a0)
      BY <2>4 DEF Temp, Final
    <3> QED
      BY <2>1, <2>4, <3>1, <1>3 DEF Age
  <2> QED
    BY <2>2, <2>3, <2>4
<1> QED
  BY <1>5, <1>6

\* Two states of the ledger, each earlier than the other, are one.
LEMMA LedgersAgree ==
    ASSUME NEW rows \in Ledgers, NEW later \in Ledgers, Earlier(rows, later), Earlier(later, rows)
    PROVE  rows = later
<1>1. rows \in [Funding -> [own : Nat, taken : Nat, settled : Nat]]
  BY DEF Ledgers
<1>2. later \in [Funding -> [own : Nat, taken : Nat, settled : Nat]]
  BY DEF Ledgers
<1>3. ASSUME NEW kind \in Funding PROVE rows[kind] = later[kind]
  <2> DEFINE x == rows[kind]
             y == later[kind]
  <2>1. x \in [own : Nat, taken : Nat, settled : Nat] /\ y \in [own : Nat, taken : Nat, settled : Nat]
    BY <1>1, <1>2
  <2>2. /\ x.own <= y.own /\ x.taken <= y.taken /\ x.settled <= y.settled
        /\ y.own <= x.own /\ y.taken <= x.taken /\ y.settled <= x.settled
    BY DEF Earlier
  <2> HIDE DEF x, y
  <2>3. x.own = y.own /\ x.taken = y.taken /\ x.settled = y.settled
    BY <2>1, <2>2
  <2>4. x = y
    BY <2>1, <2>3
  <2> QED
    BY <2>4 DEF x, y
<1> QED
  BY <1>1, <1>2, <1>3

\* What came after a later state came after an earlier one, and is not that one
\* again unless nothing happened in between.
LEMMA LedgerMovesOn ==
    ASSUME NEW rows \in Ledgers, NEW later \in Ledgers, NEW last \in Ledgers,
           Earlier(rows, later), Earlier(later, last)
    PROVE  Earlier(rows, last) /\ (rows = last => rows = later)
<1>1. Earlier(rows, last)
  <2> SUFFICES ASSUME NEW kind \in Funding
               PROVE  /\ rows[kind].own <= last[kind].own /\ rows[kind].taken <= last[kind].taken
                      /\ rows[kind].settled <= last[kind].settled
    BY DEF Earlier
  <2>1. \A x \in Ledgers : x[kind].own \in Nat /\ x[kind].taken \in Nat /\ x[kind].settled \in Nat
    BY DEF Ledgers
  <2>2. /\ rows[kind].own <= later[kind].own /\ rows[kind].taken <= later[kind].taken
        /\ rows[kind].settled <= later[kind].settled
        /\ later[kind].own <= last[kind].own /\ later[kind].taken <= last[kind].taken
        /\ later[kind].settled <= last[kind].settled
    BY DEF Earlier
  <2> QED
    BY <2>1, <2>2
<1>2. rows = last => rows = later
  BY LedgersAgree
<1> QED
  BY <1>1, <1>2

\* What rows retain is a whole number.
LEMMA RetainedIsNatural ==
    ASSUME NEW rows \in Ledgers, NEW kind \in Funding
    PROVE  Retained(rows, kind) \in Nat
<1>1. /\ rows[kind].own \in Nat /\ rows[kind].taken \in Nat /\ rows[kind].settled \in Nat
      /\ rows[kind].settled <= rows[kind].taken
  BY DEF Ledgers
<1>2. Foreign * (rows[kind].taken - rows[kind].settled) \in Nat
  <2>1. rows[kind].taken - rows[kind].settled \in Nat /\ Foreign \in Nat
    BY <1>1, PlanAssumption
  <2>2. \A x, y \in Nat : x * y \in Nat
    OBVIOUS
  <2> QED
    BY <2>1, <2>2
<1> QED
  BY <1>1, <1>2 DEF Retained

\* An execution adds to what is committed, and others take rows and settle them.
LEMMA LedgerGrows ==
    ASSUME PlanInv, cells # None, RootInv, ledger \in Ledgers, Execute
    PROVE  ledger' \in Ledgers /\ Earlier(ledger, ledger')
<1> DEFINE Row == [own : Nat, taken : Nat, settled : Nat]
<1>1. /\ ledger \in [Funding -> Row]
      /\ \A kind \in Funding : /\ ledger[kind] \in Row /\ ledger[kind].settled <= ledger[kind].taken
                               /\ ledger[kind].own \in Nat /\ ledger[kind].taken \in Nat /\ ledger[kind].settled \in Nat
  BY DEF Ledgers
<1>2. ASSUME NEW kind \in Funding, NEW row \in Row, ledger' = [ledger EXCEPT ![kind] = row],
             ledger[kind].own <= row.own, ledger[kind].taken <= row.taken, ledger[kind].settled <= row.settled,
             row.settled <= row.taken
      PROVE  ledger' \in Ledgers /\ Earlier(ledger, ledger')
  <2> HIDE DEF Row
  <2>1. ledger' \in [Funding -> Row] /\ \A k \in Funding : ledger'[k] = IF k = kind THEN row ELSE ledger[k]
    BY <1>1, <1>2
  <2>2. Earlier(ledger, ledger')
    BY <1>1, <1>2, <2>1 DEF Earlier
  <2>3. \A k \in Funding : ledger'[k].settled <= ledger'[k].taken
    BY <1>1, <1>2, <2>1
  <2> QED
    BY <2>1, <2>2, <2>3 DEF Ledgers, Row
<1>3. CASE StartSegment
  <2> DEFINE c == next[2]
             kind == cells[c].route.kind
             x == Maximum(cells[c].route)
             row == [ledger[kind] EXCEPT !.own = @ + x]
  <2>1. CASE Commits(c)
    <3>1. ledger' = [ledger EXCEPT ![kind].own = @ + x] /\ kind \in Funding /\ c \in DOMAIN cells
      BY <1>3, <2>1 DEF StartSegment, Commits, Funding, RootInv, Working
    <3>2. x \in Nat
      BY <3>1, PlannedCells
    <3>3. row \in Row /\ row.own = ledger[kind].own + x /\ row.taken = ledger[kind].taken /\ row.settled = ledger[kind].settled
      <4> HIDE DEF x, kind
      <4> QED
        BY <1>1, <3>1, <3>2
    <3>4. ledger' = [ledger EXCEPT ![kind] = row]
      BY <3>1
    <3> HIDE DEF x, kind, row, Row
    <3>5. /\ ledger[kind].own <= row.own /\ ledger[kind].taken <= row.taken /\ ledger[kind].settled <= row.settled
          /\ row.settled <= row.taken
      BY <1>1, <3>1, <3>2, <3>3
    <3> QED
      BY <1>2, <3>1, <3>3, <3>4, <3>5
  <2>2. CASE ~Commits(c)
    <3>1. ledger' = ledger
      BY <1>3, <2>2 DEF StartSegment
    <3> QED
      BY <1>1, <3>1 DEF Earlier
  <2> QED
    BY <2>1, <2>2
<1>4. ASSUME NEW kind \in Funding, Others(kind) PROVE ledger' \in Ledgers /\ Earlier(ledger, ledger')
  <2>1. CASE ledger' = [ledger EXCEPT ![kind].taken = @ + 1]
    <3> DEFINE row == [ledger[kind] EXCEPT !.taken = @ + 1]
    <3>1. row \in Row /\ row.own = ledger[kind].own /\ row.taken = ledger[kind].taken + 1 /\ row.settled = ledger[kind].settled
      BY <1>1
    <3>2. ledger' = [ledger EXCEPT ![kind] = row]
      BY <2>1
    <3> HIDE DEF row, Row
    <3>3. /\ ledger[kind].own <= row.own /\ ledger[kind].taken <= row.taken /\ ledger[kind].settled <= row.settled
          /\ row.settled <= row.taken
      BY <1>1, <3>1
    <3> QED
      BY <1>2, <3>1, <3>2, <3>3
  <2>2. CASE ledger[kind].settled < ledger[kind].taken /\ ledger' = [ledger EXCEPT ![kind].settled = @ + 1]
    <3> DEFINE row == [ledger[kind] EXCEPT !.settled = @ + 1]
    <3>1. row \in Row /\ row.own = ledger[kind].own /\ row.taken = ledger[kind].taken /\ row.settled = ledger[kind].settled + 1
      BY <1>1
    <3>2. ledger' = [ledger EXCEPT ![kind] = row]
      BY <2>2
    <3> HIDE DEF row, Row
    <3>3. /\ ledger[kind].own <= row.own /\ ledger[kind].taken <= row.taken /\ ledger[kind].settled <= row.settled
          /\ row.settled <= row.taken
      BY <1>1, <2>2, <3>1
    <3> QED
      BY <1>2, <3>1, <3>2, <3>3
  <2> QED
    BY <1>4, <2>1, <2>2 DEF Others
<1>5. CASE UNCHANGED ledger
  BY <1>1, <1>5 DEF Earlier
<1>6. \/ StartSegment \/ UNCHANGED ledger
      \/ \E kind \in Funding : Others(kind)
  BY DEF Execute, Begin, StopForBudget, StopForAdmission, WriteStop, Resume, Answer, Stage, Publish, Seal, Manifest
<1> QED
  BY <1>3, <1>4, <1>5, <1>6

\* A step that leaves the temporaries and the final records alone.
LEMMA OthersWrite ==
    ASSUME RootInv, Execute, ~Stage, ~Publish
    PROVE  /\ root' \in [Artifacts -> Nat]
           /\ \A n \in Artifacts : /\ root'[n] >= root[n] /\ (n[1] \in {"temp", "final"} => root'[n] = root[n])
                                   /\ n[1] = "budget-stop" => root'[n] <= 1
<1>1. \/ UNCHANGED root
      \/ \E m : root' = [root EXCEPT ![m] = @ + 1] /\ m[1] \notin {"temp", "final", "budget-stop"}
      \/ \E m : root' = [root EXCEPT ![m] = 1] /\ m[1] = "budget-stop"
  <2>1. CASE Begin
    <3>1. root' = [root EXCEPT ![<<"frozen", 0, 0>>] = @ + 1]
      BY <2>1 DEF Begin, Write, Frozen
    <3>2. <<"frozen", 0, 0>>[1] \notin {"temp", "final", "budget-stop"}
      OBVIOUS
    <3> QED
      BY <3>1, <3>2
  <2>2. CASE StartSegment \/ Answer
    <3>1. root' = [root EXCEPT ![<<"events", next[2], next[3]>>] = @ + 1]
      BY <2>2 DEF StartSegment, Answer, Write
    <3>2. <<"events", next[2], next[3]>>[1] \notin {"temp", "final", "budget-stop"}
      OBVIOUS
    <3> QED
      BY <3>1, <3>2
  <2>3. CASE Seal
    <3>1. root' = [root EXCEPT ![<<"cell", next[2], 0>>] = @ + 1]
      BY <2>3 DEF Seal, Write
    <3>2. <<"cell", next[2], 0>>[1] \notin {"temp", "final", "budget-stop"}
      OBVIOUS
    <3> QED
      BY <3>1, <3>2
  <2>4. CASE Manifest
    <3>1. root' = [root EXCEPT ![<<"result", 0, 0>>] = @ + 1]
      BY <2>4 DEF Manifest, Write, Result
    <3>2. <<"result", 0, 0>>[1] \notin {"temp", "final", "budget-stop"}
      OBVIOUS
    <3> QED
      BY <3>1, <3>2
  <2>5. CASE WriteStop
    <3>1. root' = [root EXCEPT ![<<"stop", 0, 0>>] = @ + 1]
      BY <2>5 DEF WriteStop, Write, StopFile
    <3>2. <<"stop", 0, 0>>[1] \notin {"temp", "final", "budget-stop"}
      OBVIOUS
    <3> QED
      BY <3>1, <3>2
  <2>6. CASE StopForBudget
    <3>1. UNCHANGED root \/ root' = [root EXCEPT ![<<"budget-stop", next[2], next[3]>>] = 1]
      BY <2>6 DEF StopForBudget
    <3>2. <<"budget-stop", next[2], next[3]>>[1] = "budget-stop"
      OBVIOUS
    <3> QED
      BY <3>1, <3>2
  <2>7. CASE StopForAdmission \/ Resume \/ \E kind \in Funding : Others(kind)
    BY <2>7 DEF StopForAdmission, Resume, Others
  <2> QED
    BY <2>1, <2>2, <2>3, <2>4, <2>5, <2>6, <2>7 DEF Execute
<1>2. root \in [Artifacts -> Nat] /\ \A n \in Artifacts : n[1] = "budget-stop" => root[n] <= 1
  BY DEF RootInv
<1>3. ASSUME NEW m, root' = [root EXCEPT ![m] = @ + 1], m[1] \notin {"temp", "final", "budget-stop"}
      PROVE  /\ root' \in [Artifacts -> Nat]
             /\ \A n \in Artifacts : /\ root'[n] >= root[n] /\ (n[1] \in {"temp", "final"} => root'[n] = root[n])
                                     /\ n[1] = "budget-stop" => root'[n] <= 1
  <2>1. root' = [n \in Artifacts |-> IF n = m THEN root[n] + 1 ELSE root[n]]
    BY <1>2, <1>3
  <2>2. \A n \in Artifacts : root'[n] = IF n = m THEN root[n] + 1 ELSE root[n]
    BY <2>1
  <2>3. \A n \in Artifacts : n[1] \in {"temp", "final", "budget-stop"} => n # m
    BY <1>3
  <2> QED
    BY <1>2, <2>1, <2>2, <2>3
<1>4. ASSUME NEW m, root' = [root EXCEPT ![m] = 1], m[1] = "budget-stop"
      PROVE  /\ root' \in [Artifacts -> Nat]
             /\ \A n \in Artifacts : /\ root'[n] >= root[n] /\ (n[1] \in {"temp", "final"} => root'[n] = root[n])
                                     /\ n[1] = "budget-stop" => root'[n] <= 1
  <2>1. root' = [n \in Artifacts |-> IF n = m THEN 1 ELSE root[n]]
    BY <1>2, <1>4
  <2>2. \A n \in Artifacts : root'[n] = IF n = m THEN 1 ELSE root[n]
    BY <2>1
  <2>3. ASSUME NEW n \in Artifacts
        PROVE  /\ root'[n] >= root[n] /\ (n[1] \in {"temp", "final"} => root'[n] = root[n])
               /\ n[1] = "budget-stop" => root'[n] <= 1
    <3>1. root[n] \in Nat
      BY <1>2
    <3>2. CASE n = m
      BY <1>2, <1>4, <2>2, <3>1, <3>2
    <3>3. CASE n # m
      BY <1>2, <2>2, <3>1, <3>3
    <3> QED
      BY <3>2, <3>3
  <2>4. root' \in [Artifacts -> Nat]
    BY <1>2, <2>1
  <2> QED
    BY <2>3, <2>4
<1>5. CASE UNCHANGED root
  <2>1. root' = root
    BY <1>5
  <2>2. \A n \in Artifacts : root[n] \in Nat /\ root[n] >= root[n]
    BY <1>2
  <2> QED
    BY <1>2, <2>1, <2>2
<1> QED
  BY <1>1, <1>3, <1>4, <1>5

\* Whatever an execution does, files only ever grow, and the ledger with them.
LEMMA FilesGrow ==
    ASSUME PlanInv, cells # None, RootInv, ledger \in Ledgers, Execute
    PROVE  /\ RootInv' /\ \A n \in Artifacts : Age(n)' >= Age(n) /\ (n[1] = "final" => root'[n] >= root[n])
           /\ ledger' \in Ledgers /\ Earlier(ledger, ledger')
<1>1. cells' = cells
  BY DEF Execute
<1>2. ledger' \in Ledgers /\ Earlier(ledger, ledger')
  BY LedgerGrows
<1>3. DOMAIN cells = 1..Len(cells) /\ Len(cells) \in Nat \ {0}
  BY PlannedCells
<1>4. CASE Stage
  BY <1>1, <1>2, <1>4, StageGrows
<1>5. CASE Publish
  BY <1>1, <1>2, <1>5, PublishGrows
<1>6. CASE ~Stage /\ ~Publish
  <2>1. /\ root' \in [Artifacts -> Nat]
        /\ \A n \in Artifacts : /\ root'[n] >= root[n] /\ (n[1] \in {"temp", "final"} => root'[n] = root[n])
                                /\ n[1] = "budget-stop" => root'[n] <= 1
    BY <1>6, OthersWrite
  <2>2. /\ next' = <<next'[1], next'[2], next'[3]>> /\ next'[2] \in Nat /\ next'[3] \in Nat
        /\ next'[1] \in Working => next'[2] \in DOMAIN cells
        /\ \A a \in Attempts : Unstaged(a[1], a[2])' => Unstaged(a[1], a[2])
    <3>1. next = <<next[1], next[2], next[3]>> /\ next[2] \in Nat /\ next[3] \in Nat
      BY DEF RootInv
    <3>2. \A a \in Attempts : a[1] \in Nat /\ a[2] \in Nat
      BY ArtifactKinds
    <3>3. CASE next[1] = "start" /\ next' = <<"reserve", 1, 1>>
      BY <1>3, <3>2, <3>3 DEF Unstaged
    <3>4. CASE next[1] = "reserve" /\ \E step \in {"answer", "stop", "raised"} : next' = <<step, next[2], next[3]>>
      BY <3>1, <3>2, <3>4 DEF Unstaged, RootInv, Working
    <3>5. CASE next[1] \in {"stop", "raised"} /\ next' = <<"reserve", next[2], next[3]>>
      BY <3>1, <3>2, <3>5 DEF Unstaged, RootInv, Working
    <3>6. CASE next[1] = "answer" /\ next' = <<"temp", next[2], next[3]>>
      BY <3>1, <3>2, <3>6 DEF Unstaged, RootInv, Working
    <3>7. CASE next[1] = "seal" /\ next[2] < Len(cells) /\ next' = <<"reserve", next[2] + 1, 1>>
      BY <1>3, <3>1, <3>2, <3>7 DEF Unstaged
    <3>8. CASE \E step \in {"manifest", "done", "stopped"} : next' = <<step, 0, 0>>
      BY <3>8 DEF Unstaged, Working
    <3>9. CASE next' = next
      BY <3>1, <3>9 DEF Unstaged, RootInv
    <3>10. \/ next[1] = "start" /\ next' = <<"reserve", 1, 1>>
           \/ next[1] = "reserve" /\ \E step \in {"answer", "stop", "raised"} : next' = <<step, next[2], next[3]>>
           \/ next[1] \in {"stop", "raised"} /\ next' = <<"reserve", next[2], next[3]>>
           \/ next[1] = "answer" /\ next' = <<"temp", next[2], next[3]>>
           \/ next[1] = "seal" /\ next[2] < Len(cells) /\ next' = <<"reserve", next[2] + 1, 1>>
           \/ \E step \in {"manifest", "done", "stopped"} : next' = <<step, 0, 0>>
           \/ next' = next
      <4>1. CASE Begin \/ StartSegment \/ Answer
        BY <4>1 DEF Begin, StartSegment, Answer, Go
      <4>2. CASE StopForBudget \/ StopForAdmission \/ Resume \/ WriteStop
        BY <4>2 DEF StopForBudget, StopForAdmission, Resume, WriteStop, Go
      <4>3. CASE Seal \/ Manifest
        BY <4>3 DEF Seal, Manifest, Go
      <4>4. CASE \E kind \in Funding : Others(kind)
        BY <4>4 DEF Others
      <4> QED
        BY <1>6, <4>1, <4>2, <4>3, <4>4 DEF Execute
    <3> QED
      BY <3>3, <3>4, <3>5, <3>6, <3>7, <3>8, <3>9, <3>10
  <2> QED
    BY <1>1, <1>2, <2>1, <2>2, OthersGrow
<1> QED
  BY <1>4, <1>5, <1>6

-----------------------------------------------------------------------------
\* What was read stays behind the files as they grow.
LEMMA ReadingKept ==
    ASSUME PlanInv, cells # None, RootInv, RootInv', cells' = cells,
           \A n \in Artifacts : Age(n)' >= Age(n) /\ (n[1] = "final" => root'[n] >= root[n]),
           NEW S, NEW L, Reading(S, L)
    PROVE  /\ S \subseteq Artifacts \X Nat /\ L \subseteq Artifacts' /\ Named(S) \subseteq L
           /\ \A p \in S : 0 < p[2] /\ p[2] <= Age(p[1])' /\ (p[1][1] = "temp" => p[2] = 1)
           /\ \A p, q \in S : p[1] = q[1] => p = q
           /\ \A n \in L : n[1] = "final" => root'[n] > 0
           /\ \A p \in S : Age(p[1]) > p[2] => Age(p[1])' > p[2]
<1>1. Artifacts' = Artifacts
  BY DEF Artifacts, Attempts
<1>2. \A n \in Artifacts : Age(n) \in Nat /\ Age(n)' \in Nat /\ root[n] \in Nat /\ root'[n] \in Nat
  <2>1. \A n \in Artifacts : root[n] \in Nat /\ root'[n] \in Nat
    BY <1>1 DEF RootInv
  <2>2. \A n \in Artifacts : n[1] = "temp" => Final(<<n[2], n[3]>>) \in Artifacts
    BY ArtifactKinds
  <2>3. ASSUME NEW n \in Artifacts PROVE Age(n) \in Nat /\ Age(n)' \in Nat
    <3>1. CASE n[1] = "temp"
      <4>1. /\ root[Final(<<n[2], n[3]>>)] \in Nat /\ root'[Final(<<n[2], n[3]>>)] \in Nat
            /\ root[n] \in Nat /\ root'[n] \in Nat
        BY <2>1, <2>2, <3>1
      <4> QED
        BY <3>1, <4>1 DEF Age, Final
    <3>2. CASE n[1] # "temp"
      BY <2>1, <3>2 DEF Age
    <3> QED
      BY <3>1, <3>2
  <2> QED
    BY <2>1, <2>3
<1>3. ASSUME NEW p \in S
      PROVE  0 < p[2] /\ p[2] <= Age(p[1])' /\ (Age(p[1]) > p[2] => Age(p[1])' > p[2])
  <2>1. p[1] \in Artifacts /\ p[2] \in Nat /\ 0 < p[2] /\ p[2] <= Age(p[1])
    BY DEF Reading
  <2> QED
    BY <2>1, <1>2
<1>4. ASSUME NEW n \in L, n[1] = "final" PROVE root'[n] > 0
  BY <1>2, <1>4 DEF Reading
<1> QED
  BY <1>1, <1>3, <1>4 DEF Reading

\* A directory that is not the one that was read has moved on from it.
LEMMA TornIsDisturbed ==
    ASSUME PlanInv, cells # None, RootInv, Reading(before, Named(before)), Tree # before
    PROVE  Disturbed
<1> SUFFICES ASSUME \A p \in before : ~Moved(p) PROVE \E n \in Artifacts : Extra(n)
  BY DEF Disturbed
<1>1. root \in [Artifacts -> Nat]
  BY DEF RootInv
<1>2. ASSUME NEW n \in Artifacts, n[1] = "temp"
      PROVE  /\ Final(<<n[2], n[3]>>) \in Artifacts /\ root[n] \in Nat /\ root[Final(<<n[2], n[3]>>)] \in Nat
             /\ root[n] + root[Final(<<n[2], n[3]>>)] <= 1
  BY <1>1, <1>2, ArtifactKinds DEF RootInv
<1>3. ASSUME NEW p \in before PROVE p \in Tree /\ root[p[1]] = p[2]
  <2>1. p[1] \in Artifacts /\ p[2] \in Nat /\ 0 < p[2] /\ p[2] <= Age(p[1]) /\ p = <<p[1], p[2]>>
    BY DEF Reading
  <2>2. ~(Age(p[1]) > p[2])
    BY DEF Moved
  <2>3. root[p[1]] = p[2]
    <3>1. root[p[1]] \in Nat
      BY <2>1, <1>1
    <3>2. CASE p[1][1] = "temp"
      <4>1. Age(p[1]) = root[p[1]] + 2 * root[Final(<<p[1][2], p[1][3]>>)]
        BY <3>2 DEF Age
      <4>2. p[2] = 1
        BY <3>2 DEF Reading
      <4> QED
        BY <2>1, <2>2, <3>2, <4>1, <4>2, <1>2
    <3>3. CASE p[1][1] # "temp"
      BY <2>1, <2>2, <3>1, <3>3 DEF Age
    <3> QED
      BY <3>2, <3>3
  <2> QED
    BY <2>1, <2>3, <1>1 DEF Tree, Present
<1>4. PICK t \in Tree : t \notin before
  BY <1>3
<1>5. PICK n \in Artifacts : root[n] > 0 /\ t = <<n, root[n]>>
  BY <1>1, <1>4 DEF Tree, Present
<1>6. n \notin Named(before)
  <2> SUFFICES ASSUME NEW p \in before, p[1] = n PROVE FALSE
    BY DEF Named
  <2>1. p = <<p[1], p[2]>>
    BY DEF Reading
  <2> QED
    BY <2>1, <1>3, <1>4, <1>5
<1>7. Age(n) > 0
  <2>1. root[n] \in Nat
    BY <1>1
  <2>2. CASE n[1] = "temp"
    BY <2>2, <1>2, <1>5 DEF Age
  <2>3. CASE n[1] # "temp"
    BY <2>1, <2>3, <1>5 DEF Age
  <2> QED
    BY <2>2, <2>3
<1>8. n[1] = "temp" => Final(<<n[2], n[3]>>) \notin Named(before)
  <2> SUFFICES ASSUME n[1] = "temp", Final(<<n[2], n[3]>>) \in Named(before) PROVE FALSE
    OBVIOUS
  <2>1. root[Final(<<n[2], n[3]>>)] > 0
    BY DEF Reading, Final
  <2>2. root[n] \in Nat
    BY <1>1
  <2> QED
    BY <2>1, <2>2, <1>2, <1>5
<1> QED
  BY <1>6, <1>7, <1>8 DEF Extra

\* A second listing of a disturbed directory cannot come to what was read first.
LEMMA ListingNotices ==
    ASSUME PlanInv, cells # None, RootInv, Disturbed, left' = Present, seen' = {}, before' = before,
           root' = root, cells' = cells, budget' = budget, Budget' = Budget
    PROVE  Noticed'
<1>1. root \in [Artifacts -> Nat]
  BY DEF RootInv
<1>2. ASSUME NEW p \in before, Moved(p) PROVE Noticed'
  <2>1. Moved(p)'
    BY <1>2 DEF Moved, Age
  <2> QED
    BY <2>1 DEF Noticed
<1>3. ASSUME NEW n \in Artifacts, Extra(n) PROVE Noticed'
  <2>1. CASE root[n] > 0
    <3>1. n \in Present
      BY <2>1, <1>1 DEF Present
    <3> QED
      BY <3>1, <1>3 DEF Noticed, Extra
  <2>2. CASE ~(root[n] > 0)
    <3>1. root[n] \in Nat
      BY <1>1
    <3>2. n[1] = "temp" /\ Age(n) > 0
      BY <2>2, <1>3 DEF Extra, Age
    <3>3. Age(n) = root[n] + 2 * root[Final(<<n[2], n[3]>>)]
      BY <3>2 DEF Age
    <3>4. Final(<<n[2], n[3]>>) \in Artifacts
      BY <3>2, ArtifactKinds
    <3>5. root[Final(<<n[2], n[3]>>)] \in Nat
      BY <3>4, <1>1
    <3>6. root[Final(<<n[2], n[3]>>)] > 0
      BY <2>2, <3>1, <3>2, <3>3, <3>5
    <3>7. Final(<<n[2], n[3]>>) \in Present
      BY <3>4, <3>6, <1>1 DEF Present
    <3> QED
      BY <3>2, <3>7, <1>3 DEF Noticed, Extra
  <2> QED
    BY <2>1, <2>2
<1>4. CASE Budget # budget
  BY <1>4 DEF Noticed
<1> QED
  BY <1>2, <1>3, <1>4 DEF Disturbed

-----------------------------------------------------------------------------
\* An honest probe that is approved is of a route that has what its cell
\* reserves, and the credit that nobody has committed.
LEMMA ApprovedIsCovered ==
    ASSUME PlanInv, cells # None, Ready, NEW c \in DOMAIN cells, NEW demand,
           Approved(c, Truthful(cells[c].route, demand, experiment.credit, 0), demand)
    PROVE  Covered(c)
<1> DEFINE route == cells[c].route
           claims == Truthful(route, demand, experiment.credit, 0)
<1>1. /\ cells[c].reserved \in Nat /\ cells[c].reserved = Reservation(route)
      /\ ReservationTotal(cells) \in Nat /\ experiment.cap \in Nat
  BY PlannedCells
<1>2. cells[c].reserved <= Available(c, budget)
  <2>1. CASE ~Sequential(experiment)
    <3>1. ReservationTotal(cells) <= experiment.cap
      BY <2>1 DEF PlanInv, Plannable
    <3> QED
      BY <1>1, <2>1, <3>1 DEF Available
  <2>2. CASE Sequential(experiment)
    <3>1. experiment.controller /\ Available(c, budget) = Left(budget, "metered")
      BY <2>2 DEF Ready, RuntimeAccepts, Available
    <3>2. CASE route.kind = "metered"
      <4>1. FitsBudget(route, claims)
        BY <3>1 DEF Approved
      <4>2. Maximum(route) <= Left(budget, "metered")
        BY <2>2, <3>2, <4>1 DEF FitsBudget
      <4>3. cells[c].reserved = Maximum(route)
        BY <1>1, <3>2 DEF Reservation, Maximum
      <4> QED
        BY <3>1, <4>2, <4>3
    <3>3. CASE route.kind # "metered"
      <4>1. cells[c].reserved = 0
        BY <1>1, <3>3 DEF Reservation
      <4>2. claims.incremental <= Available(c, budget) /\ ChargeMatches(claims, demand, route)
        BY DEF Approved, ValidClaims
      <4>3. claims.incremental = 0
        BY <3>3, <4>2 DEF ChargeMatches
      <4> QED
        BY <4>1, <4>2, <4>3
    <3> QED
      BY <3>2, <3>3
  <2> QED
    BY <2>1, <2>2
<1>3. ASSUME route.kind = "existing_credit" PROVE Maximum(route) <= experiment.credit - Committed
  <2>1. PICK r \in DOMAIN experiment.routes : route = experiment.routes[r]
    BY CellOfPlan
  <2>2. NormalRoute(experiment.routes[r])
    BY DEF PlanInv, Plannable, NormalInputs
  <2>3. experiment.routes[r].mechanism
    BY <1>3, <2>1, <2>2 DEF NormalRoute
  <2>4. experiment.controller
    BY <2>3 DEF Ready, RuntimeAccepts
  <2>5. FitsBudget(route, claims)
    BY <2>4 DEF Approved
  <2>6. claims.credit = experiment.credit
    BY <1>3 DEF Truthful
  <2> HIDE DEF route, claims
  <2> QED
    BY <1>3, <2>5, <2>6 DEF FitsBudget
<1> QED
  BY <1>2, <1>3 DEF Covered

\* A claim of a route that is not healthy is never approved.
LEMMA LiesAreRefused ==
    ASSUME NEW c, NEW demand, NEW credit, NEW route
    PROVE  ~Approved(c, [Truthful(route, demand, credit, 0) EXCEPT !.healthy = FALSE], demand)
<1>1. [Truthful(route, demand, credit, 0) EXCEPT !.healthy = FALSE].healthy = FALSE
  BY DEF Truthful
<1> QED
  BY <1>1 DEF Approved, ValidClaims, Capable

\* What has been disturbed stays disturbed.
LEMMA DisturbedStays ==
    ASSUME PlanInv, cells # None, RootInv, RootInv', BudgetInv, phase \in Comparing,
           Reading(before, Named(before)), ledger' \in Ledgers, Earlier(ledger, ledger'),
           \A n \in Artifacts : Age(n)' >= Age(n) /\ (n[1] = "final" => root'[n] >= root[n]),
           UNCHANGED <<experiment, cells, phase, left, seen, before, budget>>
    PROVE  (Disturbed => Disturbed') /\ (Noticed => Noticed')
<1>1. Artifacts' = Artifacts
  BY DEF Artifacts, Attempts
<1>2. ASSUME NEW p \in before, Moved(p) PROVE Moved(p)'
  <2>1. Age(p[1])' > p[2]
    BY <1>2, ReadingKept DEF Moved
  <2> QED
    BY <2>1 DEF Moved
<1>3. ASSUME NEW n \in Artifacts, Extra(n) PROVE Extra(n)'
  <2>1. root[n] \in Nat /\ root'[n] \in Nat
    BY <1>1 DEF RootInv
  <2>2. Age(n) \in Nat /\ Age(n)' \in Nat
    <3>1. CASE n[1] = "temp"
      <4>1. Final(<<n[2], n[3]>>) \in Artifacts
        BY <3>1, ArtifactKinds
      <4>2. root[Final(<<n[2], n[3]>>)] \in Nat /\ root'[Final(<<n[2], n[3]>>)] \in Nat
        BY <4>1, <1>1 DEF RootInv
      <4> QED
        BY <2>1, <3>1, <4>2 DEF Age, Final
    <3>2. CASE n[1] # "temp"
      BY <2>1, <3>2 DEF Age
    <3> QED
      BY <3>1, <3>2
  <2>3. Age(n) > 0 /\ Age(n)' >= Age(n)
    BY <1>3 DEF Extra
  <2> QED
    BY <1>3, <2>2, <2>3 DEF Extra, Final, Named
<1>4. Budget # budget => (Budget # budget)'
  <2>1. CASE Sequential(experiment)
    <3>1. ledger \in Ledgers /\ budget \in Ledgers /\ Earlier(budget, ledger)
      BY <2>1 DEF BudgetInv
    <3>2. budget = ledger' => budget = ledger
      BY <3>1, LedgerMovesOn
    <3> QED
      BY <2>1, <3>2 DEF Budget, Sequential
  <2>2. CASE ~Sequential(experiment)
    BY <2>2 DEF Budget, Sequential
  <2> QED
    BY <2>1, <2>2
<1>5. Disturbed => Disturbed'
  BY <1>1, <1>2, <1>3, <1>4 DEF Disturbed
<1>6. Noticed => Noticed'
  BY <1>2, <1>4 DEF Noticed, Named
<1> QED
  BY <1>5, <1>6

\* What is covered is a matter of what was read.
LEMMA CoverageIsRead ==
    ASSUME UNCHANGED <<experiment, cells, budget>>
    PROVE  \A c : Covered(c)' <=> Covered(c)
<1>1. Committed' = Committed
  BY DEF Committed, Retained, Sequential
<1>2. \A c : Available(c, budget)' = Available(c, budget)
  BY DEF Available, Left, Retained, Sequential
<1> QED
  BY <1>1, <1>2 DEF Covered

\* An execution in the same directory, and others under the same cap, keep the invariant.
LEMMA ExecutionKeeps ==
    ASSUME ReadinessInv, cells # None, Execute
    PROVE  ReadinessInv'
<1>1. UNCHANGED <<experiment, cells, phase, left, seen, before, budget, cell, lies, failures, steady>>
  BY DEF Execute, readiness
<1>2. PlanInv /\ RootInv /\ ledger \in Ledgers /\ BudgetInv /\ ReadingInv
  BY DEF ReadinessInv, BudgetInv
<1>3. /\ RootInv' /\ \A n \in Artifacts : Age(n)' >= Age(n) /\ (n[1] = "final" => root'[n] >= root[n])
      /\ ledger' \in Ledgers /\ Earlier(ledger, ledger')
  BY <1>2, FilesGrow
<1>4. PlanInv' /\ BudgetInv'
  <2>1. PlanInv'
    BY <1>1, <1>2 DEF PlanInv
  <2>2. CASE Sequential(experiment) /\ phase \in Comparing \cup {"done"}
    <3>1. budget \in Ledgers /\ Earlier(budget, ledger)
      BY <1>2, <2>2 DEF BudgetInv
    <3>2. Earlier(budget, ledger')
      BY <1>2, <1>3, <3>1, LedgerMovesOn
    <3> QED
      BY <1>1, <1>3, <2>1, <2>2, <3>1, <3>2 DEF BudgetInv, Sequential
  <2>3. CASE ~(Sequential(experiment) /\ phase \in Comparing \cup {"done"})
    BY <1>1, <1>2, <1>3, <2>1, <2>3 DEF BudgetInv, Sequential
  <2> QED
    BY <2>2, <2>3
<1>5. ReadingInv'
  <2>1. cells' = cells
    BY <1>1
  <2>2. phase = "before" => (Reading(seen, Named(seen) \cup left) /\ left \cap Named(seen) = {})'
    <3> SUFFICES ASSUME phase = "before" PROVE (Reading(seen, Named(seen) \cup left) /\ left \cap Named(seen) = {})'
      OBVIOUS
    <3>1. Reading(seen, Named(seen) \cup left) /\ left \cap Named(seen) = {}
      BY <1>2 DEF ReadingInv
    <3>2. (Reading(seen, Named(seen) \cup left))'
      <4>1. seen' = seen /\ Named(seen)' = Named(seen) /\ left' = left /\ Artifacts' = Artifacts
        BY <1>1 DEF Named, Artifacts, Attempts
      <4> DEFINE L == Named(seen) \cup left
      <4>2. Reading(seen, L)
        BY <3>1
      <4>3. /\ seen \subseteq Artifacts \X Nat /\ L \subseteq Artifacts' /\ Named(seen) \subseteq L
            /\ \A p \in seen : 0 < p[2] /\ p[2] <= Age(p[1])' /\ (p[1][1] = "temp" => p[2] = 1)
            /\ \A p, q \in seen : p[1] = q[1] => p = q
            /\ \A n \in L : n[1] = "final" => root'[n] > 0
        <5> HIDE DEF L
        <5> QED
          BY <1>2, <1>3, <2>1, <4>2, ReadingKept
      <4>4. L' = L
        BY <4>1
      <4> QED
        BY <4>1, <4>3, <4>4 DEF Reading
    <3> QED
      BY <1>1, <3>1, <3>2 DEF Named
  <2>3. phase \in Comparing => Reading(before, Named(before))'
    <3> SUFFICES ASSUME phase \in Comparing PROVE Reading(before, Named(before))'
      OBVIOUS
    <3>1. Reading(before, Named(before))
      BY <1>2 DEF ReadingInv
    <3>2. before' = before /\ Named(before)' = Named(before) /\ Artifacts' = Artifacts
      BY <1>1 DEF Named, Artifacts, Attempts
    <3> DEFINE L == Named(before)
    <3>3. Reading(before, L) /\ L' = L
      BY <3>1, <3>2
    <3>4. /\ before \subseteq Artifacts \X Nat /\ L \subseteq Artifacts' /\ Named(before) \subseteq L
          /\ \A p \in before : 0 < p[2] /\ p[2] <= Age(p[1])' /\ (p[1][1] = "temp" => p[2] = 1)
          /\ \A p, q \in before : p[1] = q[1] => p = q
          /\ \A n \in L : n[1] = "final" => root'[n] > 0
      <4> HIDE DEF L
      <4> QED
        BY <1>2, <1>3, <2>1, <3>3, ReadingKept
    <3> QED
      BY <3>2, <3>3, <3>4 DEF Reading
  <2>4. phase \in Comparing => (Disturbed => Disturbed') /\ (Noticed => Noticed')
    BY <1>1, <1>2, <1>3, DisturbedStays DEF ReadingInv, Comparing
  <2>5. Artifacts' = Artifacts
    BY <1>1 DEF Artifacts, Attempts
  <2> QED
    BY <1>1, <1>2, <2>2, <2>3, <2>4, <2>5 DEF ReadingInv, Comparing
<1>6. \A c : Covered(c)' <=> Covered(c)
  BY <1>1, CoverageIsRead
<1>7. ProbeInv' /\ ReadinessIsTruthful'
  BY <1>1, <1>6 DEF ReadinessInv, ProbeInv, ReadinessIsTruthful, Ready
<1> QED
  BY <1>1, <1>3, <1>4, <1>5, <1>7 DEF ReadinessInv

-----------------------------------------------------------------------------
\* What a step of the check leaves alone, and what follows from that alone.
LEMMA CheckOnlyReads ==
    ASSUME ReadinessInv, cells # None, Observe
    PROVE  /\ UNCHANGED <<experiment, cells, root, ledger, next>>
           /\ PlanInv' /\ RootInv' /\ ledger' \in Ledgers
           /\ Artifacts' = Artifacts /\ Budget' = Budget /\ (Ready <=> Ready')
           /\ \A n : Age(n)' = Age(n)
<1>1. UNCHANGED <<experiment, cells, root, ledger, next>>
  BY DEF Observe, execution
<1>2. Artifacts' = Artifacts /\ Attempts' = Attempts
  BY <1>1 DEF Artifacts, Attempts
<1>3. PlanInv' /\ RootInv' /\ ledger' \in Ledgers
  BY <1>1, <1>2 DEF ReadinessInv, PlanInv, RootInv, BudgetInv, Unstaged, Working
<1> QED
  BY <1>1, <1>2, <1>3 DEF Budget, Sequential, Ready, Age

\* A file that is there is read at its age, unless its final record is linked.
LEMMA ReadAtAge ==
    ASSUME PlanInv, cells # None, RootInv, NEW n \in Artifacts, root[n] # 0
    PROVE  /\ root[n] \in Nat /\ 0 < root[n] /\ Age(n) = root[n]
           /\ n[1] = "temp" => root[n] = 1
<1>1. root[n] \in Nat /\ 0 < root[n]
  BY DEF RootInv
<1>2. CASE n[1] = "temp"
  <2>1. PICK a \in Attempts : n = Temp(a)
    BY <1>2, ArtifactKinds
  <2>2. Final(<<n[2], n[3]>>) = Final(a) /\ Final(a) \in Artifacts
    BY <1>2, <2>1, ArtifactKinds DEF Temp, Final
  <2>3. root[Final(a)] \in Nat /\ root[n] + root[Final(a)] <= 1
    BY <2>1, <2>2 DEF RootInv
  <2> QED
    BY <1>1, <1>2, <2>2, <2>3 DEF Age
<1>3. CASE n[1] # "temp"
  BY <1>1, <1>3 DEF Age
<1> QED
  BY <1>2, <1>3

\* The first listing, and each file of it that is read.
LEMMA FirstReadingKeeps ==
    ASSUME ReadinessInv, cells # None, Observe, List("list", "before") \/ Read("before", Raise)
    PROVE  ReadinessInv'
<1>1. /\ UNCHANGED <<experiment, cells, root, ledger, next>> /\ PlanInv' /\ RootInv' /\ ledger' \in Ledgers
      /\ Artifacts' = Artifacts /\ (Ready <=> Ready') /\ \A n : Age(n)' = Age(n)
  BY CheckOnlyReads
<1>2. PlanInv /\ RootInv /\ ReadingInv /\ ProbeInv
  BY DEF ReadinessInv
<1>3. CASE List("list", "before")
  <2>1. phase' = "before" /\ left' = Present /\ seen' = {} /\ failures' = 0 /\ lies' = 0 /\ cell' = 1 /\ steady'
    BY <1>2, <1>3 DEF List, ProbeInv
  <2>2. Named(seen)' = {} /\ left' \subseteq Artifacts /\ \A n \in left' : root[n] > 0
    BY <1>2, <2>1 DEF Named, Present, RootInv
  <2>3. Reading(seen, Named(seen) \cup left)' /\ (left \cap Named(seen) = {})'
    BY <1>1, <2>1, <2>2 DEF Reading
  <2>4. ProbeInv'
    BY <1>1, <1>2, <1>3, <2>1 DEF ProbeInv, List, Comparing
  <2> QED
    BY <1>1, <2>1, <2>3, <2>4 DEF ReadinessInv, BudgetInv, Comparing, ReadingInv, ReadinessIsTruthful
<1>4. CASE Read("before", Raise)
  <2>1. PICK n \in left :
           IF root[n] = 0
           THEN Raise /\ UNCHANGED <<left, seen>>
           ELSE /\ seen' = seen \cup {<<n, root[n]>>} /\ left' = left \ {n}
                /\ UNCHANGED <<phase, failures>>
    BY <1>4 DEF Read
  <2>2. phase = "before" /\ UNCHANGED <<before, budget, cell, lies, steady>>
    BY <1>4 DEF Read
  <2>3. failures = 0 /\ lies = 0 /\ cell = 1 /\ steady /\ Ready
    BY <1>2, <2>2 DEF ProbeInv
  <2>4. CASE root[n] = 0
    <3>1. phase' = "raised" /\ failures' = 0
      BY <2>1, <2>3, <2>4 DEF Raise
    <3> QED
      BY <1>1, <2>2, <2>3, <3>1 DEF ReadinessInv, BudgetInv, Comparing, ReadingInv, ProbeInv, ReadinessIsTruthful
  <2>5. CASE root[n] # 0
    <3>1. seen' = seen \cup {<<n, root[n]>>} /\ left' = left \ {n} /\ phase' = "before" /\ failures' = 0
      BY <2>1, <2>2, <2>3, <2>5
    <3>2. Reading(seen, Named(seen) \cup left) /\ left \cap Named(seen) = {}
      BY <1>2, <2>2 DEF ReadingInv
    <3>3. n \in Artifacts /\ n \notin Named(seen)
      BY <3>2 DEF Reading
    <3>4. root[n] \in Nat /\ 0 < root[n] /\ Age(n) = root[n] /\ (n[1] = "temp" => root[n] = 1)
      BY <1>2, <2>5, <3>3, ReadAtAge
    <3>5. Named(seen)' = Named(seen) \cup {n}
      <4> DEFINE read == <<n, root[n]>>
      <4>1. read[1] = n
        OBVIOUS
      <4>2. Named(seen)' = {p[1] : p \in seen'}
        BY DEF Named
      <4>3. seen' = seen \cup {read}
        BY <3>1
      <4> HIDE DEF read
      <4>4. \A m : m \in {p[1] : p \in seen'} <=> m \in {p[1] : p \in seen} \cup {n}
        BY <4>1, <4>3
      <4> QED
        BY <4>2, <4>4 DEF Named
    <3>6. Reading(seen, Named(seen) \cup left)'
      <4>1. seen' \subseteq Artifacts \X Nat /\ (Named(seen) \cup left)' = Named(seen) \cup left
        <5>1. seen' \subseteq Artifacts \X Nat
          BY <3>1, <3>2, <3>3, <3>4 DEF Reading
        <5>2. Named(seen)' \cup left' = Named(seen) \cup left
          BY <3>1, <3>5
        <5> QED
          BY <5>1, <5>2
      <4>2. \A p \in seen' : 0 < p[2] /\ p[2] <= Age(p[1]) /\ (p[1][1] = "temp" => p[2] = 1)
        BY <3>1, <3>2, <3>4 DEF Reading
      <4>3. \A p, q \in seen' : p[1] = q[1] => p = q
        BY <3>1, <3>2, <3>3 DEF Reading, Named
      <4>4. \A m \in Named(seen) \cup left : m[1] = "final" => root[m] > 0
        BY <3>2 DEF Reading
      <4>5. Named(seen) \cup left \subseteq Artifacts
        BY <3>2 DEF Reading
      <4> QED
        BY <1>1, <3>5, <4>1, <4>2, <4>3, <4>4, <4>5 DEF Reading
    <3>7. (left \cap Named(seen) = {})'
      BY <3>1, <3>2, <3>5
    <3>8. ProbeInv'
      BY <1>1, <2>2, <2>3, <3>1 DEF ProbeInv, Comparing
    <3> QED
      BY <1>1, <3>1, <3>6, <3>7, <3>8 DEF ReadinessInv, BudgetInv, Comparing, ReadingInv, ReadinessIsTruthful
  <2> QED
    BY <2>4, <2>5
<1> QED
  BY <1>3, <1>4

\* The reading is finished, and the ledger is read.
LEMMA BudgetReadingKeeps ==
    ASSUME ReadinessInv, cells # None, Observe, ReadBudget
    PROVE  ReadinessInv'
<1>1. /\ UNCHANGED <<experiment, cells, root, ledger, next>> /\ PlanInv' /\ RootInv' /\ ledger' \in Ledgers
      /\ Artifacts' = Artifacts /\ (Ready <=> Ready') /\ \A n : Age(n)' = Age(n)
  BY CheckOnlyReads
<1>2. PlanInv /\ RootInv /\ ReadingInv /\ ProbeInv /\ BudgetInv
  BY DEF ReadinessInv
<1>3. phase = "before" /\ left = {} /\ UNCHANGED <<left, seen, cell, lies, failures, steady>>
  BY DEF ReadBudget
<1>4. failures = 0 /\ lies = 0 /\ cell = 1 /\ steady /\ Ready
  BY <1>2, <1>3 DEF ProbeInv
<1>5. CASE Inspectable
  <2>1. phase' = "probe" /\ budget' = Budget /\ before' = seen
    BY <1>5 DEF ReadBudget
  <2>2. Reading(seen, Named(seen))
    <3>1. Reading(seen, Named(seen) \cup left) /\ Named(seen) \cup left = Named(seen)
      BY <1>2, <1>3 DEF ReadingInv
    <3> QED
      BY <3>1
  <2>3. Reading(before, Named(before))'
    <3>1. Named(before)' = Named(seen)
      BY <2>1 DEF Named
    <3> QED
      BY <1>1, <2>1, <2>2, <3>1 DEF Reading
  <2>4. BudgetInv'
    <3>1. ledger \in Ledgers /\ Earlier(ledger, ledger)
      BY <1>2 DEF BudgetInv, Ledgers, Earlier
    <3> QED
      BY <1>1, <2>1, <3>1 DEF BudgetInv, Budget, Sequential, Comparing
  <2>5. ProbeInv'
    <3>1. \A c \in DOMAIN cells : ~(c < 1)
      BY <1>2, PlannedCells
    <3> QED
      BY <1>1, <1>3, <1>4, <2>1, <3>1 DEF ProbeInv, Comparing
  <2> QED
    BY <1>1, <1>3, <1>4, <2>1, <2>3, <2>4, <2>5 DEF ReadinessInv, ReadingInv, ReadinessIsTruthful, Comparing
<1>6. CASE ~Inspectable
  <2>1. phase' = "raised"
    BY <1>6 DEF ReadBudget
  <2> QED
    BY <1>1, <1>3, <1>4, <2>1 DEF ReadinessInv, BudgetInv, Comparing, ReadingInv, ProbeInv, ReadinessIsTruthful
<1> QED
  BY <1>5, <1>6

\* A probe: the directory and the ledger are as they were read, or disturbed
\* for good; and who passes is covered.
LEMMA ProbeKeeps ==
    ASSUME ReadinessInv, cells # None, Observe, Probe
    PROVE  ReadinessInv'
<1>1. /\ UNCHANGED <<experiment, cells, root, ledger, next>> /\ PlanInv' /\ RootInv' /\ ledger' \in Ledgers
      /\ Artifacts' = Artifacts /\ Budget' = Budget /\ (Ready <=> Ready') /\ \A n : Age(n)' = Age(n)
  BY CheckOnlyReads
<1>2. PlanInv /\ RootInv /\ ReadingInv /\ ProbeInv /\ BudgetInv
  BY DEF ReadinessInv
<1>3. /\ phase = "probe" /\ cell <= Len(cells) /\ cell' = cell + 1
      /\ steady' = (steady /\ Tree = before /\ Budget = budget)
      /\ UNCHANGED <<phase, left, seen, before, budget>>
  BY DEF Probe
<1>4. cell \in DOMAIN cells
  BY <1>2, <1>3, PlannedCells DEF ProbeInv
<1>5. \A c : Covered(c)' <=> Covered(c)
  BY <1>1, <1>3, CoverageIsRead
<1>6. ReadingInv'
  <2>1. Reading(before, Named(before))
    BY <1>2, <1>3 DEF ReadingInv, Comparing
  <2>2. Reading(before, Named(before))'
    BY <1>1, <1>3, <2>1 DEF Reading, Named
  <2>3. Disturbed => Disturbed'
    BY <1>1, <1>3 DEF Disturbed, Moved, Extra, Named
  <2>4. ~steady' => Disturbed
    <3>1. ~steady => Disturbed
      BY <1>2, <1>3 DEF ReadingInv
    <3>2. Tree # before => Disturbed
      BY <1>2, <2>1, TornIsDisturbed
    <3>3. Budget # budget => Disturbed
      BY DEF Disturbed
    <3> QED
      BY <1>3, <3>1, <3>2, <3>3
  <2> QED
    BY <1>3, <2>2, <2>3, <2>4 DEF ReadingInv
<1>7. BudgetInv'
  BY <1>1, <1>2, <1>3 DEF BudgetInv, Sequential
<1>8. ProbeInv'
  <2> DEFINE demand == ProbeOf(cell)
             truth == Truthful(cells[cell].route, demand, experiment.credit, 0)
             lie == [truth EXCEPT !.healthy = FALSE]
             Counts(claims) == failures' = failures + (IF Approved(cell, claims, demand) THEN 0 ELSE 1)
  <2>1. (Counts(truth) /\ lies' = lies) \/ (Counts(lie) /\ lies' = lies + 1)
    BY DEF Probe
  <2>2. ~Approved(cell, lie, demand)
    BY LiesAreRefused
  <2>3. failures \in Nat /\ lies \in Nat /\ cell \in Nat \ {0} /\ Ready
    BY <1>2, <1>3 DEF ProbeInv
  <2>4. Approved(cell, truth, demand) => Covered(cell)
    BY <1>2, <1>4, <2>3, ApprovedIsCovered
  <2> HIDE DEF demand, truth, lie
  <2>5. failures' \in Nat /\ lies' \in Nat /\ cell' \in Nat \ {0}
    BY <1>3, <2>1, <2>3
  <2>6. failures' = 0 =>
           failures = 0 /\ lies' = lies /\ Covered(cell)
    BY <2>1, <2>2, <2>3, <2>4
  <2>7. ASSUME failures' = 0, NEW c \in DOMAIN cells, c < cell'
        PROVE  Covered(c)
    <3>1. c \in Nat
      BY <1>2, PlannedCells
    <3>2. c < cell \/ c = cell
      BY <1>3, <2>3, <2>7, <3>1
    <3> QED
      BY <1>2, <1>3, <2>6, <2>7, <3>2 DEF ProbeInv, Comparing
  <2>8. failures' = 0 => lies' = 0
    BY <1>2, <1>3, <2>6 DEF ProbeInv, Comparing
  <2> HIDE DEF Counts
  <2> QED
    BY <1>1, <1>3, <1>5, <2>3, <2>5, <2>7, <2>8 DEF ProbeInv
<1> QED
  BY <1>1, <1>3, <1>6, <1>7, <1>8 DEF ReadinessInv, ReadinessIsTruthful

\* The directory is looked at again, unless it was stopped meanwhile.
LEMMA LookingAgainKeeps ==
    ASSUME ReadinessInv, cells # None, Observe, CheckAgain
    PROVE  ReadinessInv'
<1>1. /\ UNCHANGED <<experiment, cells, root, ledger, next>> /\ PlanInv' /\ RootInv' /\ ledger' \in Ledgers
      /\ Artifacts' = Artifacts /\ Budget' = Budget /\ (Ready <=> Ready') /\ \A n : Age(n)' = Age(n)
  BY CheckOnlyReads
<1>2. PlanInv /\ RootInv /\ ReadingInv /\ ProbeInv /\ BudgetInv
  BY DEF ReadinessInv
<1>3. /\ phase = "probe" /\ cell = Len(cells) + 1
      /\ phase' \in {"relist", "done"} /\ (phase' = "relist" => failures' = failures)
      /\ phase' = "done" => failures' = failures + 1
      /\ UNCHANGED <<left, seen, before, budget, cell, lies, steady>>
  BY DEF CheckAgain
<1>4. failures \in Nat /\ failures' \in Nat /\ (phase' = "done" => failures' # 0)
  BY <1>2, <1>3 DEF ProbeInv
<1>5. \A c : Covered(c)' <=> Covered(c)
  BY <1>1, <1>3, CoverageIsRead
<1>6. ReadingInv'
  <2>1. Reading(before, Named(before))'
    <3>1. Reading(before, Named(before))
      BY <1>2, <1>3 DEF ReadingInv, Comparing
    <3> QED
      BY <1>1, <1>3, <3>1 DEF Reading, Named
  <2>2. Disturbed => Disturbed'
    BY <1>1, <1>3 DEF Disturbed, Moved, Extra, Named
  <2> QED
    BY <1>2, <1>3, <2>1, <2>2 DEF ReadingInv, Comparing
<1>7. BudgetInv'
  BY <1>1, <1>2, <1>3 DEF BudgetInv, Sequential, Comparing
<1>8. ProbeInv'
  BY <1>1, <1>2, <1>3, <1>4, <1>5 DEF ProbeInv, Comparing
<1>9. ReadinessIsTruthful'
  BY <1>3, <1>4 DEF ReadinessIsTruthful
<1> QED
  BY <1>1, <1>3, <1>6, <1>7, <1>8, <1>9 DEF ReadinessInv

\* The second listing, and each file of it that is read.
LEMMA SecondReadingKeeps ==
    ASSUME ReadinessInv, cells # None, Observe, List("relist", "again") \/ Read("again", Changed)
    PROVE  ReadinessInv'
<1>1. /\ UNCHANGED <<experiment, cells, root, ledger, next>> /\ PlanInv' /\ RootInv' /\ ledger' \in Ledgers
      /\ Artifacts' = Artifacts /\ Budget' = Budget /\ (Ready <=> Ready') /\ \A n : Age(n)' = Age(n)
  BY CheckOnlyReads
<1>2. PlanInv /\ RootInv /\ ReadingInv /\ ProbeInv /\ BudgetInv
  BY DEF ReadinessInv
<1>3. UNCHANGED <<before, budget, cell, lies, steady>> /\ phase \in {"relist", "again"}
  BY DEF List, Read
<1>4. Reading(before, Named(before)) /\ Reading(before, Named(before))'
  <2>1. Reading(before, Named(before))
    BY <1>2, <1>3 DEF ReadingInv, Comparing
  <2> QED
    BY <1>1, <1>3, <2>1 DEF Reading, Named
<1>5. \A c : Covered(c)' <=> Covered(c)
  BY <1>1, <1>3, CoverageIsRead
<1>6. CASE List("relist", "again")
  <2>1. phase = "relist" /\ phase' = "again" /\ left' = Present /\ seen' = {} /\ failures' = failures
    BY <1>6 DEF List
  <2>2. left' \subseteq Artifacts
    BY <1>2, <2>1 DEF Present, RootInv
  <2>3. ~steady => Noticed'
    <3>1. ~steady => Disturbed
      BY <1>2, <2>1 DEF ReadingInv
    <3> QED
      BY <1>1, <1>2, <1>3, <1>4, <2>1, <3>1, ListingNotices
  <2>4. BudgetInv'
    BY <1>1, <1>2, <1>3, <2>1 DEF BudgetInv, Sequential, Comparing
  <2>5. ProbeInv'
    BY <1>1, <1>2, <1>3, <1>5, <2>1 DEF ProbeInv, Comparing
  <2> QED
    BY <1>1, <1>3, <1>4, <2>1, <2>2, <2>3, <2>4, <2>5 DEF ReadinessInv, ReadingInv, ReadinessIsTruthful, Comparing
<1>7. CASE Read("again", Changed)
  <2>1. PICK n \in left :
           IF root[n] = 0
           THEN Changed /\ UNCHANGED <<left, seen>>
           ELSE /\ seen' = seen \cup {<<n, root[n]>>} /\ left' = left \ {n}
                /\ UNCHANGED <<phase, failures>>
    BY <1>7 DEF Read
  <2>2. phase = "again" /\ failures \in Nat
    BY <1>2, <1>7 DEF Read, ProbeInv
  <2>3. CASE root[n] = 0
    <3>1. phase' = "done" /\ failures' = failures + 1
      BY <2>1, <2>3 DEF Changed
    <3>2. failures' \in Nat /\ failures' # 0
      BY <2>2, <3>1
    <3> QED
      BY <1>1, <1>2, <1>3, <2>2, <3>1, <3>2 DEF ReadinessInv, BudgetInv, Comparing, ReadingInv, ProbeInv, ReadinessIsTruthful
  <2>4. CASE root[n] # 0
    <3>1. seen' = seen \cup {<<n, root[n]>>} /\ left' = left \ {n} /\ phase' = "again" /\ failures' = failures
      BY <2>1, <2>2, <2>4
    <3>2. left \subseteq Artifacts /\ n \in Artifacts
      BY <1>2, <2>2 DEF ReadingInv
    <3>3. Age(n) = root[n] /\ root[n] \in Nat
      BY <1>2, <2>4, <3>2, ReadAtAge
    <3>4. (Named(seen) \cup left)' = Named(seen) \cup left
      <4> DEFINE read == <<n, root[n]>>
      <4>1. read[1] = n
        OBVIOUS
      <4>2. seen' = seen \cup {read} /\ left' = left \ {n}
        BY <3>1
      <4> HIDE DEF read
      <4>3. \A m : m \in {p[1] : p \in seen'} <=> m \in {p[1] : p \in seen} \cup {n}
        BY <4>1, <4>2
      <4>4. Named(seen)' = Named(seen) \cup {n}
        BY <4>3 DEF Named
      <4> QED
        BY <4>2, <4>4
    <3>5. Noticed => Noticed'
      <4>1. ASSUME NEW p \in before, Moved(p), p \notin seen PROVE Noticed'
        <5>1. p # <<n, root[n]>>
          <6> SUFFICES ASSUME p = <<n, root[n]>> PROVE FALSE
            OBVIOUS
          <6>1. p[1] = n /\ p[2] = root[n]
            OBVIOUS
          <6> QED
            BY <3>3, <4>1, <6>1 DEF Moved
        <5>2. p \in before' /\ Moved(p)' /\ p \notin seen'
          BY <1>1, <1>3, <3>1, <4>1, <5>1 DEF Moved
        <5> QED
          BY <5>2 DEF Noticed
      <4>2. ASSUME NEW m \in Named(seen) \cup left, m \notin Named(before) PROVE Noticed'
        <5>1. m \in (Named(seen) \cup left)' /\ m \notin Named(before)'
          BY <1>3, <3>4, <4>2 DEF Named
        <5> QED
          BY <5>1 DEF Noticed
      <4>3. Budget # budget => Noticed'
        BY <1>1, <1>3 DEF Noticed
      <4> QED
        BY <4>1, <4>2, <4>3 DEF Noticed
    <3>6. ReadingInv'
      BY <1>1, <1>2, <1>3, <1>4, <2>2, <3>1, <3>2, <3>5 DEF ReadingInv
    <3>7. BudgetInv'
      BY <1>1, <1>2, <1>3, <2>2, <3>1 DEF BudgetInv, Sequential, Comparing
    <3>8. ProbeInv'
      BY <1>1, <1>2, <1>3, <1>5, <2>2, <3>1 DEF ProbeInv, Comparing
    <3> QED
      BY <1>1, <3>1, <3>6, <3>7, <3>8 DEF ReadinessInv, ReadinessIsTruthful
  <2> QED
    BY <2>3, <2>4
<1> QED
  BY <1>6, <1>7

\* Two readings that agree are of one state, and every probe saw it.
LEMMA CompareKeeps ==
    ASSUME ReadinessInv, cells # None, Observe, Compare
    PROVE  ReadinessInv'
<1>1. /\ UNCHANGED <<experiment, cells, root, ledger, next>> /\ PlanInv' /\ RootInv' /\ ledger' \in Ledgers
      /\ Budget' = Budget /\ (Ready <=> Ready')
  BY CheckOnlyReads
<1>2. PlanInv /\ RootInv /\ ReadingInv /\ ProbeInv /\ BudgetInv
  BY DEF ReadinessInv
<1>3. /\ phase = "again" /\ left = {} /\ phase' = "done"
      /\ failures' = failures + (IF Same(seen, before) /\ Inspectable /\ Budget = budget THEN 0 ELSE 1)
      /\ UNCHANGED <<left, seen, before, budget, cell, lies, steady>>
  BY DEF Compare
<1>4. failures \in Nat /\ failures' \in Nat
  BY <1>2, <1>3 DEF ProbeInv
<1>5. failures' = 0 => failures = 0 /\ seen = before /\ Budget = budget
  BY <1>3, <1>4 DEF Same
<1>6. failures' = 0 => steady
  <2> SUFFICES ASSUME failures' = 0, ~steady PROVE FALSE
    BY <1>2, <1>3 DEF ReadingInv
  <2>1. Noticed
    BY <1>2, <1>3 DEF ReadingInv
  <2> QED
    BY <1>3, <1>5, <2>1 DEF Noticed
<1>7. failures' = 0 => lies = 0 /\ \A c \in DOMAIN cells : Covered(c)
  <2>1. \A c \in DOMAIN cells : c < cell
    BY <1>2, <1>3, PlannedCells DEF ProbeInv
  <2> QED
    BY <1>2, <1>3, <1>5, <2>1 DEF ProbeInv, Comparing
<1>8. \A c : Covered(c)' <=> Covered(c)
  BY <1>1, <1>3, CoverageIsRead
<1>9. ReadinessIsTruthful'
  BY <1>1, <1>3, <1>6, <1>7, <1>8 DEF ReadinessIsTruthful
<1>10. ProbeInv'
  BY <1>1, <1>2, <1>3, <1>4 DEF ProbeInv, Comparing
<1> QED
  BY <1>1, <1>3, <1>9, <1>10 DEF ReadinessInv, BudgetInv, Comparing, ReadingInv

\* Every step of the check keeps the invariant.
LEMMA ObservationKeeps ==
    ASSUME ReadinessInv, cells # None, Observe
    PROVE  ReadinessInv'
<1>1. CASE Check
  <2>1. /\ UNCHANGED <<experiment, cells, root, ledger, next>> /\ PlanInv' /\ RootInv' /\ ledger' \in Ledgers
        /\ (Ready <=> Ready')
    BY CheckOnlyReads
  <2>2. /\ phase = "idle" /\ phase' \in {"list", "raised"} /\ (phase' = "list" => Ready)
        /\ UNCHANGED <<left, seen, before, budget, cell, lies, failures, steady>>
    BY <1>1 DEF Check
  <2>3. ProbeInv'
    BY <2>1, <2>2 DEF ReadinessInv, ProbeInv, Comparing
  <2> QED
    BY <2>1, <2>2, <2>3 DEF ReadinessInv, BudgetInv, Comparing, ReadingInv, ReadinessIsTruthful
<1> QED
  BY <1>1, FirstReadingKeeps, BudgetReadingKeeps, ProbeKeeps, LookingAgainKeeps, SecondReadingKeeps, CompareKeeps DEF Observe

\* Scoring touches neither the files of the execution nor the check.
LEMMA ScoringKeeps ==
    ASSUME ReadinessInv, UNCHANGED <<experiment, cells, execution, readiness>>
    PROVE  ReadinessInv'
<1>1. UNCHANGED <<experiment, cells, root, ledger, next, phase, left, seen, before, budget, cell, lies, failures, steady>>
  BY DEF execution, readiness
<1>2. Artifacts' = Artifacts /\ Attempts' = Attempts /\ Named(seen)' = Named(seen) /\ Named(before)' = Named(before)
  BY <1>1 DEF Artifacts, Attempts, Named
<1>3. (\A n : Age(n)' = Age(n)) /\ (\A c : Covered(c)' <=> Covered(c)) /\ (Ready <=> Ready') /\ Budget' = Budget
  BY <1>1, CoverageIsRead DEF Age, Sequential, Ready, Budget
<1>4. PlanInv' /\ BudgetInv' /\ (cells # None => RootInv')
  BY <1>1, <1>2 DEF ReadinessInv, PlanInv, BudgetInv, RootInv, Unstaged, Working, Sequential
<1>5. ProbeInv' /\ ReadinessIsTruthful'
  BY <1>1, <1>3 DEF ReadinessInv, ProbeInv, ReadinessIsTruthful
<1>6. (Disturbed => Disturbed') /\ (Noticed => Noticed')
  BY <1>1, <1>2, <1>3 DEF Disturbed, Noticed, Moved, Extra
<1>7. Reading(before, Named(before)) => Reading(before, Named(before))'
  BY <1>1, <1>2, <1>3 DEF Reading
<1>8. Reading(seen, Named(seen) \cup left) => Reading(seen, Named(seen) \cup left)'
  BY <1>1, <1>2, <1>3 DEF Reading
<1>9. cells # None => ReadingInv'
  BY <1>1, <1>2, <1>6, <1>7, <1>8 DEF ReadinessInv, ReadingInv
<1> QED
  BY <1>1, <1>4, <1>5, <1>9 DEF ReadinessInv

LEMMA ReadinessBegins == SealedInit => ReadinessInv
<1> SUFFICES ASSUME SealedInit PROVE ReadinessInv
  OBVIOUS
<1>1. PlanInv
  BY DEF SealedInit, PlanInv
<1>2. BudgetInv
  <2>1. experiment.spent \in Nat /\ phase = "idle"
    BY PlanAssumption DEF SealedInit
  <2>2. ledger = [kind \in Funding |-> [own |-> IF kind = "metered" THEN experiment.spent ELSE 0,
                                        taken |-> 0, settled |-> 0]]
    BY DEF SealedInit
  <2>3. ledger \in Ledgers
    BY <2>1, <2>2 DEF Ledgers
  <2> QED
    BY <2>1, <2>3 DEF BudgetInv, Comparing
<1>3. cells # None => RootInv
  <2> SUFFICES ASSUME cells # None PROVE RootInv
    OBVIOUS
  <2>1. root = [n \in Artifacts |-> 0] /\ next = <<"start", 1, 1>>
    BY DEF SealedInit
  <2>2. \A a \in Attempts : Temp(a) \in Artifacts /\ Final(a) \in Artifacts
    BY <1>1, ArtifactKinds
  <2> QED
    BY <2>1, <2>2 DEF RootInv, Working
<1> QED
  BY <1>1, <1>2, <1>3 DEF SealedInit, ReadinessInv, ReadingInv, ProbeInv, ReadinessIsTruthful, Comparing

LEMMA ReadinessSafe == SealedSpec => []ReadinessInv
<1>1. ReadinessInv /\ [SealedNext]_sealedVars => ReadinessInv'
  <2> SUFFICES ASSUME ReadinessInv, [SealedNext]_sealedVars PROVE ReadinessInv'
    OBVIOUS
  <2>1. CASE cells # None /\ Execute
    BY <2>1, ExecutionKeeps
  <2>2. CASE cells # None /\ Observe
    BY <2>2, ObservationKeeps
  <2>3. CASE Score \/ RefuseToScore
    BY <2>3, ScoringKeeps DEF Score, RefuseToScore
  <2>4. CASE UNCHANGED sealedVars
    BY <2>4, ScoringKeeps DEF sealedVars
  <2> QED
    BY <2>1, <2>2, <2>3, <2>4 DEF SealedNext
<1> QED
  BY <1>1, ReadinessBegins, PTL DEF SealedSpec

\* A readiness check that passes speaks of one state of the execution
\* directory and of the ledger, whatever executions did between its two
\* readings of them, for every set of experiments.
THEOREM ReadinessIsSound == SealedSpec => []ReadinessIsTruthful
<1>1. ReadinessInv => ReadinessIsTruthful
  BY DEF ReadinessInv
<1> QED
  BY <1>1, ReadinessSafe, PTL

-----------------------------------------------------------------------------
HonestInv ==
    /\ phase \in Comparing /\ lies = 0 /\ (\A c \in DOMAIN cells : Covered(c)) => failures = 0
    /\ HonestProbesPass

\* A probe of a cell never claims more than the cell reserves: its lookups are
\* no more than the rounds of its route.
LEMMA ChargeIsReserved ==
    ASSUME PlanInv, cells # None, NEW c \in DOMAIN cells, NEW bytes, NEW nonce
    PROVE  LET route == cells[c].route
               maximum == Maximum(route)
               demand == Request(route, Suite(c).limits, cells[c].condition, bytes, nonce, 0)
               charge == ExpectedCharge(route, demand)
           IN /\ maximum \in Nat /\ charge \in Nat /\ charge <= maximum
              /\ route.maxInput \in Nat \ {0}
              /\ {demand.output, demand.tools, demand.timeout} \subseteq Nat
<1> DEFINE route == cells[c].route
           demand == Request(route, Suite(c).limits, cells[c].condition, bytes, nonce, 0)
           tools == demand.tools
<1>1. PICK s \in DOMAIN experiment.suites, r \in DOMAIN experiment.routes :
         cells[c].suite = experiment.suites[s] /\ route = experiment.routes[r]
  BY CellOfPlan
<1>2. {route.inputRate, route.outputRate, route.toolRate, route.maxInput, route.maxOutput, route.maxRounds} \subseteq Nat
  BY <1>1, PlanAssumption DEF PlanInv
<1>3. NormalInputs(experiment)
  BY DEF PlanInv, Plannable
<1>4. route.maxInput > 0
  BY <1>1, <1>3 DEF NormalInputs, NormalRoute
<1>5. tools \in Nat /\ tools <= route.maxRounds
  <2>1. cells[c].suite.limits.tools \in Nat
    BY <1>1, PlanAssumption DEF PlanInv
  <2>2. cells[c].suite.limits.tools <= route.maxRounds
    BY <1>1, <1>2, <1>3, <2>1 DEF NormalInputs, RouteCapacity
  <2>3. tools = IF cells[c].condition = "sources" THEN cells[c].suite.limits.tools ELSE 0
    BY DEF Request, Suite
  <2> HIDE DEF tools, route, demand
  <2> QED
    BY <1>2, <2>1, <2>2, <2>3
<1>6. {demand.output, demand.tools, demand.timeout} \subseteq Nat
  <2>1. LET limits == cells[c].suite.limits IN {limits.timeout, limits.output} \subseteq Nat
    BY <1>1, PlanAssumption DEF PlanInv
  <2>2. demand.output = cells[c].suite.limits.output /\ demand.timeout = cells[c].suite.limits.timeout
    BY DEF Request, Suite
  <2> QED
    BY <1>5, <2>1, <2>2
<1>7. ExpectedCharge(route, demand) = TokenCost(route) + route.toolRate * tools
  BY DEF ExpectedCharge
<1> HIDE DEF route, tools, demand
<1>8. TokenCost(route) \in Nat
  BY <1>2, ChargeIsNatural
<1>9. /\ route.toolRate * tools \in Nat /\ route.maxRounds * route.toolRate \in Nat
      /\ route.toolRate * tools <= route.maxRounds * route.toolRate
  <2>1. \A x, y, z \in Nat : y <= z => x * y \in Nat /\ z * x \in Nat /\ x * y <= z * x
    OBVIOUS
  <2> QED
    BY <1>2, <1>5, <2>1
<1> QED
  BY <1>2, <1>4, <1>6, <1>7, <1>8, <1>9 DEF route, demand, Maximum

\* The authorization of a route is the one that was prepared with it.
LEMMA CellIsAuthorized ==
    ASSUME PlanInv, cells # None, Ready, NEW c \in DOMAIN cells, NEW amount \in Nat, amount <= cells[c].reserved
    PROVE  Authorizes(Auth(c), amount)
<1> DEFINE routes == experiment.routes
           route == cells[c].route
           q == CHOOSE r \in DOMAIN routes : routes[r].id = route.id
<1>1. PICK r \in DOMAIN routes : route = routes[r]
  BY CellOfPlan
<1>2. q \in DOMAIN routes /\ routes[q].id = routes[r].id
  BY <1>1
<1>3. q = r
  <2>1. IsInjective([i \in DOMAIN routes |-> routes[i].id])
    BY DEF PlanInv, Plannable, NormalInputs
  <2> HIDE DEF q, route
  <2> QED
    BY <1>2, <2>1 DEF IsInjective
<1>4. Auth(c) = experiment.auths[r]
  BY <1>3 DEF Auth
<1> DEFINE auth == experiment.auths[r]
           total == ReservationTotal(Own(cells, route))
<1>5. Prepares(auth, total, Reservation(route), Sequential(experiment))
  BY <1>1 DEF Ready, RuntimeAccepts
<1>6. total \in Nat /\ cells[c].reserved <= total
  BY PlanAssumption DEF PlanInv
<1>7. cells[c].reserved \in Nat /\ cells[c].reserved = Reservation(route)
  BY PlannedCells
<1>8. auth.ceiling \in Nat
  BY <1>1, PlanAssumption DEF PlanInv
<1> HIDE DEF auth, total, route
<1>9. (total > 0 => auth.allowPaid) /\ (total <= auth.ceiling \/ Reservation(route) <= auth.ceiling)
  BY <1>5 DEF Prepares
<1> QED
  BY <1>4, <1>6, <1>7, <1>8, <1>9 DEF Authorizes, auth

\* What a truthful probe says of a route that is covered is approved.
LEMMA HonestIsApproved ==
    ASSUME PlanInv, cells # None, Ready, NEW c \in DOMAIN cells, Covered(c), Sequential(experiment) => budget \in Ledgers
    PROVE  Approved(c, Truthful(cells[c].route, ProbeOf(c), experiment.credit, 0), ProbeOf(c))
<1> DEFINE route == cells[c].route
           demand == ProbeOf(c)
           claims == Truthful(route, demand, experiment.credit, 0)
           charge == ExpectedCharge(route, demand)
           maximum == Maximum(route)
<1>1. /\ maximum \in Nat /\ charge \in Nat /\ charge <= maximum /\ route.maxInput \in Nat \ {0}
      /\ {demand.output, demand.tools, demand.timeout} \subseteq Nat
  BY ChargeIsReserved DEF ProbeOf
<1>2. demand.nonce = "this" /\ demand.at = 0 /\ demand.input = route.maxInput
  BY DEF ProbeOf, Request
<1>3. /\ claims.nonce = demand.nonce /\ claims.observed = 0 /\ claims.statusAt = 0 /\ claims.state = "frozen"
      /\ claims.live = (route.kind = "verified_subscription") /\ claims.status = "active" /\ claims.paidFallback = FALSE
      /\ claims.validUntil = (IF route.kind = "verified_subscription" THEN Never ELSE 0 + 100) /\ claims.eligible = TRUE
      /\ claims.charge = charge /\ claims.incremental = (IF route.kind = "metered" THEN charge ELSE 0)
      /\ claims.credit = (IF route.kind = "existing_credit" THEN experiment.credit ELSE Never)
      /\ claims.healthy = TRUE /\ claims.required = 1 /\ claims.context = route.maxInput
      /\ claims.maxOutput = demand.output /\ claims.maxTools = demand.tools /\ claims.timeout = demand.timeout
  BY DEF Truthful
<1>4. cells[c].reserved \in Nat /\ cells[c].reserved = (IF route.kind = "metered" THEN maximum ELSE 0)
  BY PlannedCells DEF Reservation, Maximum
<1>5. experiment.credit \in Nat /\ experiment.cap \in Nat /\ ReservationTotal(cells) \in Nat /\ Never \notin Int
  BY PlannedCells, PlanAssumption, ClaimsAssumption DEF PlanInv
<1>6. Available(c, budget) \in Int /\ cells[c].reserved <= Available(c, budget)
  <2>1. Sequential(experiment) => Left(budget, "metered") \in Int
    BY <1>5, RetainedIsNatural DEF Left, Funding
  <2> QED
    BY <1>4, <1>5, <2>1 DEF Available, Covered
<1>7. Committed \in Nat /\ (route.kind = "existing_credit" => maximum <= experiment.credit - Committed)
  BY RetainedIsNatural DEF Covered, Committed, Funding
<1> HIDE DEF route, demand, claims, charge, maximum
<1>8. claims.incremental \in Nat /\ claims.incremental <= cells[c].reserved /\ claims.incremental <= Available(c, budget)
  BY <1>1, <1>3, <1>4, <1>6
<1>9. Bound(claims, demand, 0, 1)
  BY <1>2, <1>3 DEF Bound
<1>10. ChargeMatches(claims, demand, route)
  BY <1>1, <1>3, <1>5, <1>7 DEF ChargeMatches, charge
<1>11. Entitled(claims, demand, route, 0)
  <2>1. CASE route.kind = "verified_subscription"
    <3>1. claims.live /\ claims.validUntil = Never /\ ~claims.paidFallback /\ claims.eligible
      BY <1>3, <2>1
    <3>2. SubscriptionLive(claims, demand, route)
      BY <1>2, <1>3, <2>1, <3>1 DEF SubscriptionLive
    <3> QED
      BY <3>1, <3>2 DEF Entitled
  <2>2. CASE route.kind # "verified_subscription"
    <3>1. ~claims.live /\ claims.validUntil = 0 + 100 /\ claims.eligible
      BY <1>3, <2>2, Zenon
    <3>2. claims.validUntil # Never /\ claims.validUntil > 0
      BY <1>5, <3>1
    <3> QED
      BY <3>1, <3>2 DEF Entitled
  <2> QED
    BY <2>1, <2>2
<1>12. Authorizes(Auth(c), claims.incremental)
  BY <1>8, CellIsAuthorized
<1>13. Capable(claims, demand)
  BY <1>1, <1>2, <1>3 DEF Capable
<1>14. FitsBudget(route, claims)
  <2>1. FitsBudget(route, claims) <=>
           CASE route.kind = "existing_credit" -> claims.credit # Never /\ maximum <= claims.credit - Committed
             [] route.kind = "metered" -> Sequential(experiment) => maximum <= Left(budget, "metered")
             [] OTHER -> TRUE
    BY DEF FitsBudget, maximum
  <2>2. route.kind = "metered" /\ Sequential(experiment) => maximum <= Left(budget, "metered")
    BY <1>4, <1>6 DEF Available
  <2> QED
    BY <1>3, <1>5, <1>7, <2>1, <2>2
<1>15. ValidClaims(claims, demand, route, 0, 1, cells[c].reserved, Available(c, budget), Auth(c))
  BY <1>3, <1>8, <1>9, <1>10, <1>11, <1>12, <1>13 DEF ValidClaims
<1> QED
  BY <1>14, <1>15 DEF Approved, route, demand, claims

\* Every step keeps it: only a lie, or a disturbance that is still there to be
\* seen, fails a probe of what is covered.
LEMMA HonestKept ==
    ASSUME ReadinessInv, ReadinessInv', HonestInv, [SealedNext]_sealedVars
    PROVE  HonestInv'
<1>1. CASE cells # None /\ Execute
  <2>1. UNCHANGED <<experiment, cells, phase, left, seen, before, budget, cell, lies, failures, steady>>
    BY <1>1 DEF Execute, readiness
  <2>2. \A c : Covered(c)' <=> Covered(c)
    BY <2>1, CoverageIsRead
  <2>3. (\A c \in DOMAIN cells : Covered(c))' => \A c \in DOMAIN cells : Covered(c)
    BY <2>1, <2>2
  <2>4. ASSUME phase = "done" PROVE (Budget = budget)' => Budget = budget
    <3>1. ledger \in Ledgers /\ ledger' \in Ledgers /\ Earlier(ledger, ledger')
      BY <1>1, FilesGrow DEF ReadinessInv, BudgetInv
    <3>2. CASE Sequential(experiment)
      <4>1. budget \in Ledgers /\ Earlier(budget, ledger)
        BY <2>4, <3>2 DEF ReadinessInv, BudgetInv
      <4>2. budget = ledger' => budget = ledger
        BY <3>1, <4>1, LedgerMovesOn
      <4> QED
        BY <2>1, <3>2, <4>2 DEF Budget, Sequential
    <3>3. CASE ~Sequential(experiment)
      BY <2>1, <3>3 DEF Budget, Sequential
    <3> QED
      BY <3>2, <3>3
  <2>5. (Inspectable' => Inspectable) /\ (root'[StopFile] = 0 => root[StopFile] = 0)
    <3>1. ASSUME NEW n \in {Frozen, StopFile} PROVE root'[n] = 0 => root[n] = 0
      <4>1. n \in Artifacts /\ n[1] # "temp"
        BY DEF Artifacts, Frozen, StopFile
      <4>2. Age(n)' >= Age(n)
        BY <1>1, <4>1, FilesGrow DEF ReadinessInv, BudgetInv
      <4>3. Artifacts' = Artifacts
        BY <2>1 DEF Artifacts, Attempts
      <4>4. root[n] \in Nat /\ root'[n] \in Nat
        BY <1>1, <2>1, <4>1, <4>3 DEF ReadinessInv, RootInv
      <4>5. Age(n) = root[n] /\ Age(n)' = root'[n]
        BY <4>1 DEF Age
      <4> QED
        BY <4>2, <4>4, <4>5
    <3>2. (root'[Frozen] = 0 => root[Frozen] = 0) /\ (root'[StopFile] = 0 => root[StopFile] = 0)
      BY <3>1
    <3>3. Frozen' = Frozen
      BY DEF Frozen
    <3> QED
      BY <2>1, <3>2, <3>3 DEF Inspectable, Sequential
  <2>6. HonestProbesPass'
    <3> SUFFICES ASSUME (/\ phase = "done" /\ lies = 0 /\ root[StopFile] = 0
                         /\ left = {} /\ seen = before /\ Budget = budget /\ Inspectable
                         /\ \A c \in DOMAIN cells : Covered(c))'
                 PROVE  failures' = 0
      BY DEF HonestProbesPass
    <3>1. StopFile' = StopFile
      BY DEF StopFile
    <3> QED
      BY <2>1, <2>3, <2>4, <2>5, <3>1 DEF HonestInv, HonestProbesPass
  <2> QED
    BY <2>1, <2>3, <2>6 DEF HonestInv, Comparing
<1>2. CASE cells # None /\ Observe
  <2>1. /\ UNCHANGED <<experiment, cells, root, ledger, next>> /\ Budget' = Budget
    BY <1>2, CheckOnlyReads
  <2>2. ProbeInv /\ PlanInv /\ BudgetInv
    BY DEF ReadinessInv
  <2>3. CASE Check \/ List("list", "before") \/ Read("before", Raise)
    <3>1. phase' \in {"list", "before", "raised"}
      BY <2>3 DEF Check, List, Read, Raise
    <3> QED
      BY <3>1 DEF HonestInv, HonestProbesPass, Comparing
  <2>4. CASE ReadBudget
    <3>1. phase' \in {"probe", "raised"} /\ failures' = failures /\ failures = 0
      BY <2>2, <2>4 DEF ReadBudget, ProbeInv
    <3> QED
      BY <3>1 DEF HonestInv, HonestProbesPass, Comparing
  <2>5. CASE Probe
    <3>1. /\ phase = "probe" /\ phase' = "probe" /\ budget' = budget /\ cell <= Len(cells)
      BY <2>5 DEF Probe
    <3> SUFFICES ASSUME lies' = 0, \A c \in DOMAIN cells : Covered(c)' PROVE failures' = 0
      BY <2>1, <3>1 DEF HonestInv, HonestProbesPass
    <3>2. \A c : Covered(c)' <=> Covered(c)
      BY <2>1, <3>1, CoverageIsRead
    <3>3. \A c \in DOMAIN cells : Covered(c)
      BY <2>1, <3>2
    <3>4. lies \in Nat /\ cell \in Nat \ {0} /\ Ready
      BY <2>2, <3>1 DEF ProbeInv
    <3>5. cell \in DOMAIN cells
      BY <1>2, <2>2, <3>1, <3>4, PlannedCells
    <3> DEFINE demand == ProbeOf(cell)
               truth == Truthful(cells[cell].route, demand, experiment.credit, 0)
               Approves == Approved(cell, truth, demand)
    <3>6. lies' = lies + 1 \/ (lies' = lies /\ failures' = failures + (IF Approves THEN 0 ELSE 1))
      BY <2>5 DEF Probe
    <3>7. Approves
      BY <1>2, <2>2, <3>1, <3>3, <3>4, <3>5, HonestIsApproved DEF BudgetInv, Comparing
    <3> HIDE DEF Approves
    <3>8. lies = 0 /\ failures' = failures + 0
      BY <3>4, <3>6, <3>7
    <3>9. failures = 0
      BY <3>1, <3>3, <3>8 DEF HonestInv, Comparing
    <3> QED
      BY <3>8, <3>9
  <2>6. CASE CheckAgain \/ List("relist", "again")
    <3>1. phase \in {"probe", "relist"} /\ UNCHANGED <<budget, lies>>
      BY <2>6 DEF CheckAgain, List
    <3>2. \/ phase' \in {"relist", "again"} /\ failures' = failures
          \/ phase' = "done" /\ root[StopFile] # 0
      BY <2>6 DEF CheckAgain, List
    <3>3. \A c : Covered(c)' <=> Covered(c)
      BY <2>1, <3>1, CoverageIsRead
    <3>4. StopFile' = StopFile
      BY DEF StopFile
    <3> QED
      BY <2>1, <3>1, <3>2, <3>3, <3>4 DEF HonestInv, HonestProbesPass, Comparing
  <2>7. CASE Read("again", Changed)
    <3>1. phase = "again" /\ UNCHANGED <<budget, lies>>
      BY <2>7 DEF Read
    <3>2. \/ phase' = "done" /\ left' # {}
          \/ phase' = "again" /\ failures' = failures
      BY <2>7 DEF Read, Changed
    <3>3. \A c : Covered(c)' <=> Covered(c)
      BY <2>1, <3>1, CoverageIsRead
    <3> QED
      BY <2>1, <3>1, <3>2, <3>3 DEF HonestInv, HonestProbesPass, Comparing
  <2>8. CASE Compare
    <3>1. /\ phase = "again" /\ phase' = "done" /\ UNCHANGED <<left, seen, before, budget, cell, lies, steady>>
          /\ failures' = failures + (IF Same(seen, before) /\ Inspectable /\ Budget = budget THEN 0 ELSE 1)
      BY <2>8 DEF Compare
    <3>2. \A c : Covered(c)' <=> Covered(c)
      BY <2>1, <3>1, CoverageIsRead
    <3>3. Inspectable' = Inspectable
      BY <2>1 DEF Inspectable, Sequential
    <3> SUFFICES ASSUME (/\ lies = 0 /\ seen = before /\ Budget = budget /\ Inspectable
                         /\ \A c \in DOMAIN cells : Covered(c))'
                 PROVE  failures' = 0
      BY <3>1 DEF HonestInv, HonestProbesPass, Comparing
    <3>4. lies = 0 /\ seen = before /\ Budget = budget /\ Inspectable /\ \A c \in DOMAIN cells : Covered(c)
      BY <2>1, <3>1, <3>2, <3>3
    <3>5. failures = 0
      BY <3>1, <3>4 DEF HonestInv, Comparing
    <3> QED
      BY <3>1, <3>4, <3>5 DEF Same
  <2> QED
    BY <1>2, <2>3, <2>4, <2>5, <2>6, <2>7, <2>8 DEF Observe
<1>3. CASE UNCHANGED <<experiment, cells, execution, readiness>>
  <2>1. UNCHANGED <<experiment, cells, root, ledger, phase, left, seen, before, budget, lies, failures>>
    BY <1>3 DEF execution, readiness
  <2>2. (\A c : Covered(c)' <=> Covered(c)) /\ Budget' = Budget /\ Inspectable' = Inspectable /\ StopFile' = StopFile
    BY <2>1, CoverageIsRead DEF Budget, Inspectable, Sequential, StopFile
  <2> QED
    BY <2>1, <2>2 DEF HonestInv, HonestProbesPass, Comparing
<1> QED
  BY <1>1, <1>2, <1>3 DEF SealedNext, Score, RefuseToScore, sealedVars

\* An experiment that could be frozen, whose routes are truthful and covered,
\* passes a check that nobody disturbs, for every set of experiments: what the
\* manifest makes a segment demand, its rates, bounds and authorization allow.
THEOREM HonestProbesAreApproved == SealedSpec => []HonestProbesPass
<1>1. SealedInit => HonestInv
  BY DEF SealedInit, HonestInv, HonestProbesPass, Comparing
<1>2. ReadinessInv /\ ReadinessInv' /\ HonestInv /\ [SealedNext]_sealedVars => HonestInv'
  BY HonestKept
<1>3. HonestInv => HonestProbesPass
  BY DEF HonestInv
<1> QED
  BY <1>1, <1>2, <1>3, ReadinessSafe, PTL DEF SealedSpec

-----------------------------------------------------------------------------
\* Where the execution is with a cell.
Loop == {"reserve", "stop", "raised", "answer", "temp", "publish", "seal"}
Starting == {"reserve", "stop", "raised", "answer"}
Ahead(c) == next[1] = "start" \/ (next[1] \in Loop /\ c > next[2])
Here(c, steps) == next[1] \in steps /\ c = next[2]
Past(c) == next[1] \in {"manifest", "done"} \/ (next[1] \in Loop /\ c < next[2])

\* A cell has a record of each segment so far, and only the last may have failed.
Filed(c) ==
    /\ answers[c] \in Seq(Range(answers[c]))
    /\ \A k \in DOMAIN answers[c] :
          /\ answers[c][k].segment = k /\ answers[c][k].packet = Plan(c).segments[k].packet
          /\ Backed(c, answers[c][k])
          /\ Fails(c, k) => k = Len(answers[c])

Answered(c) ==
    /\ Ahead(c) => answers[c] = <<>>
    /\ Here(c, Starting) => ~Terminal(c) /\ Len(answers[c]) = next[3] - 1
    /\ Here(c, {"temp", "publish"}) => Len(answers[c]) = next[3]
    /\ Here(c, Starting \cup {"temp", "publish"}) => next[3] \in 1..cells[c].segments
    /\ Here(c, {"seal"}) \/ Past(c) => Terminal(c) \/ Len(answers[c]) = cells[c].segments

AnswersInv ==
    cells # None =>
        /\ next[1] \in Loop \cup {"start", "manifest", "done", "stopped"}
        /\ answers = [c \in DOMAIN cells |-> answers[c]]
        /\ \A c \in DOMAIN cells : Filed(c) /\ Answered(c) /\ (Past(c) => root[<<"cell", c, 0>>] > 0)
        /\ next[1] = "done" => root[Result] > 0

\* What is appended to a sequence is its last element.
LEMMA Appended ==
    ASSUME NEW s, s \in Seq(Range(s)), NEW e
    PROVE  LET t == Append(s, e) IN
           /\ t \in Seq(Range(t)) /\ Len(t) = Len(s) + 1 /\ DOMAIN t = 1..(Len(s) + 1)
           /\ DOMAIN s = 1..Len(s) /\ Len(s) \in Nat
           /\ \A k \in DOMAIN s : t[k] = s[k]
           /\ t[Len(s) + 1] = e
<1> DEFINE S == Range(s) \cup {e}
           t == Append(s, e)
<1>1. s \in Seq(S) /\ e \in S
  OBVIOUS
<1> HIDE DEF S
<1>2. /\ t \in Seq(S) /\ Len(t) = Len(s) + 1 /\ DOMAIN t = 1..(Len(s) + 1)
      /\ DOMAIN s = 1..Len(s) /\ Len(s) \in Nat
      /\ \A k \in DOMAIN s : t[k] = s[k]
      /\ t[Len(s) + 1] = e
  BY <1>1
<1>3. t \in Seq(Range(t))
  <2> HIDE DEF t
  <2>0. Len(t) \in Nat /\ t = [k \in 1..Len(t) |-> t[k]] /\ DOMAIN t = 1..Len(t)
    BY <1>2
  <2>1. Len(t) \in Nat /\ t = [k \in 1..Len(t) |-> t[k]] /\ \A k \in 1..Len(t) : t[k] \in Range(t)
    BY <2>0 DEF Range
  <2>2. t \in [1..Len(t) -> Range(t)]
    BY <2>1
  <2> QED
    BY <2>1, <2>2
<1> QED
  BY <1>2, <1>3

\* Steps that leave the answers alone, and the cells with them.
LEMMA FilingStays ==
    ASSUME cells' = cells, experiment' = experiment
    PROVE  /\ \A c, record : Usable(c, record)' = Usable(c, record)
           /\ \A c, record : Backed(c, record)' <=> Backed(c, record)
           /\ \A c : Plan(c)' = Plan(c)
           /\ \A c : answers'[c] = answers[c] =>
                 (Filed(c)' <=> Filed(c)) /\ (Terminal(c)' <=> Terminal(c))
<1>1. \A c : Plan(c)' = Plan(c)
  BY DEF Plan, Suite
<1>2. \A c, record : Usable(c, record)' = Usable(c, record)
  BY <1>1 DEF Usable
<1>3. \A c, record : Backed(c, record)' <=> Backed(c, record)
  BY DEF Backed, BudgetStatus
<1> QED
  BY <1>1, <1>2, <1>3 DEF Filed, Terminal, Fails

\* A cell whose file and place the step leaves alone stays as it is.
LEMMA FilesStay ==
    ASSUME ReadinessInv, cells # None, Execute
    PROVE  /\ \A c \in DOMAIN cells : root[<<"cell", c, 0>>] > 0 => root'[<<"cell", c, 0>>] > 0
           /\ root[Result] > 0 => root'[Result] > 0
           /\ \A n \in Artifacts : root[n] \in Nat /\ root'[n] \in Nat
<1>1. /\ PlanInv /\ RootInv /\ RootInv' /\ \A n \in Artifacts : Age(n)' >= Age(n)
  BY FilesGrow DEF ReadinessInv, BudgetInv
<1>2. Artifacts' = Artifacts
  BY DEF Execute, Artifacts, Attempts
<1>3. \A n \in Artifacts : root[n] \in Nat /\ root'[n] \in Nat
  BY <1>1, <1>2 DEF RootInv
<1>4. ASSUME NEW n \in Artifacts, n[1] # "temp" PROVE root[n] > 0 => root'[n] > 0
  <2>1. Age(n) = root[n] /\ Age(n)' = root'[n]
    BY <1>4 DEF Age
  <2> QED
    BY <1>1, <1>3, <2>1
<1>5. ASSUME NEW c \in DOMAIN cells PROVE <<"cell", c, 0>> \in Artifacts /\ <<"cell", c, 0>>[1] # "temp"
  BY DEF Artifacts
<1>6. Result \in Artifacts /\ Result[1] # "temp"
  BY DEF Artifacts, Result
<1> QED
  BY <1>3, <1>4, <1>5, <1>6

\* Nothing but an answer changes what a cell has.
LEMMA OtherStepsKeepAnswers ==
    ASSUME ReadinessInv, AnswersInv, cells # None, Execute, ~Answer
    PROVE  AnswersInv'
<1>1. UNCHANGED <<experiment, cells, answers>>
  BY DEF Execute, Begin, StartSegment, StopForBudget, StopForAdmission, WriteStop, Resume, Stage, Publish, Seal,
         Manifest, Others
<1>2. /\ DOMAIN cells = 1..Len(cells) /\ Len(cells) \in Nat \ {0}
      /\ \A c \in DOMAIN cells : cells[c].segments \in Nat \ {0}
  BY PlannedCells, CellOfPlan DEF ReadinessInv
<1>3. /\ next = <<next[1], next[2], next[3]>> /\ next[2] \in Nat /\ next[3] \in Nat
      /\ next[1] \in Loop => next[2] \in DOMAIN cells
  BY DEF ReadinessInv, RootInv, Loop, Working
<1>4. /\ \A c \in DOMAIN cells : root[<<"cell", c, 0>>] > 0 => root'[<<"cell", c, 0>>] > 0
      /\ root[Result] > 0 => root'[Result] > 0
      /\ \A n \in Artifacts : root[n] \in Nat /\ root'[n] \in Nat
  BY FilesStay
<1>5. \A c : (Filed(c)' <=> Filed(c)) /\ (Terminal(c)' <=> Terminal(c))
  BY <1>1, FilingStays
<1>6. root \in [Artifacts -> Nat] /\ Result \in Artifacts /\ \A c \in DOMAIN cells : <<"cell", c, 0>> \in Artifacts
  BY DEF ReadinessInv, RootInv, Artifacts, Result
<1>7. /\ next[1] \in Loop \cup {"start", "manifest", "done", "stopped"}
      /\ answers = [c \in DOMAIN cells |-> answers[c]]
      /\ \A c \in DOMAIN cells : Filed(c) /\ Answered(c) /\ (Past(c) => root[<<"cell", c, 0>>] > 0)
      /\ next[1] = "done" => root[Result] > 0
  BY DEF AnswersInv
<1> SUFFICES /\ next'[1] \in Loop \cup {"start", "manifest", "done", "stopped"}
             /\ \A c \in DOMAIN cells : Answered(c)' /\ (Past(c)' => root'[<<"cell", c, 0>>] > 0)
             /\ next'[1] = "done" => root'[Result] > 0
  BY <1>1, <1>5, <1>7 DEF AnswersInv
<1>8. CASE Begin
  <2>1. next[1] = "start" /\ next' = <<"reserve", 1, 1>>
    BY <1>8 DEF Begin, Go
  <2>2. next'[1] = "reserve" /\ next'[2] = 1 /\ next'[3] = 1
    BY <2>1
  <2>3. ASSUME NEW c \in DOMAIN cells PROVE Answered(c)' /\ ~Past(c)'
    <3>1. answers[c] = <<>>
      BY <1>7, <2>1 DEF Answered, Ahead
    <3>2. ~Terminal(c)' /\ Len(answers'[c]) = 0
      BY <1>1, <3>1 DEF Terminal
    <3>3. c \in Nat /\ c >= 1 /\ 1 \in 1..cells[c].segments
      BY <1>2
    <3> QED
      BY <1>1, <2>2, <3>1, <3>2, <3>3 DEF Answered, Ahead, Here, Past, Loop, Starting
  <2> QED
    BY <2>2, <2>3 DEF Loop
<1>9. CASE StartSegment
  <2>1. next[1] = "reserve" /\ next' = <<"answer", next[2], next[3]>>
    BY <1>9 DEF StartSegment, Go
  <2>2. next'[1] = "answer" /\ next'[2] = next[2] /\ next'[3] = next[3]
    BY <2>1
  <2>3. \A c \in DOMAIN cells : Answered(c)' /\ (Past(c)' => Past(c))
    BY <1>1, <1>5, <1>7, <2>1, <2>2 DEF Answered, Ahead, Here, Past, Loop, Starting
  <2> QED
    BY <1>4, <1>7, <2>2, <2>3 DEF Loop
<1>10. CASE Stage
  <2>1. next[1] = "temp" /\ next' = <<"publish", next[2], next[3]>>
    BY <1>10 DEF Stage, Go
  <2>2. next'[1] = "publish" /\ next'[2] = next[2] /\ next'[3] = next[3]
    BY <2>1
  <2>3. \A c \in DOMAIN cells : Answered(c)' /\ (Past(c)' => Past(c))
    BY <1>1, <1>5, <1>7, <2>1, <2>2 DEF Answered, Ahead, Here, Past, Loop, Starting
  <2> QED
    BY <1>4, <1>7, <2>2, <2>3 DEF Loop
<1>11. CASE Publish
  <2>1. PICK d \in DOMAIN cells : next[1] = "publish" /\ d = next[2]
    BY <1>3, <1>11 DEF Publish, Loop
  <2> DEFINE goes == Usable(d, Last(answers[d])) /\ next[3] < cells[d].segments
  <2>2. /\ goes => next' = <<"reserve", d, next[3] + 1>>
        /\ ~goes => next' = <<"seal", d, 0>>
    BY <1>11, <2>1 DEF Publish, Go
  <2>3. next'[1] \in {"reserve", "seal"} /\ next'[2] = d
    BY <2>2
  <2>4. /\ Len(answers[d]) = next[3] /\ next[3] \in 1..cells[d].segments
        /\ \A k \in DOMAIN answers[d] : Fails(d, k) => k = next[3]
        /\ DOMAIN answers[d] = 1..next[3] /\ Last(answers[d]) = answers[d][next[3]]
    <3>1. Answered(d) /\ Filed(d)
      BY <1>7, <2>1
    <3>2. answers[d] \in Seq(Range(answers[d]))
      BY <3>1 DEF Filed
    <3>3. DOMAIN answers[d] = 1..Len(answers[d])
      BY <3>2
    <3> QED
      BY <2>1, <3>1, <3>3 DEF Answered, Filed, Here, Last
  <2>5. goes => ~Terminal(d)
    BY <2>4 DEF Terminal, Fails
  <2>6. ~goes => Terminal(d) \/ Len(answers[d]) = cells[d].segments
    BY <1>2, <2>1, <2>4 DEF Terminal, Fails
  <2>7. goes => next'[1] = "reserve" /\ next'[3] = next[3] + 1 /\ next'[3] \in 1..cells[d].segments
    <3>1. ASSUME goes PROVE next'[1] = "reserve" /\ next'[3] = next[3] + 1
      BY <2>2, <3>1
    <3> QED
      BY <1>2, <1>3, <2>1, <2>4, <3>1
  <2>8. ~goes => next'[1] = "seal"
    BY <2>2
  <2>9. ASSUME NEW c \in DOMAIN cells PROVE Answered(c)' /\ (Past(c)' => Past(c))
    <3> HIDE DEF goes
    <3>1. CASE c = d
      <4>1. Answered(d)'
        <5>1. CASE goes
          <6>1. next'[1] = "reserve" /\ ~Terminal(d)' /\ next'[3] = next[3] + 1 /\ next'[3] \in 1..cells[d].segments
            BY <1>5, <2>5, <2>7, <5>1
          <6>2. Len(answers'[d]) = next'[3] - 1 /\ cells'[d].segments = cells[d].segments
            BY <1>1, <1>3, <2>4, <6>1
          <6> QED
            BY <1>2, <2>1, <2>3, <6>1, <6>2 DEF Answered, Ahead, Here, Past, Loop, Starting
        <5>2. CASE ~goes
          <6>1. next'[1] = "seal" /\ (Terminal(d)' \/ Len(answers'[d]) = cells'[d].segments)
            BY <1>1, <1>5, <2>6, <2>8, <5>2
          <6> QED
            BY <1>2, <2>1, <2>3, <6>1 DEF Answered, Ahead, Here, Past, Loop, Starting
        <5> QED
          BY <5>1, <5>2
      <4> QED
        BY <1>2, <2>1, <2>3, <3>1, <4>1 DEF Past, Loop
    <3>2. CASE c # d
      BY <1>1, <1>5, <1>7, <2>1, <2>3, <3>2 DEF Answered, Ahead, Here, Past, Loop, Starting
    <3> QED
      BY <3>1, <3>2
  <2> QED
    BY <1>4, <1>7, <2>3, <2>9 DEF Loop
<1>12. CASE Seal
  <2>1. PICK d \in DOMAIN cells : next[1] = "seal" /\ d = next[2]
    BY <1>3, <1>12 DEF Seal, Loop
  <2>2. next' = (IF d < Len(cells) THEN <<"reserve", d + 1, 1>> ELSE <<"manifest", 0, 0>>)
    BY <1>12, <2>1 DEF Seal, Go
  <2>3. root'[<<"cell", d, 0>>] > 0
    <3>1. root' = [root EXCEPT ![<<"cell", d, 0>>] = @ + 1]
      BY <1>12, <2>1 DEF Seal, Write
    <3> QED
      BY <1>6, <2>1, <3>1
  <2>4. Terminal(d) \/ Len(answers[d]) = cells[d].segments
    BY <1>7, <2>1 DEF Answered, Here
  <2>5. ASSUME NEW c \in DOMAIN cells PROVE Answered(c)' /\ (Past(c)' => root'[<<"cell", c, 0>>] > 0)
    <3>1. c \in 1..Len(cells) /\ d \in 1..Len(cells)
      BY <1>2, <2>1
    <3>2. CASE c = d
      <4>1. Past(c)'
        BY <2>2, <3>1, <3>2 DEF Past, Loop
      <4>2. ~Ahead(c)' /\ \A steps \in SUBSET Loop : ~Here(c, steps)'
        <5>1. CASE d < Len(cells)
          <6>1. next'[1] = "reserve" /\ next'[2] = d + 1
            BY <2>2, <5>1
          <6> QED
            BY <3>1, <3>2, <6>1 DEF Ahead, Here
        <5>2. CASE ~(d < Len(cells))
          <6>1. next'[1] = "manifest"
            BY <2>2, <5>2
          <6> QED
            BY <6>1 DEF Ahead, Here, Loop
        <5> QED
          BY <5>1, <5>2
      <4>3. ~Here(c, Starting)' /\ ~Here(c, {"temp", "publish"})' /\ ~Here(c, Starting \cup {"temp", "publish"})'
        <5>1. Starting \subseteq Loop /\ {"temp", "publish"} \subseteq Loop
          BY DEF Loop, Starting
        <5> QED
          BY <4>2, <5>1 DEF Starting
      <4> QED
        BY <1>1, <1>5, <2>3, <2>4, <3>2, <4>2, <4>3 DEF Answered
    <3>3. CASE c > d
      <4>1. next'[1] = "reserve" /\ next'[2] = d + 1 /\ next'[3] = 1
        BY <2>2, <3>1, <3>3
      <4>2. answers[c] = <<>>
        BY <1>7, <2>1, <3>3 DEF Answered, Ahead, Loop
      <4>3. ~Terminal(c)' /\ Len(answers'[c]) = 0
        BY <1>1, <4>2 DEF Terminal
      <4>4. 1 \in 1..cells[c].segments /\ ~Past(c)'
        BY <1>2, <3>1, <3>3, <4>1 DEF Past, Loop
      <4> QED
        BY <1>1, <4>1, <4>2, <4>3, <4>4 DEF Answered, Ahead, Here, Loop, Starting
    <3>4. CASE c < d
      <4>1. Past(c)
        BY <2>1, <3>4 DEF Past, Loop
      <4>2. Terminal(c) \/ Len(answers[c]) = cells[c].segments
        BY <1>7, <4>1 DEF Answered
      <4>3. ~Ahead(c)' /\ (next'[2] = c => next'[1] \notin Loop)
        <5>1. CASE d < Len(cells)
          <6>1. next'[1] = "reserve" /\ next'[2] = d + 1
            BY <2>2, <5>1
          <6> QED
            BY <3>1, <3>4, <6>1 DEF Ahead
        <5>2. CASE ~(d < Len(cells))
          <6>1. next'[1] = "manifest"
            BY <2>2, <5>2
          <6> QED
            BY <6>1 DEF Ahead, Loop
        <5> QED
          BY <5>1, <5>2
      <4>4. root'[<<"cell", c, 0>>] > 0
        BY <1>4, <1>7, <4>1
      <4> QED
        BY <1>1, <1>5, <4>2, <4>3, <4>4 DEF Answered, Here, Loop, Starting
    <3> QED
      BY <3>1, <3>2, <3>3, <3>4
  <2>6. next'[1] \in {"reserve", "manifest"}
    BY <2>2
  <2> QED
    BY <2>5, <2>6 DEF Loop
<1>13. CASE Manifest
  <2>1. next[1] = "manifest" /\ next' = <<"done", 0, 0>>
    BY <1>13 DEF Manifest, Go
  <2>2. next'[1] = "done"
    BY <2>1
  <2>3. root'[Result] > 0
    <3>1. root' = [root EXCEPT ![Result] = @ + 1]
      BY <1>13 DEF Manifest, Write
    <3> QED
      BY <1>6, <3>1
  <2>4. \A c \in DOMAIN cells : Answered(c)' /\ Past(c)
    BY <1>1, <1>5, <1>7, <2>1, <2>2 DEF Answered, Ahead, Here, Past, Loop, Starting
  <2> QED
    BY <1>4, <1>7, <2>2, <2>3, <2>4
<1>14. CASE \E kind \in Funding : Others(kind)
  <2>1. next' = next
    BY <1>14 DEF Others
  <2>2. \A c \in DOMAIN cells : Answered(c)' /\ (Past(c)' => Past(c))
    BY <1>1, <1>5, <1>7, <2>1 DEF Answered, Ahead, Here, Past
  <2> QED
    BY <1>4, <1>7, <2>1, <2>2
<1>15. CASE StopForBudget \/ StopForAdmission \/ Resume
  <2>1. /\ next[1] \in {"reserve", "stop", "raised"}
        /\ \E step \in {"reserve", "stop", "raised"} : next' = <<step, next[2], next[3]>>
    BY <1>15 DEF StopForBudget, StopForAdmission, Resume, Go
  <2>2. next'[1] \in {"reserve", "stop", "raised"} /\ next'[2] = next[2] /\ next'[3] = next[3]
    BY <2>1
  <2>3. \A c \in DOMAIN cells : Answered(c)' /\ (Past(c)' => Past(c))
    BY <1>1, <1>5, <1>7, <2>1, <2>2 DEF Answered, Ahead, Here, Past, Loop, Starting
  <2> QED
    BY <1>4, <1>7, <2>2, <2>3 DEF Loop
<1>16. CASE WriteStop
  <2>1. next' = <<"stopped", 0, 0>>
    BY <1>16 DEF WriteStop, Go
  <2>2. next'[1] = "stopped"
    BY <2>1
  <2>3. \A c \in DOMAIN cells : Answered(c)' /\ ~Past(c)'
    BY <2>2 DEF Answered, Ahead, Here, Past, Loop, Starting
  <2> QED
    BY <2>2, <2>3
<1> QED
  BY <1>8, <1>9, <1>10, <1>11, <1>12, <1>13, <1>14, <1>15, <1>16 DEF Execute

\* A record has the receipts that belong to it: a segment's probe promises no
\* more than its cell reserves.
LEMMA RecordIsBacked ==
    ASSUME PlanInv, cells # None, NEW c \in DOMAIN cells, NEW s, NEW status, NEW responses
    PROVE  Backed(c, Record(c, s, status, responses))
<1> DEFINE route == cells[c].route
           demand == SegmentRequest(c, s)
           claims == Truthful(route, demand, experiment.credit, 0)
           charge == ExpectedCharge(route, demand)
           record == Record(c, s, status, responses)
<1>1. Maximum(route) \in Nat /\ charge \in Nat /\ charge <= Maximum(route)
  BY ChargeIsReserved DEF SegmentRequest
<1>2. cells[c].reserved = (IF route.kind = "metered" THEN Maximum(route) ELSE 0)
  BY PlannedCells DEF Reservation, Maximum
<1>3. experiment.credit \in Nat /\ Never \notin Int
  BY PlanAssumption, ClaimsAssumption DEF PlanInv
<1>4. /\ claims.state = "frozen" /\ claims.incremental = (IF route.kind = "metered" THEN charge ELSE 0)
      /\ claims.credit = (IF route.kind = "existing_credit" THEN experiment.credit ELSE Never)
  BY DEF Truthful
<1>5. /\ record.admission = Receipt(claims, demand, <<c, s>>) /\ record.segment = s
      /\ record.status = status /\ record.budget = BudgetStatus(c, status)
  BY DEF Record, SegmentClaims
<1> HIDE DEF claims, demand, charge, route, record
<1>6. /\ record.admission.execution = <<c, s>> /\ record.admission.state = claims.state
      /\ record.admission.incremental = claims.incremental /\ record.admission.credit = claims.credit
  BY <1>5 DEF Receipt
<1>7. record.admission.incremental <= cells[c].reserved
  BY <1>1, <1>2, <1>4, <1>6
<1>8. route.kind = "existing_credit" <=> record.admission.credit # Never
  BY <1>3, <1>4, <1>6
<1>9. VerifiedReceipt(record.admission, <<c, record.segment>>, route, cells[c].reserved)
  BY <1>4, <1>5, <1>6, <1>7, <1>8 DEF VerifiedReceipt
<1> QED
  BY <1>5, <1>9 DEF Backed, record, route

\* An answer is filed as the next segment of its cell, whatever it says.
LEMMA AnswerKeepsAnswers ==
    ASSUME ReadinessInv, AnswersInv, cells # None, Execute, Answer
    PROVE  AnswersInv'
<1>1. UNCHANGED <<experiment, cells>>
  BY DEF Execute
<1>2. /\ next = <<next[1], next[2], next[3]>> /\ next[2] \in Nat /\ next[3] \in Nat
      /\ next[1] = "answer" /\ next[2] \in DOMAIN cells
  BY DEF ReadinessInv, RootInv, Answer, Working
<1>3. PICK d \in DOMAIN cells : d = next[2]
  BY <1>2
<1>4. PICK s \in Nat : s = next[3]
  BY <1>2
<1>5. next' = <<"temp", d, s>>
  BY <1>3, <1>4 DEF Answer, Go
<1>6. PICK r : /\ answers' = [answers EXCEPT ![d] = Append(@, r)]
               /\ r.segment = s /\ r.packet = Plan(d).segments[s].packet /\ Backed(d, r)
  <2>1. PICK status, responses : answers' = [answers EXCEPT ![d] = Append(@, Record(d, s, status, responses))]
    BY <1>3, <1>4 DEF Answer
  <2>2. /\ Record(d, s, status, responses).segment = s
        /\ Record(d, s, status, responses).packet = Plan(d).segments[s].packet
        /\ Backed(d, Record(d, s, status, responses))
    BY RecordIsBacked DEF Record, ReadinessInv
  <2> QED
    BY <2>1, <2>2
<1>7. /\ answers = [c \in DOMAIN cells |-> answers[c]]
      /\ \A c \in DOMAIN cells : Filed(c) /\ Answered(c) /\ (Past(c) => root[<<"cell", c, 0>>] > 0)
  BY <1>2 DEF AnswersInv, Loop
<1>8. /\ answers'[d] = Append(answers[d], r)
      /\ \A c \in DOMAIN cells : c # d => answers'[c] = answers[c]
      /\ answers' = [c \in DOMAIN cells |-> answers'[c]]
  BY <1>6, <1>7
<1>9. \A c \in DOMAIN cells : root[<<"cell", c, 0>>] > 0 => root'[<<"cell", c, 0>>] > 0
  BY FilesStay
<1>10. /\ \A c, record : Usable(c, record)' = Usable(c, record)
       /\ \A c, record : Backed(c, record)' <=> Backed(c, record)
       /\ \A c : Plan(c)' = Plan(c)
       /\ \A c : answers'[c] = answers[c] => (Filed(c)' <=> Filed(c)) /\ (Terminal(c)' <=> Terminal(c))
  BY <1>1, FilingStays
<1>11. /\ answers[d] \in Seq(Range(answers[d])) /\ ~Terminal(d) /\ Len(answers[d]) = s - 1
       /\ s \in 1..cells[d].segments
       /\ \A k \in DOMAIN answers[d] :
             /\ answers[d][k].segment = k /\ answers[d][k].packet = Plan(d).segments[k].packet
             /\ Backed(d, answers[d][k]) /\ ~Fails(d, k)
  BY <1>2, <1>3, <1>4, <1>7 DEF Filed, Answered, Here, Terminal, Starting
<1>12. LET t == answers'[d] IN
       /\ t \in Seq(Range(t)) /\ Len(t) = s /\ DOMAIN t = 1..s /\ DOMAIN answers[d] = 1..(s - 1)
       /\ \A k \in DOMAIN answers[d] : t[k] = answers[d][k]
       /\ t[s] = r
  <2>1. LET t == answers'[d] IN
        /\ t \in Seq(Range(t)) /\ Len(t) = Len(answers[d]) + 1 /\ DOMAIN t = 1..(Len(answers[d]) + 1)
        /\ DOMAIN answers[d] = 1..Len(answers[d])
        /\ \A k \in DOMAIN answers[d] : t[k] = answers[d][k]
        /\ t[Len(answers[d]) + 1] = r
    BY <1>8, <1>11, Appended
  <2>2. Len(answers[d]) + 1 = s
    BY <1>4, <1>11
  <2> QED
    BY <1>11, <2>1, <2>2
<1>13. Filed(d)'
  <2>1. ASSUME NEW k \in DOMAIN answers'[d]
        PROVE  /\ answers'[d][k].segment = k /\ answers'[d][k].packet = Plan(d).segments[k].packet
               /\ Backed(d, answers'[d][k])
               /\ ~Usable(d, answers'[d][k]) => k = Len(answers'[d])
    <3>1. CASE k = s
      BY <1>6, <1>12, <3>1
    <3>2. CASE k # s
      <4>1. k \in DOMAIN answers[d] /\ answers'[d][k] = answers[d][k]
        BY <1>4, <1>12, <3>2
      <4> QED
        BY <1>11, <4>1 DEF Fails
    <3> QED
      BY <3>1, <3>2
  <2> QED
    BY <1>10, <1>12, <2>1 DEF Filed, Fails
<1>14. ASSUME NEW c \in DOMAIN cells
       PROVE  Filed(c)' /\ Answered(c)' /\ (Past(c)' => root'[<<"cell", c, 0>>] > 0)
  <2>1. next'[1] = "temp" /\ next'[2] = d /\ next'[3] = s
    BY <1>5
  <2>2. c \in Nat /\ d \in Nat
    BY PlannedCells DEF ReadinessInv
  <2>3. CASE c = d
    <3>1. Answered(d)' /\ ~Past(d)'
      BY <1>1, <1>11, <1>12, <2>1, <2>2 DEF Answered, Ahead, Here, Past, Loop, Starting
    <3> QED
      BY <1>13, <2>3, <3>1
  <2>4. CASE c # d
    <3>1. Filed(c)' /\ (Terminal(c)' <=> Terminal(c)) /\ answers'[c] = answers[c]
      BY <1>7, <1>8, <1>10, <2>4
    <3>2. Answered(c)' /\ (Past(c)' => Past(c))
      BY <1>1, <1>2, <1>3, <1>7, <2>1, <2>4, <3>1 DEF Answered, Ahead, Here, Past, Loop, Starting
    <3> QED
      BY <1>7, <1>9, <3>1, <3>2
  <2> QED
    BY <2>3, <2>4
<1> QED
  BY <1>1, <1>5, <1>8, <1>14 DEF AnswersInv, Loop

\* Every step keeps the records of the cells in order.
LEMMA AnswersKept ==
    ASSUME ReadinessInv, AnswersInv, [SealedNext]_sealedVars
    PROVE  AnswersInv'
<1>1. CASE cells # None /\ Execute
  BY <1>1, OtherStepsKeepAnswers, AnswerKeepsAnswers
<1>2. CASE UNCHANGED <<experiment, cells, execution>>
  <2>1. UNCHANGED <<experiment, cells, root, next, answers>>
    BY <1>2 DEF execution
  <2>2. \A c : (Filed(c)' <=> Filed(c)) /\ (Terminal(c)' <=> Terminal(c))
    BY <2>1, FilingStays
  <2>3. \A c : (Answered(c)' <=> Answered(c)) /\ (Past(c)' <=> Past(c))
    BY <2>1, <2>2 DEF Answered, Ahead, Here, Past
  <2> QED
    BY <2>1, <2>2, <2>3 DEF AnswersInv
<1> QED
  BY <1>1, <1>2 DEF SealedNext, Observe, Score, RefuseToScore, sealedVars

\* The receipts of a cell that the execution has left behind can be verified,
\* and its answers put together if none of them failed.
LEMMA PastIsVerified ==
    ASSUME ReadinessInv, AnswersInv, cells # None, NEW c \in DOMAIN cells, Past(c)
    PROVE  CellVerified(c)
<1> DEFINE plan == Plan(c)
           records == answers[c]
<1>1. Filed(c) /\ (Terminal(c) \/ Len(records) = cells[c].segments)
  BY DEF AnswersInv, Answered
<1>2. CellOk(c) <=> ~Terminal(c)
  BY DEF CellOk, Terminal, Fails
<1>3. ASSUME ~Terminal(c) PROVE CanReassemble(plan, records)
  <2>1. PICK s \in DOMAIN experiment.suites : Suite(c) = experiment.suites[s]
    BY CellOfPlan DEF ReadinessInv, Suite
  <2>2. /\ DOMAIN plan.segments = 1..cells[c].segments /\ cells[c].segments \in Nat
    BY CellOfPlan DEF ReadinessInv, Plan, Suite
  <2>3. ValidSource(Suite(c), experiment.protocol)
    BY <2>1 DEF ReadinessInv, PlanInv, Plannable
  <2>4. /\ ValidPlan(plan)
        /\ \A k \in DOMAIN plan.segments :
              plan.segments[k].packet = DerivePacket(SuitePacket(Suite(c)), plan.segments[k].ids)
    BY <2>3 DEF ValidSource, PlanOfPacket, Plan
  <2>5. DOMAIN records = 1..Len(records) /\ Len(records) = cells[c].segments
    <3>1. records \in Seq(Range(records))
      BY <1>1 DEF Filed
    <3> QED
      BY <1>1, <1>3, <3>1
  <2>6. \A k \in DOMAIN records :
           records[k].segment = k /\ records[k].packet = plan.segments[k].packet /\ Usable(c, records[k])
    BY <1>1, <1>3 DEF Filed, Terminal, Fails
  <2>7. [k \in DOMAIN records |-> records[k].segment] = [k \in DOMAIN plan.segments |-> k]
    BY <2>2, <2>5, <2>6
  <2>8. ASSUME NEW k \in DOMAIN plan.segments
        PROVE  /\ records[k].packet = plan.segments[k].packet
               /\ DOMAIN records[k].responses = DOMAIN plan.segments[k].ids
               /\ Complete(plan, records[k].responses)
    <3>1. records[k].packet = plan.segments[k].packet /\ Usable(c, records[k])
      BY <2>2, <2>5, <2>6
    <3>2. DOMAIN records[k].responses = DOMAIN records[k].packet /\ Complete(plan, records[k].responses)
      BY <3>1 DEF Usable, Extractable
    <3>3. DOMAIN plan.segments[k].packet = DOMAIN plan.segments[k].ids
      BY <2>4 DEF DerivePacket
    <3> QED
      BY <3>1, <3>2, <3>3
  <2> HIDE DEF plan, records
  <2> QED
    BY <2>4, <2>7, <2>8 DEF CanReassemble
<1> QED
  BY <1>1, <1>2, <1>3 DEF CellVerified, Filed

\* A report with scores is not a refusal.
LEMMA ReportsAreNoRefusals ==
    ASSUME NEW scores
    PROVE  Summaries(scores) # Refused
<1>1. "means" \in DOMAIN Summaries(scores)
  BY DEF Summaries
<1>2. DOMAIN Refused = {"scores"}
  BY DEF Refused
<1> QED
  BY <1>1, <1>2

\* The records of the cells are in order, always.
LEMMA AnswersSafe == SealedSpec => []AnswersInv
<1>1. SealedInit => AnswersInv
  <2> SUFFICES ASSUME SealedInit, cells # None PROVE AnswersInv
    BY DEF AnswersInv
  <2>1. next = <<"start", 1, 1>> /\ answers = [c \in DOMAIN cells |-> <<>>]
    BY DEF SealedInit
  <2>2. \A c \in DOMAIN cells : answers[c] = <<>> /\ <<>> \in Seq(Range(answers[c])) /\ DOMAIN answers[c] = {}
    BY <2>1
  <2> QED
    BY <2>1, <2>2 DEF AnswersInv, Filed, Answered, Ahead, Here, Past, Loop, Starting
<1>2. AnswersInv /\ ReadinessInv /\ [SealedNext]_sealedVars => AnswersInv'
  BY AnswersKept
<1> QED
  BY <1>1, <1>2, ReadinessSafe, PTL DEF SealedSpec

\* Scoring never refuses what an execution has sealed, for every set of
\* experiments, unless the execution was stopped, or an earlier scoring died and
\* left its aggregates: the receipts of every cell, and those of its probes and
\* budgets, can be verified, and the answers put together.
THEOREM SealedExperimentsAreScored == SealedSpec => SealedIsScored
<1>1. ReadinessInv /\ AnswersInv /\ [SealedNext]_sealedVars =>
         [(report' # report /\ report' = Refused) =>
             aggregated \/ experiment.repeats # Primary \/ root[StopFile] > 0 \/ BudgetStops # {}]_sealedVars
  <2> SUFFICES ASSUME ReadinessInv, AnswersInv, SealedNext, report' # report, report' = Refused, ~aggregated, ~Barred
               PROVE  FALSE
    BY DEF Barred
  <2>1. cells # None /\ Score
    BY DEF SealedNext, Execute, Observe, RefuseToScore, scoring
  <2>2. next[1] = "done" /\ \E works : report' = IF Verified /\ ~aggregated
                       THEN LET scores == [c \in DOMAIN cells |-> CellScore(c, works)]
                            IN Summaries(scores)
                       ELSE Refused
    BY <2>1 DEF Score
  <2>3. Verified
    <3>1. \A c \in DOMAIN cells : root[<<"cell", c, 0>>] > 0 /\ CellVerified(c)
      BY <2>1, <2>2, PastIsVerified DEF AnswersInv, Past
    <3> QED
      BY <2>1, <2>2, <3>1 DEF Verified, AnswersInv
  <2> QED
    BY <2>2, <2>3, ReportsAreNoRefusals
<1> QED
  BY <1>1, AnswersSafe, ReadinessSafe, PTL DEF SealedSpec, SealedIsScored

-----------------------------------------------------------------------------
\* An answer to a question earns what it deserves.
LEMMA ItemIsScored ==
    ASSUME NEW item, item.kind # "sentence",
           NEW answer, ValidResponse(PacketItem(item), answer), answer.type = "text" => answer = Text(answer.value)
    PROVE  ScoreItem(PacketItem(item), item.correct, answer).points = Cardinality(Deserved(item, answer))
<1> DEFINE asked_ == PacketItem(item)
           score == ScoreItem(asked_, item.correct, answer)
<1> SUFFICES score.points = Cardinality(Deserved(item, answer))
  OBVIOUS
<1>1. asked_.kind = item.kind /\ asked_.options = item.options /\ asked_.rows = item.rows
  BY DEF PacketItem
<1>2. Null.type = "null" /\ \A v : Text(v).type = "text" /\ Text(v).value = v
  BY DEF Null, Text
<1>3. \A points : Earned(asked_, points).points = points
  BY DEF Earned, NoPoints
<1> HIDE DEF asked_
<1>4. CASE answer = Null
  <2>1. Deserved(item, answer) = {}
    BY <1>2, <1>4 DEF Deserved
  <2>2. score = [NoPoints EXCEPT !.missing = TRUE]
    BY <1>2, <1>4 DEF ScoreItem
  <2>3. score.points = 0
    BY <2>2 DEF NoPoints
  <2> HIDE DEF score
  <2> QED
    BY <2>1, <2>3, FS_EmptySet
<1>5. CASE answer # Null /\ item.kind = "single"
  <2>1. answer.type = "text" /\ answer.value \in asked_.options
    BY <1>1, <1>5 DEF ValidResponse, asked_
  <2>2. score = Earned(asked_, IF answer.value = item.correct THEN 1 ELSE 0)
    BY <1>1, <1>5, <2>1 DEF ScoreItem
  <2>3. Deserved(item, answer) = IF answer.value = item.correct THEN {item.correct} ELSE {}
    BY <1>2, <1>5, <2>1 DEF Deserved
  <2>4. Cardinality({item.correct}) = 1
    BY FS_Singleton
  <2>5. score.points = IF answer.value = item.correct THEN 1 ELSE 0
    BY <1>3, <2>2
  <2> HIDE DEF score
  <2> QED
    BY <2>3, <2>4, <2>5, FS_EmptySet
<1>6. CASE answer # Null /\ item.kind # "single"
  <2>1. item.kind = "matching" /\ answer.type = "object" /\ answer.value \in [item.rows -> item.options]
    BY <1>1, <1>6 DEF ValidResponse, asked_
  <2>2. DOMAIN answer.value = item.rows /\ Range(answer.value) \subseteq item.options
    BY <2>1 DEF Range
  <2>3. score = Earned(asked_, Cardinality({r \in DOMAIN answer.value : answer.value[r] = item.correct[r]}))
    BY <1>1, <1>6, <2>1, <2>2 DEF ScoreItem
  <2>4. Deserved(item, answer) = {r \in DOMAIN answer.value : answer.value[r] = item.correct[r]}
    BY <1>6, <2>1, <2>2 DEF Deserved
  <2>5. score.points = Cardinality({r \in DOMAIN answer.value : answer.value[r] = item.correct[r]})
    BY <1>3, <2>3
  <2> HIDE DEF score
  <2> QED
    BY <2>4, <2>5
<1> QED
  BY <1>4, <1>5, <1>6

Earnings(items, responses) == Sum([i \in DOMAIN items |-> Cardinality(Deserved(items[i], responses[i]))])

\* A run over an exam scores the sum of what its answers deserve.
LEMMA ExamIsScored ==
    ASSUME NEW exam, NEW run, run.status = "ok", DOMAIN run.responses = DOMAIN exam.items,
           \A i \in DOMAIN exam.items :
              /\ exam.items[i].kind # "sentence"
              /\ ValidResponse(PacketItem(exam.items[i]), run.responses[i])
              /\ run.responses[i].type = "text" => run.responses[i] = Text(run.responses[i].value)
    PROVE  ScoreRun(PrepareExam(exam).packet, PrepareExam(exam).key, run).points
              = Earnings(exam.items, run.responses)
<1> DEFINE packet == PrepareExam(exam).packet
           key == PrepareExam(exam).key
           items == ItemScores(packet, key, run)
<1>1. /\ packet = [i \in DOMAIN exam.items |-> PacketItem(exam.items[i])]
      /\ key.answers = [i \in DOMAIN exam.items |-> exam.items[i].correct]
  BY DEF PrepareExam
<1> HIDE DEF packet, key
<1>2. items = [i \in DOMAIN exam.items |->
                  ScoreItem(PacketItem(exam.items[i]), exam.items[i].correct, run.responses[i])]
  BY <1>1 DEF ItemScores
<1>3. ScoreRun(packet, key, run).points = Sum([i \in DOMAIN items |-> items[i].points])
  BY DEF ScoreRun
<1> HIDE DEF items
<1>4. \A i \in DOMAIN exam.items : items[i].points = Cardinality(Deserved(exam.items[i], run.responses[i]))
  BY <1>2, ItemIsScored
<1>5. [i \in DOMAIN items |-> items[i].points]
         = [i \in DOMAIN exam.items |-> Cardinality(Deserved(exam.items[i], run.responses[i]))]
  BY <1>2, <1>4
<1> QED
  BY <1>3, <1>5 DEF packet, key, Earnings

-----------------------------------------------------------------------------
\* What the candidates have said, and what is published of it.

\* A record is what the candidate says to the segment's items, or a fault.
Told(c, k) ==
    LET said == Says(c, Plan(c).segments[k].packet) IN
    answers[c][k] \in {Record(c, k, "ok", said), Record(c, k, "failed", <<>>), Record(c, k, "ok", Tail(said))}

Published(works) == Summaries([c \in DOMAIN cells |-> CellScore(c, works)])

ReportInv ==
    /\ cells # None => \A c \in DOMAIN cells : \A k \in DOMAIN answers[c] : Told(c, k)
    /\ report # None =>
          /\ cells # None /\ next[1] \in {"done", "stopped"}
          /\ report = Refused \/ (next[1] = "done" /\ \E works : report = Published(works))

\* An exam is planned question by question, and its key is one of its packet.
LEMMA ExamOfPlan ==
    ASSUME PlanInv, cells # None, NEW s \in DOMAIN experiment.suites, experiment.suites[s].kind # "gec"
    PROVE  LET suite == experiment.suites[s]
               items == suite.exam.items
               plan == SegmentPlan(suite, experiment.protocol)
               one(i) == [k \in {1} |-> PacketItem(items[i])]
           IN /\ Prepared(suite) = PrepareExam(suite.exam)
              /\ SuitePacket(suite) = [i \in DOMAIN items |-> PacketItem(items[i])]
              /\ plan.packet = SuitePacket(suite) /\ DOMAIN plan.segments = DOMAIN items
              /\ \A i \in DOMAIN items : /\ plan.segments[i].ids = <<i>> /\ plan.segments[i].packet = one(i)
                                         /\ items[i].kind # "sentence"
              /\ ValidKey(SuitePacket(suite), SuiteKey(suite))
<1> DEFINE suite == experiment.suites[s]
           exam == suite.exam
           items == exam.items
           packet == SuitePacket(suite)
           plan == SegmentPlan(suite, experiment.protocol)
<1>1. ValidSource(suite, experiment.protocol)
  BY DEF PlanInv, Plannable
<1>2. /\ Prepared(suite) = PrepareExam(exam) /\ SuiteKey(suite) = PrepareExam(exam).key
      /\ packet = [i \in DOMAIN items |-> PacketItem(items[i])]
  BY DEF Prepared, SuitePacket, SuiteKey, PrepareExam
<1>3. /\ plan.packet = packet /\ plan.kind = suite.kind
      /\ plan.segments = [i \in DOMAIN packet |-> [ids |-> <<i>>, packet |-> DerivePacket(packet, <<i>>)]]
  <2>1. /\ plan.packet = packet /\ plan.kind = suite.kind
        /\ plan.segments = DeriveSegments(packet, suite.kind, suite.blocks)
    BY DEF SegmentPlan, DerivePlan
  <2>2. DeriveSegments(packet, suite.kind, suite.blocks)
           = [i \in DOMAIN packet |-> [ids |-> <<i>>, packet |-> DerivePacket(packet, <<i>>)]]
    <3> HIDE DEF packet
    <3> QED
      BY DEF DeriveSegments
  <2> QED
    BY <2>1, <2>2
<1>4. ASSUME NEW i \in DOMAIN items
      PROVE  /\ plan.segments[i].ids = <<i>> /\ plan.segments[i].packet = [k \in {1} |-> PacketItem(items[i])]
             /\ items[i].kind # "sentence"
  <2>1. i \in DOMAIN packet /\ packet[i] = PacketItem(items[i])
    BY <1>2
  <2>2. plan.segments[i].ids = <<i>> /\ plan.segments[i].packet = DerivePacket(packet, <<i>>)
    BY <1>3, <2>1
  <2>3. DerivePacket(packet, <<i>>) = [k \in {1} |-> packet[i]]
    <3>1. DOMAIN <<i>> = {1} /\ <<i>>[1] = i
      OBVIOUS
    <3> QED
      BY <3>1 DEF DerivePacket
  <2>4. plan.kind = "gec" <=> packet[i].kind = "sentence"
    BY <1>1, <2>1 DEF ValidSource, PlanOfPacket
  <2>5. packet[i].kind = items[i].kind
    BY <2>1 DEF PacketItem
  <2> QED
    BY <1>3, <2>1, <2>2, <2>3, <2>4, <2>5
<1>5. ValidKey(packet, SuiteKey(suite))
  <2> DEFINE key == PrepareExam(exam).key
  <2>1. /\ key.packet = packet /\ key.scoring = exam.scoring
        /\ key.answers = [i \in DOMAIN packet |-> exam.items[i].correct]
    BY <1>2 DEF PrepareExam
  <2>2. ValidExam(exam) /\ ValidPacket(packet)
    BY <1>1 DEF ValidSource, PlanOfPacket
  <2>3. \A i \in DOMAIN packet : ValidAnswer(packet[i], key.answers[i])
    <3>1. \A i \in DOMAIN items : ValidAnswer(items[i], items[i].correct)
      BY <2>2 DEF ValidExam
    <3>2. \A i \in DOMAIN items : ValidAnswer(PacketItem(items[i]), items[i].correct)
      BY <3>1 DEF ValidAnswer, PacketItem
    <3> QED
      BY <1>2, <2>1, <3>2
  <2>4. ValidScoring(key.scoring, packet)
    <3>1. Len(packet) = Len(items)
      <4>1. Len(items) \in Nat /\ DOMAIN items = 1..Len(items)
        BY AnswerAssumption DEF PlanInv
      <4> QED
        BY <1>2, <4>1
    <3>2. MaxPoints(packet) = MaxPoints(items)
      <4>1. \A i \in DOMAIN items : ItemPoints(PacketItem(items[i])) = ItemPoints(items[i])
        BY DEF ItemPoints, PacketItem
      <4>2. [i \in DOMAIN packet |-> ItemPoints(packet[i])] = [i \in DOMAIN items |-> ItemPoints(items[i])]
        BY <1>2, <4>1
      <4> HIDE DEF packet
      <4> QED
        BY <4>2 DEF MaxPoints
    <3>3. ValidScoring(exam.scoring, items)
      BY <2>2 DEF ValidExam
    <3> HIDE DEF packet
    <3> QED
      BY <2>1, <3>1, <3>2, <3>3 DEF ValidScoring
  <2> HIDE DEF packet
  <2> QED
    BY <1>2, <2>1, <2>2, <2>3, <2>4 DEF ValidKey, BoundKey
<1>6. DOMAIN plan.segments = DOMAIN items
  BY <1>2, <1>3
<1> QED
  BY <1>2, <1>3, <1>4, <1>5, <1>6

\* There is one function of nothing, the empty sequence.
LEMMA EmptyFunction ==
    ASSUME NEW f, f = [j \in DOMAIN f |-> f[j]], DOMAIN f = {}
    PROVE  f = <<>>
  OBVIOUS

\* A sequence of one element is a function of its only index.
LEMMA OneTuple ==
    ASSUME NEW v
    PROVE  [j \in {1} |-> v] = <<v>> /\ <<v>> = [j \in DOMAIN <<v>> |-> <<v>>[j]]
  OBVIOUS

\* A fault is never usable: every segment asks for something.
LEMMA FaultFails ==
    ASSUME PlanInv, cells # None, NEW c \in DOMAIN cells, NEW k \in DOMAIN answers[c], CellVerified(c),
           answers[c][k].responses = <<>>
    PROVE  Terminal(c)
<1> SUFFICES ASSUME ~Terminal(c) PROVE FALSE
  OBVIOUS
<1> DEFINE plan == Plan(c)
           segment == plan.segments[k]
           groups == IF Suite(c).kind = "gec" THEN GecMembership(Suite(c).blocks)
                     ELSE [i \in DOMAIN SuitePacket(Suite(c)) |-> <<i>>]
<1>1. Usable(c, answers[c][k]) /\ CanReassemble(plan, answers[c])
  BY DEF Terminal, Fails, CellVerified
<1>2. k \in DOMAIN plan.segments /\ segment.ids # <<>> /\ answers[c][k].packet = segment.packet
  BY <1>1 DEF CanReassemble, ValidPlan
<1>3. /\ DOMAIN plan.segments = DOMAIN groups
      /\ segment.ids = groups[k] /\ segment.packet = DerivePacket(SuitePacket(Suite(c)), groups[k])
  <2>1. plan.segments = DeriveSegments(SuitePacket(Suite(c)), Suite(c).kind, Suite(c).blocks)
    BY DEF Plan, SegmentPlan, DerivePlan
  <2>2. plan.segments = [g \in DOMAIN groups |->
                           [ids |-> groups[g], packet |-> DerivePacket(SuitePacket(Suite(c)), groups[g])]]
    BY <2>1 DEF DeriveSegments
  <2> HIDE DEF groups, plan
  <2> QED
    BY <1>2, <2>2
<1>4. groups[k] = [j \in DOMAIN groups[k] |-> groups[k][j]]
  <2>1. CASE Suite(c).kind = "gec"
    <3>1. k \in DOMAIN GecMembership(Suite(c).blocks)
      BY <1>2, <1>3, <2>1
    <3>2. GecMembership(Suite(c).blocks)[k]
             = [j \in DOMAIN GecMembership(Suite(c).blocks)[k] |-> GecMembership(Suite(c).blocks)[k][j]]
      BY <3>1 DEF GecMembership
    <3> QED
      BY <2>1, <3>2
  <2>2. CASE Suite(c).kind # "gec"
    <3>1. groups[k] = <<k>>
      BY <1>2, <1>3, <2>2
    <3> QED
      BY <3>1, OneTuple
  <2> QED
    BY <2>1, <2>2
<1> HIDE DEF groups, segment
<1>5. DOMAIN groups[k] # {}
  <2>1. groups[k] # <<>>
    BY <1>2, <1>3
  <2> QED
    BY <1>4, <2>1, EmptyFunction
<1>6. DOMAIN segment.packet = DOMAIN groups[k]
  BY <1>3 DEF DerivePacket
<1>7. DOMAIN answers[c][k].responses = DOMAIN segment.packet
  BY <1>1, <1>2 DEF Usable, Extractable
<1>8. DOMAIN answers[c][k].responses = {}
  OBVIOUS
<1> QED
  BY <1>5, <1>6, <1>7, <1>8

\* A usable record of a question is what the candidate says to it.
LEMMA UsableIsSaid ==
    ASSUME PlanInv, cells # None, NEW c \in DOMAIN cells, Suite(c).kind # "gec",
           NEW k \in DOMAIN answers[c], k \in DOMAIN Suite(c).exam.items, Told(c, k)
    PROVE  LET item == Suite(c).exam.items[k]
               said == experiment.says[cells[c].condition][item.text]
           IN ~Fails(c, k) => ValidResponse(PacketItem(item), said) /\ answers[c][k].responses[1] = said
<1> DEFINE item == Suite(c).exam.items[k]
           said == experiment.says[cells[c].condition][item.text]
           packet == Plan(c).segments[k].packet
           record == answers[c][k]
           whole == Says(c, packet)
<1>1. packet = [j \in {1} |-> PacketItem(item)]
  <2>1. PICK s \in DOMAIN experiment.suites : Suite(c) = experiment.suites[s]
    BY CellOfPlan DEF Suite
  <2>2. Plan(c) = SegmentPlan(experiment.suites[s], experiment.protocol)
    BY <2>1 DEF Plan
  <2>3. experiment.suites[s].kind # "gec" /\ k \in DOMAIN experiment.suites[s].exam.items
    BY <2>1
  <2>4. SegmentPlan(experiment.suites[s], experiment.protocol).segments[k].packet
           = [j \in {1} |-> PacketItem(experiment.suites[s].exam.items[k])]
    BY <2>3, ExamOfPlan
  <2> QED
    BY <2>1, <2>2, <2>4
<1>2. whole = [j \in {1} |-> said]
  <2>1. PacketItem(item).text = item.text
    BY DEF PacketItem
  <2> QED
    BY <1>1, <2>1 DEF Says
<1>3. /\ record.packet = packet /\ record.responses \in {<<>>, whole, Tail(whole)}
  BY DEF Told, Record
<1> HIDE DEF packet, record, whole
<1>4. DOMAIN Tail(whole) = {}
  <2>1. whole = <<said>>
    BY <1>2, OneTuple
  <2>2. Tail(<<said>>) = <<>>
    OBVIOUS
  <2> QED
    BY <2>1, <2>2
<1>5. ASSUME ~Fails(c, k)
      PROVE  DOMAIN record.responses = {1} /\ ValidResponse(PacketItem(item), record.responses[1])
  <2>1. Extractable(record.packet, record.responses)
    BY <1>5 DEF Fails, Usable, record
  <2> QED
    BY <1>1, <1>3, <2>1 DEF Extractable
<1>6. ASSUME ~Fails(c, k) PROVE record.responses = whole
  <2>1. DOMAIN <<>> = {}
    OBVIOUS
  <2> QED
    BY <1>3, <1>4, <1>5, <1>6, <2>1
<1> QED
  BY <1>2, <1>5, <1>6 DEF record

\* Put together, the answers of an exam are those to its questions.
LEMMA ExamIsReassembled ==
    ASSUME PlanInv, cells # None, NEW c \in DOMAIN cells, Suite(c).kind # "gec", CanReassemble(Plan(c), answers[c])
    PROVE  LET items == Suite(c).exam.items IN
           /\ DOMAIN answers[c] = DOMAIN items
           /\ Reassemble(Plan(c), answers[c]) = [i \in DOMAIN items |-> answers[c][i].responses[1]]
<1> DEFINE items == Suite(c).exam.items
           plan == Plan(c)
           records == answers[c]
<1>1. PICK s \in DOMAIN experiment.suites : Suite(c) = experiment.suites[s]
  BY CellOfPlan DEF Suite
<1>2. /\ DOMAIN plan.segments = DOMAIN items /\ plan.packet = [i \in DOMAIN items |-> PacketItem(items[i])]
      /\ \A i \in DOMAIN items : plan.segments[i].ids = <<i>>
  BY <1>1, ExamOfPlan DEF Plan
<1> HIDE DEF plan, items
<1>3. DOMAIN records = DOMAIN items
  BY <1>2 DEF CanReassemble, plan
<1> DEFINE segment(i) == CHOOSE t \in DOMAIN plan.segments : i \in Range(plan.segments[t].ids)
           place(i, t) == CHOOSE k \in DOMAIN plan.segments[t].ids : plan.segments[t].ids[k] = i
<1>4. ASSUME NEW i \in DOMAIN items
      PROVE  segment(i) = i /\ place(i, i) = 1
  <2>1. \A t : Range(<<t>>) = {t}
    BY DEF Range
  <2>2. ASSUME NEW t \in DOMAIN plan.segments PROVE i \in Range(plan.segments[t].ids) <=> t = i
    <3>1. plan.segments[t].ids = <<t>>
      BY <1>2
    <3> QED
      BY <2>1, <3>1
  <2>3. i \in DOMAIN plan.segments /\ plan.segments[i].ids = <<i>>
    BY <1>2
  <2>4. segment(i) = i
    BY <2>2, <2>3
  <2>5. place(i, i) = 1
    BY <2>3
  <2> QED
    BY <2>4, <2>5
<1>5. Reassemble(plan, records) = [i \in DOMAIN items |-> records[i].responses[1]]
  <2>1. Reassemble(plan, records)
           = [i \in DOMAIN plan.packet |-> records[segment(i)].responses[place(i, segment(i))]]
    BY DEF Reassemble
  <2> HIDE DEF segment, place
  <2> QED
    BY <1>2, <1>4, <2>1
<1> QED
  BY <1>3, <1>5 DEF plan, items

\* The answers under a condition are of the kinds the questions ask for.
Valid(suite, condition) ==
    \A i \in DOMAIN suite.exam.items :
       ValidResponse(PacketItem(suite.exam.items[i]), experiment.says[condition][suite.exam.items[i].text])

\* A run of an exam that has such answers scores what they are worth.
LEMMA RunIsWorth ==
    ASSUME PlanInv, cells # None, NEW s \in DOMAIN experiment.suites, experiment.suites[s].kind # "gec",
           NEW condition \in {"closed-book", "sources"}, Valid(experiment.suites[s], condition),
           NEW run, run.status = "ok",
           DOMAIN run.responses = DOMAIN experiment.suites[s].exam.items,
           \A i \in DOMAIN experiment.suites[s].exam.items :
              run.responses[i] = experiment.says[condition][experiment.suites[s].exam.items[i].text]
    PROVE  ScoreRun(SuitePacket(experiment.suites[s]), SuiteKey(experiment.suites[s]), run).points
              = Worth(experiment.suites[s], condition)
<1> DEFINE suite == experiment.suites[s]
           items == suite.exam.items
           said(i) == experiment.says[condition][items[i].text]
<1>1. /\ SuitePacket(suite) = PrepareExam(suite.exam).packet /\ SuiteKey(suite) = PrepareExam(suite.exam).key
      /\ \A i \in DOMAIN items : items[i].kind # "sentence"
  BY ExamOfPlan DEF SuitePacket, SuiteKey
<1>2. ASSUME NEW i \in DOMAIN items
      PROVE  /\ ValidResponse(PacketItem(items[i]), said(i))
             /\ said(i).type = "text" => said(i) = Text(said(i).value)
  BY AnswerAssumption DEF PlanInv, Valid
<1>3. Worth(suite, condition) = Sum([i \in DOMAIN items |-> Cardinality(Deserved(items[i], said(i)))])
  <2>1. Worth(suite, condition)
           = Sum([i \in DOMAIN items |-> Cardinality(Deserved(items[i], experiment.says[condition][items[i].text]))])
    BY DEF Worth
  <2> QED
    BY <2>1
<1>4. DOMAIN run.responses = DOMAIN items /\ \A i \in DOMAIN items : run.responses[i] = said(i)
  OBVIOUS
<1>5. ScoreRun(PrepareExam(suite.exam).packet, PrepareExam(suite.exam).key, run).points
         = Earnings(suite.exam.items, run.responses)
  <2>1. \A i \in DOMAIN suite.exam.items :
              /\ suite.exam.items[i].kind # "sentence"
              /\ ValidResponse(PacketItem(suite.exam.items[i]), run.responses[i])
              /\ run.responses[i].type = "text" => run.responses[i] = Text(run.responses[i].value)
    BY <1>1, <1>2, <1>4
  <2>2. DOMAIN run.responses = DOMAIN suite.exam.items
    BY <1>4
  <2> HIDE DEF suite
  <2> QED
    BY <2>1, <2>2, ExamIsScored
<1>6. [i \in DOMAIN items |-> Cardinality(Deserved(items[i], run.responses[i]))]
         = [i \in DOMAIN items |-> Cardinality(Deserved(items[i], said(i)))]
  BY <1>4
<1> QED
  BY <1>1, <1>3, <1>5, <1>6 DEF Earnings

\* A verified cell of an exam without a failure scores what its answers are worth.
LEMMA CellIsWorth ==
    ASSUME PlanInv, cells # None, NEW c \in DOMAIN cells, Suite(c).kind # "gec", CellVerified(c), ~Terminal(c),
           \A k \in DOMAIN answers[c] : Told(c, k), NEW works
    PROVE  /\ CellScore(c, works) = Worth(Suite(c), cells[c].condition)
           /\ Valid(Suite(c), cells[c].condition)
<1> DEFINE items == Suite(c).exam.items
           condition == cells[c].condition
<1>1. PICK s \in DOMAIN experiment.suites, r \in DOMAIN experiment.routes :
         /\ Suite(c) = experiment.suites[s] /\ cells[c].route = experiment.routes[r]
         /\ condition \in cells[c].route.conditions
  BY CellOfPlan DEF Suite
<1>2. condition \in {"closed-book", "sources"}
  BY <1>1 DEF PlanInv, Plannable, NormalInputs, NormalRoute
<1>3. /\ DOMAIN answers[c] = DOMAIN items
      /\ Reassemble(Plan(c), answers[c]) = [i \in DOMAIN items |-> answers[c][i].responses[1]]
  <2>1. CanReassemble(Plan(c), answers[c])
    BY DEF CellVerified
  <2> QED
    BY <2>1, ExamIsReassembled
<1>4. ASSUME NEW i \in DOMAIN items
      PROVE  /\ ValidResponse(PacketItem(items[i]), experiment.says[condition][items[i].text])
             /\ answers[c][i].responses[1] = experiment.says[condition][items[i].text]
  <2>1. i \in DOMAIN answers[c] /\ ~Fails(c, i) /\ Told(c, i)
    BY <1>3 DEF Terminal
  <2> QED
    BY <2>1, UsableIsSaid
<1>5. Valid(Suite(c), condition)
  BY <1>4 DEF Valid
<1>6. /\ RunOf(c).status = "ok"
      /\ RunOf(c).responses = [i \in DOMAIN items |-> experiment.says[condition][items[i].text]]
  <2>1. RunOf(c).status = "ok" /\ RunOf(c).responses = Reassemble(Plan(c), answers[c])
    BY DEF RunOf
  <2> QED
    BY <1>3, <1>4, <2>1
<1>7. ScoreRun(SuitePacket(Suite(c)), SuiteKey(Suite(c)), RunOf(c)).points = Worth(Suite(c), condition)
  <2>1. experiment.suites[s].kind # "gec" /\ Valid(experiment.suites[s], condition)
    BY <1>1, <1>5
  <2>2. /\ DOMAIN RunOf(c).responses = DOMAIN experiment.suites[s].exam.items
        /\ \A i \in DOMAIN experiment.suites[s].exam.items :
              RunOf(c).responses[i] = experiment.says[condition][experiment.suites[s].exam.items[i].text]
    BY <1>1, <1>6
  <2>3. ScoreRun(SuitePacket(experiment.suites[s]), SuiteKey(experiment.suites[s]), RunOf(c)).points
           = Worth(experiment.suites[s], condition)
    BY <1>2, <1>6, <2>1, <2>2, RunIsWorth
  <2> QED
    BY <1>1, <2>3
<1>8. CellScore(c, works) = ScoreRun(SuitePacket(Suite(c)), SuiteKey(Suite(c)), RunOf(c)).points
  BY DEF CellScore
<1> QED
  BY <1>5, <1>7, <1>8

\* A score of a series is what the answers under its condition are worth.
LEMMA SeriesIsWorth ==
    ASSUME NEW scores,
           \A c \in DOMAIN cells : Suite(c).kind # "gec" /\ scores[c] # None =>
              scores[c] = Worth(Suite(c), cells[c].condition) /\ Valid(Suite(c), cells[c].condition),
           NEW suite, suite.kind # "gec", NEW route, NEW condition,
           Whole(Series(scores, suite, route, condition)), NEW p \in 1..Primary
    PROVE  Series(scores, suite, route, condition)[p] = Worth(suite, condition) /\ Valid(suite, condition)
<1> DEFINE own == {c \in DOMAIN cells : OfSeries(c, suite, route, condition) /\ scores[c] # None}
           chosen == CHOOSE c \in own : cells[c].repeat = p
<1>1. Series(scores, suite, route, condition)
         = [q \in {cells[c].repeat : c \in own} |-> scores[CHOOSE c \in own : cells[c].repeat = q]]
  BY DEF Series
<1>2. p \in {cells[c].repeat : c \in own}
  BY <1>1 DEF Whole
<1>3. Series(scores, suite, route, condition)[p] = scores[chosen]
  BY <1>1, <1>2
<1>4. chosen \in own
  BY <1>2
<1> HIDE DEF chosen
<1>5. chosen \in DOMAIN cells /\ Suite(chosen) = suite /\ cells[chosen].condition = condition /\ scores[chosen] # None
  BY <1>4 DEF OfSeries, Suite
<1> QED
  BY <1>3, <1>5

\* The delta of an exam whose answers are valid is the difference of their worth.
LEMMA PairIsWorth ==
    ASSUME PlanInv, cells # None, NEW s \in DOMAIN experiment.suites, experiment.suites[s].kind # "gec",
           Valid(experiment.suites[s], "closed-book"), Valid(experiment.suites[s], "sources")
    PROVE  LET suite == experiment.suites[s] IN
           CompareRuns(SuitePacket(suite), SuiteKey(suite),
                       Unsegmented(suite, "closed-book"), Unsegmented(suite, "sources")).delta
              = Worth(suite, "sources") - Worth(suite, "closed-book")
<1> DEFINE suite == experiment.suites[s]
           items == suite.exam.items
           packet == SuitePacket(suite)
           points(condition) == ScoreRun(packet, SuiteKey(suite), Unsegmented(suite, condition)).points
<1>1. ASSUME NEW condition \in {"closed-book", "sources"}
      PROVE  points(condition) = Worth(suite, condition)
  <2> DEFINE run == Unsegmented(suite, condition)
  <2>1. packet = [i \in DOMAIN items |-> PacketItem(items[i])]
    BY ExamOfPlan
  <2>2. ASSUME NEW i \in DOMAIN items PROVE i \in DOMAIN packet /\ packet[i].text = items[i].text
    <3>1. i \in DOMAIN packet /\ packet[i] = PacketItem(items[i])
      BY <2>1
    <3>2. PacketItem(items[i]).text = items[i].text
      BY DEF PacketItem
    <3> QED
      BY <3>1, <3>2
  <2>3. run.status = "ok" /\ run.responses = [i \in DOMAIN packet |-> experiment.says[condition][packet[i].text]]
    BY DEF Unsegmented
  <2>4. DOMAIN packet = DOMAIN items
    BY <2>1
  <2> HIDE DEF packet, run
  <2>5. DOMAIN run.responses = DOMAIN items
    BY <2>3, <2>4
  <2>6. \A i \in DOMAIN items : run.responses[i] = experiment.says[condition][items[i].text]
    BY <2>2, <2>3
  <2>7. Valid(suite, condition)
    OBVIOUS
  <2>8. ScoreRun(SuitePacket(suite), SuiteKey(suite), run).points = Worth(suite, condition)
    BY <2>3, <2>5, <2>6, <2>7, RunIsWorth
  <2> QED
    BY <2>8 DEF packet, run
<1>2. CompareRuns(packet, SuiteKey(suite), Unsegmented(suite, "closed-book"), Unsegmented(suite, "sources")).delta
         = points("sources") - points("closed-book")
  <2> HIDE DEF packet, suite
  <2> QED
    BY DEF CompareRuns
<1> QED
  BY <1>1, <1>2

\* What is published is earned.
LEMMA PublishedIsEarned ==
    ASSUME ReadinessInv, AnswersInv, ReportInv
    PROVE  ExamsAreEarned
<1> SUFFICES ASSUME Scores PROVE ExamsAreEarned
  BY DEF ExamsAreEarned
<1>1. cells # None /\ next[1] = "done" /\ PlanInv
  BY DEF Scores, ReportInv, ReadinessInv, Refused
<1>2. PICK works : report = Published(works)
  BY DEF Scores, ReportInv, Refused
<1> DEFINE scores == [c \in DOMAIN cells |-> CellScore(c, works)]
           of(s, r, condition) == Series(scores, experiment.suites[s], experiment.routes[r], condition)
           pairs == (DOMAIN experiment.suites) \X (DOMAIN experiment.routes)
<1>3. report = Summaries(scores)
  BY <1>2 DEF Published
<1> HIDE DEF scores
<1>4. report.scores = scores
  BY <1>3 DEF Summaries
<1>5. \A d \in report.deltas :
         \E s \in DOMAIN experiment.suites, r \in DOMAIN experiment.routes :
            /\ Whole(of(s, r, "sources")) /\ Whole(of(s, r, "closed-book"))
            /\ d = <<<<s, r>>, [p \in 1..Primary |-> of(s, r, "sources")[p] - of(s, r, "closed-book")[p]]>>
  BY <1>3 DEF Summaries
<1>6. \A c \in DOMAIN cells : CellVerified(c) /\ \A k \in DOMAIN answers[c] : Told(c, k)
  BY <1>1, PastIsVerified DEF Past, ReportInv
<1>7. ASSUME NEW c \in DOMAIN cells, Suite(c).kind # "gec"
      PROVE  /\ scores[c] = IF Terminal(c) THEN None ELSE Worth(Suite(c), cells[c].condition)
             /\ ~Terminal(c) => Valid(Suite(c), cells[c].condition)
  <2>1. scores[c] = CellScore(c, works)
    BY DEF scores
  <2>2. CASE Terminal(c)
    BY <2>1, <2>2 DEF CellScore
  <2>3. CASE ~Terminal(c)
    BY <1>1, <1>6, <1>7, <2>1, <2>3, CellIsWorth
  <2> QED
    BY <2>2, <2>3
<1>8. ASSUME NEW c \in DOMAIN cells, NEW k \in DOMAIN answers[c], answers[c][k].responses = <<>>
      PROVE  scores[c] = None
  <2>1. Terminal(c)
    BY <1>1, <1>6, <1>8, FaultFails
  <2> QED
    BY <2>1 DEF scores, CellScore
<1>9. ASSUME NEW d \in report.deltas,
             LET suite == experiment.suites[d[1][1]] IN suite.kind # "gec"
      PROVE  LET suite == experiment.suites[d[1][1]]
                 packet == SuitePacket(suite)
                 control == Unsegmented(suite, "closed-book")
                 treatment == Unsegmented(suite, "sources")
             IN /\ ValidKey(packet, SuiteKey(suite)) /\ Comparable(packet, control, treatment)
                /\ \A p \in 1..Primary : d[2][p] = CompareRuns(packet, SuiteKey(suite), control, treatment).delta
  <2>1. PICK s \in DOMAIN experiment.suites, r \in DOMAIN experiment.routes :
            /\ Whole(of(s, r, "sources")) /\ Whole(of(s, r, "closed-book"))
            /\ d = <<<<s, r>>, [p \in 1..Primary |-> of(s, r, "sources")[p] - of(s, r, "closed-book")[p]]>>
    BY <1>5
  <2> DEFINE suite == experiment.suites[s]
             control == Unsegmented(suite, "closed-book")
             treatment == Unsegmented(suite, "sources")
  <2>2. d[1][1] = s /\ suite.kind # "gec"
    BY <1>9, <2>1
  <2>3. ValidKey(SuitePacket(suite), SuiteKey(suite))
    BY <1>1, <2>2, ExamOfPlan
  <2>4. Comparable(SuitePacket(suite), control, treatment)
    <3> HIDE DEF suite
    <3> QED
      BY DEF Comparable, ValidRun, Unsegmented
  <2>5. ASSUME NEW p \in 1..Primary
        PROVE  d[2][p] = CompareRuns(SuitePacket(suite), SuiteKey(suite), control, treatment).delta
    <3>1. \A c \in DOMAIN cells : Suite(c).kind # "gec" /\ scores[c] # None =>
             scores[c] = Worth(Suite(c), cells[c].condition) /\ Valid(Suite(c), cells[c].condition)
      BY <1>7
    <3>2. /\ of(s, r, "sources")[p] = Worth(suite, "sources") /\ Valid(suite, "sources")
          /\ of(s, r, "closed-book")[p] = Worth(suite, "closed-book") /\ Valid(suite, "closed-book")
      BY <2>1, <2>2, <3>1, SeriesIsWorth
    <3>3. d[2][p] = of(s, r, "sources")[p] - of(s, r, "closed-book")[p]
      BY <2>1
    <3>4. CompareRuns(SuitePacket(suite), SuiteKey(suite), control, treatment).delta
             = Worth(suite, "sources") - Worth(suite, "closed-book")
      BY <1>1, <2>2, <3>2, PairIsWorth
    <3> QED
      BY <3>2, <3>3, <3>4
  <2> QED
    BY <2>2, <2>3, <2>4, <2>5
<1> QED
  BY <1>4, <1>7, <1>8, <1>9 DEF ExamsAreEarned

\* What is filed of a segment is a matter of the plan.
LEMMA RecordStays ==
    ASSUME UNCHANGED <<experiment, cells>>
    PROVE  \A c, s, status, responses : Record(c, s, status, responses)' = Record(c, s, status, responses)
<1>1. \A c : Plan(c)' = Plan(c) /\ Suite(c)' = Suite(c)
  BY DEF Plan, Suite
<1>2. \A c, s : SegmentRequest(c, s)' = SegmentRequest(c, s)
  BY <1>1 DEF SegmentRequest
<1>3. \A c, s : SegmentClaims(c, s)' = SegmentClaims(c, s)
  BY <1>2 DEF SegmentClaims
<1>4. \A c, status : BudgetStatus(c, status)' = BudgetStatus(c, status)
  BY DEF BudgetStatus
<1> QED
  BY <1>1, <1>2, <1>3, <1>4 DEF Record

\* What is published stays while the cells and their answers stay.
LEMMA PublishedStays ==
    ASSUME UNCHANGED <<experiment, cells, answers>>
    PROVE  /\ \A works : Published(works)' = Published(works)
           /\ \A c, k : Told(c, k)' <=> Told(c, k)
<1>1. \A c : Plan(c)' = Plan(c) /\ Suite(c)' = Suite(c) /\ (Terminal(c)' <=> Terminal(c))
  BY FilingStays DEF Suite
<1>2. \A c : RunOf(c)' = RunOf(c)
  BY <1>1 DEF RunOf
<1>3. \A c, works : CellScore(c, works)' = CellScore(c, works)
  <2> SUFFICES ASSUME NEW c, NEW works PROVE CellScore(c, works)' = CellScore(c, works)
    OBVIOUS
  <2>1. CASE Terminal(c)
    BY <1>1, <2>1 DEF CellScore
  <2>2. CASE ~Terminal(c)
    BY <1>1, <1>2, <2>2 DEF CellScore
  <2> QED
    BY <2>1, <2>2
<1>4. ASSUME NEW scores PROVE Summaries(scores)' = Summaries(scores)
  BY DEF Summaries, Whole, Series, OfSeries
<1>5. ASSUME NEW works PROVE Published(works)' = Published(works)
  <2>1. [c \in DOMAIN cells |-> CellScore(c, works)]' = [c \in DOMAIN cells |-> CellScore(c, works)]
    BY <1>3
  <2> QED
    BY <1>4, <2>1 DEF Published
<1>6. \A c, packet : Says(c, packet)' = Says(c, packet)
  BY DEF Says
<1>7. \A c, s, status, responses : Record(c, s, status, responses)' = Record(c, s, status, responses)
  BY RecordStays
<1>8. \A c, k : Told(c, k)' <=> Told(c, k)
  BY <1>1, <1>6, <1>7 DEF Told
<1> QED
  BY <1>5, <1>8

\* An answer adds what the candidate says to the segment, or a fault.
LEMMA AnswerIsTold ==
    ASSUME ReadinessInv, AnswersInv, ReportInv, cells # None, Execute, Answer
    PROVE  \A c \in DOMAIN cells : \A k \in DOMAIN answers'[c] : Told(c, k)'
<1>1. UNCHANGED <<experiment, cells>>
  BY DEF Execute
<1>2. next[1] = "answer" /\ next[2] \in DOMAIN cells /\ next[3] \in Nat
  BY DEF ReadinessInv, RootInv, Answer, Working
<1>3. PICK d \in DOMAIN cells, s \in Nat : d = next[2] /\ s = next[3]
  BY <1>2
<1> DEFINE said == Says(d, Plan(d).segments[s].packet)
           told == {Record(d, s, "ok", said), Record(d, s, "failed", <<>>), Record(d, s, "ok", Tail(said))}
<1>4. PICK r \in told : answers' = [answers EXCEPT ![d] = Append(@, r)]
  BY <1>3 DEF Answer
<1>5. /\ answers = [c \in DOMAIN cells |-> answers[c]]
      /\ answers[d] \in Seq(Range(answers[d])) /\ Len(answers[d]) = s - 1
  BY <1>2, <1>3 DEF AnswersInv, Filed, Answered, Here, Starting
<1>6. /\ answers'[d] = Append(answers[d], r)
      /\ \A c \in DOMAIN cells : c # d => answers'[c] = answers[c]
  BY <1>4, <1>5
<1>7. /\ \A c : Plan(c)' = Plan(c)
      /\ \A c, packet : Says(c, packet)' = Says(c, packet)
  BY <1>1, FilingStays DEF Says
<1>8. \A c, k, status, responses : Record(c, k, status, responses)' = Record(c, k, status, responses)
  BY <1>1, RecordStays
<1>9. \A c, k : answers'[c][k] = answers[c][k] => (Told(c, k)' <=> Told(c, k))
  BY <1>7, <1>8 DEF Told
<1>10. \A c \in DOMAIN cells : \A k \in DOMAIN answers[c] : Told(c, k)
  BY DEF ReportInv
<1>11. ASSUME NEW c \in DOMAIN cells, NEW k \in DOMAIN answers'[c], c # d PROVE Told(c, k)'
  BY <1>6, <1>9, <1>10, <1>11
<1>12. ASSUME NEW k \in DOMAIN answers'[d] PROVE Told(d, k)'
  <2>1. LET t == answers'[d] IN
        /\ DOMAIN t = 1..(Len(answers[d]) + 1) /\ DOMAIN answers[d] = 1..Len(answers[d])
        /\ \A j \in DOMAIN answers[d] : t[j] = answers[d][j]
        /\ t[Len(answers[d]) + 1] = r
    BY <1>5, <1>6, Appended
  <2>2. DOMAIN answers'[d] = 1..s /\ DOMAIN answers[d] = 1..(s - 1) /\ answers'[d][s] = r
    BY <1>3, <1>5, <2>1
  <2>3. CASE k = s
    <3>1. answers'[d][s] \in told
      BY <2>2
    <3> QED
      BY <1>7, <1>8, <2>3, <3>1 DEF Told
  <2>4. CASE k # s
    <3>1. k \in DOMAIN answers[d]
      BY <1>3, <2>2, <2>4
    <3>2. answers'[d][k] = answers[d][k]
      BY <2>1, <3>1
    <3> QED
      BY <1>9, <1>10, <3>1, <3>2
  <2> QED
    BY <2>3, <2>4
<1> QED
  BY <1>11, <1>12

\* Once published, nothing changes what was published.
LEMMA ReportKept ==
    ASSUME ReadinessInv, AnswersInv, ReportInv, [SealedNext]_sealedVars
    PROVE  ReportInv'
<1>1. CASE cells # None /\ Execute
  <2>1. UNCHANGED <<experiment, cells, report>>
    BY <1>1 DEF Execute, scoring
  <2>2. report # None => UNCHANGED <<answers, next>>
    BY <1>1 DEF ReportInv, Execute, Begin, StartSegment, StopForBudget, StopForAdmission, WriteStop, Resume, Answer,
                Stage, Publish, Seal, Manifest, Others
  <2>3. \A c \in DOMAIN cells : \A k \in DOMAIN answers'[c] : Told(c, k)'
    <3>1. CASE Answer
      BY <1>1, <3>1, AnswerIsTold
    <3>2. CASE ~Answer
      <4>1. UNCHANGED answers
        BY <1>1, <3>2 DEF Execute, Begin, StartSegment, StopForBudget, StopForAdmission, WriteStop, Resume, Stage,
                          Publish, Seal, Manifest, Others
      <4> QED
        BY <1>1, <2>1, <4>1, PublishedStays DEF ReportInv
    <3> QED
      BY <3>1, <3>2
  <2> QED
    BY <1>1, <2>1, <2>2, <2>3, PublishedStays DEF ReportInv, Refused
<1>2. CASE UNCHANGED <<experiment, cells, execution>>
  <2>1. UNCHANGED <<experiment, cells, answers, next>>
    BY <1>2 DEF execution
  <2>2. \/ report' = report
        \/ /\ cells # None /\ next[1] \in {"done", "stopped"}
           /\ report' = Refused \/ (next[1] = "done" /\ \E works : report' = Published(works))
    <3>1. CASE cells # None /\ (Score \/ RefuseToScore)
      BY <3>1 DEF Score, RefuseToScore, Published
    <3>2. CASE report' = report
      BY <3>2
    <3>3. Observe => report' = report
      BY DEF Observe, scoring
    <3>4. Execute => report' = report
      BY DEF Execute, scoring
    <3> QED
      BY <3>1, <3>2, <3>3, <3>4 DEF SealedNext, sealedVars, scoring
  <2>3. cells # None => \A c \in DOMAIN cells : \A k \in DOMAIN answers[c] : Told(c, k)'
    BY <2>1, PublishedStays DEF ReportInv
  <2>4. \A works : Published(works)' = Published(works)
    BY <2>1, PublishedStays
  <2> QED
    BY <2>1, <2>2, <2>3, <2>4 DEF ReportInv, Refused
<1> QED
  BY <1>1, <1>2 DEF SealedNext, Observe, Score, RefuseToScore, sealedVars

\* What a published report says of an exam is earned, for every set of
\* experiments: preparation, segmentation, reassembly and scoring together
\* lose and change nothing of what the candidates answered.
THEOREM ExamScoresAreEarned == SealedSpec => []ExamsAreEarned
<1>1. SealedInit => ReportInv
  BY DEF SealedInit, ReportInv
<1>2. ReportInv /\ ReadinessInv /\ AnswersInv /\ [SealedNext]_sealedVars => ReportInv'
  BY ReportKept
<1>3. ReportInv /\ ReadinessInv /\ AnswersInv => ExamsAreEarned
  BY PublishedIsEarned
<1> QED
  BY <1>1, <1>2, <1>3, AnswersSafe, ReadinessSafe, PTL DEF SealedSpec

-----------------------------------------------------------------------------
(* The admission probe. *)

USE CommandAssumption, NothingAssumption

Places == {"idle", "shape", "load", "snapshot", "spawn", "poll", "kill", "reap", "join", "cleanup", "done", "raised"}
Unspawned == {"idle", "shape", "load", "snapshot", "spawn"}
Killed == {"reap", "join", "cleanup", "done", "raised"}
Codes == {None, 0, 1, 9}

Process == [state : {"none", "alive", "gone"}, grouped : BOOLEAN, holds : BOOLEAN, killed : BOOLEAN]

ProcessType ==
    /\ pc \in Places /\ asked \in BOOLEAN
    /\ proc \in [Procs -> Process]
    /\ code \in Codes /\ returned \in Codes

\* The child leads its group and holds the pipes; before it is spawned there is
\* nobody, and after the kill nobody of the group goes on.
GroupInv ==
    /\ pc \in Unspawned => \A p \in Procs : proc[p] = Absent
    /\ Alive("child") => proc["child"].grouped /\ proc["child"].holds
    /\ pc \in Killed => \A p \in Procs : ~(Active(p) /\ proc[p].grouped)

\* The caller and its processes keep their types.
LEMMA ProcessTypeStep == ProcessType /\ [CommandNext]_commandVars => ProcessType'
<1> SUFFICES ASSUME ProcessType, [CommandNext]_commandVars PROVE ProcessType'
  OBVIOUS
<1> USE DEF ProcessType, Places, Codes, Process, Procs
<1>1. ASSUME NEW f \in Files, Change(f) PROVE ProcessType'
  BY <1>1 DEF Change, processes, caller
<1>2. CASE ValidateShape
  BY <1>2 DEF ValidateShape, Goto, Return, processes
<1>3. ASSUME NEW f \in Files, ReadVerified(f) PROVE ProcessType'
  BY <1>3 DEF ReadVerified, Return, processes, caller
<1>4. CASE CheckRequest
  BY <1>4 DEF CheckRequest, Goto, Return, processes
<1>5. CASE Snapshot
  BY <1>5 DEF Snapshot, Goto, Return, processes
<1>6. CASE Spawn
  <2>1. [state |-> "alive", grouped |-> TRUE, holds |-> TRUE, killed |-> FALSE] \in Process
    OBVIOUS
  <2>2. pc' \in Places /\ UNCHANGED <<asked, code, returned>>
    BY <1>6 DEF Spawn, Goto, Return
  <2>3. proc' \in [Procs -> Process]
    <3>1. \/ proc' = [proc EXCEPT !["child"] = [state |-> "alive", grouped |-> TRUE, holds |-> TRUE, killed |-> FALSE]]
          \/ proc' = proc
      BY <1>6 DEF Spawn
    <3> QED
      BY <2>1, <3>1, ZenonT(30)
  <2> QED
    BY <2>2, <2>3
<1>7. ASSUME NEW p \in Procs, NEW s \in Streams, Emit(p, s) PROVE ProcessType'
  BY <1>7 DEF Emit, caller
<1>8. ASSUME NEW d \in Descendants, Fork(d[1], d[2]) PROVE ProcessType'
  <2>1. d[1] \in BOOLEAN /\ d[2] \in BOOLEAN
    OBVIOUS
  <2> QED
    BY <1>8, <2>1 DEF Fork, caller
<1>9. CASE ReadInput
  BY <1>9 DEF ReadInput, caller
<1>10. ASSUME NEW p \in Procs, Exit(p) PROVE ProcessType'
  BY <1>10 DEF Exit, caller
<1>11. ASSUME NEW s \in Streams, ReadChunk(s) \/ EndOfFile(s) \/ ReadFails(s) PROVE ProcessType'
  BY <1>11 DEF ReadChunk, EndOfFile, ReadFails, processes, caller
<1>12. CASE WriteStdin \/ Tick
  BY <1>12 DEF WriteStdin, Tick, processes, caller
<1>13. CASE Poll
  BY <1>13 DEF Poll, Stop, processes
<1>14. CASE Kill
  BY <1>14 DEF Kill, KillProcessGroup, KillGroup, Alive, Goto
<1>15. CASE Reap
  BY <1>15 DEF Reap, processes
<1>16. CASE JoinAndJudge
  BY <1>16 DEF JoinAndJudge, processes
<1>17. CASE Cleanup \/ Interrupt
  BY <1>17 DEF Cleanup, Interrupt, KillGroup, Alive, Goto, Return
<1>18. CASE UNCHANGED commandVars
  BY <1>18 DEF commandVars, processes, caller
<1> QED
  BY <1>1, <1>2, <1>3, <1>4, <1>5, <1>6, <1>7, <1>8, <1>9, <1>10, <1>11, <1>12, <1>13, <1>14,
     <1>15, <1>16, <1>17, <1>18
     DEF CommandNext, CommandMain, CommandThreads, CommandOthers

\* The group is empty before the spawn, and dead after the kill.
LEMMA GroupStep == ProcessType /\ GroupInv /\ [CommandNext]_commandVars => GroupInv'
<1> SUFFICES ASSUME ProcessType, GroupInv, [CommandNext]_commandVars PROVE GroupInv'
  OBVIOUS
<1> USE DEF ProcessType, Process, Procs, GroupInv, Unspawned, Killed, Alive, Active
<1>1. ASSUME NEW f \in Files, Change(f) PROVE GroupInv'
  BY <1>1 DEF Change, processes, caller
<1>2. CASE ValidateShape
  BY <1>2 DEF ValidateShape, Goto, Return, processes, Absent
<1>3. ASSUME NEW f \in Files, ReadVerified(f) PROVE GroupInv'
  BY <1>3 DEF ReadVerified, Return, processes, caller, Absent
<1>4. CASE CheckRequest
  BY <1>4 DEF CheckRequest, Goto, Return, processes, Absent
<1>5. CASE Snapshot
  BY <1>5 DEF Snapshot, Goto, Return, processes, Absent
<1>6. CASE Spawn
  BY <1>6 DEF Spawn, Goto, Return, Absent
<1>7. ASSUME NEW p \in Procs, NEW s \in Streams, Emit(p, s) PROVE GroupInv'
  BY <1>7 DEF Emit, caller
<1>8. ASSUME NEW d \in Descendants, Fork(d[1], d[2]) PROVE GroupInv'
  <2>1. pc \notin Unspawned /\ pc \notin Killed
    BY <1>8 DEF Fork, Absent
  <2>2. proc'["child"] = proc["child"]
    BY <1>8 DEF Fork
  <2> QED
    BY <1>8, <2>1, <2>2 DEF Fork, caller
<1>9. CASE ReadInput
  BY <1>9 DEF ReadInput, caller
<1>10. ASSUME NEW p \in Procs, Exit(p) PROVE GroupInv'
  BY <1>10 DEF Exit, caller, Absent
<1>11. ASSUME NEW s \in Streams, ReadChunk(s) \/ EndOfFile(s) \/ ReadFails(s) PROVE GroupInv'
  BY <1>11 DEF ReadChunk, EndOfFile, ReadFails, processes, caller
<1>12. CASE WriteStdin \/ Tick
  BY <1>12 DEF WriteStdin, Tick, processes, caller
<1>13. CASE Poll
  BY <1>13 DEF Poll, Stop, processes
<1>14. CASE Kill
  BY <1>14 DEF Kill, KillProcessGroup, KillGroup, Goto
<1>15. CASE Reap
  BY <1>15 DEF Reap, processes
<1>16. CASE JoinAndJudge
  BY <1>16 DEF JoinAndJudge, processes
<1>17. CASE Cleanup \/ Interrupt
  BY <1>17 DEF Cleanup, Interrupt, KillGroup, Goto, Return
<1>18. CASE UNCHANGED commandVars
  BY <1>18 DEF commandVars, processes, caller
<1> QED
  BY <1>1, <1>2, <1>3, <1>4, <1>5, <1>6, <1>7, <1>8, <1>9, <1>10, <1>11, <1>12, <1>13, <1>14,
     <1>15, <1>16, <1>17, <1>18
     DEF CommandNext, CommandMain, CommandThreads, CommandOthers

\* What surrounds the command moves it only from "idle".
LEMMA ProbeStep ==
    [Next]_vars => [CommandNext]_commandVars \/ Identify
BY DEF Next, vars, RecordProcess, Judge, Recover

-----------------------------------------------------------------------------
\* Whoever gets a verdict on a probe, or an exception, leaves nobody of the
\* child's group running, whatever the child forked and whenever it exited.
THEOREM NobodySurvives == Spec => []NoSurvivors
<1> DEFINE Inv == ProcessType /\ GroupInv
<1>1. Init => Inv
  <2> SUFFICES ASSUME Init PROVE Inv
    OBVIOUS
  <2>1. Absent \in Process
    BY DEF Absent, Process
  <2>2. ProcessType
    BY <2>1 DEF Init, CommandInit, ProcessType, Places, Codes
  <2>3. GroupInv
    BY DEF Init, CommandInit, GroupInv, Unspawned, Killed, Procs, Alive, Absent
  <2> QED
    BY <2>2, <2>3
<1>2. Inv /\ [Next]_vars => Inv'
  <2> SUFFICES ASSUME Inv, [Next]_vars PROVE Inv'
    OBVIOUS
  <2>1. CASE [CommandNext]_commandVars
    BY <2>1, ProcessTypeStep, GroupStep
  <2>2. CASE Identify
    BY <2>2 DEF Identify, processes, Inv, ProcessType, Places, GroupInv, Unspawned, Killed, Active, Alive, Absent
  <2> QED
    BY <2>1, <2>2, ProbeStep
<1>3. Inv => NoSurvivors
  BY DEF Inv, GroupInv, NoSurvivors, Killed
<1> QED
  BY <1>1, <1>2, <1>3, PTL DEF Spec

-----------------------------------------------------------------------------
Reader == [at : {"idle", "read", "ended"}, count : Nat, kept : Nat, failed : BOOLEAN]

CaptureType ==
    /\ pipe \in [Streams -> Nat] /\ written \in [Streams -> Nat]
    /\ capture \in [Streams -> Reader]
    /\ overflow \in BOOLEAN

\* A thread has counted what left its pipe and kept it while it fits; if it has
\* ended without an error, its pipe is empty for good.
CaptureInv ==
    \A s \in Streams :
       /\ capture[s].count + pipe[s] = written[s]
       /\ capture[s].kept = IF capture[s].count <= Limit THEN capture[s].count ELSE 0
       /\ capture[s].failed \/ capture[s].count > Limit => overflow
       /\ capture[s].at = "ended" /\ ~capture[s].failed => pipe[s] = 0 /\ ~Held
       /\ pc \in Unspawned => capture[s] = Idle /\ pipe[s] = 0

\* The caller learns the exit status of a child that has gone.
ReapInv ==
    /\ returned # None => proc["child"].state = "gone" /\ returned = code
    /\ pc \in Unspawned => returned = None
    /\ terminal \in {None, "output_overflow", "timeout", "cleanup_failed"}

Exact == {"success", "nonzero_exit", "timeout", "output_overflow"}

ResultInv ==
    pc \in {"cleanup", "done"} /\ result.status \in Exact =>
       /\ ~Held /\ result.count = written
       /\ result.status = "success" =>
             /\ result.stdout = written["out"] /\ code = 0 /\ proc["child"].state = "gone"
             /\ \A s \in Streams : written[s] <= Limit

\* Once nobody holds the pipes, nobody will: only a holder has a child.
LEMMA HeldStays ==
    ASSUME ProcessType, GroupInv, [CommandNext]_commandVars, pc \notin Unspawned, ~Held
    PROVE  ~Held'
<1> USE DEF ProcessType, Process, Procs, GroupInv, Held, Alive
<1>1. ASSUME NEW d \in Descendants, Fork(d[1], d[2]) PROVE FALSE
  BY <1>1 DEF Fork, Active
<1>2. ASSUME NEW p \in Procs, Exit(p) PROVE ~Held'
  BY <1>2 DEF Exit
<1>3. CASE Kill \/ Cleanup \/ Interrupt
  BY <1>3 DEF Kill, KillProcessGroup, KillGroup, Cleanup, Interrupt
<1>4. CASE UNCHANGED proc
  BY <1>4
<1> QED
  BY <1>1, <1>2, <1>3, <1>4
     DEF CommandNext, CommandMain, CommandThreads, CommandOthers, commandVars, processes, Unspawned, Change, Emit,
         ReadInput, ReadFails, ReadChunk, EndOfFile, WriteStdin, Tick, ValidateShape, ReadVerified, CheckRequest,
         Snapshot, Spawn, Poll, Reap, JoinAndJudge

\* The pipes and their readers keep their types.
LEMMA CaptureTypeStep == CaptureType /\ [CommandNext]_commandVars => CaptureType'
<1> SUFFICES ASSUME CaptureType, [CommandNext]_commandVars PROVE CaptureType'
  OBVIOUS
<1> USE DEF CaptureType, Reader
<1>1. CASE UNCHANGED <<pipe, written, capture, overflow>>
  BY <1>1
<1>2. CASE Spawn
  <2>1. capture' = [s \in Streams |-> [Idle EXCEPT !.at = "read"]] \/ capture' = capture
    BY <1>2 DEF Spawn
  <2>2. [Idle EXCEPT !.at = "read"] \in Reader
    BY DEF Idle
  <2> QED
    BY <1>2, <2>1, <2>2 DEF Spawn
<1>3. ASSUME NEW p \in Procs, NEW s \in Streams, Emit(p, s) PROVE CaptureType'
  BY <1>3 DEF Emit, threads
<1>4. ASSUME NEW s \in Streams, ReadChunk(s) PROVE CaptureType'
  <2>1. PICK n \in 1..pipe[s] :
          LET count == capture[s].count + n IN
          /\ pipe' = [pipe EXCEPT ![s] = @ - n]
          /\ capture' = [capture EXCEPT ![s].count = count, ![s].kept = IF count <= Limit THEN @ + n ELSE 0]
          /\ overflow' = (overflow \/ count > Limit)
    BY <1>4 DEF ReadChunk
  <2> DEFINE step == [capture[s] EXCEPT !.count = capture[s].count + n,
                                        !.kept = IF capture[s].count + n <= Limit THEN capture[s].kept + n ELSE 0]
  <2>2. n \in Nat /\ pipe[s] \in Nat /\ pipe[s] - n \in Nat
    OBVIOUS
  <2>3. step \in Reader
    <3> DEFINE kept == IF capture[s].count + n <= Limit THEN capture[s].kept + n ELSE 0
    <3>1. capture[s] \in Reader /\ capture[s].count + n \in Nat /\ kept \in Nat
      BY <2>2
    <3> HIDE DEF kept
    <3>2. \A r \in Reader, c, k \in Nat : [r EXCEPT !.count = c, !.kept = k] \in Reader
      OBVIOUS
    <3> QED
      BY <3>1, <3>2 DEF kept
  <2>4. capture' = [capture EXCEPT ![s] = step]
    BY <2>1
  <2>5. overflow' \in BOOLEAN
    BY <2>1
  <2>6. pipe' \in [Streams -> Nat] /\ capture' \in [Streams -> Reader]
    BY <2>1, <2>2, <2>3, <2>4
  <2> QED
    BY <1>4, <2>5, <2>6 DEF ReadChunk
<1>5. ASSUME NEW s \in Streams, EndOfFile(s) PROVE CaptureType'
  BY <1>5 DEF EndOfFile, processes
<1>6. ASSUME NEW s \in Streams, ReadFails(s) PROVE CaptureType'
  BY <1>6, ZenonT(30) DEF ReadFails, processes
<1> QED
  BY <1>1, <1>2, <1>3, <1>4, <1>5, <1>6
     DEF CommandNext, CommandMain, CommandThreads, CommandOthers, commandVars, processes, threads, Change,
         Fork, ReadInput, Exit, WriteStdin, Tick, ValidateShape, ReadVerified, CheckRequest,
         Snapshot, Poll, Kill, Reap, JoinAndJudge, Cleanup, Interrupt

\* A reader has counted what has left its pipe, and ends only when no more can come.
LEMMA CaptureStep ==
    ProcessType /\ GroupInv /\ CaptureType /\ CaptureInv /\ [CommandNext]_commandVars => CaptureInv'
<1> SUFFICES ASSUME ProcessType, GroupInv, CaptureType, CaptureInv, [CommandNext]_commandVars
             PROVE  CaptureInv'
  OBVIOUS
<1> DEFINE
      Good(s) ==
        /\ capture[s].count + pipe[s] = written[s]
        /\ capture[s].kept = IF capture[s].count <= Limit THEN capture[s].count ELSE 0
        /\ capture[s].failed \/ capture[s].count > Limit => overflow
        /\ capture[s].at = "ended" /\ ~capture[s].failed => pipe[s] = 0
      Closed(s) == capture[s].at = "ended" /\ ~capture[s].failed => ~Held
      Fresh(s) == pc \in Unspawned => capture[s] = Idle /\ pipe[s] = 0
<1>0. \A s \in Streams : capture[s] \in Reader /\ pipe[s] \in Nat /\ written[s] \in Nat
  BY DEF CaptureType
<1>1. \A s \in Streams : Good(s) /\ Closed(s) /\ Fresh(s)
  BY DEF CaptureInv
<1>2. ASSUME UNCHANGED <<pipe, written, capture, overflow>>, pc \notin Unspawned, pc' \notin Unspawned
      PROVE  CaptureInv'
  <2>1. ~Held => ~Held'
    BY <1>2, HeldStays
  <2> QED
    BY <1>1, <1>2, <2>1 DEF CaptureInv
<1>3. ASSUME UNCHANGED <<pipe, written, capture, overflow>>, pc \in Unspawned
      PROVE  CaptureInv'
  BY <1>1, <1>3 DEF CaptureInv, Idle
<1>4. CASE Spawn
  <2>1. CASE UNCHANGED capture
    BY <1>3, <1>4, <2>1 DEF Spawn, Unspawned
  <2>2. CASE capture' = [s \in Streams |-> [Idle EXCEPT !.at = "read"]] /\ pc' = "poll"
    BY <1>0, <1>1, <1>4, <2>2 DEF Spawn, CaptureInv, Unspawned, Idle
  <2> QED
    BY <1>4, <2>1, <2>2 DEF Spawn, Goto
<1>5. ASSUME NEW p \in Procs, NEW q \in Streams, Emit(p, q) PROVE CaptureInv'
  <2>1. Held /\ Held' /\ pc' = pc /\ UNCHANGED <<capture, overflow>>
    BY <1>5 DEF Emit, Held, Active, caller, threads, Alive
  <2>2. pc \notin Unspawned
    BY <1>5 DEF Emit, GroupInv, Active, Alive, Absent
  <2>3. written' = [written EXCEPT ![q] = @ + 1] /\ pipe' = [pipe EXCEPT ![q] = @ + 1]
    BY <1>5 DEF Emit
  <2>4. ASSUME NEW s \in Streams PROVE Good(s)' /\ Closed(s)'
    <3>1. capture'[s] = capture[s] /\ overflow' = overflow
      BY <2>1
    <3>2. ~(capture[s].at = "ended" /\ ~capture[s].failed)
      BY <1>1, <2>1
    <3>3. CASE s = q
      <4>1. written'[s] = written[s] + 1 /\ pipe'[s] = pipe[s] + 1
        BY <2>3, <3>3 DEF CaptureType
      <4>2. capture[s].count \in Nat /\ pipe[s] \in Nat /\ written[s] \in Nat
        BY <1>0 DEF Reader
      <4>3. capture'[s].count + pipe'[s] = written'[s]
        BY <1>1, <3>1, <4>1, <4>2
      <4> QED
        BY <1>1, <3>1, <3>2, <4>3
    <3>4. CASE s # q
      <4>1. written'[s] = written[s] /\ pipe'[s] = pipe[s]
        BY <2>3, <3>4 DEF CaptureType
      <4> QED
        BY <1>1, <3>1, <3>2, <4>1
    <3> QED
      BY <3>3, <3>4
  <2> QED
    BY <2>1, <2>2, <2>4 DEF CaptureInv
<1>6. ASSUME NEW q \in Streams, ReadChunk(q) PROVE CaptureInv'
  <2>1. PICK n \in 1..pipe[q] :
          LET count == capture[q].count + n IN
          /\ pipe' = [pipe EXCEPT ![q] = @ - n]
          /\ capture' = [capture EXCEPT ![q].count = count, ![q].kept = IF count <= Limit THEN @ + n ELSE 0]
          /\ overflow' = (overflow \/ count > Limit)
    BY <1>6 DEF ReadChunk
  <2>2. pc \notin Unspawned /\ pc' = pc /\ written' = written /\ capture[q].at = "read"
    BY <1>1, <1>6 DEF ReadChunk, Idle, caller
  <2>3. ~Held => ~Held'
    BY <2>2, HeldStays
  <2>4. ASSUME NEW s \in Streams, s # q PROVE Good(s)' /\ Closed(s)'
    BY <1>0, <1>1, <2>1, <2>2, <2>3, <2>4 DEF CaptureType
  <2>5. /\ capture'[q].at = "read" /\ capture'[q].failed = capture[q].failed
        /\ capture'[q].count = capture[q].count + n /\ pipe'[q] = pipe[q] - n
        /\ capture'[q].kept = IF capture[q].count + n <= Limit THEN capture[q].kept + n ELSE 0
    BY <1>0, <2>1, <2>2 DEF CaptureType, Reader
  <2>6. Good(q)' /\ Closed(q)'
    <3>1. capture[q].count \in Nat /\ capture[q].kept \in Nat /\ pipe[q] \in Nat /\ n \in Nat
          /\ pipe[q] - n \in Nat /\ written[q] \in Nat
      BY <1>0 DEF Reader
    <3>2. capture'[q].count + pipe'[q] = written'[q]
      BY <1>1, <2>2, <2>5, <3>1
    <3>3. capture'[q].kept = IF capture'[q].count <= Limit THEN capture'[q].count ELSE 0
      BY <1>1, <2>5, <3>1
    <3>4. capture'[q].failed \/ capture'[q].count > Limit => overflow'
      BY <1>1, <2>1, <2>5
    <3> QED
      BY <2>5, <3>2, <3>3, <3>4
  <2> QED
    BY <2>2, <2>4, <2>6 DEF CaptureInv
<1>7. ASSUME NEW q \in Streams, EndOfFile(q) PROVE CaptureInv'
  <2>1. pc \notin Unspawned /\ pc' = pc /\ UNCHANGED <<pipe, written, overflow, proc>>
    BY <1>1, <1>7 DEF EndOfFile, Idle, caller, processes
  <2>2. ~Held' /\ pipe[q] = 0
    BY <1>7, <2>1 DEF EndOfFile, Held, Alive
  <2>3. capture' = [capture EXCEPT ![q].at = "ended"]
    BY <1>7 DEF EndOfFile
  <2> QED
    BY <1>0, <1>1, <2>1, <2>2, <2>3 DEF CaptureInv, CaptureType, Reader
<1>8. ASSUME NEW q \in Streams, ReadFails(q) PROVE CaptureInv'
  <2>1. pc \notin Unspawned /\ pc' = pc /\ UNCHANGED <<pipe, written, proc>> /\ overflow'
    BY <1>1, <1>8 DEF ReadFails, Idle, caller, processes
  <2>2. ~Held => ~Held'
    BY <2>1 DEF Held, Alive
  <2>3. capture' = [capture EXCEPT ![q].at = "ended", ![q].failed = TRUE]
    BY <1>8 DEF ReadFails
  <2> QED
    BY <1>0, <1>1, <2>1, <2>2, <2>3 DEF CaptureInv, CaptureType, Reader
<1>9. CASE UNCHANGED <<pipe, written, capture, overflow>>
  <2>1. pc \notin Unspawned => pc' \notin Unspawned
    BY DEF CommandNext, CommandMain, CommandThreads, CommandOthers, commandVars, caller, Change, Emit,
           Fork, ReadInput, Exit, ReadFails, ReadChunk, EndOfFile, WriteStdin, Tick, ValidateShape, ReadVerified,
           CheckRequest, Snapshot, Spawn, Poll, Kill, Reap, JoinAndJudge, Cleanup, Interrupt, Goto, Return, Stop, Unspawned
  <2> QED
    BY <1>2, <1>3, <1>9, <2>1
<1> QED
  BY <1>4, <1>5, <1>6, <1>7, <1>8, <1>9
     DEF CommandNext, CommandMain, CommandThreads, CommandOthers, commandVars, processes, threads, Change,
         Fork, ReadInput, Exit, WriteStdin, Tick, ValidateShape, ReadVerified, CheckRequest,
         Snapshot, Poll, Kill, Reap, JoinAndJudge, Cleanup, Interrupt

\* An exit status that was reaped is the one of a child that has gone.
LEMMA ReapStep == ProcessType /\ ReapInv /\ [CommandNext]_commandVars => ReapInv'
<1> SUFFICES ASSUME ProcessType, ReapInv, [CommandNext]_commandVars PROVE ReapInv'
  OBVIOUS
<1> USE DEF ProcessType, Process, Procs, ReapInv, Unspawned
<1>1. ASSUME UNCHANGED <<code, returned, terminal>>, proc'["child"].state = proc["child"].state,
             pc \in Unspawned \/ pc' \notin Unspawned
      PROVE  ReapInv'
  BY <1>1
<1>2. ASSUME NEW p \in Procs, Exit(p) PROVE ReapInv'
  <2>1. CASE p = "child"
    BY <1>2, <2>1 DEF Exit, Alive, caller
  <2>2. CASE p # "child"
    BY <1>2, <2>2 DEF Exit, caller
  <2> QED
    BY <2>1, <2>2
<1>3. ASSUME NEW d \in Descendants, Fork(d[1], d[2]) PROVE ReapInv'
  BY <1>1, <1>3 DEF Fork, caller
<1>4. CASE Spawn
  BY <1>4 DEF Spawn, Goto, Return
<1>5. CASE Poll
  BY <1>5 DEF Poll, Stop, processes
<1>6. CASE Reap
  BY <1>6 DEF Reap, processes
<1>7. CASE JoinAndJudge
  BY <1>7 DEF JoinAndJudge, Verdict, processes
<1>8. CASE Kill \/ Cleanup \/ Interrupt
  BY <1>1, <1>8 DEF Kill, KillProcessGroup, KillGroup, Cleanup, Interrupt, Goto, Return, Alive
<1>9. CASE UNCHANGED <<processes, returned, terminal>> /\ (pc \in Unspawned \/ pc' \notin Unspawned)
  BY <1>1, <1>9 DEF processes
<1>10. CASE UNCHANGED <<proc, code, caller>>
  BY <1>1, <1>10 DEF caller
<1> QED
  BY <1>2, <1>3, <1>4, <1>5, <1>6, <1>7, <1>8, <1>9, <1>10
     DEF CommandNext, CommandMain, CommandThreads, CommandOthers, commandVars, processes, caller, Change, Emit,
         ReadInput, ReadFails, ReadChunk, EndOfFile, WriteStdin, Tick, ValidateShape, ReadVerified, CheckRequest,
         Snapshot, Goto, Return

\* A report is made exact by the join, and nothing is written after it.
LEMMA ResultStep ==
    ASSUME ProcessType, GroupInv, CaptureType, CaptureInv, ReapInv, ResultInv, [CommandNext]_commandVars
    PROVE  ResultInv'
<1>1. CASE JoinAndJudge
  <2> SUFFICES ASSUME result'.status \in Exact
               PROVE  /\ ~Held' /\ result'.count = written'
                      /\ result'.status = "success" =>
                            /\ result'.stdout = written'["out"] /\ code' = 0 /\ proc'["child"].state = "gone"
                            /\ \A s \in Streams : written'[s] <= Limit
    BY DEF ResultInv
  <2>1. UNCHANGED <<proc, code, written>>
    BY <1>1 DEF JoinAndJudge, processes
  <2> DEFINE status == IF Verdict # None THEN Verdict ELSE IF returned # 0 THEN "nonzero_exit" ELSE "success"
  <2>2. /\ result'.status = status
        /\ result'.stdout = IF status = "success" THEN capture["out"].kept ELSE None
        /\ result'.count = [s \in Streams |-> capture[s].count]
    BY <1>1 DEF JoinAndJudge, Report
  <2>3. ThreadsEnded /\ ~Failed
    BY <2>2 DEF Verdict, Exact
  <2>4. \A s \in Streams : capture[s].at = "ended" /\ ~capture[s].failed /\ pipe[s] = 0
    BY <2>3 DEF ThreadsEnded, Failed, CaptureInv
  <2>5. ~Held
    BY <2>4 DEF CaptureInv, Streams
  <2>6. \A s \in Streams : capture[s].count \in Nat /\ written[s] \in Nat /\ capture[s].count = written[s]
    BY <2>4 DEF CaptureInv, CaptureType, Reader
  <2>7. result'.count = written
    BY <2>2, <2>6 DEF CaptureType
  <2>8. ASSUME result'.status = "success"
        PROVE  /\ result'.stdout = written["out"] /\ code = 0 /\ proc["child"].state = "gone"
               /\ \A s \in Streams : written[s] <= Limit
    <3>1. Verdict = None /\ returned = 0
      BY <2>2, <2>8 DEF Verdict, ReapInv
    <3>2. ~overflow
      BY <2>3, <3>1 DEF Verdict
    <3>3. \A s \in Streams : written[s] <= Limit /\ capture[s].kept = written[s]
      BY <2>6, <3>2 DEF CaptureInv
    <3>4. code = 0 /\ proc["child"].state = "gone"
      BY <3>1 DEF ReapInv
    <3> QED
      BY <2>2, <2>8, <3>3, <3>4 DEF Streams
  <2>9. ~Held'
    BY <2>1, <2>5 DEF Held, Alive
  <2> QED
    BY <2>1, <2>7, <2>8, <2>9
<1>2. ASSUME pc \in {"cleanup", "done"}, pc' \in {"cleanup", "done"}, result' = result, written' = written,
             ~Alive("child") => code' = code /\ proc'["child"] = proc["child"]
      PROVE  ResultInv'
  <2>1. ~Held => ~Held'
    BY <1>2, HeldStays DEF Unspawned
  <2> QED
    BY <1>2, <2>1 DEF ResultInv, Alive
<1>3. ASSUME NEW status \in {"identity_mismatch", "invalid_request", "environment_missing", "execution_error", "spawn_error"},
             Return(status)
      PROVE  ResultInv'
  BY <1>3 DEF Return, Report, ResultInv, Exact
<1>4. ASSUME pc' \notin {"cleanup", "done"} PROVE ResultInv'
  BY <1>4 DEF ResultInv
<1>5. ASSUME NEW p \in Procs, NEW s \in Streams, Emit(p, s) PROVE ResultInv'
  BY <1>5 DEF Emit, caller, ResultInv, Held, Active
<1>6. ASSUME NEW p \in Procs, Exit(p) PROVE ResultInv'
  <2>1. ~Alive("child") => code' = code /\ proc'["child"] = proc["child"]
    BY <1>6 DEF Exit, Alive, ProcessType, Procs
  <2>2. UNCHANGED <<pc, result, written>>
    BY <1>6 DEF Exit, caller
  <2> QED
    BY <1>2, <1>4, <2>1, <2>2
<1>7. ASSUME NEW d \in Descendants, Fork(d[1], d[2]) PROVE ResultInv'
  <2>1. UNCHANGED <<pc, result, written, code>> /\ proc'["child"] = proc["child"]
    BY <1>7 DEF Fork, caller, ProcessType, Procs
  <2> QED
    BY <1>2, <1>4, <2>1
<1>8. CASE Cleanup
  <2>1. CASE Goto("done") /\ UNCHANGED <<proc, code, written>>
    BY <1>2, <1>8, <2>1 DEF Cleanup, Goto
  <2>2. CASE Return("execution_error")
    BY <1>3, <2>2
  <2> QED
    BY <1>8, <2>1, <2>2 DEF Cleanup
<1>9. CASE UNCHANGED <<pc, result, written, code, proc>>
  BY <1>2, <1>4, <1>9
<1>10. CASE ValidateShape
  BY <1>3, <1>4, <1>10 DEF ValidateShape, Goto
<1>11. ASSUME NEW f \in Files, ReadVerified(f) PROVE ResultInv'
  BY <1>3, <1>9, <1>11 DEF ReadVerified, caller, processes, ResultInv
<1>12. CASE CheckRequest \/ Snapshot \/ Spawn
  BY <1>3, <1>4, <1>12 DEF CheckRequest, Snapshot, Spawn, Goto
<1>13. CASE Poll \/ Kill \/ Reap \/ Interrupt
  BY <1>4, <1>13 DEF Poll, Kill, Reap, Interrupt, Stop, Goto
<1> QED
  BY <1>1, <1>5, <1>6, <1>7, <1>8, <1>9, <1>10, <1>11, <1>12, <1>13
     DEF CommandNext, CommandMain, CommandThreads, CommandOthers, commandVars, processes, caller, Change,
         ReadInput, ReadFails, ReadChunk, EndOfFile, WriteStdin, Tick

-----------------------------------------------------------------------------
CommandInv == ProcessType /\ GroupInv /\ CaptureType /\ CaptureInv /\ ReapInv /\ ResultInv

\* The parts are inductive together, through everything that surrounds the command.
LEMMA CommandInvariant == Spec => []CommandInv
<1>1. Init => CommandInv
  <2> SUFFICES ASSUME Init PROVE CommandInv
    OBVIOUS
  <2>1. Absent \in Process /\ Idle \in Reader
    BY DEF Absent, Process, Idle, Reader
  <2>2. ProcessType
    BY <2>1 DEF Init, CommandInit, ProcessType, Places, Codes
  <2>3. GroupInv
    BY DEF Init, CommandInit, GroupInv, Unspawned, Killed, Procs, Alive, Absent
  <2>4. CaptureType
    BY <2>1 DEF Init, CommandInit, CaptureType
  <2>5. CaptureInv
    BY DEF Init, CommandInit, CaptureInv, Idle
  <2>6. ReapInv /\ ResultInv
    BY DEF Init, CommandInit, ReapInv, ResultInv
  <2> QED
    BY <2>2, <2>3, <2>4, <2>5, <2>6 DEF CommandInv
<1>2. CommandInv /\ [Next]_vars => CommandInv'
  <2> SUFFICES ASSUME CommandInv, [Next]_vars PROVE CommandInv'
    BY DEF CommandInv
  <2> USE DEF CommandInv
  <2>1. CASE [CommandNext]_commandVars
    BY <2>1, ProcessTypeStep, GroupStep, CaptureTypeStep, CaptureStep, ReapStep, ResultStep
  <2>2. CASE Identify
    <3>1. pc = "idle" /\ pc' \in {"shape", "raised"} /\ UNCHANGED <<processes, threads, returned, terminal, result>>
      BY <2>2 DEF Identify
    <3>2. ProcessType'
      BY <3>1 DEF ProcessType, Places, processes
    <3>3. GroupInv'
      BY <3>1 DEF GroupInv, Unspawned, Killed, Active, Alive, Absent, processes
    <3>4. CaptureType'
      BY <3>1 DEF CaptureType, processes, threads
    <3>5. CaptureInv'
      BY <3>1 DEF CaptureInv, Unspawned, Idle, Held, Alive, processes, threads
    <3>6. ReapInv' /\ ResultInv'
      BY <3>1 DEF ReapInv, ResultInv, Unspawned, processes
    <3> QED
      BY <3>2, <3>3, <3>4, <3>5, <3>6
  <2> QED
    BY <2>1, <2>2, ProbeStep
<1> QED
  BY <1>1, <1>2, PTL DEF Spec

\* A report of success, of a failed exit, of a timeout or of too much output
\* counts exactly what the processes wrote, and a success carries all of the
\* standard output of a child that exited with 0, within the limits.
THEOREM ReportsAreExact == Spec => []ReportIsExact
<1>1. CommandInv => ReportIsExact
  BY DEF CommandInv, ResultInv, ReportIsExact, Exact
<1> QED
  BY <1>1, CommandInvariant, PTL

\* What the child may claim: amounts are numbers, and the nonce is known only
\* to who has read the request.
LEMMA ClaimedAmounts ==
    ASSUME deal \in Deals, NEW claims \in Claimed
    PROVE  /\ claims.nonce = "this" => asked
           /\ claims.charge \in Int /\ claims.incremental \in Int /\ claims.credit \in Int \cup {Never}
<1> DEFINE truth == [Truthful(deal.route, request, deal.credit, 0) EXCEPT !.nonce = IF asked THEN "this" ELSE "other"]
           Fields == {"nonce", "observed", "statusAt", "state", "live", "status", "paidFallback", "validUntil", "eligible",
                      "charge", "incremental", "credit", "healthy", "required", "context", "maxOutput", "maxTools", "timeout"}
<1>1. ExpectedCharge(deal.route, request) \in Int
  <2>1. request.tools \in Nat
    BY ProbeAssumption DEF request, Request
  <2> QED
    BY <2>1, ChargeIsNatural, ProbeAssumption DEF ExpectedCharge
<1>2. /\ truth.nonce = IF asked THEN "this" ELSE "other"
      /\ truth.charge \in Int /\ truth.incremental \in Int /\ truth.credit \in Int \cup {Never}
  <2> DEFINE charge == ExpectedCharge(deal.route, request)
  <2>1. /\ Truthful(deal.route, request, deal.credit, 0).charge = charge
        /\ Truthful(deal.route, request, deal.credit, 0).incremental = IF deal.route.kind = "metered" THEN charge ELSE 0
        /\ Truthful(deal.route, request, deal.credit, 0).credit = IF deal.route.kind = "existing_credit" THEN deal.credit ELSE Never
        /\ DOMAIN Truthful(deal.route, request, deal.credit, 0) = Fields
    BY DEF Truthful
  <2>2. deal.credit \in Int
    BY ProbeAssumption
  <2> HIDE DEF charge
  <2> QED
    BY <1>1, <2>1, <2>2 DEF charge
<1>3. DOMAIN truth = Fields
  BY DEF Truthful
<1>4. claims = truth \/ \E d \in Distortions : claims = [truth EXCEPT ![d[1]] = d[2]]
  BY DEF Claimed
<1> HIDE DEF truth
<1>5. CASE claims = truth
  BY <1>2, <1>5
<1>6. ASSUME NEW d \in Distortions, claims = [truth EXCEPT ![d[1]] = d[2]]
      PROVE  /\ claims.nonce = "this" => asked
             /\ claims.charge \in Int /\ claims.incremental \in Int /\ claims.credit \in Int \cup {Never}
  <2>1. \A x \in Fields : claims[x] = IF x = d[1] THEN d[2] ELSE truth[x]
    BY <1>3, <1>6
  <2>2. claims.nonce = "this" => asked
    BY <1>2, <2>1, DistortionAssumption
  <2>3. claims.charge \in Int
    BY <1>2, <2>1, DistortionAssumption
  <2>4. claims.incremental \in Int
    BY <1>2, <2>1, DistortionAssumption
  <2>5. claims.credit \in Int \cup {Never}
    BY <1>2, <2>1, DistortionAssumption
  <2> QED
    BY <2>2, <2>3, <2>4, <2>5
<1> QED
  BY <1>4, <1>5, <1>6

\* What the verdict on accepted claims has established.
LEMMA AcceptedClaims ==
    ASSUME deal \in Deals, now \in Nat, NEW claims \in Claimed, Accept(claims)
    PROVE  /\ asked /\ now <= MaxAge
           /\ VerifiedReceipt(Receipt(claims, request, "execution"), "execution", deal.route, deal.reserved)
           /\ deal.route.kind # "metered" => claims.incremental = 0
           /\ deal.route.kind = "metered" => claims.incremental \in ExpectedCharge(deal.route, request)..deal.remaining
           /\ deal.route.kind = "existing_credit" => claims.credit >= ExpectedCharge(deal.route, request)
<1>1. request.nonce = "this" /\ request.at = 0 /\ request.tools \in Nat
  BY ProbeAssumption DEF request, Request
<1>2. /\ claims.nonce = "this" => asked
      /\ claims.charge \in Int /\ claims.incremental \in Int /\ claims.credit \in Int \cup {Never}
  BY ClaimedAmounts
<1>3. /\ Bound(claims, request, now, MaxAge)
      /\ claims.state = "frozen"
      /\ ChargeMatches(claims, request, deal.route)
      /\ claims.incremental <= deal.reserved /\ claims.incremental <= deal.remaining
  BY DEF Accept, ValidClaims
<1>4. asked /\ now <= MaxAge
  BY <1>1, <1>2, <1>3 DEF Bound
<1>5. ExpectedCharge(deal.route, request) \in Int /\ deal.remaining \in Int
  BY <1>1, ChargeIsNatural, ProbeAssumption DEF ExpectedCharge
<1>6. /\ claims.charge >= ExpectedCharge(deal.route, request)
      /\ deal.route.kind = "metered" => claims.incremental = claims.charge /\ claims.credit = Never
      /\ deal.route.kind = "existing_credit" =>
            claims.incremental = 0 /\ claims.credit # Never /\ claims.credit >= claims.charge
      /\ deal.route.kind \notin {"metered", "existing_credit"} => claims.incremental = 0 /\ claims.credit = Never
  BY <1>3 DEF ChargeMatches
<1>7. VerifiedReceipt(Receipt(claims, request, "execution"), "execution", deal.route, deal.reserved)
  BY <1>3, <1>6 DEF VerifiedReceipt, Receipt
<1>8. deal.route.kind = "metered" => claims.incremental \in ExpectedCharge(deal.route, request)..deal.remaining
  BY <1>2, <1>3, <1>5, <1>6
<1>9. deal.route.kind = "existing_credit" => claims.credit >= ExpectedCharge(deal.route, request)
  BY <1>2, <1>5, <1>6
<1> QED
  BY <1>4, <1>6, <1>7, <1>8, <1>9

-----------------------------------------------------------------------------
Running == {"spawn", "poll", "kill", "reap", "join", "cleanup"}

\* Only verified bytes are kept, and what runs is a copy of what was kept.
SnapshotInv ==
    /\ now \in Nat
    /\ payload \in [Files -> {None, "declared"}]
    /\ pc = "snapshot" => \A f \in Files : payload[f] = "declared"
    /\ pc \in Running \/ (pc = "done" /\ result.status = "success") => \A f \in Files : snapshot[f] = "declared"

\* Bytes are read and verified once, and never again from the disk.
LEMMA SnapshotStep == SnapshotInv /\ [CommandNext]_commandVars => SnapshotInv'
<1> SUFFICES ASSUME SnapshotInv, [CommandNext]_commandVars PROVE SnapshotInv'
  OBVIOUS
<1> USE DEF SnapshotInv, Running
<1>1. CASE UNCHANGED <<payload, snapshot, pc, result, now>>
  BY <1>1
<1>2. CASE ValidateShape
  BY <1>2 DEF ValidateShape, Goto, Return, Report, files
<1>3. ASSUME NEW f \in Files, ReadVerified(f) PROVE SnapshotInv'
  BY <1>3 DEF ReadVerified, Return, Report, caller
<1>4. CASE CheckRequest
  BY <1>4 DEF CheckRequest, Goto, Return, Report, files
<1>5. CASE Snapshot
  BY <1>5 DEF Snapshot, TakeSnapshot, Goto, Return, Report
<1>6. CASE Spawn \/ Kill \/ Cleanup \/ Interrupt
  BY <1>6 DEF Spawn, Kill, Cleanup, Interrupt, Goto, Return, Report, files
<1>7. CASE Poll \/ Reap \/ JoinAndJudge
  BY <1>7 DEF Poll, Stop, Reap, JoinAndJudge, files
<1>8. CASE Tick
  BY <1>8 DEF Tick, files, caller
<1> QED
  BY <1>1, <1>2, <1>3, <1>4, <1>5, <1>6, <1>7, <1>8
     DEF CommandNext, CommandMain, CommandThreads, CommandOthers, commandVars, files, caller, Change, Emit, Fork,
         ReadInput, Exit, ReadFails, ReadChunk, EndOfFile, WriteStdin

\* The return of the command is final, and so is the status of its child.
LEMMA DoneStays ==
    ASSUME pc = "done", ProcessType, [CommandNext]_commandVars
    PROVE  /\ UNCHANGED <<pc, result, snapshot, now>>
           /\ asked => asked'
           /\ proc["child"].state = "gone" => code' = code
<1>1. ASSUME NEW p \in Procs, Exit(p)
      PROVE  UNCHANGED <<pc, result, snapshot, now, asked>> /\ (proc["child"].state = "gone" => code' = code)
  BY <1>1 DEF Exit, Alive, files, caller
<1>2. CASE ReadInput
  BY <1>2 DEF ReadInput, files, caller
<1>3. CASE UNCHANGED <<pc, result, snapshot, now, asked, code>>
  BY <1>3
<1>4. ASSUME NEW p \in Procs, NEW s \in Streams, Emit(p, s) PROVE FALSE
  BY <1>4 DEF Emit, Watched
<1>5. ASSUME NEW d \in Descendants, Fork(d[1], d[2]) PROVE FALSE
  BY <1>5 DEF Fork, Watched
<1>6. ASSUME NEW s \in Streams, ReadChunk(s) \/ EndOfFile(s) \/ ReadFails(s)
      PROVE  UNCHANGED <<pc, result, snapshot, now, asked, code>>
  BY <1>6 DEF ReadChunk, EndOfFile, ReadFails, files, processes, caller
<1>7. CASE WriteStdin
  BY <1>7 DEF WriteStdin, files, processes, caller
<1>8. ASSUME CommandMain \/ Tick \/ Interrupt \/ \E f \in Files : Change(f) PROVE FALSE
  BY <1>8 DEF CommandMain, Tick, Interrupt, Change, ValidateShape, ReadVerified, CheckRequest, Snapshot, Spawn, Poll,
              Kill, Reap, JoinAndJudge, Cleanup
<1>9. CASE UNCHANGED commandVars
  BY <1>9 DEF commandVars, files, processes, caller
<1> QED
  BY <1>1, <1>2, <1>3, <1>4, <1>5, <1>6, <1>7, <1>8, <1>9 DEF CommandNext, CommandThreads, CommandOthers

AttemptInv ==
    attempt \in {"processed", "completed"} => pc = "done" /\ result.status = "success" /\ deal \in Deals

\* A completed attempt has run the declared bytes of every file, by a child
\* that read this request and exited with 0 in time; its receipt is one that a
\* resume accepts, and its charge is within what the route allows.
THEOREM ApprovalsAreEarned == Spec => []ApprovalIsEarned
<1> DEFINE Inv == SnapshotInv /\ AttemptInv /\ ApprovalIsEarned
<1>1. Init => Inv
  BY DEF Init, CommandInit, NoFiles, SnapshotInv, Running, AttemptInv, ApprovalIsEarned
<1>2. CommandInv /\ Inv /\ [Next]_vars => Inv'
  <2> SUFFICES ASSUME CommandInv, Inv, [Next]_vars PROVE Inv'
    OBVIOUS
  <2>1. CASE Identify
    BY <2>1 DEF Identify, files, SnapshotInv, Running, AttemptInv, ApprovalIsEarned
  <2>2. CASE RecordProcess
    BY <2>2 DEF RecordProcess, commandVars, files, caller, SnapshotInv, AttemptInv, ApprovalIsEarned
  <2>3. CASE Judge
    <3>1. UNCHANGED <<files, processes, threads, now, caller, deal>> /\ attempt = "processed"
      BY <2>3 DEF Judge, commandVars
    <3>2. SnapshotInv' /\ AttemptInv'
      BY <2>3, <3>1 DEF Judge, SnapshotInv, AttemptInv, files, caller
    <3>3. ASSUME attempt' = "completed" PROVE ApprovalIsEarned'
      <4>1. PICK claims \in Claimed : Accept(claims) /\ receipt' = Receipt(claims, request, "execution")
        BY <2>3, <3>3 DEF Judge
      <4>2. (\A f \in Files : snapshot[f] = "declared") /\ code = 0 /\ deal \in Deals /\ now \in Nat
        BY <3>1 DEF AttemptInv, SnapshotInv, CommandInv, ResultInv, Exact
      <4>3. request' = request
        BY <3>1 DEF request
      <4>4. UNCHANGED <<snapshot, asked, code, now, deal>>
        BY <3>1 DEF files, processes
      <4>5. receipt'.incremental = claims.incremental /\ receipt'.credit = claims.credit
        BY <4>1 DEF Receipt
      <4> QED
        BY <4>1, <4>2, <4>3, <4>4, <4>5, AcceptedClaims DEF ApprovalIsEarned
    <3> QED
      BY <3>2, <3>3 DEF ApprovalIsEarned
  <2>4. CASE Recover
    BY <2>4 DEF Recover, commandVars, files, caller, SnapshotInv, AttemptInv, ApprovalIsEarned
  <2>5. CASE [CommandNext]_commandVars /\ UNCHANGED <<deal, attempt, receipt>>
    <3>1. SnapshotInv'
      BY <2>5, SnapshotStep
    <3>2. AttemptInv'
      BY <2>5, DoneStays DEF AttemptInv, CommandInv
    <3>3. ApprovalIsEarned'
      <4>1. ASSUME attempt = "completed"
            PROVE  UNCHANGED <<snapshot, now, code>> /\ (asked => asked')
        <5>1. pc = "done" /\ proc["child"].state = "gone"
          BY <4>1 DEF AttemptInv, CommandInv, ResultInv, Exact
        <5> QED
          BY <2>5, <5>1, DoneStays DEF CommandInv
      <4>2. request' = request
        BY <2>5 DEF request
      <4> QED
        BY <2>5, <4>1, <4>2 DEF ApprovalIsEarned
    <3> QED
      BY <3>1, <3>2, <3>3
  <2> QED
    BY <2>1, <2>2, <2>3, <2>4, <2>5 DEF Next, vars
<1> QED
  BY <1>1, <1>2, CommandInvariant, PTL DEF Spec
=============================================================================
