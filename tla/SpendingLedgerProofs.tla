------------------------ MODULE SpendingLedgerProofs ------------------------
(***************************************************************************)
(* Theorems about the shared ledger, for every number of executors,        *)
(* reservations, accounts, caps and amounts.  LedgerInv is the inductive   *)
(* invariant: CapRespected, InspectorAccepts and FreshReceiptUnique follow *)
(* from it.  Then what a step may never do, what a staged write takes its  *)
(* credit from, and that the ledger implements the abstract SharedCap.     *)
(***************************************************************************)
EXTENDS SpendingLedger, UnitSumTheorems

\* Rewriting one entry of a weight function of the table.
LEMMA TableTotalUpdate ==
    ASSUME NEW f \in [ReservationIds -> Nat], NEW r \in ReservationIds, NEW v \in Nat
    PROVE  Total([f EXCEPT ![r] = v]) = Total(f) - f[r] + v
<1>1. IsFiniteSet(ReservationIds)
  BY LedgerAssumption
<1> QED
  BY <1>1, TotalUpdate

LEMMA TableTotalDisjoint ==
    ASSUME NEW f \in [ReservationIds -> Nat], NEW g \in [ReservationIds -> Nat],
           NEW h \in [ReservationIds -> Nat],
           \A x \in ReservationIds : (f[x] = 0 /\ h[x] = g[x]) \/ (g[x] = 0 /\ h[x] = f[x])
    PROVE  Total(h) = Total(f) + Total(g)
<1>1. IsFiniteSet(ReservationIds)
  BY LedgerAssumption
<1> QED
  BY <1>1, TotalDisjoint

USE LedgerAssumption, NoneAssumption

\* What a row holds of the cap.
SettledWeight(row) ==
    IF row.kind = "metered" /\ row.state = "settled" THEN row.charged ELSE 0
UnresolvedWeight(row) ==
    IF row.kind = "metered" /\ row.state = "unresolved" THEN row.max ELSE 0

RowTable == [ReservationIds -> Row \cup {None}]

\* Settling a row gives a row, and so does reconciling one.
LEMMA SettledRowType ==
    ASSUME NEW row \in Row, NEW charged \in Amounts, NEW ev \in Evidence,
           NEW sk \in SettlementKinds
    PROVE  SettledRow(row, charged, ev, sk) \in Row
BY DEF Row, SettledRow

LEMMA ReconciledRowType ==
    ASSUME NEW row \in Row, NEW ev \in Evidence
    PROVE  [row EXCEPT !.reconciled = ev] \in Row
BY DEF Row

-----------------------------------------------------------------------------
\* Every reachable state has the declared type.
THEOREM TypeCorrect == Spec => []TypeOK
<1>1. Init => TypeOK
  <2> SUFFICES ASSUME Init PROVE TypeOK
    OBVIOUS
  <2>1. rows \in [ReservationIds -> Row \cup {None}]
    BY DEF Init, EmptyRows
  <2>2. identity \in Identities \cup {None}
    BY DEF Init
  <2>3. balance \in [Accounts -> Nat]
    BY DEF Init
  <2>4. receipt \in [Executors -> [id : ReservationIds \cup {None}, replayed : BOOLEAN]]
    BY DEF Init, NoReceipt
  <2> QED
    BY <2>1, <2>2, <2>3, <2>4 DEF Init, TypeOK
<1>2. TypeOK /\ [Next]_vars => TypeOK'
  <2> SUFFICES ASSUME TypeOK, [Next]_vars PROVE TypeOK'
    OBVIOUS
  <2>1. ASSUME NEW e \in Executors, NEW id \in LedgerIds, NEW cap \in Caps,
               Open(e, id, cap)
        PROVE  TypeOK'
    <3>1. identity' \in Identities
      <4>1. CASE identity = None
        BY <2>1, <4>1 DEF Open, Identities, Schemas
      <4>2. CASE identity \in Identities
        BY <2>1, <4>2 DEF Open, Identities, Schemas
      <4> QED
        BY <4>1, <4>2 DEF TypeOK
    <3>2. rows' \in [ReservationIds -> Row \cup {None}]
      <4>1. Migrated(rows) \in [ReservationIds -> Row \cup {None}]
        BY DEF TypeOK, Migrated, Row, SettlementKinds
      <4> QED
        BY <2>1, <4>1 DEF Open, TypeOK
    <3>3. handle' \in [Executors -> {NoHandle} \cup [id : LedgerIds, cap : Caps]]
      BY <2>1 DEF Open, TypeOK
    <3> QED
      BY <2>1, <3>1, <3>2, <3>3 DEF Open, TypeOK
  <2>2. ASSUME NEW e \in Executors, NEW r \in ReservationIds, NEW b \in Bindings,
               NEW kind \in FundingKinds, NEW a \in Accounts, NEW max \in Amounts,
               Reserve(e, r, b, kind, a, max)
        PROVE  TypeOK'
    <3>1. NewRow(b, kind, a, max) \in Row
      BY DEF NewRow, Row
    <3>2. rows[r] # None => rows[r] \in Row
      BY DEF TypeOK
    <3>3. \E row \in Row, rcpt \in [id : ReservationIds \cup {None}, replayed : BOOLEAN] :
             Stage(e, r, row, rcpt)
      BY <2>2, <3>1, <3>2 DEF Reserve
    <3> QED
      BY <3>3 DEF Stage, TypeOK
  <2>3. ASSUME NEW e \in Executors, NEW r \in ReservationIds,
               NEW charged \in Amounts, NEW ev \in Evidence, NEW sk \in SettlementKinds,
               Settle(e, r, charged, ev, sk)
        PROVE  TypeOK'
    <3>1. SettledRow(rows[r], charged, ev, sk) \in Row
      <4>1. rows[r] \in Row
        BY <2>3 DEF Settle, CanSettle, TypeOK
      <4> QED
        BY <4>1, SettledRowType
    <3>2. Stage(e, r, SettledRow(rows[r], charged, ev, sk), receipt[e])
      BY <2>3 DEF Settle
    <3> QED
      BY <3>1, <3>2 DEF Stage, TypeOK
  <2>4. ASSUME NEW e \in Executors, NEW r \in ReservationIds, NEW ev \in Evidence,
               Reconcile(e, r, ev)
        PROVE  TypeOK'
    <3>1. [rows[r] EXCEPT !.reconciled = ev] \in Row
      <4>1. rows[r] \in Row
        BY <2>4 DEF Reconcile, CanReconcile, TypeOK
      <4> QED
        BY <4>1, ReconciledRowType
    <3>2. Stage(e, r, [rows[r] EXCEPT !.reconciled = ev], receipt[e])
      BY <2>4 DEF Reconcile, CanReconcile
    <3> QED
      BY <3>1, <3>2 DEF Stage, TypeOK
  <2>5. ASSUME NEW e \in Executors, Commit(e) PROVE TypeOK'
    <3>1. /\ txn[e].id \in ReservationIds /\ txn[e].row \in Row
          /\ txn[e].receipt \in [id : ReservationIds \cup {None}, replayed : BOOLEAN]
      BY <2>5 DEF Commit, TypeOK
    <3> QED
      BY <2>5, <3>1 DEF Commit, TypeOK
  <2>6. ASSUME NEW e \in Executors, Crash(e) PROVE TypeOK'
    BY <2>6 DEF Crash, TypeOK, NoReceipt
  <2>7. ASSUME NEW e \in Executors, NEW a \in Accounts, Observe(e, a) PROVE TypeOK'
    BY <2>7 DEF Observe, TypeOK
  <2>8. ASSUME NEW r \in ReservationIds, Post(r) PROVE TypeOK'
    <3>1. rows[r] \in Row
      BY <2>8 DEF Post, Rows, Used, TypeOK
    <3>2. rows[r].account \in Accounts
      BY <3>1 DEF Row
    <3>3. balance[rows[r].account] - rows[r].charged \in Nat
      BY <2>8, <3>2 DEF Post, TypeOK
    <3>4. balance' \in [Accounts -> Nat]
      BY <2>8, <3>2, <3>3 DEF Post, TypeOK
    <3> QED
      BY <2>8, <3>4 DEF Post, TypeOK
  <2>9. ASSUME UNCHANGED vars PROVE TypeOK'
    BY <2>9 DEF vars, TypeOK
  <2> QED
    BY <2>1, <2>2, <2>3, <2>4, <2>5, <2>6, <2>7, <2>8, <2>9 DEF Next
<1> QED
  BY <1>1, <1>2, PTL DEF Spec

-----------------------------------------------------------------------------
\* Every settled row of a table carries a charge: without it there is no sum.
Charged(rs) == \A r \in Used(rs) : rs[r].state = "settled" => rs[r].charged # None

LEMMA WeightTypes ==
    ASSUME NEW rs \in RowTable, Charged(rs)
    PROVE  /\ SettledWeights(rs) \in [ReservationIds -> Nat]
           /\ UnresolvedWeights(rs) \in [ReservationIds -> Nat]
BY DEF Charged, RowTable, SettledWeights, UnresolvedWeights, Rows, Used, Row

LEMMA TotalsAreNumbers ==
    ASSUME NEW rs \in RowTable, Charged(rs)
    PROVE  Settled(rs) \in Nat /\ Unresolved(rs) \in Nat
BY WeightTypes, UnitsFinite DEF Settled, Unresolved

\* Writing one row changes one entry of each weight function.
LEMMA WeightsUpdate ==
    ASSUME NEW rs \in RowTable, NEW r \in ReservationIds, NEW row \in Row
    PROVE  LET new == [rs EXCEPT ![r] = row] IN
           /\ SettledWeights(new) = [SettledWeights(rs) EXCEPT ![r] = SettledWeight(row)]
           /\ UnresolvedWeights(new) = [UnresolvedWeights(rs) EXCEPT ![r] = UnresolvedWeight(row)]
BY DEF RowTable, SettledWeights, UnresolvedWeights, Rows, Used, SettledWeight, UnresolvedWeight

\* What the table holds of the cap moves by what the rewritten row held and
\* holds.
LEMMA HeldUpdate ==
    ASSUME NEW rs \in RowTable, Charged(rs), NEW r \in ReservationIds,
           NEW row \in Row, row.state = "settled" => row.charged # None
    PROVE  LET new == [rs EXCEPT ![r] = row] IN
           /\ Settled(rs) \in Nat /\ Unresolved(rs) \in Nat
           /\ Settled(new) = Settled(rs) - SettledWeights(rs)[r] + SettledWeight(row)
           /\ Unresolved(new) = Unresolved(rs) - UnresolvedWeights(rs)[r] + UnresolvedWeight(row)
           /\ SettledWeight(row) \in Nat /\ UnresolvedWeight(row) \in Nat
<1>1. /\ SettledWeights(rs) \in [ReservationIds -> Nat]
      /\ UnresolvedWeights(rs) \in [ReservationIds -> Nat]
  BY WeightTypes
<1>2. SettledWeight(row) \in Nat /\ UnresolvedWeight(row) \in Nat
  BY DEF SettledWeight, UnresolvedWeight, Row
<1>3. Total([SettledWeights(rs) EXCEPT ![r] = SettledWeight(row)]) =
        Total(SettledWeights(rs)) - SettledWeights(rs)[r] + SettledWeight(row)
  BY <1>1, <1>2, TableTotalUpdate
<1>4. Total([UnresolvedWeights(rs) EXCEPT ![r] = UnresolvedWeight(row)]) =
        Total(UnresolvedWeights(rs)) - UnresolvedWeights(rs)[r] + UnresolvedWeight(row)
  BY <1>1, <1>2, TableTotalUpdate
<1>5. /\ Settled([rs EXCEPT ![r] = row]) =
           Total([SettledWeights(rs) EXCEPT ![r] = SettledWeight(row)])
      /\ Unresolved([rs EXCEPT ![r] = row]) =
           Total([UnresolvedWeights(rs) EXCEPT ![r] = UnresolvedWeight(row)])
  BY WeightsUpdate DEF Settled, Unresolved
<1>6. /\ Settled(rs) = Total(SettledWeights(rs))
      /\ Unresolved(rs) = Total(UnresolvedWeights(rs))
  BY DEF Settled, Unresolved
<1>7. Settled(rs) \in Nat /\ Unresolved(rs) \in Nat
  BY TotalsAreNumbers
<1> QED
  BY <1>2, <1>3, <1>4, <1>5, <1>6, <1>7

\* A row that has the weights of the row it replaces leaves the totals alone.
LEMMA SameWeights ==
    ASSUME NEW rs \in RowTable, Charged(rs), NEW r \in ReservationIds,
           NEW row \in Row, row.state = "settled" => row.charged # None,
           SettledWeights(rs)[r] = SettledWeight(row),
           UnresolvedWeights(rs)[r] = UnresolvedWeight(row)
    PROVE  LET new == [rs EXCEPT ![r] = row] IN
           Settled(new) = Settled(rs) /\ Unresolved(new) = Unresolved(rs)
<1>1. /\ Settled(rs) \in Nat /\ Unresolved(rs) \in Nat
      /\ SettledWeight(row) \in Nat /\ UnresolvedWeight(row) \in Nat
      /\ Settled([rs EXCEPT ![r] = row]) =
           Settled(rs) - SettledWeights(rs)[r] + SettledWeight(row)
      /\ Unresolved([rs EXCEPT ![r] = row]) =
           Unresolved(rs) - UnresolvedWeights(rs)[r] + UnresolvedWeight(row)
  BY HeldUpdate
<1> QED
  BY <1>1

-----------------------------------------------------------------------------
\* An empty table holds nothing.
LEMMA EmptyTotals == Settled(EmptyRows) = 0 /\ Unresolved(EmptyRows) = 0
<1>1. /\ DOMAIN SettledWeights(EmptyRows) = ReservationIds
      /\ DOMAIN UnresolvedWeights(EmptyRows) = ReservationIds
      /\ \A r \in ReservationIds : /\ SettledWeights(EmptyRows)[r] = 0
                                   /\ UnresolvedWeights(EmptyRows)[r] = 0
  BY DEF SettledWeights, UnresolvedWeights, Rows, Used, EmptyRows
<1> QED
  BY <1>1, TotalZero DEF Settled, Unresolved

\* A well-formed table is one whose totals are numbers.
LEMMA WellFormedCharged ==
    ASSUME NEW rs, WellFormedRows(rs)
    PROVE  Charged(rs)
BY DEF WellFormedRows, Charged

\* The migration of a first-schema file gives every settled row a kind and
\* moves no money.
LEMMA MigrationKeepsTotals ==
    ASSUME NEW rs \in RowTable
    PROVE  /\ Settled(Migrated(rs)) = Settled(rs)
           /\ Unresolved(Migrated(rs)) = Unresolved(rs)
<1>1. \A r \in ReservationIds :
         /\ Migrated(rs)[r] = None <=> rs[r] = None
         /\ rs[r] # None =>
               /\ Migrated(rs)[r].kind = rs[r].kind
               /\ Migrated(rs)[r].state = rs[r].state
               /\ Migrated(rs)[r].max = rs[r].max
               /\ Migrated(rs)[r].charged = rs[r].charged
  <2> SUFFICES ASSUME NEW r \in ReservationIds, rs[r] # None
               PROVE  /\ Migrated(rs)[r] # None
                      /\ Migrated(rs)[r].kind = rs[r].kind
                      /\ Migrated(rs)[r].state = rs[r].state
                      /\ Migrated(rs)[r].max = rs[r].max
                      /\ Migrated(rs)[r].charged = rs[r].charged
    BY DEF Migrated
  <2>1. rs[r] \in Row
    BY DEF RowTable
  <2>2. [rs[r] EXCEPT !.settlement = "authoritative_account_charge"] \in Row
    BY <2>1 DEF Row, SettlementKinds
  <2>3. /\ [rs[r] EXCEPT !.settlement = "authoritative_account_charge"].kind = rs[r].kind
        /\ [rs[r] EXCEPT !.settlement = "authoritative_account_charge"].state = rs[r].state
        /\ [rs[r] EXCEPT !.settlement = "authoritative_account_charge"].max = rs[r].max
        /\ [rs[r] EXCEPT !.settlement = "authoritative_account_charge"].charged = rs[r].charged
    BY <2>1 DEF Row
  <2> QED
    BY <2>1, <2>2, <2>3 DEF Migrated
<1>2. /\ SettledWeights(Migrated(rs)) = SettledWeights(rs)
      /\ UnresolvedWeights(Migrated(rs)) = UnresolvedWeights(rs)
  BY <1>1 DEF SettledWeights, UnresolvedWeights, Rows, Used
<1> QED
  BY <1>2 DEF Settled, Unresolved

\* A transaction that stages a row the table can take, with a receipt that is
\* fresh only for a row that is not there, keeps the invariant.
LEMMA StageKeepsInv ==
    ASSUME TypeOK, LedgerInv, NEW e \in Executors, BeginImmediate(e),
           NEW r \in ReservationIds, NEW row \in Row,
           NEW rcpt \in [id : ReservationIds \cup {None}, replayed : BOOLEAN],
           Stage(e, r, row, rcpt),
           WellFormedRows([rows EXCEPT ![r] = row]),
           WithinCap([rows EXCEPT ![r] = row]),
           rcpt = receipt[e] \/ rcpt.replayed \/ (rows[r] = None /\ rcpt.id = r)
    PROVE  LedgerInv'
<1>1. \A x \in Executors : txn[x] = NoTxn
  BY DEF LedgerInv, BeginImmediate, TypeOK
<1>2. /\ writer' = e
      /\ txn' = [txn EXCEPT ![e] = [id |-> r, row |-> row, receipt |-> rcpt]]
      /\ UNCHANGED <<identity, rows, handle, receipt>>
  BY DEF Stage
<1>3. /\ txn'[e].id = r /\ txn'[e].row = row /\ txn'[e].receipt = rcpt
      /\ \A x \in Executors \ {e} : txn'[x] = NoTxn
  BY <1>1, <1>2 DEF TypeOK
<1>4. /\ identity = None => rows = EmptyRows
      /\ identity # None => WellFormedRows(rows) /\ WithinCap(rows)
      /\ FreshReceiptUnique
  BY DEF LedgerInv
<1>5. /\ (identity = None => rows = EmptyRows)'
      /\ (identity # None => WellFormedRows(rows) /\ WithinCap(rows))'
      /\ FreshReceiptUnique'
  BY <1>2, <1>4 DEF WellFormedRows, WithinCap, Used, FreshReceiptUnique
<1>6. Staged(e)' = [rows EXCEPT ![r] = row]
  BY <1>2, <1>3 DEF Staged
<1>7. WellFormedRows(Staged(e))' /\ WithinCap(Staged(e))'
  BY <1>2, <1>6 DEF WellFormedRows, WithinCap, Used
<1>8. \A x \in Executors :
         (handle[x] # NoHandle =>
              /\ identity # None /\ identity.schema = "v2"
              /\ SameIdentity(handle[x].id, handle[x].cap))'
  BY <1>2 DEF LedgerInv, SameIdentity
<1>9. \A x \in Executors :
         (~receipt[x].replayed => receipt[x].id # None /\ rows[receipt[x].id] # None)'
  BY <1>2 DEF LedgerInv
<1>10. handle'[e] # NoHandle
  BY <1>2 DEF BeginImmediate
<1>11. \/ txn'[e].receipt = receipt'[e]
       \/ txn'[e].receipt.replayed
       \/ rows'[txn'[e].id] = None /\ txn'[e].receipt.id = txn'[e].id
  BY <1>2, <1>3
<1> QED
  BY <1>2, <1>3, <1>5, <1>7, <1>8, <1>9, <1>10, <1>11 DEF LedgerInv

-----------------------------------------------------------------------------
LEMMA InitInv == Init => LedgerInv
<1> SUFFICES ASSUME Init PROVE LedgerInv
  OBVIOUS
<1>1. /\ \A e \in Executors : handle[e] = NoHandle /\ txn[e] = NoTxn
      /\ \A e \in Executors : receipt[e].replayed
  BY DEF Init, NoReceipt
<1>2. identity # None => WellFormedRows(rows)
  <2> SUFFICES ASSUME identity # None PROVE WellFormedRows(rows)
    OBVIOUS
  <2>1. /\ LegacyLedger
        /\ \A r \in Used(rows) : rows[r] \in Row
    BY DEF Init, EmptyRows, Used
  <2>2. identity.schema = "v1"
    BY <2>1 DEF LegacyLedger
  <2> QED
    BY <2>1, <2>2 DEF LegacyLedger, LegacyRow, WellFormedRows, Row
<1>3. identity # None => WithinCap(rows)
  BY DEF Init, LegacyLedger, WithinCap
<1>4. identity = None => rows = EmptyRows
  BY DEF Init
<1> QED
  BY <1>1, <1>2, <1>3, <1>4 DEF LedgerInv, FreshReceiptUnique

LEMMA OpenInv ==
    ASSUME TypeOK, LedgerInv, NEW e \in Executors, NEW id \in LedgerIds,
           NEW cap \in Caps, Open(e, id, cap)
    PROVE  LedgerInv'
<1>1. \A x \in Executors : txn'[x] = NoTxn
  BY DEF Open, LedgerInv, TypeOK
<1>2. /\ identity' # None /\ identity'.schema = "v2"
      /\ identity'.id = id /\ identity'.cap = cap
      /\ identity # None => identity'.cap = identity.cap /\ identity'.id = identity.id
  BY DEF Open, TypeOK, Identities, Schemas, SameIdentity
<1>3. rows \in RowTable
  BY DEF TypeOK, RowTable
<1>4. WithinCap(rows)'
  <2>1. CASE identity = None
    BY <1>2, <2>1, EmptyTotals DEF Open, LedgerInv, WithinCap
  <2>2. CASE identity # None
    <3>1. /\ Settled(rows') = Settled(rows)
          /\ Unresolved(rows') = Unresolved(rows)
      BY <1>3, <2>2, MigrationKeepsTotals DEF Open
    <3>2. /\ Settled(rows)' = Settled(rows')
          /\ Unresolved(rows)' = Unresolved(rows')
      OBVIOUS
    <3> QED
      BY <1>2, <2>2, <3>1 DEF LedgerInv, WithinCap
  <2> QED
    BY <2>1, <2>2
<1>5. \A r \in ReservationIds : rows'[r] = None <=> rows[r] = None
  <2>1. CASE identity = None
    BY <2>1 DEF Open
  <2>2. CASE identity # None
    <3>1. \A r \in ReservationIds :
             rows[r] # None =>
                [rows[r] EXCEPT !.settlement = "authoritative_account_charge"] \in Row
      BY SMTT(30) DEF TypeOK, Row, SettlementKinds
    <3> QED
      BY <2>2, <3>1, SMTT(30) DEF Open, Migrated
  <2> QED
    BY <2>1, <2>2
<1>6. WellFormedRows(rows)'
  <2>1. CASE identity = None
    BY <2>1 DEF Open, LedgerInv, WellFormedRows, Used, EmptyRows
  <2>2. CASE identity # None
    <3> SUFFICES ASSUME NEW r \in ReservationIds, rows[r] # None
                 PROVE  LET row == rows'[r] IN
                        /\ row.state = "unresolved" =>
                               row.charged = None /\ row.evidence = None
                                   /\ row.settlement = None /\ row.reconciled = None
                        /\ row.state = "settled" =>
                               /\ row.charged # None /\ row.charged <= row.max
                               /\ row.evidence # None
                               /\ row.settlement # None
                               /\ row.reconciled # None => row.kind = "existing_credit"
      BY <1>2, <1>5 DEF WellFormedRows, Used
    <3>1. rows[r] \in Row /\ rows[r].state \in {"unresolved", "settled"}
      BY DEF TypeOK, Row
    <3>2. /\ rows[r].state = "unresolved" =>
                rows[r].charged = None /\ rows[r].evidence = None
                   /\ rows[r].settlement = None /\ rows[r].reconciled = None
          /\ rows[r].state = "settled" =>
                /\ rows[r].charged # None /\ rows[r].charged <= rows[r].max
                /\ rows[r].evidence # None
                /\ identity.schema = "v2" => rows[r].settlement # None
                /\ rows[r].reconciled # None => rows[r].kind = "existing_credit"
      BY <2>2 DEF LedgerInv, WellFormedRows, Used
    <3>3. CASE identity.schema = "v1" /\ rows[r].state = "settled" /\ rows[r].settlement = None
      <4>1. rows'[r] = [rows[r] EXCEPT !.settlement = "authoritative_account_charge"]
        BY <2>2, <3>3 DEF Open, Migrated
      <4>2. "authoritative_account_charge" # None
        BY DEF SettlementKinds
      <4> QED
        BY <3>1, <3>2, <3>3, <4>1, <4>2 DEF Row
    <3>4. CASE ~(identity.schema = "v1" /\ rows[r].state = "settled" /\ rows[r].settlement = None)
      <4>1. rows'[r] = rows[r]
        BY <2>2, <3>4 DEF Open, Migrated
      <4>2. identity.schema \in {"v1", "v2"}
        BY <2>2 DEF TypeOK, Identities, Schemas
      <4> QED
        BY <3>1, <3>2, <3>4, <4>1, <4>2
    <3> QED
      BY <3>3, <3>4
  <2> QED
    BY <2>1, <2>2
<1>7. \A x \in Executors : handle'[x] # NoHandle => SameIdentity(handle[x].id, handle[x].cap)'
  <2> SUFFICES ASSUME NEW x \in Executors, handle'[x] # NoHandle
               PROVE  identity'.id = handle'[x].id /\ identity'.cap = handle'[x].cap
    BY DEF SameIdentity
  <2>1. CASE x = e
    BY <1>2, <2>1 DEF Open, TypeOK
  <2>2. CASE x # e
    <3>1. handle'[x] = handle[x]
      BY <2>2 DEF Open, TypeOK
    <3>2. identity # None /\ SameIdentity(handle[x].id, handle[x].cap)
      BY <3>1 DEF LedgerInv
    <3> QED
      BY <1>2, <3>1, <3>2 DEF SameIdentity
  <2> QED
    BY <2>1, <2>2
<1>8. \A x \in Executors :
         ~receipt'[x].replayed => receipt'[x].id # None /\ rows'[receipt'[x].id] # None
  BY <1>5 DEF Open, LedgerInv, TypeOK
<1>9. FreshReceiptUnique'
  BY DEF Open, LedgerInv, FreshReceiptUnique
<1> QED
  BY <1>1, <1>2, <1>4, <1>6, <1>7, <1>8, <1>9 DEF LedgerInv

-----------------------------------------------------------------------------
\* Rewriting one row keeps the table well formed if the new row is.
LEMMA WellFormedUpdate ==
    ASSUME NEW rs \in RowTable, WellFormedRows(rs), NEW r \in ReservationIds,
           NEW row \in Row,
           row.state = "unresolved" =>
               row.charged = None /\ row.evidence = None
                   /\ row.settlement = None /\ row.reconciled = None,
           row.state = "settled" =>
               /\ row.charged # None /\ row.charged <= row.max
               /\ row.evidence # None
               /\ identity.schema = "v2" => row.settlement # None
               /\ row.reconciled # None => row.kind = "existing_credit"
    PROVE  WellFormedRows([rs EXCEPT ![r] = row])
BY DEF WellFormedRows, Used, RowTable

\* An executor with a handle works on a bound, migrated file.
LEMMA OpenFile ==
    ASSUME TypeOK, LedgerInv, NEW e \in Executors, BeginImmediate(e)
    PROVE  /\ identity # None /\ identity.schema = "v2"
           /\ identity.cap = handle[e].cap /\ identity.cap \in Nat
           /\ rows \in RowTable /\ WellFormedRows(rows) /\ WithinCap(rows)
           /\ Charged(rows)
           /\ receipt[e] \in [id : ReservationIds \cup {None}, replayed : BOOLEAN]
<1>1. identity # None /\ identity.schema = "v2" /\ identity.cap = handle[e].cap
  BY DEF LedgerInv, BeginImmediate, SameIdentity
<1>2. identity.cap \in Nat
  BY <1>1 DEF TypeOK, Identities
<1>3. rows \in RowTable /\ WellFormedRows(rows) /\ WithinCap(rows)
  BY <1>1 DEF TypeOK, RowTable, LedgerInv
<1> QED
  BY <1>1, <1>2, <1>3, WellFormedCharged DEF TypeOK

LEMMA ReserveInv ==
    ASSUME TypeOK, LedgerInv, NEW e \in Executors, NEW r \in ReservationIds,
           NEW b \in Bindings, NEW kind \in FundingKinds, NEW a \in Accounts,
           NEW max \in Amounts, Reserve(e, r, b, kind, a, max)
    PROVE  LedgerInv'
<1>1. BeginImmediate(e)
  BY DEF Reserve
<1>2. CASE rows[r] # None /\ Stage(e, r, rows[r], [id |-> r, replayed |-> TRUE])
  <2>1. [rows EXCEPT ![r] = rows[r]] = rows
    BY DEF TypeOK
  <2>2. rows[r] \in Row
    BY <1>2 DEF TypeOK
  <2>3. [id |-> r, replayed |-> TRUE] \in [id : ReservationIds \cup {None}, replayed : BOOLEAN]
    OBVIOUS
  <2>4. [id |-> r, replayed |-> TRUE].replayed
    OBVIOUS
  <2>5. WellFormedRows([rows EXCEPT ![r] = rows[r]]) /\ WithinCap([rows EXCEPT ![r] = rows[r]])
    BY <1>1, <2>1, OpenFile
  <2> HIDE DEF Reserve
  <2> QED
    BY <1>1, <1>2, <2>2, <2>3, <2>4, <2>5, StageKeepsInv
<1>3. CASE /\ rows[r] = None
           /\ kind = "metered" => FitsCap(e, max)
           /\ Stage(e, r, NewRow(b, kind, a, max), [id |-> r, replayed |-> FALSE])
  <2> DEFINE row == NewRow(b, kind, a, max)
             rcpt == [id |-> r, replayed |-> FALSE]
  <2>1. /\ row \in Row
        /\ rcpt \in [id : ReservationIds \cup {None}, replayed : BOOLEAN]
    BY DEF NewRow, Row
  <2>2. /\ row.state = "unresolved" /\ row.kind = kind /\ row.max = max
        /\ row.charged = None /\ row.evidence = None
        /\ row.settlement = None /\ row.reconciled = None
    BY DEF NewRow
  <2>3. SettledWeights(rows)[r] = 0 /\ UnresolvedWeights(rows)[r] = 0
    BY <1>3 DEF SettledWeights, UnresolvedWeights, Rows, Used
  <2>4. /\ SettledWeight(row) = 0
        /\ UnresolvedWeight(row) = IF kind = "metered" THEN max ELSE 0
    BY <2>2 DEF SettledWeight, UnresolvedWeight
  <2> HIDE DEF row
  <2>5. /\ Settled(rows) \in Nat /\ Unresolved(rows) \in Nat
        /\ Settled([rows EXCEPT ![r] = row]) =
             Settled(rows) - SettledWeights(rows)[r] + SettledWeight(row)
        /\ Unresolved([rows EXCEPT ![r] = row]) =
             Unresolved(rows) - UnresolvedWeights(rows)[r] + UnresolvedWeight(row)
    BY <1>1, <2>1, <2>2, OpenFile, HeldUpdate
  <2>6. /\ max \in Nat
        /\ Settled(rows) + Unresolved(rows) <= identity.cap
        /\ kind = "metered" => Settled(rows) + Unresolved(rows) + max <= identity.cap
    BY <1>1, <1>3, OpenFile DEF WithinCap, FitsCap
  <2>7. WithinCap([rows EXCEPT ![r] = row])
    <3>1. CASE kind = "metered"
      BY <2>3, <2>4, <2>5, <2>6, <3>1 DEF WithinCap
    <3>2. CASE kind # "metered"
      BY <2>3, <2>4, <2>5, <2>6, <3>2 DEF WithinCap
    <3> QED
      BY <3>1, <3>2
  <2>8. WellFormedRows([rows EXCEPT ![r] = row])
    BY <1>1, <2>1, <2>2, OpenFile, WellFormedUpdate
  <2>9. Stage(e, r, row, rcpt)
    BY <1>3 DEF row
  <2>10. rows[r] = None /\ rcpt.id = r
    BY <1>3
  <2> HIDE DEF rcpt
  <2> QED
    BY <1>1, <2>1, <2>7, <2>8, <2>9, <2>10, StageKeepsInv
<1> QED
  BY <1>2, <1>3 DEF Reserve

LEMMA SettleInv ==
    ASSUME TypeOK, LedgerInv, NEW e \in Executors, NEW r \in ReservationIds,
           NEW charged \in Amounts, NEW ev \in Evidence, NEW sk \in SettlementKinds,
           Settle(e, r, charged, ev, sk)
    PROVE  LedgerInv'
<1> DEFINE row == SettledRow(rows[r], charged, ev, sk)
<1>1. BeginImmediate(e) /\ CanSettle(rows[r], charged, ev, sk) /\ Stage(e, r, row, receipt[e])
  BY DEF Settle
<1>2. rows[r] \in Row /\ rows[r] # None
  BY <1>1 DEF CanSettle, TypeOK
<1>3. row \in Row
  BY <1>2, SettledRowType
<1>4. /\ row.state = "settled" /\ row.charged = charged /\ row.evidence = ev
      /\ row.settlement = sk /\ row.max = rows[r].max /\ row.kind = rows[r].kind
      /\ row.reconciled = rows[r].reconciled
  BY <1>2 DEF SettledRow, Row
<1>5. /\ charged # None /\ ev # None /\ sk # None
      /\ charged \in Nat /\ rows[r].max \in Nat /\ charged <= rows[r].max
      /\ rows[r].state \in {"unresolved", "settled"}
      /\ rows[r].state = "settled" => rows[r].charged = charged
  BY <1>1, <1>2 DEF CanSettle, Row
<1>6. /\ rows[r].state = "unresolved" => rows[r].reconciled = None
      /\ rows[r].state = "settled" =>
            (rows[r].reconciled # None => rows[r].kind = "existing_credit")
  BY <1>1, <1>2, OpenFile DEF WellFormedRows, Used
<1> HIDE DEF row
<1>7. WellFormedRows([rows EXCEPT ![r] = row])
  BY <1>1, <1>3, <1>4, <1>5, <1>6, OpenFile, WellFormedUpdate
<1>8. /\ Settled(rows) \in Nat /\ Unresolved(rows) \in Nat
      /\ Settled([rows EXCEPT ![r] = row]) =
           Settled(rows) - SettledWeights(rows)[r] + SettledWeight(row)
      /\ Unresolved([rows EXCEPT ![r] = row]) =
           Unresolved(rows) - UnresolvedWeights(rows)[r] + UnresolvedWeight(row)
  BY <1>1, <1>3, <1>4, <1>5, OpenFile, HeldUpdate
<1>9. /\ SettledWeights(rows)[r] =
           IF rows[r].kind = "metered" /\ rows[r].state = "settled" THEN rows[r].charged ELSE 0
      /\ UnresolvedWeights(rows)[r] =
           IF rows[r].kind = "metered" /\ rows[r].state = "unresolved" THEN rows[r].max ELSE 0
  BY <1>2 DEF SettledWeights, UnresolvedWeights, Rows, Used
<1>10. /\ SettledWeight(row) = IF rows[r].kind = "metered" THEN charged ELSE 0
       /\ UnresolvedWeight(row) = 0
  BY <1>4 DEF SettledWeight, UnresolvedWeight
<1>11. identity.cap \in Nat /\ Settled(rows) + Unresolved(rows) <= identity.cap
  BY <1>1, OpenFile DEF WithinCap
<1>12. WithinCap([rows EXCEPT ![r] = row])
  <2>1. CASE rows[r].kind = "metered" /\ rows[r].state = "unresolved"
    BY <1>5, <1>8, <1>9, <1>10, <1>11, <2>1 DEF WithinCap
  <2>2. CASE rows[r].kind = "metered" /\ rows[r].state = "settled"
    BY <1>5, <1>8, <1>9, <1>10, <1>11, <2>2 DEF WithinCap
  <2>3. CASE rows[r].kind # "metered"
    BY <1>8, <1>9, <1>10, <1>11, <2>3 DEF WithinCap
  <2> QED
    BY <1>5, <2>1, <2>2, <2>3
<1> QED
  BY <1>1, <1>3, <1>7, <1>12, OpenFile, StageKeepsInv

LEMMA ReconcileInv ==
    ASSUME TypeOK, LedgerInv, NEW e \in Executors, NEW r \in ReservationIds,
           NEW ev \in Evidence, Reconcile(e, r, ev)
    PROVE  LedgerInv'
<1> DEFINE row == [rows[r] EXCEPT !.reconciled = ev]
<1>1. /\ BeginImmediate(e) /\ Stage(e, r, row, receipt[e])
      /\ rows[r] # None
      /\ rows[r].kind = "existing_credit" /\ rows[r].state = "settled"
  BY DEF Reconcile, CanReconcile
<1>2. rows[r] \in Row
  BY <1>1 DEF TypeOK
<1>3. row \in Row
  BY <1>2, ReconciledRowType
<1>4. /\ row.state = "settled" /\ row.kind = "existing_credit"
      /\ row.charged = rows[r].charged /\ row.evidence = rows[r].evidence
      /\ row.settlement = rows[r].settlement /\ row.max = rows[r].max
  BY <1>1, <1>2 DEF Row
<1>5. /\ rows[r].charged # None /\ rows[r].charged <= rows[r].max
      /\ rows[r].evidence # None /\ rows[r].settlement # None
  BY <1>1, OpenFile DEF WellFormedRows, Used
<1> HIDE DEF row
<1>6. WellFormedRows([rows EXCEPT ![r] = row])
  BY <1>1, <1>3, <1>4, <1>5, OpenFile, WellFormedUpdate
<1>7. /\ SettledWeights(rows)[r] = SettledWeight(row)
      /\ UnresolvedWeights(rows)[r] = UnresolvedWeight(row)
  BY <1>1, <1>4 DEF SettledWeights, UnresolvedWeights, SettledWeight, UnresolvedWeight, Rows, Used
<1>8. WithinCap([rows EXCEPT ![r] = row])
  BY <1>1, <1>3, <1>4, <1>5, <1>7, OpenFile, SameWeights DEF WithinCap
<1> QED
  BY <1>1, <1>3, <1>6, <1>8, OpenFile, StageKeepsInv

\* The write itself: what was staged is what the table becomes.
LEMMA CommitInv ==
    ASSUME TypeOK, LedgerInv, NEW e \in Executors, Commit(e)
    PROVE  LedgerInv'
<1> DEFINE r == txn[e].id
<1>1. /\ r \in ReservationIds /\ txn[e].row \in Row /\ txn[e].row # None
      /\ txn[e].receipt \in [id : ReservationIds \cup {None}, replayed : BOOLEAN]
  BY DEF Commit, TypeOK
<1>2. /\ writer = e /\ handle[e] # NoHandle
      /\ WellFormedRows(Staged(e)) /\ WithinCap(Staged(e))
      /\ identity # None
  BY DEF Commit, LedgerInv
<1>3. /\ rows' = Staged(e) /\ UNCHANGED <<identity, handle>>
      /\ receipt' = [receipt EXCEPT ![e] = txn[e].receipt]
  BY DEF Commit, Staged
<1>4. \A x \in Executors : txn'[x] = NoTxn
  BY <1>2 DEF Commit, LedgerInv, TypeOK
<1>5. WellFormedRows(rows)' /\ WithinCap(rows)'
  BY <1>2, <1>3 DEF WellFormedRows, WithinCap, Used
<1>6. \A x \in Executors :
         (handle[x] # NoHandle =>
              /\ identity # None /\ identity.schema = "v2"
              /\ SameIdentity(handle[x].id, handle[x].cap))'
  BY <1>3 DEF LedgerInv, SameIdentity
<1>7. rows'[r] # None /\ \A y \in ReservationIds : rows[y] # None => rows'[y] # None
  BY <1>1, <1>3 DEF Staged, TypeOK
<1>8. \A x \in Executors \ {e} : receipt'[x] = receipt[x]
  BY <1>3 DEF TypeOK
<1>9. receipt'[e] = txn[e].receipt
  BY <1>3 DEF TypeOK
<1>10. \/ txn[e].receipt = receipt[e]
       \/ txn[e].receipt.replayed
       \/ rows[r] = None /\ txn[e].receipt.id = r
  BY DEF Commit, LedgerInv
<1>11. \A x \in Executors :
          ~receipt[x].replayed =>
              /\ receipt[x].id \in ReservationIds
              /\ rows[receipt[x].id] # None
  BY DEF LedgerInv, TypeOK
<1>12. \A x \in Executors :
          ~receipt'[x].replayed => receipt'[x].id # None /\ rows'[receipt'[x].id] # None
  BY <1>1, <1>7, <1>8, <1>9, <1>10, <1>11
<1>13. FreshReceiptUnique'
  <2> SUFFICES ASSUME NEW x \in Executors, NEW y \in Executors, x # y,
                      ~receipt'[x].replayed, ~receipt'[y].replayed,
                      receipt'[x].id = receipt'[y].id
               PROVE  FALSE
    BY DEF FreshReceiptUnique
  <2>1. FreshReceiptUnique
    BY DEF LedgerInv
  <2>2. CASE x # e /\ y # e
    BY <1>8, <2>1, <2>2 DEF FreshReceiptUnique
  <2>3. CASE x = e
    BY <1>8, <1>9, <1>10, <1>11, <2>1, <2>3 DEF FreshReceiptUnique
  <2>4. CASE y = e
    BY <1>8, <1>9, <1>10, <1>11, <2>1, <2>4 DEF FreshReceiptUnique
  <2> QED
    BY <2>2, <2>3, <2>4
<1> QED
  BY <1>2, <1>3, <1>4, <1>5, <1>6, <1>12, <1>13 DEF LedgerInv

\* A death rolls back: the table stays as it was.
LEMMA CrashInv ==
    ASSUME TypeOK, LedgerInv, NEW e \in Executors, Crash(e)
    PROVE  LedgerInv'
<1>1. UNCHANGED <<identity, rows>>
  BY DEF Crash
<1>2. /\ handle' = [handle EXCEPT ![e] = NoHandle]
      /\ txn' = [txn EXCEPT ![e] = NoTxn]
      /\ writer' = IF writer = e THEN None ELSE writer
      /\ receipt' = [receipt EXCEPT ![e] = NoReceipt]
  BY DEF Crash
<1>3. /\ handle'[e] = NoHandle /\ txn'[e] = NoTxn /\ receipt'[e].replayed
      /\ \A x \in Executors \ {e} :
            handle'[x] = handle[x] /\ txn'[x] = txn[x] /\ receipt'[x] = receipt[x]
  BY <1>2 DEF TypeOK, NoReceipt
<1>4. /\ (identity = None => rows = EmptyRows)'
      /\ (identity # None => WellFormedRows(rows) /\ WithinCap(rows))'
  BY <1>1 DEF LedgerInv, WellFormedRows, WithinCap, Used
<1>5. ASSUME NEW x \in Executors \ {e}
      PROVE  /\ handle'[x] # NoHandle =>
                    /\ identity' # None /\ identity'.schema = "v2"
                    /\ SameIdentity(handle[x].id, handle[x].cap)'
             /\ txn'[x] # NoTxn =>
                    /\ writer' = x /\ handle'[x] # NoHandle
                    /\ WellFormedRows(Staged(x))' /\ WithinCap(Staged(x))'
                    /\ \/ txn'[x].receipt = receipt'[x]
                       \/ txn'[x].receipt.replayed
                       \/ rows'[txn'[x].id] = None /\ txn'[x].receipt.id = txn'[x].id
             /\ ~receipt'[x].replayed =>
                    receipt'[x].id # None /\ rows'[receipt'[x].id] # None
  <2>1. Staged(x)' = Staged(x)
    BY <1>1, <1>3 DEF Staged
  <2>2. /\ WellFormedRows(Staged(x))' <=> WellFormedRows(Staged(x))
        /\ WithinCap(Staged(x))' <=> WithinCap(Staged(x))
    BY <1>1, <2>1 DEF WellFormedRows, WithinCap, Used
  <2>3. txn'[x] # NoTxn => writer' = x
    BY <1>2, <1>3 DEF LedgerInv
  <2>4. SameIdentity(handle[x].id, handle[x].cap)' <=> SameIdentity(handle[x].id, handle[x].cap)
    BY <1>1, <1>3 DEF SameIdentity
  <2> QED
    BY <1>1, <1>3, <2>2, <2>3, <2>4 DEF LedgerInv
<1>6. FreshReceiptUnique'
  BY <1>3 DEF LedgerInv, FreshReceiptUnique
<1> QED
  BY <1>3, <1>4, <1>5, <1>6 DEF LedgerInv

\* Steps of the account, and stuttering, touch nothing the invariant reads.
LEMMA FrameInv ==
    ASSUME LedgerInv, UNCHANGED <<identity, rows, writer, txn, handle, receipt>>
    PROVE  LedgerInv'
<1>1. \A x \in Executors : Staged(x)' = Staged(x)
  BY DEF Staged
<1>2. /\ \A rs : WellFormedRows(rs)' <=> WellFormedRows(rs)
      /\ \A rs : WithinCap(rs)' <=> WithinCap(rs)
  BY DEF WellFormedRows, WithinCap, Used
<1> QED
  BY <1>1, <1>2 DEF LedgerInv, SameIdentity, FreshReceiptUnique, WellFormedRows, WithinCap, Used

-----------------------------------------------------------------------------
\* One step of any executor, the operator or the account keeps the invariant.
LEMMA NextInv == TypeOK /\ LedgerInv /\ [Next]_vars => LedgerInv'
<1> SUFFICES ASSUME TypeOK, LedgerInv, [Next]_vars PROVE LedgerInv'
  OBVIOUS
<1>1. ASSUME NEW e \in Executors, NEW id \in LedgerIds, NEW cap \in Caps,
             Open(e, id, cap)
      PROVE  LedgerInv'
  BY <1>1, OpenInv
<1>2. ASSUME NEW e \in Executors, NEW r \in ReservationIds, NEW b \in Bindings,
             NEW kind \in FundingKinds, NEW a \in Accounts, NEW max \in Amounts,
             Reserve(e, r, b, kind, a, max)
      PROVE  LedgerInv'
  BY <1>2, ReserveInv
<1>3. ASSUME NEW e \in Executors, NEW r \in ReservationIds,
             NEW charged \in Amounts, NEW ev \in Evidence, NEW sk \in SettlementKinds,
             Settle(e, r, charged, ev, sk)
      PROVE  LedgerInv'
  BY <1>3, SettleInv
<1>4. ASSUME NEW e \in Executors, NEW r \in ReservationIds, NEW ev \in Evidence,
             Reconcile(e, r, ev)
      PROVE  LedgerInv'
  BY <1>4, ReconcileInv
<1>5. ASSUME NEW e \in Executors, Commit(e) PROVE LedgerInv'
  BY <1>5, CommitInv
<1>6. ASSUME NEW e \in Executors, Crash(e) PROVE LedgerInv'
  BY <1>6, CrashInv
<1>7. ASSUME NEW e \in Executors, NEW a \in Accounts, Observe(e, a) PROVE LedgerInv'
  BY <1>7, FrameInv DEF Observe
<1>8. ASSUME NEW r \in ReservationIds, Post(r) PROVE LedgerInv'
  BY <1>8, FrameInv DEF Post
<1>9. ASSUME UNCHANGED vars PROVE LedgerInv'
  BY <1>9, FrameInv DEF vars
<1> QED
  BY <1>1, <1>2, <1>3, <1>4, <1>5, <1>6, <1>7, <1>8, <1>9 DEF Next

\* The inductive invariant holds of every behaviour of the ledger.
THEOREM LedgerInvariant == Spec => []LedgerInv
BY InitInv, NextInv, TypeCorrect, PTL DEF Spec

\* The authorized cap is respected, for any number of executors that open,
\* reserve, settle, reconcile, replay and die in any order.
THEOREM CapIsRespected == Spec => []CapRespected
<1>1. LedgerInv => CapRespected
  BY DEF LedgerInv, CapRespected, WithinCap
<1> QED
  BY <1>1, LedgerInvariant, PTL

\* Only one executor can ever hold the receipt that lets it send a segment.
THEOREM FreshReceiptIsUnique == Spec => []FreshReceiptUnique
<1>1. LedgerInv => FreshReceiptUnique
  BY DEF LedgerInv
<1> QED
  BY <1>1, LedgerInvariant, PTL

\* The readiness inspector never meets a row it must call corrupt.
THEOREM InspectorNeverRefuses == Spec => []InspectorAccepts
<1>1. LedgerInv => InspectorAccepts
  BY DEF LedgerInv, WellFormedRows, InspectorAccepts, ReadinessRow
<1> QED
  BY <1>1, LedgerInvariant, PTL

-----------------------------------------------------------------------------
(* What a step may never do: revise a commitment or a settlement.  The     *)
(* write of a transaction is decided when it is staged, so the invariant   *)
(* is strengthened by what a staged row keeps of the one it will replace.  *)

\* A staged row keeps the commitment it will overwrite.
StagedKeeps ==
    \A e \in Executors :
        txn[e] # NoTxn /\ rows[txn[e].id] # None =>
            SameCommitment(rows[txn[e].id], txn[e].row)

\* What a committed row is changed to, by each of the writers.
LEMMA SameRowKept ==
    ASSUME NEW row, row # None
    PROVE  SameCommitment(row, row)
BY DEF SameCommitment, SameReservation

LEMMA SettledRowKept ==
    ASSUME NEW row \in Row, NEW charged \in Amounts, NEW ev \in Evidence,
           NEW sk \in SettlementKinds, CanSettle(row, charged, ev, sk)
    PROVE  SameCommitment(row, SettledRow(row, charged, ev, sk))
<1> DEFINE new == SettledRow(row, charged, ev, sk)
<1>0. new \in Row
  BY SettledRowType
<1> HIDE DEF new
<1>1. new # None
  BY <1>0, NoneAssumption
<1> USE DEF new
<1>2. /\ new.binding = row.binding /\ new.kind = row.kind
      /\ new.account = row.account /\ new.max = row.max
      /\ new.state = "settled" /\ new.charged = charged
      /\ new.evidence = ev /\ new.settlement = sk /\ new.reconciled = row.reconciled
  BY DEF SettledRow, Row
<1>3. row.state = "settled" =>
         row.charged = charged /\ row.evidence = ev /\ row.settlement = sk
  BY DEF CanSettle
<1> HIDE DEF new
<1>4. SameCommitment(row, new)
  BY <1>1, <1>2, <1>3 DEF SameCommitment, SameReservation
<1> QED
  BY <1>4 DEF new

LEMMA ReconciledRowKept ==
    ASSUME NEW row \in Row, NEW ev \in Evidence, CanReconcile(row, ev)
    PROVE  SameCommitment(row, [row EXCEPT !.reconciled = ev])
<1> DEFINE new == [row EXCEPT !.reconciled = ev]
<1>0. new \in Row
  BY ReconciledRowType
<1> HIDE DEF new
<1>1. new # None
  BY <1>0, NoneAssumption
<1> USE DEF new
<1>2. /\ new.binding = row.binding /\ new.kind = row.kind
      /\ new.account = row.account /\ new.max = row.max
      /\ new.state = row.state /\ new.charged = row.charged
      /\ new.evidence = row.evidence /\ new.settlement = row.settlement
      /\ new.reconciled = ev
  BY DEF Row
<1>3. row.reconciled \in {None, ev}
  BY DEF CanReconcile
<1> HIDE DEF new
<1>4. SameCommitment(row, new)
  BY <1>1, <1>2, <1>3 DEF SameCommitment, SameReservation
<1> QED
  BY <1>4 DEF new

LEMMA MigratedRowKept ==
    ASSUME NEW rs \in RowTable, NEW r \in ReservationIds, rs[r] # None
    PROVE  SameCommitment(rs[r], Migrated(rs)[r])
<1>1. rs[r] \in Row
  BY DEF RowTable
<1>2. [rs[r] EXCEPT !.settlement = "authoritative_account_charge"] \in Row
  BY <1>1 DEF Row, SettlementKinds
<1>3. CASE rs[r].state = "settled" /\ rs[r].settlement = None
  <2> DEFINE new == [rs[r] EXCEPT !.settlement = "authoritative_account_charge"]
  <2>1. Migrated(rs)[r] = new
    BY <1>3 DEF Migrated
  <2> HIDE DEF new
  <2>2. new \in Row => new # None
    BY NoneAssumption
  <2> USE DEF new
  <2>5. new # None
    BY <1>2, <2>2
  <2>3. /\ new.binding = rs[r].binding /\ new.kind = rs[r].kind
        /\ new.account = rs[r].account /\ new.max = rs[r].max
        /\ new.state = rs[r].state /\ new.charged = rs[r].charged
        /\ new.evidence = rs[r].evidence /\ new.reconciled = rs[r].reconciled
    BY <1>1 DEF Row
  <2> HIDE DEF new
  <2>4. SameCommitment(rs[r], new)
    BY <2>3, <2>5, <1>3 DEF SameCommitment, SameReservation
  <2> QED
    BY <2>1, <2>4
<1>4. CASE ~(rs[r].state = "settled" /\ rs[r].settlement = None)
  <2>1. Migrated(rs)[r] = rs[r]
    BY <1>4 DEF Migrated
  <2> QED
    BY <2>1, SameRowKept
<1> QED
  BY <1>3, <1>4

-----------------------------------------------------------------------------
\* An open transaction holds the write lock: there is no other, and none while
\* the file is opened.
LEMMA OneTransaction ==
    ASSUME LedgerInv
    PROVE  /\ \A e \in Executors : txn[e] # NoTxn => writer = e
           /\ writer = None => \A e \in Executors : txn[e] = NoTxn
<1>1. \A e \in Executors : e # None
  BY NoneAssumption
<1>2. \A e \in Executors : txn[e] # NoTxn => writer = e
  BY DEF LedgerInv
<1> QED
  BY <1>1, <1>2

\* Staging a row that keeps what it replaces.
LEMMA StageKeeps ==
    ASSUME TypeOK, LedgerInv, StagedKeeps, NEW e \in Executors, writer = None,
           NEW r \in ReservationIds, NEW row, NEW rcpt, Stage(e, r, row, rcpt),
           rows[r] # None => SameCommitment(rows[r], row)
    PROVE  StagedKeeps'
<1>1. \A x \in Executors : txn[x] = NoTxn
  BY OneTransaction
<1>2. /\ txn' = [txn EXCEPT ![e] = [id |-> r, row |-> row, receipt |-> rcpt]]
      /\ rows' = rows
  BY DEF Stage
<1>3. txn'[e].id = r /\ txn'[e].row = row
  BY <1>2 DEF TypeOK
<1>4. \A x \in Executors \ {e} : txn'[x] = NoTxn
  BY <1>1, <1>2 DEF TypeOK
<1> SUFFICES ASSUME NEW x \in Executors, txn'[x] # NoTxn, rows'[txn'[x].id] # None
             PROVE  SameCommitment(rows'[txn'[x].id], txn'[x].row)
  BY DEF StagedKeeps, SameCommitment, SameReservation
<1>5. x = e
  BY <1>4
<1> QED
  BY <1>2, <1>3, <1>5

LEMMA StagedKeepsInv == TypeOK /\ LedgerInv /\ StagedKeeps /\ [Next]_vars => StagedKeeps'
<1> SUFFICES ASSUME TypeOK, LedgerInv, StagedKeeps, [Next]_vars PROVE StagedKeeps'
  OBVIOUS
<1>0. \A r \in ReservationIds : rows[r] # None => rows[r] \in Row
  BY DEF TypeOK
<1>1. ASSUME NEW e \in Executors, NEW id \in LedgerIds, NEW cap \in Caps,
             Open(e, id, cap)
      PROVE  StagedKeeps'
  <2>1. \A x \in Executors : txn'[x] = NoTxn
    BY <1>1, OneTransaction DEF Open
  <2> QED
    BY <2>1 DEF StagedKeeps
<1>2. ASSUME NEW e \in Executors, NEW r \in ReservationIds, NEW b \in Bindings,
             NEW kind \in FundingKinds, NEW a \in Accounts, NEW max \in Amounts,
             Reserve(e, r, b, kind, a, max)
      PROVE  StagedKeeps'
  <2>1. writer = None
    BY <1>2 DEF Reserve, BeginImmediate
  <2>2. CASE rows[r] # None
    <3>1. Stage(e, r, rows[r], [id |-> r, replayed |-> TRUE])
      BY <1>2, <2>2 DEF Reserve
    <3> QED
      BY <2>1, <2>2, <3>1, StageKeeps, SameRowKept
  <2>3. CASE rows[r] = None
    <3>1. Stage(e, r, NewRow(b, kind, a, max), [id |-> r, replayed |-> FALSE])
      BY <1>2, <2>3 DEF Reserve
    <3> QED
      BY <2>1, <2>3, <3>1, StageKeeps
  <2> QED
    BY <2>2, <2>3
<1>3. ASSUME NEW e \in Executors, NEW r \in ReservationIds,
             NEW charged \in Amounts, NEW ev \in Evidence, NEW sk \in SettlementKinds,
             Settle(e, r, charged, ev, sk)
      PROVE  StagedKeeps'
  <2>1. writer = None /\ rows[r] \in Row /\ CanSettle(rows[r], charged, ev, sk)
    BY <1>0, <1>3 DEF Settle, BeginImmediate, CanSettle
  <2>2. Stage(e, r, SettledRow(rows[r], charged, ev, sk), receipt[e])
    BY <1>3 DEF Settle
  <2> QED
    BY <2>1, <2>2, StageKeeps, SettledRowKept
<1>4. ASSUME NEW e \in Executors, NEW r \in ReservationIds, NEW ev \in Evidence,
             Reconcile(e, r, ev)
      PROVE  StagedKeeps'
  <2>1. writer = None /\ rows[r] \in Row /\ CanReconcile(rows[r], ev)
    BY <1>0, <1>4 DEF Reconcile, BeginImmediate, CanReconcile
  <2>2. Stage(e, r, [rows[r] EXCEPT !.reconciled = ev], receipt[e])
    BY <1>4 DEF Reconcile
  <2> QED
    BY <2>1, <2>2, StageKeeps, ReconciledRowKept
<1>5. ASSUME NEW e \in Executors, Commit(e) PROVE StagedKeeps'
  <2>1. \A x \in Executors : txn'[x] = NoTxn
    BY <1>5, OneTransaction DEF Commit, TypeOK
  <2> QED
    BY <2>1 DEF StagedKeeps
<1>6. ASSUME NEW e \in Executors, Crash(e) PROVE StagedKeeps'
  <2>1. rows' = rows /\ \A x \in Executors : txn'[x] \in {txn[x], NoTxn}
    BY <1>6 DEF Crash, TypeOK
  <2> QED
    BY <2>1 DEF StagedKeeps, SameCommitment, SameReservation
<1>7. ASSUME UNCHANGED <<rows, txn>> PROVE StagedKeeps'
  BY <1>7 DEF StagedKeeps, SameCommitment, SameReservation
<1> QED
  BY <1>1, <1>2, <1>3, <1>4, <1>5, <1>6, <1>7 DEF Next, Observe, Post, vars

-----------------------------------------------------------------------------
\* No step revises what a row has committed to.
LEMMA StepKeeps ==
    TypeOK /\ LedgerInv /\ StagedKeeps /\ [Next]_vars =>
        \A r \in Used(rows) : SameCommitment(rows[r], rows'[r])
<1> SUFFICES ASSUME TypeOK, StagedKeeps, [Next]_vars,
                    NEW r \in ReservationIds, rows[r] # None
             PROVE  SameCommitment(rows[r], rows'[r])
  BY DEF Used
<1>1. CASE rows' = rows
  BY <1>1, SameRowKept
<1>2. ASSUME NEW e \in Executors, NEW id \in LedgerIds, NEW cap \in Caps,
             Open(e, id, cap)
      PROVE  SameCommitment(rows[r], rows'[r])
  <2>1. rows' = rows \/ rows' = Migrated(rows)
    BY <1>2 DEF Open
  <2>2. SameCommitment(rows[r], Migrated(rows)[r])
    BY MigratedRowKept DEF TypeOK, RowTable
  <2> QED
    BY <1>1, <2>1, <2>2
<1>3. ASSUME NEW e \in Executors, Commit(e)
      PROVE  SameCommitment(rows[r], rows'[r])
  <2>1. txn[e] # NoTxn /\ rows' = [rows EXCEPT ![txn[e].id] = txn[e].row]
    BY <1>3 DEF Commit
  <2>2. CASE txn[e].id = r
    BY <2>1, <2>2 DEF StagedKeeps, TypeOK
  <2>3. CASE txn[e].id # r
    <3>1. rows'[r] = rows[r]
      BY <2>1, <2>3
    <3> QED
      BY <3>1, SameRowKept
  <2> QED
    BY <2>2, <2>3
<1> QED
  BY <1>1, <1>2, <1>3
  DEF Next, Reserve, Settle, Reconcile, Stage, Crash, Observe, Post, vars

\* A reservation is never withdrawn or bound again, a settlement is never
\* revised and a reconciliation never replaced, whatever is replayed, migrated
\* or dies, for any number of executors and reservations.
THEOREM CommitmentsAreKept == Spec => CommitmentsKept
<1>1. Init => StagedKeeps
  BY DEF Init, StagedKeeps
<1> QED
  BY <1>1, StagedKeepsInv, StepKeeps, TypeCorrect, LedgerInvariant, PTL
  DEF Spec, CommitmentsKept

-----------------------------------------------------------------------------
(* Accounts with existing credit.  A balance read during admission may be  *)
(* older than charges posted since; what makes it safe to admit by is that *)
(* those charges are still retained.                                       *)

\* What a row still holds of an account.
Owed(a, row) ==
    IF row = None THEN 0
    ELSE IF row.kind # "existing_credit" \/ row.account # a THEN 0
    ELSE IF row.state = "unresolved" THEN row.max
    ELSE IF row.reconciled = None THEN row.charged
    ELSE 0

\* The retained amounts that the balance does not show, and those it shows.
PendingWeights(a, rs, paid) == [r \in ReservationIds |-> IF r \in paid THEN 0 ELSE Owed(a, rs[r])]
PaidWeights(a, rs, paid) == [r \in ReservationIds |-> IF r \in paid THEN Owed(a, rs[r]) ELSE 0]
Pending(a, rs, paid) == Total(PendingWeights(a, rs, paid))
Paid(a, rs, paid) == Total(PaidWeights(a, rs, paid))

\* A table under which accounts are covered, now and by every older balance.
CreditOK(rs, paid, bal, obs) ==
    /\ \A r \in paid : rs[r] # None /\ rs[r].kind = "existing_credit" /\ rs[r].state = "settled"
    /\ \A r \in ReservationIds : rs[r] # None /\ rs[r].reconciled # None => r \in paid
    /\ \A a \in Accounts : Pending(a, rs, paid) <= bal[a]
    /\ \A e \in Executors : obs[e] # None =>
          obs[e].available <= bal[obs[e].account] + Paid(obs[e].account, rs, paid)

CreditInv ==
    /\ CreditOK(rows, posted, balance, seen)
    /\ \A e \in Executors : txn[e] # NoTxn => CreditOK(Staged(e), posted, balance, seen)

LEMMA OwedType ==
    ASSUME NEW rs \in RowTable, Charged(rs), NEW r \in ReservationIds, NEW a
    PROVE  Owed(a, rs[r]) \in Nat
BY DEF Owed, RowTable, Charged, Used, Row

LEMMA DebtTypes ==
    ASSUME NEW rs \in RowTable, Charged(rs), NEW a, NEW paid
    PROVE  /\ PendingWeights(a, rs, paid) \in [ReservationIds -> Nat]
           /\ PaidWeights(a, rs, paid) \in [ReservationIds -> Nat]
           /\ Pending(a, rs, paid) \in Nat /\ Paid(a, rs, paid) \in Nat
<1>1. /\ PendingWeights(a, rs, paid) \in [ReservationIds -> Nat]
      /\ PaidWeights(a, rs, paid) \in [ReservationIds -> Nat]
  BY OwedType DEF PendingWeights, PaidWeights
<1> QED
  BY <1>1, UnitsFinite DEF Pending, Paid

LEMMA DebtIs ==
    ASSUME NEW rs \in RowTable, Charged(rs), NEW a
    PROVE  /\ OutstandingWeights(a, rs) = PendingWeights(a, rs, posted)
           /\ Retained(a, rs) = Pending(a, rs, posted) + Paid(a, rs, posted)
<1>1. RetainedWeights(a, rs) = [r \in ReservationIds |-> Owed(a, rs[r])]
  BY DEF RetainedWeights, Owed
<1>2. OutstandingWeights(a, rs) = PendingWeights(a, rs, posted)
  BY <1>1 DEF OutstandingWeights, PendingWeights
<1>3. RetainedWeights(a, rs) \in [ReservationIds -> Nat]
  BY <1>1, OwedType
<1>4. \A r \in ReservationIds :
         \/ PendingWeights(a, rs, posted)[r] = 0 /\ RetainedWeights(a, rs)[r] = PaidWeights(a, rs, posted)[r]
         \/ PaidWeights(a, rs, posted)[r] = 0 /\ RetainedWeights(a, rs)[r] = PendingWeights(a, rs, posted)[r]
  BY <1>1 DEF PendingWeights, PaidWeights
<1>5. Total(RetainedWeights(a, rs)) = Total(PendingWeights(a, rs, posted)) + Total(PaidWeights(a, rs, posted))
  BY <1>3, <1>4, DebtTypes, TableTotalDisjoint
<1> QED
  BY <1>2, <1>5 DEF Retained, Pending, Paid

\* Writing one row moves what is pending, or what is paid, by that row.
LEMMA DebtWritten ==
    ASSUME NEW rs \in RowTable, Charged(rs), NEW r \in ReservationIds, NEW row \in Row,
           row.state = "settled" => row.charged # None, NEW a, NEW paid
    PROVE  LET new == [rs EXCEPT ![r] = row] IN
           /\ new \in RowTable /\ Charged(new) /\ Owed(a, row) \in Nat /\ Owed(a, rs[r]) \in Nat
           /\ r \in paid => /\ Pending(a, new, paid) = Pending(a, rs, paid)
                            /\ Paid(a, new, paid) = Paid(a, rs, paid) - Owed(a, rs[r]) + Owed(a, row)
           /\ r \notin paid => /\ Paid(a, new, paid) = Paid(a, rs, paid)
                               /\ Pending(a, new, paid) = Pending(a, rs, paid) - Owed(a, rs[r]) + Owed(a, row)
<1> DEFINE new == [rs EXCEPT ![r] = row]
           f == PendingWeights(a, rs, paid)
           g == PaidWeights(a, rs, paid)
<1>1. new \in RowTable /\ Charged(new) /\ new[r] = row /\ \A x \in ReservationIds \ {r} : new[x] = rs[x]
  BY DEF RowTable, Charged, Used
<1>2. Owed(a, row) \in Nat /\ Owed(a, rs[r]) \in Nat
  BY <1>1, OwedType
<1>3. r \in paid => /\ PendingWeights(a, new, paid) = f
                    /\ PaidWeights(a, new, paid) = [g EXCEPT ![r] = Owed(a, row)] /\ g[r] = Owed(a, rs[r])
  <2> SUFFICES ASSUME r \in paid
               PROVE  /\ PendingWeights(a, new, paid) = f
                      /\ PaidWeights(a, new, paid) = [g EXCEPT ![r] = Owed(a, row)] /\ g[r] = Owed(a, rs[r])
    OBVIOUS
  <2> HIDE DEF new
  <2>1. \A x \in ReservationIds : Owed(a, new[x]) = IF x = r THEN Owed(a, row) ELSE Owed(a, rs[x])
    BY <1>1
  <2> QED
    BY <2>1 DEF PendingWeights, PaidWeights
<1>4. r \notin paid => /\ PaidWeights(a, new, paid) = g
                       /\ PendingWeights(a, new, paid) = [f EXCEPT ![r] = Owed(a, row)] /\ f[r] = Owed(a, rs[r])
  <2> SUFFICES ASSUME r \notin paid
               PROVE  /\ PaidWeights(a, new, paid) = g
                      /\ PendingWeights(a, new, paid) = [f EXCEPT ![r] = Owed(a, row)] /\ f[r] = Owed(a, rs[r])
    OBVIOUS
  <2> HIDE DEF new
  <2>1. \A x \in ReservationIds : Owed(a, new[x]) = IF x = r THEN Owed(a, row) ELSE Owed(a, rs[x])
    BY <1>1
  <2> QED
    BY <2>1 DEF PendingWeights, PaidWeights
<1>5. f \in [ReservationIds -> Nat] /\ g \in [ReservationIds -> Nat]
  BY DebtTypes
<1>6. /\ Total([f EXCEPT ![r] = Owed(a, row)]) = Total(f) - f[r] + Owed(a, row)
      /\ Total([g EXCEPT ![r] = Owed(a, row)]) = Total(g) - g[r] + Owed(a, row)
  BY <1>2, <1>5, TableTotalUpdate
<1> HIDE DEF f, g, new
<1>7. Total(f) = Pending(a, rs, paid) /\ Total(g) = Paid(a, rs, paid)
  BY DEF f, g, Pending, Paid
<1>8. r \in paid => /\ Pending(a, new, paid) = Pending(a, rs, paid)
                    /\ Paid(a, new, paid) = Paid(a, rs, paid) - Owed(a, rs[r]) + Owed(a, row)
  BY <1>3, <1>6, <1>7 DEF Pending, Paid
<1>9. r \notin paid => /\ Paid(a, new, paid) = Paid(a, rs, paid)
                       /\ Pending(a, new, paid) = Pending(a, rs, paid) - Owed(a, rs[r]) + Owed(a, row)
  BY <1>4, <1>6, <1>7 DEF Pending, Paid
<1> QED
  BY <1>1, <1>2, <1>8, <1>9 DEF new

\* A charge that reaches the balance moves from what is pending to what is paid.
LEMMA DebtPaid ==
    ASSUME NEW rs \in RowTable, Charged(rs), NEW r \in ReservationIds, NEW a, NEW paid, r \notin paid
    PROVE  /\ Pending(a, rs, paid \cup {r}) = Pending(a, rs, paid) - Owed(a, rs[r])
           /\ Paid(a, rs, paid \cup {r}) = Paid(a, rs, paid) + Owed(a, rs[r])
<1> DEFINE f == PendingWeights(a, rs, paid)
           g == PaidWeights(a, rs, paid)
<1>1. Owed(a, rs[r]) \in Nat
  BY OwedType
<1>2. PendingWeights(a, rs, paid \cup {r}) = [f EXCEPT ![r] = 0] /\ f[r] = Owed(a, rs[r])
  BY DEF PendingWeights
<1>3. PaidWeights(a, rs, paid \cup {r}) = [g EXCEPT ![r] = Owed(a, rs[r])] /\ g[r] = 0
  BY DEF PaidWeights
<1>4. f \in [ReservationIds -> Nat] /\ g \in [ReservationIds -> Nat] /\ Total(f) \in Nat /\ Total(g) \in Nat
  BY DebtTypes DEF Pending, Paid
<1>5. /\ Total([f EXCEPT ![r] = 0]) = Total(f) - f[r] + 0
      /\ Total([g EXCEPT ![r] = Owed(a, rs[r])]) = Total(g) - g[r] + Owed(a, rs[r])
  BY <1>1, <1>4, TableTotalUpdate
<1>6. Total(f) = Pending(a, rs, paid) /\ Total(g) = Paid(a, rs, paid)
  BY DEF Pending, Paid
<1> HIDE DEF f, g
<1> QED
  BY <1>1, <1>2, <1>3, <1>4, <1>5, <1>6 DEF Pending, Paid

\* A write that leaves accounts covered: of a row whose charge is not posted,
LEMMA WriteUnposted ==
    ASSUME NEW rs \in RowTable, Charged(rs), NEW r \in ReservationIds, NEW row \in Row,
           row.state = "settled" => row.charged # None,
           NEW paid, NEW bal, NEW obs, CreditOK(rs, paid, bal, obs), r \notin paid, row.reconciled = None,
           \A a \in Accounts : Pending(a, rs, paid) - Owed(a, rs[r]) + Owed(a, row) <= bal[a]
    PROVE  CreditOK([rs EXCEPT ![r] = row], paid, bal, obs)
<1> DEFINE new == [rs EXCEPT ![r] = row]
<1>1. new[r] = row /\ \A x \in ReservationIds \ {r} : new[x] = rs[x]
  BY DEF RowTable
<1>2. \A a : /\ Paid(a, new, paid) = Paid(a, rs, paid)
             /\ Pending(a, new, paid) = Pending(a, rs, paid) - Owed(a, rs[r]) + Owed(a, row)
  BY DebtWritten
<1> HIDE DEF new
<1>3. \A x \in paid : new[x] # None /\ new[x].kind = "existing_credit" /\ new[x].state = "settled"
  <2>1. \A x \in paid : x # r /\ new[x] = rs[x]
    BY DEF new
  <2> QED
    BY <2>1 DEF CreditOK
<1>4. \A x \in ReservationIds : new[x] # None /\ new[x].reconciled # None => x \in paid
  BY <1>1 DEF CreditOK
<1> QED
  BY <1>2, <1>3, <1>4 DEF CreditOK, new

\* and of one whose charge is.
LEMMA WritePosted ==
    ASSUME NEW rs \in RowTable, Charged(rs), NEW r \in ReservationIds, NEW row \in Row,
           row.state = "settled", row.charged # None, row.kind = "existing_credit",
           NEW paid, NEW bal, NEW obs, CreditOK(rs, paid, bal, obs), r \in paid,
           \/ \A a : Owed(a, row) = Owed(a, rs[r])
           \/ \A e \in Executors : obs[e] = None
    PROVE  CreditOK([rs EXCEPT ![r] = row], paid, bal, obs)
<1> DEFINE new == [rs EXCEPT ![r] = row]
<1>1. new[r] = row /\ row # None /\ \A x \in ReservationIds \ {r} : new[x] = rs[x]
  BY DEF RowTable
<1>2. \A a : /\ Pending(a, new, paid) = Pending(a, rs, paid)
             /\ Paid(a, new, paid) = Paid(a, rs, paid) - Owed(a, rs[r]) + Owed(a, row)
             /\ Paid(a, rs, paid) \in Nat /\ Owed(a, row) \in Nat /\ Owed(a, rs[r]) \in Nat
  BY DebtWritten, DebtTypes
<1>3. (\A a : Owed(a, row) = Owed(a, rs[r])) => \A a : Paid(a, new, paid) = Paid(a, rs, paid)
  <2> SUFFICES ASSUME \A a : Owed(a, row) = Owed(a, rs[r]), NEW a
               PROVE  Paid(a, new, paid) = Paid(a, rs, paid)
    OBVIOUS
  <2> HIDE DEF new
  <2>1. Owed(a, row) = Owed(a, rs[r])
    OBVIOUS
  <2> QED
    BY <1>2, <2>1
<1> HIDE DEF new
<1>4. \A x \in paid : new[x] # None /\ new[x].kind = "existing_credit" /\ new[x].state = "settled"
  <2>1. \A x \in paid : x # r => new[x] = rs[x]
    BY DEF new
  <2> QED
    BY <1>1, <2>1 DEF CreditOK
<1>5. \A x \in ReservationIds : new[x] # None /\ new[x].reconciled # None => x \in paid
  BY <1>1 DEF CreditOK
<1> QED
  BY <1>2, <1>3, <1>4, <1>5 DEF CreditOK, new

Seen == [account : Accounts, available : Nat]

\* A charge of the table reaches the balance of its account.
LEMMA PostCovered ==
    ASSUME NEW rs \in RowTable, Charged(rs), NEW r \in ReservationIds,
           rs[r] # None, rs[r].kind = "existing_credit", rs[r].state = "settled",
           NEW paid, NEW bal \in [Accounts -> Nat], NEW obs \in [Executors -> Seen \cup {None}],
           CreditOK(rs, paid, bal, obs), r \notin paid, rs[r].charged <= bal[rs[r].account]
    PROVE  CreditOK(rs, paid \cup {r}, [bal EXCEPT ![rs[r].account] = @ - rs[r].charged], obs)
<1> DEFINE acc == rs[r].account
           c == rs[r].charged
           new == [bal EXCEPT ![acc] = @ - c]
<1>1. acc \in Accounts /\ c \in Nat
  BY DEF RowTable, Row, Charged, Used
<1>2. rs[r].reconciled = None
  BY DEF CreditOK
<1>3. \A a \in Accounts : Owed(a, rs[r]) = IF a = acc THEN c ELSE 0
  BY <1>2 DEF Owed
<1>4. \A a \in Accounts : /\ Pending(a, rs, paid \cup {r}) = Pending(a, rs, paid) - Owed(a, rs[r])
                          /\ Paid(a, rs, paid \cup {r}) = Paid(a, rs, paid) + Owed(a, rs[r])
                          /\ Pending(a, rs, paid) \in Nat /\ Paid(a, rs, paid) \in Nat
  BY DebtPaid, DebtTypes
<1> HIDE DEF acc, c
<1>5. \A a \in Accounts : new[a] = (IF a = acc THEN bal[a] - c ELSE bal[a]) /\ bal[a] \in Nat
  BY <1>1
<1> HIDE DEF new
<1>6. \A a \in Accounts : Pending(a, rs, paid \cup {r}) <= new[a]
  <2> SUFFICES ASSUME NEW a \in Accounts PROVE Pending(a, rs, paid \cup {r}) <= new[a]
    OBVIOUS
  <2>1. Pending(a, rs, paid) <= bal[a]
    BY DEF CreditOK
  <2>2. Pending(a, rs, paid \cup {r}) = Pending(a, rs, paid) - Owed(a, rs[r]) /\ Pending(a, rs, paid) \in Nat
    BY <1>4
  <2>3. CASE a = acc
    <3>1. Owed(a, rs[r]) = c /\ new[a] = bal[a] - c /\ bal[a] \in Nat
      BY <1>3, <1>5, <2>3
    <3> QED
      BY <1>1, <2>1, <2>2, <3>1
  <2>4. CASE a # acc
    <3>1. Owed(a, rs[r]) = 0 /\ new[a] = bal[a] /\ bal[a] \in Nat
      BY <1>3, <1>5, <2>4
    <3> QED
      BY <2>1, <2>2, <3>1
  <2> QED
    BY <2>3, <2>4
<1>7. ASSUME NEW e \in Executors, obs[e] # None
      PROVE  obs[e].available <= new[obs[e].account] + Paid(obs[e].account, rs, paid \cup {r})
  <2>1. obs[e].account \in Accounts /\ obs[e].available \in Nat
    BY <1>7 DEF Seen
  <2> DEFINE a == obs[e].account
             v == obs[e].available
  <2>2. v <= bal[a] + Paid(a, rs, paid)
    BY <1>7 DEF CreditOK
  <2> HIDE DEF a, v
  <2>3. v <= new[a] + Paid(a, rs, paid \cup {r})
    <3>1. a \in Accounts /\ v \in Nat
      BY <2>1 DEF a, v
    <3>2. Paid(a, rs, paid \cup {r}) = Paid(a, rs, paid) + Owed(a, rs[r]) /\ Paid(a, rs, paid) \in Nat
      BY <1>4, <3>1
    <3>3. CASE a = acc
      <4>1. Owed(a, rs[r]) = c /\ new[a] = bal[a] - c /\ bal[a] \in Nat
        BY <1>3, <1>5, <3>1, <3>3
      <4> QED
        BY <1>1, <2>2, <3>1, <3>2, <4>1
    <3>4. CASE a # acc
      <4>1. Owed(a, rs[r]) = 0 /\ new[a] = bal[a] /\ bal[a] \in Nat
        BY <1>3, <1>5, <3>1, <3>4
      <4> QED
        BY <2>2, <3>1, <3>2, <4>1
    <3> QED
      BY <3>3, <3>4
  <2> QED
    BY <2>3 DEF a, v
<1>8. /\ \A x \in paid \cup {r} : rs[x] # None /\ rs[x].kind = "existing_credit" /\ rs[x].state = "settled"
      /\ \A x \in ReservationIds : rs[x] # None /\ rs[x].reconciled # None => x \in paid \cup {r}
  BY DEF CreditOK
<1> QED
  BY <1>6, <1>7, <1>8 DEF CreditOK, new, acc, c

\* An observation is forgotten, or made of the balance there is.
LEMMA ObservedCovered ==
    ASSUME NEW rs \in RowTable, Charged(rs), NEW paid, NEW bal \in [Accounts -> Nat], NEW obs, NEW new,
           CreditOK(rs, paid, bal, obs),
           \A e \in Executors : \/ new[e] \in {obs[e], None}
                                \/ \E a \in Accounts : new[e].account = a /\ new[e].available = bal[a]
    PROVE  CreditOK(rs, paid, bal, new)
<1>1. \A a \in Accounts : bal[a] \in Nat /\ Paid(a, rs, paid) \in Nat
  BY DebtTypes
<1>2. ASSUME NEW e \in Executors, new[e] # None
      PROVE  new[e].available <= bal[new[e].account] + Paid(new[e].account, rs, paid)
  <2>1. CASE new[e] = obs[e]
    BY <1>2, <2>1 DEF CreditOK
  <2>2. CASE \E a \in Accounts : new[e].account = a /\ new[e].available = bal[a]
    <3>1. PICK a \in Accounts : new[e].account = a /\ new[e].available = bal[a]
      BY <2>2
    <3>2. bal[a] <= bal[a] + Paid(a, rs, paid)
      BY <1>1
    <3> QED
      BY <3>1, <3>2
  <2> QED
    BY <1>2, <2>1, <2>2
<1> QED
  BY <1>2 DEF CreditOK

\* The migration changes nothing that is owed.
LEMMA MigratedCovered ==
    ASSUME NEW rs \in RowTable, NEW paid \in SUBSET ReservationIds, NEW bal, NEW obs,
           CreditOK(rs, paid, bal, obs)
    PROVE  CreditOK(Migrated(rs), paid, bal, obs)
<1>1. \A r \in ReservationIds :
         /\ Migrated(rs)[r] = None <=> rs[r] = None
         /\ rs[r] # None =>
               /\ Migrated(rs)[r].kind = rs[r].kind /\ Migrated(rs)[r].account = rs[r].account
               /\ Migrated(rs)[r].state = rs[r].state /\ Migrated(rs)[r].max = rs[r].max
               /\ Migrated(rs)[r].charged = rs[r].charged /\ Migrated(rs)[r].reconciled = rs[r].reconciled
  <2> SUFFICES ASSUME NEW r \in ReservationIds, rs[r] # None
               PROVE  /\ Migrated(rs)[r] # None
                      /\ Migrated(rs)[r].kind = rs[r].kind /\ Migrated(rs)[r].account = rs[r].account
                      /\ Migrated(rs)[r].state = rs[r].state /\ Migrated(rs)[r].max = rs[r].max
                      /\ Migrated(rs)[r].charged = rs[r].charged /\ Migrated(rs)[r].reconciled = rs[r].reconciled
    BY DEF Migrated
  <2> DEFINE new == [rs[r] EXCEPT !.settlement = "authoritative_account_charge"]
  <2>1. rs[r] \in Row
    BY DEF RowTable
  <2>2. new \in Row
    BY <2>1 DEF Row, SettlementKinds
  <2>3. /\ new.kind = rs[r].kind /\ new.account = rs[r].account /\ new.state = rs[r].state
        /\ new.max = rs[r].max /\ new.charged = rs[r].charged /\ new.reconciled = rs[r].reconciled
    BY <2>1 DEF Row
  <2> QED
    BY <2>1, <2>2, <2>3 DEF Migrated
<1>2. \A a : \A r \in ReservationIds : Owed(a, Migrated(rs)[r]) = Owed(a, rs[r])
  BY <1>1 DEF Owed
<1>3. \A a : /\ Pending(a, Migrated(rs), paid) = Pending(a, rs, paid)
             /\ Paid(a, Migrated(rs), paid) = Paid(a, rs, paid)
  BY <1>2 DEF Pending, Paid, PendingWeights, PaidWeights
<1>4. \A r \in paid : /\ Migrated(rs)[r] # None /\ Migrated(rs)[r].kind = "existing_credit"
                      /\ Migrated(rs)[r].state = "settled"
  BY <1>1 DEF CreditOK
<1>5. \A r \in ReservationIds : Migrated(rs)[r] # None /\ Migrated(rs)[r].reconciled # None => r \in paid
  BY <1>1 DEF CreditOK
<1> QED
  BY <1>3, <1>4, <1>5 DEF CreditOK

-----------------------------------------------------------------------------
\* Before an identity is bound the table is empty; after it, every settled row
\* has its charge.
LEMMA RowsCharged ==
    ASSUME TypeOK, LedgerInv
    PROVE  /\ rows \in RowTable /\ Charged(rows)
           /\ \A e \in Executors : txn[e] # NoTxn => Staged(e) \in RowTable /\ Charged(Staged(e))
<1>1. rows \in RowTable
  BY DEF TypeOK, RowTable
<1>2. Charged(rows)
  BY DEF LedgerInv, EmptyRows, Charged, Used, WellFormedRows
<1>3. ASSUME NEW e \in Executors, txn[e] # NoTxn
      PROVE  Staged(e) \in RowTable /\ Charged(Staged(e))
  <2>1. txn[e].id \in ReservationIds /\ txn[e].row \in Row
    BY <1>3 DEF TypeOK
  <2>2. WellFormedRows(Staged(e))
    BY <1>3 DEF LedgerInv
  <2> QED
    BY <1>1, <2>1, <2>2 DEF Staged, RowTable, Charged, WellFormedRows
<1> QED
  BY <1>1, <1>2, <1>3

\* A transaction that stages a covered table leaves everything covered.
LEMMA StageCredit ==
    ASSUME TypeOK, LedgerInv, CreditInv, writer = None,
           NEW e \in Executors, NEW r \in ReservationIds, NEW row \in Row, NEW rcpt,
           Stage(e, r, row, rcpt), CreditOK([rows EXCEPT ![r] = row], posted, balance, seen)
    PROVE  CreditInv'
<1>1. rows' = rows /\ posted' = posted /\ balance' = balance /\ seen' = seen
  BY DEF Stage
<1>2. txn'[e].id = r /\ txn'[e].row = row /\ \A x \in Executors \ {e} : txn'[x] = NoTxn
  BY DEF Stage, TypeOK, LedgerInv
<1>3. CreditOK(rows, posted, balance, seen)'
  BY <1>1 DEF CreditInv, CreditOK
<1>4. ASSUME NEW x \in Executors, txn'[x] # NoTxn
      PROVE  CreditOK(Staged(x), posted, balance, seen)'
  <2>1. x = e
    BY <1>2, <1>4
  <2>2. Staged(x)' = [rows EXCEPT ![r] = row]
    BY <1>1, <1>2, <2>1 DEF Staged
  <2> QED
    BY <1>1, <2>2 DEF CreditOK
<1> QED
  BY <1>3, <1>4 DEF CreditInv

LEMMA InitCredit == Init => CreditInv
<1> SUFFICES ASSUME Init PROVE CreditInv
  OBVIOUS
<1>1. \A r \in ReservationIds : rows[r] # None => rows[r].kind = "metered" /\ rows[r].reconciled = None
  <2>1. CASE rows = EmptyRows
    BY <2>1 DEF EmptyRows
  <2>2. CASE LegacyLedger
    BY <2>2 DEF LegacyLedger, LegacyRow, Used
  <2> QED
    BY <2>1, <2>2 DEF Init
<1>2. \A a : \A r \in ReservationIds : Owed(a, rows[r]) = 0
  BY <1>1 DEF Owed
<1>3. \A a \in Accounts : Pending(a, rows, {}) = 0
  <2>1. \A a \in Accounts : PendingWeights(a, rows, {}) = [r \in ReservationIds |-> 0]
    BY <1>2 DEF PendingWeights
  <2> DEFINE zero == [r \in ReservationIds |-> 0]
  <2>2. DOMAIN zero = ReservationIds /\ \A r \in ReservationIds : zero[r] = 0
    OBVIOUS
  <2> HIDE DEF zero
  <2>3. Total(zero) = 0
    BY <2>2, TotalZero
  <2> QED
    BY <2>1, <2>3 DEF Pending, zero
<1>4. \A a \in Accounts : balance[a] \in Nat
  BY DEF Init
<1>5. posted = {} /\ \A e \in Executors : seen[e] = None /\ txn[e] = NoTxn
  BY DEF Init
<1> QED
  BY <1>1, <1>3, <1>4, <1>5 DEF CreditInv, CreditOK

LEMMA SameRowWritten ==
    ASSUME NEW rs \in RowTable, NEW r
    PROVE  [rs EXCEPT ![r] = rs[r]] = rs
BY DEF RowTable

LEMMA OpenCredit ==
    ASSUME TypeOK, LedgerInv, CreditInv, NEW e \in Executors, NEW id \in LedgerIds,
           NEW cap \in Caps, Open(e, id, cap)
    PROVE  CreditInv'
<1>1. posted' = posted /\ balance' = balance /\ seen' = seen /\ txn' = txn
  BY DEF Open
<1>2. \A x \in Executors : txn'[x] = NoTxn
  BY <1>1, OneTransaction DEF Open
<1>3. CreditOK(rows', posted, balance, seen)
  <2>1. rows' = rows \/ rows' = Migrated(rows)
    BY DEF Open
  <2>2. CreditOK(rows, posted, balance, seen) /\ rows \in RowTable /\ posted \in SUBSET ReservationIds
    BY RowsCharged DEF CreditInv, TypeOK
  <2> QED
    BY <2>1, <2>2, MigratedCovered
<1>4. CreditOK(rows, posted, balance, seen)'
  BY <1>1, <1>3 DEF CreditOK
<1> QED
  BY <1>2, <1>4 DEF CreditInv

LEMMA ReserveCredit ==
    ASSUME TypeOK, LedgerInv, CreditInv, NEW e \in Executors, NEW r \in ReservationIds,
           NEW b \in Bindings, NEW kind \in FundingKinds, NEW a \in Accounts,
           NEW max \in Amounts, Reserve(e, r, b, kind, a, max)
    PROVE  CreditInv'
<1>1. rows \in RowTable /\ Charged(rows) /\ CreditOK(rows, posted, balance, seen) /\ writer = None
  BY RowsCharged DEF CreditInv, Reserve, BeginImmediate
<1>2. CASE rows[r] # None
  <2>1. \E rcpt : Stage(e, r, rows[r], rcpt)
    BY <1>2 DEF Reserve
  <2>2. [rows EXCEPT ![r] = rows[r]] = rows
    BY <1>1, SameRowWritten
  <2>3. rows[r] \in Row
    BY <1>1, <1>2 DEF RowTable
  <2> QED
    BY <1>1, <2>1, <2>2, <2>3, StageCredit
<1>3. CASE rows[r] = None
  <2> DEFINE row == NewRow(b, kind, a, max)
  <2>1. \E rcpt : Stage(e, r, row, rcpt)
    BY <1>3 DEF Reserve
  <2>2. row \in Row
    BY DEF NewRow, Row
  <2>3. row.state = "unresolved" /\ row.reconciled = None /\ r \notin posted
    BY <1>1, <1>3 DEF NewRow, CreditOK
  <2>4. /\ \A x \in Accounts : Owed(x, row) = IF kind = "existing_credit" /\ x = a THEN max ELSE 0
        /\ \A x \in Accounts : Owed(x, rows[r]) = 0
    BY <1>3, <2>2 DEF NewRow, Owed
  <2>5. \A x \in Accounts : /\ Pending(x, rows, posted) \in Nat /\ Paid(x, rows, posted) \in Nat
                            /\ Pending(x, rows, posted) <= balance[x] /\ balance[x] \in Nat
    BY <1>1, DebtTypes DEF CreditOK, TypeOK
  <2>6. CASE kind = "existing_credit"
    <3>1. seen[e] # None /\ seen[e].account = a /\ Retained(a, rows) + max <= seen[e].available
      BY <1>3, <2>6 DEF Reserve, FitsCredit
    <3>2. seen[e].available <= balance[a] + Paid(a, rows, posted)
      BY <1>1, <3>1 DEF CreditOK
    <3>3. Retained(a, rows) = Pending(a, rows, posted) + Paid(a, rows, posted)
      BY <1>1, DebtIs
    <3>4. seen[e].available \in Nat
      BY <3>1 DEF TypeOK
    <3>5. Pending(a, rows, posted) + max <= balance[a]
      BY <2>5, <3>1, <3>2, <3>3, <3>4
    <3>6. \A x \in Accounts : Pending(x, rows, posted) - Owed(x, rows[r]) + Owed(x, row) <= balance[x]
      <4> SUFFICES ASSUME NEW x \in Accounts
                   PROVE  Pending(x, rows, posted) - Owed(x, rows[r]) + Owed(x, row) <= balance[x]
        OBVIOUS
      <4>1. CASE x = a
        <5>1. Owed(x, row) = max /\ Owed(x, rows[r]) = 0
          BY <2>4, <2>6, <4>1
        <5> HIDE DEF row
        <5> QED
          BY <2>5, <3>5, <4>1, <5>1
      <4>2. CASE x # a
        <5>1. Owed(x, row) = 0 /\ Owed(x, rows[r]) = 0
          BY <2>4, <4>2
        <5> HIDE DEF row
        <5> QED
          BY <2>5, <5>1
      <4> QED
        BY <4>1, <4>2
    <3>7. CreditOK([rows EXCEPT ![r] = row], posted, balance, seen)
      <4> HIDE DEF row
      <4> QED
        BY <1>1, <2>2, <2>3, <3>6, WriteUnposted
    <3> HIDE DEF row
    <3> QED
      BY <1>1, <2>1, <2>2, <3>7, StageCredit
  <2>7. CASE kind # "existing_credit"
    <3>1. \A x \in Accounts : Owed(x, row) = 0 /\ Owed(x, rows[r]) = 0
      BY <2>4, <2>7
    <3> HIDE DEF row
    <3>2. \A x \in Accounts : Pending(x, rows, posted) - Owed(x, rows[r]) + Owed(x, row) <= balance[x]
      BY <2>5, <3>1
    <3>3. CreditOK([rows EXCEPT ![r] = row], posted, balance, seen)
      BY <1>1, <2>2, <2>3, <3>2, WriteUnposted
    <3> QED
      BY <1>1, <2>1, <2>2, <3>3, StageCredit
  <2> QED
    BY <2>6, <2>7
<1> QED
  BY <1>2, <1>3

LEMMA SettleCredit ==
    ASSUME TypeOK, LedgerInv, CreditInv, NEW e \in Executors, NEW r \in ReservationIds,
           NEW charged \in Amounts, NEW ev \in Evidence, NEW sk \in SettlementKinds,
           Settle(e, r, charged, ev, sk)
    PROVE  CreditInv'
<1> DEFINE row == SettledRow(rows[r], charged, ev, sk)
<1>1. /\ rows \in RowTable /\ Charged(rows) /\ CreditOK(rows, posted, balance, seen)
      /\ writer = None /\ Stage(e, r, row, receipt[e])
  BY RowsCharged DEF CreditInv, Settle, BeginImmediate
<1>2. /\ rows[r] # None /\ charged <= rows[r].max
      /\ rows[r].state = "settled" => rows[r].charged = charged
  BY DEF Settle, CanSettle
<1>3. rows[r] \in Row
  BY <1>1, <1>2 DEF RowTable
<1>4. row \in Row
  BY <1>3, SettledRowType
<1>5. /\ row.state = "settled" /\ row.charged = charged /\ row.kind = rows[r].kind
      /\ row.account = rows[r].account /\ row.reconciled = rows[r].reconciled
  BY <1>3 DEF SettledRow, Row
<1>6. charged # None /\ row # None
  BY <1>4
<1> HIDE DEF row
<1>7. CASE r \in posted
  <2>1. rows[r].state = "settled" /\ rows[r].kind = "existing_credit"
    BY <1>1, <1>7 DEF CreditOK
  <2>2. \A x : Owed(x, row) = Owed(x, rows[r])
    BY <1>2, <1>5, <1>6, <2>1 DEF Owed
  <2>3. CreditOK([rows EXCEPT ![r] = row], posted, balance, seen)
    BY <1>1, <1>4, <1>5, <1>6, <1>7, <2>1, <2>2, WritePosted
  <2> QED
    BY <1>1, <1>4, <2>3, StageCredit
<1>8. CASE r \notin posted
  <2>1. rows[r].reconciled = None
    BY <1>1, <1>2, <1>8 DEF CreditOK
  <2>2. rows[r].max \in Nat /\ charged \in Nat /\ rows[r].state \in {"settled", "unresolved"}
    BY <1>3 DEF Row
  <2>3. \A x : Owed(x, row) <= Owed(x, rows[r]) /\ Owed(x, row) \in Nat /\ Owed(x, rows[r]) \in Nat
    BY <1>2, <1>5, <1>6, <2>1, <2>2 DEF Owed
  <2>4. \A x \in Accounts : /\ Pending(x, rows, posted) \in Nat
                            /\ Pending(x, rows, posted) <= balance[x] /\ balance[x] \in Nat
    BY <1>1, DebtTypes DEF CreditOK, TypeOK
  <2>5. \A x \in Accounts : Pending(x, rows, posted) - Owed(x, rows[r]) + Owed(x, row) <= balance[x]
    BY <2>3, <2>4
  <2>6. CreditOK([rows EXCEPT ![r] = row], posted, balance, seen)
    BY <1>1, <1>4, <1>5, <1>6, <1>8, <2>1, <2>5, WriteUnposted
  <2> QED
    BY <1>1, <1>4, <2>6, StageCredit
<1> QED
  BY <1>7, <1>8

\* The operator reconciles when nobody holds an older balance.
LEMMA ReconcileCredit ==
    ASSUME ~ ReconcileEarly, TypeOK, LedgerInv, CreditInv, NEW e \in Executors,
           NEW r \in ReservationIds, NEW ev \in Evidence, Reconcile(e, r, ev)
    PROVE  CreditInv'
<1> DEFINE row == [rows[r] EXCEPT !.reconciled = ev]
<1>1. /\ rows \in RowTable /\ Charged(rows) /\ CreditOK(rows, posted, balance, seen)
      /\ writer = None /\ Stage(e, r, row, receipt[e])
      /\ r \in posted /\ \A x \in Executors : seen[x] = None
  BY RowsCharged DEF CreditInv, Reconcile, BeginImmediate
<1>2. rows[r] # None /\ rows[r].kind = "existing_credit" /\ rows[r].state = "settled"
  BY DEF Reconcile, CanReconcile
<1>3. rows[r] \in Row
  BY <1>1, <1>2 DEF RowTable
<1>4. row \in Row
  BY <1>3, ReconciledRowType
<1>5. row.state = "settled" /\ row.charged # None /\ row.kind = "existing_credit"
  <2>1. row.state = rows[r].state /\ row.charged = rows[r].charged /\ row.kind = rows[r].kind
    BY <1>3 DEF Row
  <2>2. rows[r].charged # None
    BY <1>1, <1>2 DEF Charged, Used
  <2> QED
    BY <1>2, <2>1, <2>2
<1> HIDE DEF row
<1>6. CreditOK([rows EXCEPT ![r] = row], posted, balance, seen)
  BY <1>1, <1>4, <1>5, WritePosted
<1> QED
  BY <1>1, <1>4, <1>6, StageCredit

LEMMA CommitCredit ==
    ASSUME TypeOK, LedgerInv, CreditInv, NEW e \in Executors, Commit(e)
    PROVE  CreditInv'
<1>1. /\ txn[e] # NoTxn /\ rows' = Staged(e) /\ posted' = posted /\ balance' = balance
      /\ seen' = [seen EXCEPT ![e] = None] /\ txn' = [txn EXCEPT ![e] = NoTxn]
  BY DEF Commit, Staged
<1>2. \A x \in Executors : txn'[x] = NoTxn
  BY <1>1, OneTransaction DEF TypeOK
<1>3. /\ Staged(e) \in RowTable /\ Charged(Staged(e)) /\ CreditOK(Staged(e), posted, balance, seen)
      /\ balance \in [Accounts -> Nat]
  BY <1>1, RowsCharged DEF CreditInv, TypeOK
<1>4. \A x \in Executors : seen'[x] \in {seen[x], None}
  BY <1>1 DEF TypeOK
<1>5. CreditOK(Staged(e), posted, balance, seen')
  BY <1>3, <1>4, ObservedCovered
<1>6. CreditOK(rows, posted, balance, seen)'
  BY <1>1, <1>5 DEF CreditOK
<1> QED
  BY <1>2, <1>6 DEF CreditInv

\* What is observed, or forgotten, leaves every table covered.
LEMMA ObservedCredit ==
    ASSUME TypeOK, LedgerInv, CreditInv,
           rows' = rows, posted' = posted, balance' = balance,
           \A x \in Executors : txn'[x] \in {txn[x], NoTxn},
           \A x \in Executors : \/ seen'[x] \in {seen[x], None}
                                \/ \E a \in Accounts : seen'[x].account = a /\ seen'[x].available = balance[a]
    PROVE  CreditInv'
<1>1. balance \in [Accounts -> Nat] /\ rows \in RowTable /\ Charged(rows)
  BY RowsCharged DEF TypeOK
<1>2. CreditOK(rows, posted, balance, seen')
  BY <1>1, ObservedCovered DEF CreditInv
<1>3. ASSUME NEW x \in Executors, txn'[x] # NoTxn
      PROVE  CreditOK(Staged(x), posted, balance, seen)'
  <2>1. txn'[x] = txn[x] /\ txn[x] # NoTxn
    BY <1>3
  <2>2. Staged(x) \in RowTable /\ Charged(Staged(x)) /\ CreditOK(Staged(x), posted, balance, seen)
    BY <2>1, RowsCharged DEF CreditInv
  <2>3. CreditOK(Staged(x), posted, balance, seen')
    BY <1>1, <2>2, ObservedCovered
  <2>4. Staged(x)' = Staged(x)
    BY <2>1 DEF Staged
  <2> QED
    BY <2>3, <2>4 DEF CreditOK
<1>4. CreditOK(rows, posted, balance, seen)'
  BY <1>2 DEF CreditOK
<1> QED
  BY <1>3, <1>4 DEF CreditInv

\* A posted charge is the one the open transaction would write again.
LEMMA PostCredit ==
    ASSUME TypeOK, LedgerInv, StagedKeeps, CreditInv, NEW r \in ReservationIds, Post(r)
    PROVE  CreditInv'
<1> DEFINE new == [balance EXCEPT ![rows[r].account] = @ - rows[r].charged]
<1>1. /\ rows[r] # None /\ rows[r].kind = "existing_credit" /\ rows[r].state = "settled"
      /\ r \notin posted /\ rows[r].charged <= balance[rows[r].account]
  BY DEF Post, Rows, Used
<1>2. /\ rows' = rows /\ txn' = txn /\ seen' = seen
      /\ posted' = posted \cup {r} /\ balance' = new
  BY DEF Post
<1>3. /\ balance \in [Accounts -> Nat]
      /\ seen \in [Executors -> Seen \cup {None}]
  BY DEF TypeOK, Seen
<1>4. rows \in RowTable /\ Charged(rows) /\ CreditOK(rows, posted, balance, seen)
  BY RowsCharged DEF CreditInv
<1>5. CreditOK(rows, posted \cup {r}, new, seen)
  BY <1>1, <1>3, <1>4, PostCovered
<1>6. ASSUME NEW x \in Executors, txn[x] # NoTxn
      PROVE  CreditOK(Staged(x), posted \cup {r}, new, seen)
  <2>1. Staged(x) \in RowTable /\ Charged(Staged(x)) /\ CreditOK(Staged(x), posted, balance, seen)
    BY <1>6, RowsCharged DEF CreditInv
  <2>2. /\ Staged(x)[r] # None /\ Staged(x)[r].kind = "existing_credit" /\ Staged(x)[r].state = "settled"
        /\ Staged(x)[r].charged = rows[r].charged /\ Staged(x)[r].account = rows[r].account
    <3>1. Staged(x)[r] = IF txn[x].id = r THEN txn[x].row ELSE rows[r]
      BY <1>4 DEF Staged, RowTable
    <3>2. txn[x].id = r => SameCommitment(rows[r], txn[x].row)
      BY <1>1, <1>6 DEF StagedKeeps
    <3> QED
      BY <1>1, <3>1, <3>2 DEF SameCommitment, SameReservation
  <2> HIDE DEF new
  <2>3. CreditOK(Staged(x), posted \cup {r},
                 [balance EXCEPT ![Staged(x)[r].account] = @ - Staged(x)[r].charged], seen)
    BY <1>1, <1>3, <2>1, <2>2, PostCovered
  <2> QED
    BY <2>2, <2>3 DEF new
<1> HIDE DEF new
<1>7. CreditOK(rows, posted, balance, seen)'
  BY <1>2, <1>5 DEF CreditOK
<1>8. ASSUME NEW x \in Executors, txn'[x] # NoTxn
      PROVE  CreditOK(Staged(x), posted, balance, seen)'
  <2>1. Staged(x)' = Staged(x) /\ CreditOK(Staged(x), posted \cup {r}, new, seen)
    BY <1>2, <1>6, <1>8 DEF Staged
  <2> QED
    BY <1>2, <2>1 DEF CreditOK
<1> QED
  BY <1>7, <1>8 DEF CreditInv

LEMMA CreditStep ==
    ASSUME ~ ReconcileEarly, TypeOK, LedgerInv, StagedKeeps, CreditInv, [Next]_vars
    PROVE  CreditInv'
<1>1. CASE UNCHANGED vars
  <2>1. \A x \in Executors : txn'[x] = txn[x] /\ seen'[x] = seen[x]
    BY <1>1 DEF vars
  <2> QED
    BY <1>1, <2>1, ObservedCredit DEF vars
<1>2. ASSUME NEW e \in Executors, Crash(e) PROVE CreditInv'
  <2>1. \A x \in Executors : txn'[x] \in {txn[x], NoTxn} /\ seen'[x] \in {seen[x], None}
    BY <1>2 DEF Crash, TypeOK
  <2> QED
    BY <1>2, <2>1, ObservedCredit DEF Crash
<1>3. ASSUME NEW e \in Executors, NEW a \in Accounts, Observe(e, a) PROVE CreditInv'
  <2>1. \A x \in Executors :
           /\ txn'[x] = txn[x]
           /\ \/ seen'[x] \in {seen[x], None}
              \/ seen'[x].account = a /\ seen'[x].available = balance[a]
    BY <1>3 DEF Observe, TypeOK
  <2> QED
    BY <1>3, <2>1, ObservedCredit DEF Observe
<1> QED
  BY <1>1, <1>2, <1>3, OpenCredit, ReserveCredit, SettleCredit, ReconcileCredit, CommitCredit, PostCredit
  DEF Next

\* As long as the operator reconciles a charge only when no executor still
\* holds a balance older than its posting, what an account may still be charged
\* is covered by what it has, for any number of executors and reservations.
THEOREM CreditIsCovered ==
    ASSUME ~ ReconcileEarly
    PROVE  Spec => []CreditCovered
<1>1. Init => StagedKeeps
  BY DEF Init, StagedKeeps
<1>2. TypeOK /\ LedgerInv /\ StagedKeeps /\ CreditInv /\ [Next]_vars => CreditInv'
  BY CreditStep
<1>3. TypeOK /\ LedgerInv /\ CreditInv => CreditCovered
  <2> SUFFICES ASSUME TypeOK, LedgerInv, CreditInv, NEW a \in Accounts
               PROVE  Total(OutstandingWeights(a, rows)) <= balance[a]
    BY DEF CreditCovered
  <2>1. OutstandingWeights(a, rows) = PendingWeights(a, rows, posted)
    BY RowsCharged, DebtIs
  <2> QED
    BY <2>1 DEF CreditInv, CreditOK, Pending
<1> QED
  BY <1>1, <1>2, <1>3, InitCredit, StagedKeepsInv, TypeCorrect, LedgerInvariant, PTL DEF Spec

-----------------------------------------------------------------------------
(***************************************************************************)
(* The shared ledger implements the abstract cap of SharedCap: an open of  *)
(* a new file binds the cap, the Commit of a new metered row is an         *)
(* allotment, the Commit that first settles one closes it, and every other *)
(* step is a stutter of the abstract cap.                                  *)
(***************************************************************************)
\* A row is staged where there is none only by a reservation that is new.
StagedOpens ==
    \A e \in Executors :
        txn[e] # NoTxn /\ rows[txn[e].id] = None => txn[e].row.state = "unresolved"

\* The abstract sums are the sums of the table.
LEMMA SameTotals == \A f : Cap!Total(f) = Total(f)
BY DEF Cap!Total, Cap!Units, Cap!UnitsOf, Cap!Cardinality, Total, Units, UnitsOf, Cardinality

\* What the table holds of the cap is what the allotments hold of it.
LEMMA HeldTotal ==
    ASSUME NEW rs \in RowTable, Charged(rs)
    PROVE  /\ HeldBy(rs) \in [ReservationIds -> Nat]
           /\ Total(HeldBy(rs)) = Settled(rs) + Unresolved(rs)
<1>1. /\ SettledWeights(rs) \in [ReservationIds -> Nat]
      /\ UnresolvedWeights(rs) \in [ReservationIds -> Nat]
  BY WeightTypes
<1>2. HeldBy(rs) \in [ReservationIds -> Nat]
  BY <1>1 DEF HeldBy
<1>3. \A r \in ReservationIds :
         SettledWeights(rs)[r] = 0 \/ UnresolvedWeights(rs)[r] = 0
  BY DEF SettledWeights, UnresolvedWeights, Rows
<1>4. \A r \in ReservationIds :
         \/ SettledWeights(rs)[r] = 0 /\ HeldBy(rs)[r] = UnresolvedWeights(rs)[r]
         \/ UnresolvedWeights(rs)[r] = 0 /\ HeldBy(rs)[r] = SettledWeights(rs)[r]
  BY <1>1, <1>3 DEF HeldBy
<1>5. IsFiniteSet(ReservationIds)
  BY LedgerAssumption
<1>6. Total(HeldBy(rs)) = Total(SettledWeights(rs)) + Total(UnresolvedWeights(rs))
  <2> DEFINE f == SettledWeights(rs)
             g == UnresolvedWeights(rs)
             h == HeldBy(rs)
  <2> HIDE DEF f, g, h
  <2>1. /\ f \in [ReservationIds -> Nat] /\ g \in [ReservationIds -> Nat]
        /\ h \in [ReservationIds -> Nat]
        /\ \A r \in ReservationIds : (f[r] = 0 /\ h[r] = g[r]) \/ (g[r] = 0 /\ h[r] = f[r])
    BY <1>1, <1>2, <1>4 DEF f, g, h
  <2>2. Total(h) = Total(f) + Total(g)
    BY <1>5, <2>1, TotalDisjoint
  <2> QED
    BY <2>2 DEF f, g, h
<1> QED
  BY <1>2, <1>6 DEF Settled, Unresolved

\* Of a table, the abstract cap sees what each metered row holds and whether
\* it is settled.
Metered(state, rs) == Rows("metered", state, rs)

LEMMA TableUpdate ==
    ASSUME NEW rs \in RowTable, NEW r \in ReservationIds, NEW row \in Row
    PROVE  LET new == [rs EXCEPT ![r] = row] IN
           /\ HeldBy(new) = [HeldBy(rs) EXCEPT ![r] = SettledWeight(row) + UnresolvedWeight(row)]
           /\ \A state : Metered(state, new) =
                 IF row.kind = "metered" /\ row.state = state
                 THEN Metered(state, rs) \cup {r} ELSE Metered(state, rs) \ {r}
<1> DEFINE new == [rs EXCEPT ![r] = row]
<1>1. /\ SettledWeights(new) = [SettledWeights(rs) EXCEPT ![r] = SettledWeight(row)]
      /\ UnresolvedWeights(new) = [UnresolvedWeights(rs) EXCEPT ![r] = UnresolvedWeight(row)]
  BY WeightsUpdate
<1>2. HeldBy(new) = [HeldBy(rs) EXCEPT ![r] = SettledWeight(row) + UnresolvedWeight(row)]
  <2> HIDE DEF new
  <2>1. /\ DOMAIN SettledWeights(rs) = ReservationIds
        /\ DOMAIN UnresolvedWeights(rs) = ReservationIds
    BY DEF SettledWeights, UnresolvedWeights
  <2> QED
    BY <1>1, <2>1 DEF HeldBy
<1>3. new[r] = row /\ row # None /\ \A y \in ReservationIds \ {r} : new[y] = rs[y]
  BY NoneAssumption DEF RowTable
<1>4. \A state : Metered(state, new) =
         IF row.kind = "metered" /\ row.state = state
         THEN Metered(state, rs) \cup {r} ELSE Metered(state, rs) \ {r}
  <2> HIDE DEF new
  <2> QED
    BY <1>3 DEF Metered, Rows, Used
<1> QED
  BY <1>2, <1>4

\* A migration is invisible.
LEMMA MigrationUnseen ==
    ASSUME NEW rs \in RowTable
    PROVE  /\ HeldBy(Migrated(rs)) = HeldBy(rs)
           /\ \A state : Metered(state, Migrated(rs)) = Metered(state, rs)
<1>1. \A r \in ReservationIds :
         /\ Migrated(rs)[r] = None <=> rs[r] = None
         /\ rs[r] # None =>
               /\ Migrated(rs)[r].kind = rs[r].kind
               /\ Migrated(rs)[r].state = rs[r].state
               /\ Migrated(rs)[r].max = rs[r].max
               /\ Migrated(rs)[r].charged = rs[r].charged
  <2> SUFFICES ASSUME NEW r \in ReservationIds, rs[r] # None
               PROVE  /\ Migrated(rs)[r] # None
                      /\ Migrated(rs)[r].kind = rs[r].kind
                      /\ Migrated(rs)[r].state = rs[r].state
                      /\ Migrated(rs)[r].max = rs[r].max
                      /\ Migrated(rs)[r].charged = rs[r].charged
    BY DEF Migrated
  <2>1. rs[r] \in Row
    BY DEF RowTable
  <2>2. [rs[r] EXCEPT !.settlement = "authoritative_account_charge"] \in Row
    BY <2>1 DEF Row, SettlementKinds
  <2>3. [rs[r] EXCEPT !.settlement = "authoritative_account_charge"] # None
    BY <2>2, NoneAssumption
  <2> QED
    BY <2>1, <2>3 DEF Migrated, Row
<1>2. \A state : Metered(state, Migrated(rs)) = Metered(state, rs)
  BY <1>1 DEF Metered, Rows, Used
<1>3. /\ SettledWeights(Migrated(rs)) = SettledWeights(rs)
      /\ UnresolvedWeights(Migrated(rs)) = UnresolvedWeights(rs)
  BY <1>1, <1>2 DEF SettledWeights, UnresolvedWeights, Metered, Rows, Used
<1> QED
  BY <1>2, <1>3 DEF HeldBy

-----------------------------------------------------------------------------
\* Only a new reservation stages a row where there is none, and it stays the
\* only one until its Commit.
LEMMA StagedOpensInv ==
    TypeOK /\ LedgerInv /\ StagedOpens /\ [Next]_vars => StagedOpens'
<1> SUFFICES ASSUME TypeOK, LedgerInv, StagedOpens, [Next]_vars PROVE StagedOpens'
  OBVIOUS
<1>1. ASSUME NEW e \in Executors, NEW r \in ReservationIds, NEW row, NEW rcpt,
             writer = None, Stage(e, r, row, rcpt),
             rows[r] = None => row.state = "unresolved"
      PROVE  StagedOpens'
  <2>1. /\ txn' = [txn EXCEPT ![e] = [id |-> r, row |-> row, receipt |-> rcpt]]
        /\ rows' = rows
    BY <1>1 DEF Stage
  <2>2. \A x \in Executors : txn[x] = NoTxn
    BY <1>1, OneTransaction
  <2>3. txn'[e].id = r /\ txn'[e].row = row /\ \A x \in Executors \ {e} : txn'[x] = NoTxn
    BY <2>1, <2>2 DEF TypeOK
  <2> QED
    BY <1>1, <2>1, <2>3 DEF StagedOpens
<1>2. ASSUME NEW e \in Executors, NEW id \in LedgerIds, NEW cap \in Caps,
             Open(e, id, cap)
      PROVE  StagedOpens'
  <2>1. \A x \in Executors : txn'[x] = NoTxn
    BY <1>2, OneTransaction DEF Open
  <2> QED
    BY <2>1 DEF StagedOpens
<1>3. ASSUME NEW e \in Executors, NEW r \in ReservationIds, NEW b \in Bindings,
             NEW kind \in FundingKinds, NEW a \in Accounts, NEW max \in Amounts,
             Reserve(e, r, b, kind, a, max)
      PROVE  StagedOpens'
  <2>1. writer = None
    BY <1>3 DEF Reserve, BeginImmediate
  <2>2. CASE rows[r] # None /\ Stage(e, r, rows[r], [id |-> r, replayed |-> TRUE])
    BY <1>1, <2>1, <2>2
  <2>3. CASE rows[r] = None
             /\ Stage(e, r, NewRow(b, kind, a, max), [id |-> r, replayed |-> FALSE])
    <3>1. NewRow(b, kind, a, max).state = "unresolved"
      BY DEF NewRow
    <3> QED
      BY <1>1, <2>1, <2>3, <3>1
  <2> QED
    BY <1>3, <2>2, <2>3 DEF Reserve
<1>4. ASSUME NEW e \in Executors, NEW r \in ReservationIds,
             NEW charged \in Amounts, NEW ev \in Evidence, NEW sk \in SettlementKinds,
             Settle(e, r, charged, ev, sk)
      PROVE  StagedOpens'
  BY <1>1, <1>4 DEF Settle, BeginImmediate, CanSettle
<1>5. ASSUME NEW e \in Executors, NEW r \in ReservationIds, NEW ev \in Evidence,
             Reconcile(e, r, ev)
      PROVE  StagedOpens'
  BY <1>1, <1>5 DEF Reconcile, BeginImmediate, CanReconcile
<1>6. ASSUME NEW e \in Executors, Commit(e) PROVE StagedOpens'
  <2>1. \A x \in Executors : txn'[x] = NoTxn
    BY <1>6, OneTransaction DEF Commit, TypeOK
  <2> QED
    BY <2>1 DEF StagedOpens
<1>7. ASSUME NEW e \in Executors, Crash(e) PROVE StagedOpens'
  <2>1. rows' = rows /\ \A x \in Executors : txn'[x] \in {txn[x], NoTxn}
    BY <1>7 DEF Crash, TypeOK
  <2> QED
    BY <2>1 DEF StagedOpens
<1>8. ASSUME UNCHANGED <<rows, txn>> PROVE StagedOpens'
  BY <1>8 DEF StagedOpens
<1> QED
  BY <1>2, <1>3, <1>4, <1>5, <1>6, <1>7, <1>8 DEF Next, Observe, Post, vars

-----------------------------------------------------------------------------
\* A ledger starts as a cap does: unbound and empty, or taken over from an
\* earlier use within its cap.
LEMMA InitMaps == Init => Cap!Init
<1> SUFFICES ASSUME Init PROVE Cap!Init
  OBVIOUS
<1>1. rows \in RowTable /\ Charged(rows)
  <2>1. CASE rows = EmptyRows
    BY <2>1 DEF EmptyRows, RowTable, Charged, Used
  <2>2. CASE rows # EmptyRows
    BY <2>2 DEF Init, EmptyRows, RowTable, Charged, Used, LegacyRow
  <2> QED
    BY <2>1, <2>2
<1>2. HeldBy(rows) \in [ReservationIds -> Nat]
      /\ Total(HeldBy(rows)) = Settled(rows) + Unresolved(rows)
  BY <1>1, HeldTotal
<1>3. /\ identity # None => identity \in Identities /\ LegacyLedger
      /\ identity = None => rows = EmptyRows
  <2>1. \/ rows = EmptyRows /\ identity = None
        \/ identity \in Identities /\ LegacyLedger
    BY DEF Init
  <2> QED
    BY <2>1, NoneAssumption
<1>4. identity # None =>
         identity.cap \in Caps /\ Settled(rows) + Unresolved(rows) <= identity.cap
  BY <1>3 DEF LegacyLedger, Identities
<1>5. identity = None =>
         Rows("metered", "unresolved", rows) \cup Rows("metered", "settled", rows) = {}
  BY <1>3 DEF Rows, Used, EmptyRows
<1>6. Rows("metered", "unresolved", rows) \cap Rows("metered", "settled", rows) = {}
  BY DEF Rows
<1>7. \A r \in ReservationIds \ (Rows("metered", "unresolved", rows)
                                 \cup Rows("metered", "settled", rows)) :
         HeldBy(rows)[r] = 0
  BY DEF HeldBy, SettledWeights, UnresolvedWeights
<1>8. /\ Rows("metered", "unresolved", rows) \in SUBSET ReservationIds
      /\ Rows("metered", "settled", rows) \in SUBSET ReservationIds
  BY DEF Rows, Used
<1>9. IF identity = None THEN TRUE ELSE Cap!Total(HeldBy(rows)) <= identity.cap
  BY <1>2, <1>4, SameTotals
<1> QED
  <2> DEFINE held == HeldBy(rows)
             open == Rows("metered", "unresolved", rows)
             closed == Rows("metered", "settled", rows)
             cap == IF identity = None THEN None ELSE identity.cap
  <2>1. cap \in Caps \cup {None} /\ (cap = None <=> identity = None)
    BY <1>4, LedgerAssumption, NoneAssumption
  <2>2. cap = None => open \cup closed = {}
    BY <1>5, <2>1
  <2>3. cap # None => Cap!Total(held) <= cap
    BY <1>9, <2>1
  <2> QED
    BY <1>2, <1>6, <1>7, <1>8, <2>1, <2>2, <2>3 DEF Cap!Init

-----------------------------------------------------------------------------
\* Whatever leaves the identity and what the cap sees of the table alone is a
\* stutter.
LEMMA Stutters ==
    ASSUME identity' = identity \/ (identity # None /\ identity' # None
                                    /\ identity'.cap = identity.cap),
           HeldBy(rows') = HeldBy(rows),
           \A state : Metered(state, rows') = Metered(state, rows)
    PROVE  UNCHANGED Cap!capVars
BY DEF Cap!capVars, Metered, HeldBy, SettledWeights, UnresolvedWeights, Rows, Used

\* The first executor to open a new file binds its cap.
LEMMA OpenMaps ==
    ASSUME TypeOK, LedgerInv, NEW e \in Executors, NEW id \in LedgerIds,
           NEW cap \in Caps, Open(e, id, cap)
    PROVE  Cap!Next \/ UNCHANGED Cap!capVars
<1>1. CASE identity = None
  <2>1. identity' # None /\ identity'.cap = cap /\ rows' = rows
    BY <1>1, NoneAssumption DEF Open, Identities, Schemas
  <2>2. Cap!Bind
    BY <1>1, <2>1 DEF Cap!Bind, HeldBy, SettledWeights, UnresolvedWeights, Rows, Used
  <2> QED
    BY <2>2 DEF Cap!Next
<1>2. CASE identity # None
  <2>1. identity \in Identities /\ identity'.cap = identity.cap
    BY <1>2 DEF Open, TypeOK, Identities
  <2>2. identity' \in Identities
    BY <1>2, <2>1 DEF Open, Identities, Schemas
  <2>3. rows' = rows \/ rows' = Migrated(rows)
    BY <1>2 DEF Open
  <2>4. /\ HeldBy(rows') = HeldBy(rows)
        /\ \A state : Metered(state, rows') = Metered(state, rows)
    BY <2>3, MigrationUnseen DEF TypeOK, RowTable
  <2> QED
    BY <1>2, <2>1, <2>2, <2>4, Stutters, NoneAssumption
<1> QED
  BY <1>1, <1>2

\* What Commit does to one row: it is the row it was as far as the cap sees,
\* a new allotment, or the closing of one at no more than it held.
LEMMA CommitMaps ==
    ASSUME TypeOK, LedgerInv, StagedKeeps, StagedOpens,
           NEW e \in Executors, Commit(e)
    PROVE  Cap!Next \/ UNCHANGED Cap!capVars
<1> DEFINE r == txn[e].id
           row == txn[e].row
           old == rows[r]
           now == SettledWeight(row) + UnresolvedWeight(row)
<1>1. r \in ReservationIds /\ row \in Row /\ rows \in RowTable /\ row # None
  BY NoneAssumption DEF Commit, TypeOK, RowTable
<1>2. /\ rows' = [rows EXCEPT ![r] = row] /\ rows' = Staged(e)
      /\ identity' = identity /\ identity # None
      /\ WellFormedRows(rows) /\ WellFormedRows(Staged(e)) /\ WithinCap(Staged(e))
  BY DEF Commit, Staged, LedgerInv
<1> HIDE DEF r, row, old
<1>3. /\ HeldBy(rows') = [HeldBy(rows) EXCEPT ![r] = now]
      /\ \A state : Metered(state, rows') =
            IF row.kind = "metered" /\ row.state = state
            THEN Metered(state, rows) \cup {r} ELSE Metered(state, rows) \ {r}
  <2>1. LET new == [rows EXCEPT ![r] = row] IN
        /\ HeldBy(new) = [HeldBy(rows) EXCEPT ![r] = now]
        /\ \A state : Metered(state, new) =
              IF row.kind = "metered" /\ row.state = state
              THEN Metered(state, rows) \cup {r} ELSE Metered(state, rows) \ {r}
    BY <1>1, TableUpdate
  <2>2. rows' = [rows EXCEPT ![r] = row]
    BY <1>2
  <2> QED
    BY <2>1, <2>2
<1>4. /\ rows' \in RowTable /\ rows'[r] = row
  BY <1>1, <1>2 DEF RowTable
<1>5. /\ row.max \in Nat /\ row.kind \in {"metered", "existing_credit"}
      /\ row.state \in {"unresolved", "settled"}
      /\ row.state = "settled" => row.charged \in Nat /\ row.charged <= row.max
  <2>1. row.state = "settled" => row.charged # None /\ row.charged <= row.max
    BY <1>1, <1>2, <1>4 DEF WellFormedRows, Used
  <2>2. /\ row.max \in Amounts /\ row.charged \in Amounts \cup {None}
        /\ row.kind \in FundingKinds /\ row.state \in {"unresolved", "settled"}
    BY <1>1 DEF Row
  <2> QED
    BY <2>1, <2>2, LedgerAssumption
<1>6. now = IF row.kind # "metered" THEN 0
            ELSE IF row.state = "settled" THEN row.charged ELSE row.max
  BY <1>5 DEF SettledWeight, UnresolvedWeight
<1>7. /\ old = None => row.state = "unresolved"
      /\ old # None => SameCommitment(old, row)
  BY <1>2 DEF StagedOpens, StagedKeeps, Commit, r, row, old
<1>8. /\ old # None => old \in Row
      /\ HeldBy(rows) \in [ReservationIds -> Nat]
      /\ HeldBy(rows') \in [ReservationIds -> Nat]
      /\ Total(HeldBy(rows')) <= identity.cap
  <2>1. Charged(rows) /\ Charged(rows')
    BY <1>2, WellFormedCharged
  <2>2. /\ HeldBy(rows) \in [ReservationIds -> Nat]
        /\ HeldBy(rows') \in [ReservationIds -> Nat]
        /\ Total(HeldBy(rows')) = Settled(rows') + Unresolved(rows')
    BY <1>1, <1>4, <2>1, HeldTotal
  <2>3. Settled(rows') + Unresolved(rows') <= identity.cap
    BY <1>2 DEF WithinCap
  <2> QED
    BY <1>1, <2>2, <2>3 DEF RowTable, old
<1> HIDE DEF now
<1>9. CASE row.kind # "metered" /\ old = None
  <2>1. HeldBy(rows)[r] = 0 /\ \A state : r \notin Metered(state, rows)
    BY <1>1, <1>9 DEF old, HeldBy, SettledWeights, UnresolvedWeights, Metered, Rows, Used
  <2>2. /\ HeldBy(rows') = HeldBy(rows)
        /\ \A state : Metered(state, rows') = Metered(state, rows)
    BY <1>3, <1>6, <1>8, <1>9, <2>1
  <2> QED
    BY <1>2, <2>2, Stutters
<1>10. CASE row.kind = "metered" /\ old = None
  <2>1. r \notin Metered("unresolved", rows) \cup Metered("settled", rows)
    BY <1>10 DEF old, Metered, Rows, Used
  <2>2. /\ Metered("unresolved", rows') = Metered("unresolved", rows) \cup {r}
        /\ Metered("settled", rows') = Metered("settled", rows)
    <3>1. row.state = "unresolved" /\ row.state # "settled"
      BY <1>7, <1>10
    <3>2. Metered("unresolved", rows') = Metered("unresolved", rows) \cup {r}
      BY <1>3, <1>10, <3>1
    <3>3. Metered("settled", rows') = Metered("settled", rows) \ {r}
      BY <1>3, <1>10, <3>1
    <3>4. Metered("settled", rows) \ {r} = Metered("settled", rows)
      BY <2>1
    <3> QED
      BY <3>2, <3>3, <3>4
  <2>3. HeldBy(rows') = [HeldBy(rows) EXCEPT ![r] = HeldBy(rows')[r]]
    BY <1>1, <1>3, <1>8
  <2>4. Cap!Total(HeldBy(rows')) <= identity.cap
    BY <1>8, SameTotals
  <2>5. HeldBy(rows')[r] \in Nat
    BY <1>1, <1>8
  <2>6. identity.cap # None
    BY <1>2, NoneAssumption DEF TypeOK, Identities
  <2>7. Cap!Allot(r)
    BY <1>2, <2>1, <2>2, <2>3, <2>4, <2>5, <2>6 DEF Cap!Allot, Metered
  <2> QED
    BY <1>1, <2>7 DEF Cap!Next
<1>11. CASE old # None /\ (row.kind # "metered" \/ row.state = old.state)
  <2>1. /\ row.kind = old.kind /\ row.max = old.max
        /\ old.state = "settled" => row.state = "settled" /\ row.charged = old.charged
    BY <1>7, <1>11 DEF SameCommitment, SameReservation
  <2>2. /\ HeldBy(rows)[r] = now
        /\ \A state : r \in Metered(state, rows) <=> row.kind = "metered" /\ row.state = state
    <3>1. row.kind = "metered" =>
             /\ row.state = old.state
             /\ row.state = "settled" => row.charged = old.charged
      BY <1>11, <2>1
    <3>2. \A state : r \in Metered(state, rows) <=> old.kind = "metered" /\ old.state = state
      BY <1>1, <1>11 DEF old, Metered, Rows, Used
    <3>3. HeldBy(rows)[r] =
             (IF old.kind = "metered" /\ old.state = "settled" THEN old.charged ELSE 0)
             + (IF old.kind = "metered" /\ old.state = "unresolved" THEN old.max ELSE 0)
      BY <1>1, <1>11 DEF old, HeldBy, SettledWeights, UnresolvedWeights, Rows, Used
    <3>4. HeldBy(rows)[r] = now
      BY <1>5, <1>6, <2>1, <3>1, <3>3
    <3>5. \A state : r \in Metered(state, rows) <=> row.kind = "metered" /\ row.state = state
      BY <1>11, <2>1, <3>2
    <3> QED
      BY <3>4, <3>5
  <2>3. HeldBy(rows') = HeldBy(rows)
    BY <1>3, <1>8, <2>2
  <2>4. ASSUME NEW state PROVE Metered(state, rows') = Metered(state, rows)
    <3>1. CASE row.kind = "metered" /\ row.state = state
      <4>1. Metered(state, rows') = Metered(state, rows) \cup {r}
        BY <1>3, <3>1
      <4> QED
        BY <2>2, <3>1, <4>1
    <3>2. CASE ~(row.kind = "metered" /\ row.state = state)
      <4>1. Metered(state, rows') = Metered(state, rows) \ {r}
        BY <1>3, <3>2
      <4> QED
        BY <2>2, <3>2, <4>1
    <3> QED
      BY <3>1, <3>2
  <2> QED
    BY <1>2, <2>3, <2>4, Stutters
<1>12. CASE old # None /\ row.kind = "metered" /\ row.state # old.state
  <2>1. /\ old.kind = "metered" /\ old.state = "unresolved" /\ old.max = row.max
        /\ row.state = "settled"
    BY <1>5, <1>7, <1>8, <1>12 DEF SameCommitment, SameReservation, Row
  <2>2. /\ r \in Metered("unresolved", rows) /\ HeldBy(rows)[r] = row.max
    BY <1>1, <1>5, <1>12, <2>1
    DEF old, Metered, HeldBy, SettledWeights, UnresolvedWeights, Rows, Used
  <2>3. /\ Metered("unresolved", rows') = Metered("unresolved", rows) \ {r}
        /\ Metered("settled", rows') = Metered("settled", rows) \cup {r}
    BY <1>3, <1>12, <2>1
  <2>4. HeldBy(rows') = [HeldBy(rows) EXCEPT ![r] = HeldBy(rows')[r]]
    BY <1>1, <1>3, <1>8
  <2>5. HeldBy(rows')[r] \in 0..HeldBy(rows)[r]
    BY <1>1, <1>3, <1>5, <1>6, <1>8, <1>12, <2>1, <2>2
  <2>6. Cap!Close(r)
    BY <1>1, <1>2, <2>2, <2>3, <2>4, <2>5 DEF Cap!Close, Metered
  <2> QED
    BY <1>1, <2>6 DEF Cap!Next
<1> QED
  BY <1>5, <1>9, <1>10, <1>11, <1>12

-----------------------------------------------------------------------------
\* Every step of an executor, the operator or the account is a step of the
\* abstract cap or none.
LEMMA NextMaps ==
    TypeOK /\ LedgerInv /\ StagedKeeps /\ StagedOpens /\ [Next]_vars
        => [Cap!Next]_Cap!capVars
<1> SUFFICES ASSUME TypeOK, LedgerInv, StagedKeeps, StagedOpens, [Next]_vars
             PROVE  Cap!Next \/ UNCHANGED Cap!capVars
  OBVIOUS
<1>1. ASSUME NEW e \in Executors, NEW id \in LedgerIds, NEW cap \in Caps,
             Open(e, id, cap)
      PROVE  Cap!Next \/ UNCHANGED Cap!capVars
  BY <1>1, OpenMaps
<1>2. ASSUME NEW e \in Executors, Commit(e)
      PROVE  Cap!Next \/ UNCHANGED Cap!capVars
  BY <1>2, CommitMaps
<1>3. CASE UNCHANGED <<identity, rows>>
  BY <1>3, Stutters
<1> QED
  BY <1>1, <1>2, <1>3
  DEF Next, Reserve, Settle, Reconcile, Stage, Crash, Observe, Post, vars

\* The ledger implements the abstract cap: one cap is bound for ever, what is
\* held stays within it, and an allotment is closed once, downwards, for any
\* number of executors that interleave, replay, migrate and die.
THEOREM LedgerImplementsCap == Spec => ImplementsSharedCap
<1>1. Init => StagedKeeps /\ StagedOpens
  BY DEF Init, StagedKeeps, StagedOpens
<1> QED
  BY <1>1, StagedKeepsInv, StagedOpensInv, InitMaps, NextMaps,
     TypeCorrect, LedgerInvariant, PTL
  DEF Spec, ImplementsSharedCap, Cap!Spec
=============================================================================
