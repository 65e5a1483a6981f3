--------------------------- MODULE SpendingLedger ---------------------------
(***************************************************************************)
(* The shared spending ledger (spending_ledger.py): one SQLite file that   *)
(* several executors, canaries and scored runs open, and that owns the     *)
(* allocation of the authorized cap.  A whole segment's worst case is      *)
(* reserved before its first request and is replaced, once, by the charge  *)
(* that authoritative evidence supports.                                   *)
(*                                                                         *)
(* A method of SharedSpendingLedger is one BEGIN IMMEDIATE transaction.    *)
(* It is modelled by two steps: the one that takes SQLite's write lock,    *)
(* reads and decides (the row to write is staged in txn), and Commit.  An  *)
(* executor may die before, between and after them; a receipt is lost      *)
(* with the executor that held it.                                         *)
(*                                                                         *)
(* External: the provider account behind an existing-credit route.  Its    *)
(* balance falls when a settled charge is posted; an executor learns it    *)
(* during admission, and hands it to reserve some time later.              *)
(***************************************************************************)
EXTENDS Naturals, FiniteSets, UnitSums

CONSTANTS Executors,      \* processes that open the ledger
          ReservationIds, \* reservation_id, the primary key of a row
          Accounts,       \* account_sha256
          Bindings,       \* binding_sha256
          Evidence,       \* evidence hashes
          LedgerIds,      \* logical ledger IDs an execution plan may carry
          Caps,           \* cap_micro_usd an execution plan may carry
          FundingKinds,   \* funding kinds of the routes in the plans
          Amounts,        \* maxima and charges, in micro-USD
          Balances,       \* external: what an account may hold at first
          None,           \* SQL NULL, and what is absent
          ReconcileEarly  \* TRUE: the operator may reconcile a posted charge
                          \* while an older balance is still in use

ASSUME LedgerAssumption ==
    /\ IsFiniteSet(ReservationIds)
    /\ Caps \subseteq Nat
    /\ FundingKinds \subseteq {"metered", "existing_credit"}
    /\ Amounts \subseteq Nat
    /\ Balances \subseteq Nat
    /\ ReconcileEarly \in BOOLEAN

VARIABLES identity, \* the singleton row of table ledger
          rows,     \* table reservations, by primary key
          writer,   \* the executor that holds SQLite's write lock
          txn,      \* what each executor's open transaction will write
          handle,   \* the ledger ID and cap each executor opened with
          receipt,  \* the last reserve receipt each executor holds
          balance,  \* external: what each account really has left
          posted,   \* external: settled charges the account balance reflects
          seen      \* the balance each executor observed during admission

vars == <<identity, rows, writer, txn, handle, receipt, balance, posted, seen>>

-----------------------------------------------------------------------------
SettlementKinds == {"authoritative_account_charge",
                    "conservative_final_usage_upper_bound"}
Schemas == {"v1", "v2"}

Identities == [schema : Schemas, id : LedgerIds, cap : Caps]

Row == [binding : Bindings, kind : FundingKinds, account : Accounts, max : Amounts,
        state : {"unresolved", "settled"},
        charged : Amounts \cup {None}, evidence : Evidence \cup {None},
        settlement : SettlementKinds \cup {None},
        reconciled : Evidence \cup {None}]

ASSUME NoneAssumption ==
    /\ None \notin Executors \cup ReservationIds \cup LedgerIds
    /\ None \notin Evidence \cup SettlementKinds
    /\ None \notin Amounts
    /\ None \notin Caps
    /\ None \notin Row
    /\ None \notin Identities

Used(rs) == {r \in ReservationIds : rs[r] # None}

Rows(kind, state, rs) ==
    {r \in Used(rs) : rs[r].kind = kind /\ rs[r].state = state}

\* The two sums of _totals.
SettledWeights(rs) ==
    [r \in ReservationIds |->
        IF r \in Rows("metered", "settled", rs) THEN rs[r].charged ELSE 0]
UnresolvedWeights(rs) ==
    [r \in ReservationIds |->
        IF r \in Rows("metered", "unresolved", rs) THEN rs[r].max ELSE 0]

Settled(rs) == Total(SettledWeights(rs))
Unresolved(rs) == Total(UnresolvedWeights(rs))

\* What an account still owes to its rows: the worst case of an unresolved
\* one, and the charge of a settled one nobody has reconciled yet.
RetainedWeights(a, rs) ==
    [r \in ReservationIds |->
        IF rs[r] = None THEN 0
        ELSE IF rs[r].kind # "existing_credit" \/ rs[r].account # a THEN 0
        ELSE IF rs[r].state = "unresolved" THEN rs[r].max
        ELSE IF rs[r].reconciled = None THEN rs[r].charged
        ELSE 0]

Retained(a, rs) == Total(RetainedWeights(a, rs))

-----------------------------------------------------------------------------
NoHandle == [id |-> None, cap |-> None]
NoReceipt == [id |-> None, replayed |-> TRUE]
NoTxn == [id |-> None, row |-> None, receipt |-> NoReceipt]

\* A file of the first schema: it has no settlement kinds and it kept the cap.
LegacyRow(row) ==
    /\ row.settlement = None
    /\ row.reconciled = None
    /\ row.state = "unresolved" => row.charged = None /\ row.evidence = None
    /\ row.state = "settled" => /\ row.charged # None
                                /\ row.charged <= row.max
                                /\ row.evidence # None

LegacyLedger ==
    /\ \E id \in LedgerIds, cap \in Caps :
           /\ identity = [schema |-> "v1", id |-> id, cap |-> cap]
           /\ Settled(rows) + Unresolved(rows) <= cap
    /\ \A r \in Used(rows) : LegacyRow(rows[r]) /\ rows[r].kind = "metered"

EmptyRows == [r \in ReservationIds |-> None]

Init ==
    /\ \/ rows = EmptyRows /\ identity = None
       \/ /\ \E r \in ReservationIds, row \in {x \in Row : LegacyRow(x)} :
                 rows = [EmptyRows EXCEPT ![r] = row]
          /\ identity \in Identities
          /\ LegacyLedger
    /\ writer = None
    /\ txn = [e \in Executors |-> NoTxn]
    /\ handle = [e \in Executors |-> NoHandle]
    /\ receipt = [e \in Executors |-> NoReceipt]
    /\ balance \in [Accounts -> Balances]
    /\ posted = {}
    /\ seen = [e \in Executors |-> None]

\* _initialize, one transaction: bind the file to an identity, migrate a
\* first-schema file, or refuse a different ID or cap.
MigratedAsIs(rs) == rs \* mutant: the kind of old settlements stays NULL

Migrated(rs) ==
    [r \in ReservationIds |->
        IF rs[r] = None THEN None
        ELSE IF rs[r].state = "settled" /\ rs[r].settlement = None
             THEN [rs[r] EXCEPT !.settlement = "authoritative_account_charge"]
             ELSE rs[r]]

SameLedger(id, cap) == identity.id = id \* mutant: any cap

SameIdentity(id, cap) == identity.id = id /\ identity.cap = cap

Open(e, id, cap) ==
    /\ handle[e] = NoHandle
    /\ writer = None
    /\ \/ /\ identity = None
          /\ identity' = [schema |-> "v2", id |-> id, cap |-> cap]
          /\ UNCHANGED rows
       \/ /\ identity # None
          /\ SameIdentity(id, cap)
          /\ identity' = [identity EXCEPT !.schema = "v2"]
          /\ rows' = IF identity.schema = "v1" THEN Migrated(rows) ELSE rows
    /\ handle' = [handle EXCEPT ![e] = [id |-> id, cap |-> cap]]
    /\ UNCHANGED <<writer, txn, receipt, balance, posted, seen>>

\* BEGIN IMMEDIATE waits for the write lock; the statements that follow see
\* no other writer until COMMIT or ROLLBACK.
BeginDeferred(e) == handle[e] # NoHandle /\ txn[e] = NoTxn \* mutant: BEGIN

BeginImmediate(e) ==
    /\ handle[e] # NoHandle
    /\ txn[e] = NoTxn
    /\ writer = None

Stage(e, r, row, rcpt) ==
    /\ writer' = e
    /\ txn' = [txn EXCEPT ![e] = [id |-> r, row |-> row, receipt |-> rcpt]]
    /\ UNCHANGED <<identity, rows, handle, receipt, balance, posted, seen>>

-----------------------------------------------------------------------------
\* reserve: an exact repetition gets the row that is there, a different one is
\* refused, and a new row must fit the cap or the account.
FitsCapOfSettled(e, max) == Settled(rows) + max <= handle[e].cap \* mutant

FitsCap(e, max) == Settled(rows) + Unresolved(rows) + max <= handle[e].cap

FitsBalance(a, max, observed) == \* mutant: nothing is retained
    observed # None /\ observed.account = a /\ max <= observed.available

FitsCredit(a, max, observed) ==
    /\ observed # None
    /\ observed.account = a
    /\ Retained(a, rows) + max <= observed.available

SameReservation(row, b, kind, a, max) ==
    row.binding = b /\ row.kind = kind /\ row.account = a /\ row.max = max

NewRow(b, kind, a, max) ==
    [binding |-> b, kind |-> kind, account |-> a, max |-> max,
     state |-> "unresolved", charged |-> None, evidence |-> None,
     settlement |-> None, reconciled |-> None]

Reserve(e, r, b, kind, a, max) ==
    /\ BeginImmediate(e)
    /\ \/ /\ rows[r] # None
          /\ SameReservation(rows[r], b, kind, a, max)
          /\ Stage(e, r, rows[r], [id |-> r, replayed |-> TRUE])
       \/ /\ rows[r] = None
          /\ kind = "metered" => FitsCap(e, max)
          /\ kind = "existing_credit" => FitsCredit(a, max, seen[e])
          /\ Stage(e, r, NewRow(b, kind, a, max), [id |-> r, replayed |-> FALSE])

\* settle: never above the reserved worst case; a settled row may only be
\* settled again by the same charge, evidence and kind.
SettledRow(row, charged, ev, sk) ==
    [row EXCEPT !.state = "settled", !.charged = charged,
                !.evidence = ev, !.settlement = sk]

CanSettleAgain(row, charged, ev, sk) == \* mutant: revises a settlement
    row # None /\ charged <= row.max

CanSettle(row, charged, ev, sk) ==
    /\ row # None
    /\ charged <= row.max
    /\ row.state = "settled" =>
           row.charged = charged /\ row.evidence = ev /\ row.settlement = sk

Settle(e, r, charged, ev, sk) ==
    /\ BeginImmediate(e)
    /\ CanSettle(rows[r], charged, ev, sk)
    /\ Stage(e, r, SettledRow(rows[r], charged, ev, sk), receipt[e])

\* reconcile_existing_credit, an operator's call: the charge is reflected in
\* a later authoritative balance, and is no longer retained.
CanReconcile(row, ev) ==
    /\ row # None
    /\ row.kind = "existing_credit" /\ row.state = "settled"
    /\ row.reconciled \in {None, ev}

Reconcile(e, r, ev) ==
    /\ BeginImmediate(e)
    /\ CanReconcile(rows[r], ev)
    /\ r \in posted
    /\ ReconcileEarly \/ \A other \in Executors : seen[other] = None
    /\ Stage(e, r, [rows[r] EXCEPT !.reconciled = ev], receipt[e])

Commit(e) ==
    /\ txn[e] # NoTxn
    /\ rows' = [rows EXCEPT ![txn[e].id] = txn[e].row]
    /\ receipt' = [receipt EXCEPT ![e] = txn[e].receipt]
    /\ seen' = [seen EXCEPT ![e] = None]
    /\ txn' = [txn EXCEPT ![e] = NoTxn]
    /\ writer' = None
    /\ UNCHANGED <<identity, handle, balance, posted>>

-----------------------------------------------------------------------------
\* The executor's process ends at any point: SQLite rolls an open transaction
\* back, and the receipt, the handle and the observed balance are gone.
Crash(e) ==
    /\ handle[e] # NoHandle
    /\ handle' = [handle EXCEPT ![e] = NoHandle]
    /\ txn' = [txn EXCEPT ![e] = NoTxn]
    /\ writer' = IF writer = e THEN None ELSE writer
    /\ receipt' = [receipt EXCEPT ![e] = NoReceipt]
    /\ seen' = [seen EXCEPT ![e] = None]
    /\ UNCHANGED <<identity, rows, balance, posted>>

\* External: admission reads the balance of the account it will charge.
Observe(e, a) ==
    /\ "existing_credit" \in FundingKinds
    /\ handle[e] # NoHandle
    /\ txn[e] = NoTxn
    /\ seen[e] = None
    /\ seen' = [seen EXCEPT ![e] = [account |-> a, available |-> balance[a]]]
    /\ UNCHANGED <<identity, rows, writer, txn, handle, receipt, balance, posted>>

\* External: a settled charge reaches the account balance.
Post(r) ==
    /\ r \in Rows("existing_credit", "settled", rows) \ posted
    /\ rows[r].charged \in 0..balance[rows[r].account]
    /\ posted' = posted \cup {r}
    /\ balance' = [balance EXCEPT ![rows[r].account] = @ - rows[r].charged]
    /\ UNCHANGED <<identity, rows, writer, txn, handle, receipt, seen>>

Next ==
    \/ \E e \in Executors :
          \/ \E id \in LedgerIds, cap \in Caps : Open(e, id, cap)
          \/ \E r \in ReservationIds :
                \/ \E b \in Bindings, kind \in FundingKinds, a \in Accounts,
                      max \in Amounts : Reserve(e, r, b, kind, a, max)
                \/ \E charged \in Amounts, ev \in Evidence,
                      sk \in SettlementKinds : Settle(e, r, charged, ev, sk)
                \/ \E ev \in Evidence : Reconcile(e, r, ev)
          \/ Commit(e)
          \/ Crash(e)
          \/ \E a \in Accounts : Observe(e, a)
    \/ \E r \in ReservationIds : Post(r)

Spec == Init /\ [][Next]_vars

-----------------------------------------------------------------------------
\* Type invariant.
TypeOK ==
    /\ identity \in Identities \cup {None}
    /\ rows \in [ReservationIds -> Row \cup {None}]
    /\ writer \in Executors \cup {None}
    /\ txn \in [Executors -> {NoTxn} \cup
                   [id : ReservationIds, row : Row,
                    receipt : [id : ReservationIds \cup {None},
                               replayed : BOOLEAN]]]
    /\ handle \in [Executors -> {NoHandle} \cup [id : LedgerIds, cap : Caps]]
    /\ receipt \in [Executors -> [id : ReservationIds \cup {None},
                                  replayed : BOOLEAN]]
    /\ balance \in [Accounts -> Nat]
    /\ posted \subseteq ReservationIds
    /\ seen \in [Executors -> [account : Accounts, available : Nat] \cup {None}]

\* Whatever executors interleave, crash, reopen the file or migrate it, the
\* settled charges and the unresolved worst cases never exceed the cap the
\* file is bound to (_initialize's drift check, reserve's admission test and
\* the write lock around both).
CapRespected ==
    identity # None => Settled(rows) + Unresolved(rows) <= identity.cap

\* inspect_readiness is separate code with its own rules for what a row may
\* look like.  Nothing the writers leave behind, at any point at which an
\* executor may have died, is a row it calls corrupt.
ReadinessRow(row) ==
    /\ row.state = "unresolved" =>
           /\ row.charged = None /\ row.evidence = None
           /\ row.settlement = None /\ row.reconciled = None
    /\ row.state = "settled" =>
           /\ row.charged # None /\ row.charged <= row.max
           /\ row.evidence # None /\ row.settlement # None
           /\ row.reconciled # None => row.kind = "existing_credit"

InspectorAccepts ==
    identity # None /\ identity.schema = "v2" =>
        \A r \in Used(rows) : ReadinessRow(rows[r])

\* No two executors ever both hold a receipt that says the reservation is
\* new: for_attempt sends a segment's requests only on such a receipt.
FreshReceiptUnique ==
    \A e1, e2 \in Executors :
        receipt[e1].id = receipt[e2].id /\ ~receipt[e1].replayed
            /\ ~receipt[e2].replayed => e1 = e2

\* The inductive invariant behind the three.  The last step of an open
\* transaction is only a write: what reserve and settle have checked must still
\* hold when Commit writes it, and it does because nobody else can write while
\* the lock is held.
WellFormedRows(rs) ==
    \A r \in Used(rs) :
        LET row == rs[r] IN
        /\ row.state = "unresolved" =>
               row.charged = None /\ row.evidence = None
                   /\ row.settlement = None /\ row.reconciled = None
        /\ row.state = "settled" =>
               /\ row.charged # None /\ row.charged <= row.max
               /\ row.evidence # None
               /\ identity.schema = "v2" => row.settlement # None
               /\ row.reconciled # None => row.kind = "existing_credit"

WithinCap(rs) == Settled(rs) + Unresolved(rs) <= identity.cap

Staged(e) == [rows EXCEPT ![txn[e].id] = txn[e].row]

LedgerInv ==
    /\ identity = None => rows = EmptyRows
    /\ identity # None => WellFormedRows(rows) /\ WithinCap(rows)
    /\ \A e \in Executors :
           /\ handle[e] # NoHandle =>
                  /\ identity # None /\ identity.schema = "v2"
                  /\ SameIdentity(handle[e].id, handle[e].cap)
           /\ txn[e] # NoTxn =>
                  /\ writer = e /\ handle[e] # NoHandle
                  /\ WellFormedRows(Staged(e)) /\ WithinCap(Staged(e))
                  /\ \/ txn[e].receipt = receipt[e]
                     \/ txn[e].receipt.replayed
                     \/ rows[txn[e].id] = None /\ txn[e].receipt.id = txn[e].id
           /\ ~receipt[e].replayed =>
                  receipt[e].id # None /\ rows[receipt[e].id] # None
    /\ FreshReceiptUnique

\* What an account may still be charged for (worst cases, and charges it has
\* not posted yet) is covered by the balance it has.
OutstandingWeights(a, rs) ==
    [r \in ReservationIds |->
        IF r \in posted THEN 0 ELSE RetainedWeights(a, rs)[r]]

CreditCovered ==
    \A a \in Accounts : Total(OutstandingWeights(a, rows)) <= balance[a]

\* A commitment is never withdrawn or rebound, a settlement never revised and
\* a reconciliation never replaced, by any replay, crash or migration.
SameCommitment(old, new) ==
    /\ new # None
    /\ SameReservation(new, old.binding, old.kind, old.account, old.max)
    /\ old.state = "settled" =>
           /\ new.state = "settled" /\ new.charged = old.charged
           /\ new.evidence = old.evidence
           /\ old.settlement # None => new.settlement = old.settlement
    /\ old.reconciled # None => new.reconciled = old.reconciled

CommitmentsKept ==
    [][\A r \in Used(rows) : SameCommitment(rows[r], rows'[r])]_vars

-----------------------------------------------------------------------------
\* The ledger implements the abstract cap: a metered row is an allotment, open
\* while unresolved, and every other step (opening, replays, existing credit,
\* crashes, migration) is invisible.
HeldBy(rs) ==
    [r \in ReservationIds |-> SettledWeights(rs)[r] + UnresolvedWeights(rs)[r]]

Cap == INSTANCE SharedCap WITH
           Ids <- ReservationIds,
           cap <- IF identity = None THEN None ELSE identity.cap,
           held <- HeldBy(rows),
           open <- Rows("metered", "unresolved", rows),
           closed <- Rows("metered", "settled", rows)

ImplementsSharedCap == Cap!Spec

=============================================================================
