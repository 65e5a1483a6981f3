------------------------- MODULE EvidenceStoreProofs -------------------------
(***************************************************************************)
(* Theorems about the evidence store, for any numbers of executors,        *)
(* inspectors, temporaries and lines: a final record seals the log, and    *)
(* without a power loss the store implements AttemptLog.                   *)
(***************************************************************************)
EXTENDS EvidenceStore, TLAPS

USE StoreAssumption

Line == Kinds \cup {"attempt_started"}
Record == [whole : BOOLEAN, count : Nat, status : Statuses \cup {None}]
Places ==
    {"idle", "start_create", "write", "write_rest", "sync_line", "sync_attempt", "create", "fill", "sync_temp", "link",
     "sync_link", "unlink", "sync_unlink", "verify", "recover_link", "recover_sync", "recover_unlink", "recovered",
     "list_pending", "stat_pending"}

StoreType ==
    /\ dir \in BOOLEAN /\ torn \in BOOLEAN
    /\ lines = None \/ lines \in Seq(Line)
    /\ record \in [Temps -> Record] /\ final \in Temps \cup {None}
    /\ at \in [Procs -> Places] /\ kind \in [Procs -> Line] /\ mine \in [Procs -> Temps \cup {None}]

Filled == {"sync_temp", "link", "recover_link"}
Publishing == {"create", "fill"} \cup Filled
Locked == Publishing \cup {"sync_link", "unlink", "recover_sync", "recover_unlink", "recovered"}
Writing == {"write", "write_rest"}

Starting(p) == at[p] = "start_create" \/ (at[p] \in Writing /\ kind[p] = "attempt_started")
Appending(p) == at[p] \in Writing /\ kind[p] # "attempt_started"

\* A start writes the first line alone, because nobody else finds a valid log.
StartInv ==
    /\ ~dir => lines = None /\ final = None
    /\ \A p \in Procs : Starting(p) =>
          /\ dir /\ final = None
          /\ IF at[p] = "start_create" THEN lines = None ELSE lines = <<>>
          /\ at[p] = "write_rest" => torn
    /\ \A p, q \in Procs : Starting(p) /\ Starting(q) => p = q

\* An append and a publication hold the lock from their checks on, and what
\* they have checked still holds.
LockInv ==
    \A p \in Procs :
       /\ at[p] \in Locked => lock = p
       /\ Appending(p) =>
             /\ lock = p /\ kind[p] \in Kinds /\ final = None
             /\ lines \notin {None, <<>>} /\ lines[Len(lines)] # "attempt_interrupted"
       /\ at[p] \in Publishing => LogValid /\ final = None

\* A record counts the lines under the lock, and is whole before it is linked.
RecordInv ==
    /\ \A p \in Procs :
          /\ at[p] \in {"fill"} \cup Filled =>
                mine[p] \in Temps /\ record[mine[p]].count = Len(lines) /\ record[mine[p]].status \in Statuses
          /\ at[p] \in Filled => record[mine[p]].whole
    /\ \A t \in Temps : record[t].whole => record[t].status \in Statuses

SealInv == final # None => LogValid /\ Matches(final)

Core == StoreType /\ StartInv /\ LockInv /\ RecordInv

\* Whoever ends a line found a log.
LEMMA LineBegun ==
    ASSUME Core, NEW p \in Procs, at[p] = "write_rest"
    PROVE  lines \in Seq(Line)
<1>1. CASE Starting(p)
  <2>1. lines = <<>>
    BY <1>1 DEF Core, StartInv
  <2> QED
    BY <2>1
<1>2. CASE ~Starting(p)
  BY <1>2 DEF Core, StoreType, LockInv, Starting, Appending, Writing
<1> QED
  BY <1>1, <1>2

\* Every step of a process but a power loss keeps the types.
LEMMA TypeStep ==
    ASSUME Core, NEW p \in Procs, Step(p) \/ Crash(p)
    PROVE  StoreType'
<1> USE DEF Core, StoreType, Places, Line, Kinds, Goto, Return
<1>1. CASE StartMkdir(p) \/ WriteBegun(p)
  BY <1>1 DEF StartMkdir, WriteBegun
<1>2. CASE WriteDone(p)
  <2>1. lines \in Seq(Line)
    BY <1>2, LineBegun DEF WriteDone
  <2>2. lines' \in Seq(Line)
    <3>1. kind[p] \in Line /\ lines' = Append(lines, kind[p])
      BY <1>2 DEF WriteDone
    <3> HIDE DEF Line
    <3> QED
      BY <2>1, <3>1
  <2> QED
    BY <1>2, <2>2 DEF WriteDone
<1>3. CASE SyncLine(p) \/ SyncAttempt(p) \/ SyncTemp(p) \/ SyncLink(p) \/ SyncUnlink(p) \/ RecoverSync(p) \/ Recovered(p)
  BY <1>3 DEF SyncLine, SyncAttempt, SyncTemp, SyncLink, SyncUnlink, RecoverSync, Recovered, files
<1>4. ASSUME NEW k \in Kinds, AppendLocked(p, k) PROVE StoreType'
  BY <1>4 DEF AppendLocked, files
<1>5. CASE FinalizeLocked(p) \/ CallFails(p)
  BY <1>5 DEF FinalizeLocked, CallFails, files
<1>6. ASSUME NEW t \in Temps, NEW status \in Statuses, CreateTemp(p, t, status) PROVE StoreType'
  <2>1. lines \in Seq(Line)
    BY <1>6 DEF CreateTemp, LockInv, Publishing, LogValid
  <2>2. [whole |-> FALSE, count |-> Len(lines), status |-> status] \in Record
    BY <2>1 DEF Record
  <2> QED
    BY <1>6, <2>2 DEF CreateTemp
<1>7. CASE FillTemp(p)
  <2>1. mine[p] \in Temps
    BY <1>7 DEF FillTemp, RecordInv
  <2>2. record \in [Temps -> Record] /\ record' = [record EXCEPT ![mine[p]] = [@ EXCEPT !.whole = TRUE]]
    BY <1>7 DEF FillTemp
  <2>3. record' \in [Temps -> Record]
    <3>1. record[mine[p]] \in Record
      BY <2>1, <2>2
    <3>2. [record[mine[p]] EXCEPT !.whole = TRUE] \in Record
      BY <3>1 DEF Record
    <3> QED
      BY <2>1, <2>2, <3>2
  <2> QED
    BY <1>7, <2>3 DEF FillTemp
<1>8. CASE Link(p) \/ RecoverLink(p)
  BY <1>8 DEF Link, RecoverLink
<1>9. CASE PublishFails(p) \/ Unlink(p) \/ RecoverUnlink(p)
  BY <1>9 DEF PublishFails, Unlink, RecoverUnlink
<1>10. CASE VerifyLocked(p)
  BY <1>10 DEF VerifyLocked, files, HalfLinked, HalfUnlinked
<1>11. CASE ListPending(p) \/ StatPending(p)
  BY <1>11 DEF ListPending, StatPending, files
<1>12. CASE Crash(p)
  <2>1. "event" \in Line
    BY DEF Kinds
  <2> QED
    BY <1>12, <2>1 DEF Crash, files
<1>13. CASE StartCreate(p)
  <2>1. lines' \in Seq(Line)
    BY <1>13 DEF StartCreate
  <2> QED
    BY <1>13, <2>1 DEF StartCreate
<1> QED
  BY <1>1, <1>2, <1>3, <1>4, <1>5, <1>6, <1>7, <1>8, <1>9, <1>10, <1>11, <1>12, <1>13 DEF Step

\* Steps that leave log and records alone: only p's place and the lock move.
LEMMA Frame ==
    ASSUME Core, NEW p \in Procs, NEW place \in Places,
           at' = [at EXCEPT ![p] = place],
           UNCHANGED <<dir, lines, torn, record, final>>,
           \A q \in Procs \ {p} : mine'[q] = mine[q] /\ kind'[q] = kind[q],
           lock' = lock \/ lock \in {p, None},
           place \notin Writing \cup {"start_create"},
           place \in Locked => lock' = p,
           place \in Publishing => LogValid /\ final = None,
           place \in {"fill"} \cup Filled =>
              mine'[p] \in Temps /\ record[mine'[p]].count = Len(lines) /\ record[mine'[p]].status \in Statuses,
           place \in Filled => record[mine'[p]].whole
    PROVE  StartInv' /\ LockInv' /\ RecordInv' /\ (SealInv => SealInv')
<1>1. at'[p] = place /\ \A q \in Procs \ {p} : at'[q] = at[q]
  BY DEF Core, StoreType
<1>2. StartInv'
  BY <1>1 DEF Core, StartInv, Starting
<1>3. LockInv'
  <2> SUFFICES ASSUME NEW q \in Procs
               PROVE  /\ at'[q] \in Locked => lock' = q
                      /\ Appending(q)' =>
                            /\ lock' = q /\ kind'[q] \in Kinds /\ final' = None
                            /\ lines' \notin {None, <<>>} /\ lines'[Len(lines')] # "attempt_interrupted"
                      /\ at'[q] \in Publishing => LogValid' /\ final' = None
    BY DEF LockInv
  <2>1. CASE q = p
    BY <1>1, <2>1 DEF Appending, LogValid
  <2>2. CASE q # p
    <3>1. lock = q => lock' = q
      BY <2>2
    <3> QED
      BY <1>1, <2>2, <3>1 DEF Core, LockInv, Appending, LogValid
  <2> QED
    BY <2>1, <2>2
<1>4. RecordInv'
  <2>1. \A q \in Procs : q # p => mine'[q] = mine[q] /\ at'[q] = at[q]
    BY <1>1
  <2> QED
    BY <1>1, <2>1 DEF Core, RecordInv
<1>5. SealInv => SealInv'
  BY DEF SealInv, LogValid, Matches
<1> QED
  BY <1>2, <1>3, <1>4, <1>5

\* Those steps of a process.
LEMMA FrameSteps ==
    ASSUME Core, NEW p \in Procs,
           \/ SyncLine(p) \/ SyncAttempt(p) \/ FinalizeLocked(p) \/ CallFails(p) \/ SyncTemp(p) \/ SyncLink(p)
           \/ PublishFails(p) \/ Unlink(p) \/ SyncUnlink(p) \/ VerifyLocked(p)
           \/ RecoverSync(p) \/ RecoverUnlink(p) \/ Recovered(p) \/ ListPending(p) \/ StatPending(p)
    PROVE  StartInv' /\ LockInv' /\ RecordInv' /\ (SealInv => SealInv')
<1> USE DEF Goto, Return, Places, Locked, Publishing, Filled, Writing
<1> DEFINE Framed(place) ==
             /\ at' = [at EXCEPT ![p] = place]
             /\ UNCHANGED <<dir, lines, torn, record, final>>
             /\ \A q \in Procs \ {p} : mine'[q] = mine[q] /\ kind'[q] = kind[q]
             /\ lock' = lock \/ lock \in {p, None}
           Done == StartInv' /\ LockInv' /\ RecordInv' /\ (SealInv => SealInv')
<1>0. at[p] \in Locked => lock = p
  BY DEF Core, LockInv
<1>1. ASSUME NEW place \in Places, Framed(place), place \notin Writing \cup Locked \cup {"start_create"}
      PROVE  Done
  BY <1>1, Frame
<1>2. CASE SyncLine(p)
  <2>1. Framed("sync_attempt")
    BY <1>2 DEF SyncLine, files
  <2> QED
    BY <1>1, <2>1
<1>3. CASE SyncAttempt(p) \/ CallFails(p) \/ PublishFails(p) \/ Recovered(p) \/ StatPending(p)
  <2>1. Framed("idle")
    BY <1>0, <1>3 DEF SyncAttempt, CallFails, PublishFails, Recovered, StatPending, files, Core, StoreType
  <2> QED
    BY <1>1, <2>1
<1>4. CASE Unlink(p)
  <2>1. Framed("sync_unlink")
    BY <1>0, <1>4 DEF Unlink
  <2> QED
    BY <1>1, <2>1
<1>5. CASE SyncUnlink(p)
  <2>1. Framed("verify")
    BY <1>5 DEF SyncUnlink, files
  <2> QED
    BY <1>1, <2>1
<1>6. CASE ListPending(p)
  <2>1. Framed("stat_pending")
    BY <1>6 DEF ListPending, files
  <2> QED
    BY <1>1, <2>1
<1>7. CASE SyncLink(p)
  <2>1. Framed("unlink") /\ lock' = p
    BY <1>0, <1>7 DEF SyncLink, files
  <2> QED
    BY <2>1, Frame
<1>8. CASE RecoverSync(p)
  <2>1. Framed("recover_unlink") /\ lock' = p
    BY <1>0, <1>8 DEF RecoverSync, files
  <2> QED
    BY <2>1, Frame
<1>9. CASE RecoverUnlink(p)
  <2>1. Framed("recovered") /\ lock' = p
    BY <1>0, <1>9 DEF RecoverUnlink
  <2> QED
    BY <2>1, Frame
<1>10. CASE FinalizeLocked(p)
  <2>1. Framed("create") /\ lock' = p /\ LogValid /\ final = None
    BY <1>10 DEF FinalizeLocked, files
  <2> QED
    BY <2>1, Frame
<1>11. CASE SyncTemp(p)
  <2>1. Framed("link") /\ lock' = p /\ mine' = mine
    BY <1>0, <1>11 DEF SyncTemp, files
  <2>2. /\ LogValid /\ final = None
        /\ mine[p] \in Temps /\ record[mine[p]].count = Len(lines) /\ record[mine[p]].status \in Statuses
        /\ record[mine[p]].whole
    BY <1>11 DEF SyncTemp, Core, LockInv, RecordInv
  <2> QED
    BY <2>1, <2>2, Frame
<1>12. CASE VerifyLocked(p)
  <2>1. CASE (Return(p) \/ (Goto(p, "list_pending") /\ UNCHANGED <<mine, kind>>)) /\ UNCHANGED <<files, lock>>
    <3>1. Framed("idle") \/ Framed("list_pending")
      BY <2>1 DEF files, Core, StoreType
    <3> QED
      BY <1>1, <3>1
  <2>2. CASE /\ LogValid /\ (HalfLinked \/ HalfUnlinked) /\ lock = None /\ lock' = p
             /\ mine' = [mine EXCEPT ![p] = CHOOSE t \in Temps : temps = {t}]
             /\ at' = [at EXCEPT ![p] = IF HalfLinked THEN "recover_link" ELSE "recover_unlink"]
             /\ UNCHANGED <<dir, lines, torn, record, final, kind>>
    <3>1. CASE ~HalfLinked
      <4>1. Framed("recover_unlink")
        BY <2>2, <3>1 DEF Core, StoreType
      <4> QED
        BY <2>2, <4>1, Frame
    <3>2. CASE HalfLinked
      <4>1. Framed("recover_link") /\ final = None
        BY <2>2, <3>2 DEF HalfLinked, Core, StoreType
      <4>2. PICK t \in Temps : temps = {t} /\ Matches(t)
        BY <3>2 DEF HalfLinked
      <4>3. mine'[p] = t
        <5>1. (CHOOSE u \in Temps : temps = {u}) = t
          BY <4>2
        <5> QED
          BY <2>2, <5>1 DEF Core, StoreType
      <4>4. record[t].whole /\ record[t].count = Len(lines) /\ record[t].status \in Statuses
        BY <4>2 DEF Matches, Core, RecordInv
      <4> QED
        BY <2>2, <4>1, <4>3, <4>4, Frame
    <3> QED
      BY <3>1, <3>2
  <2> HIDE DEF Return
  <2> QED
    BY <1>12, <2>1, <2>2 DEF VerifyLocked, files
<1> QED
  BY <1>2, <1>3, <1>4, <1>5, <1>6, <1>7, <1>8, <1>9, <1>10, <1>11, <1>12

\* The steps that write the log, fill a record or publish one.
LEMMA WriteSteps ==
    ASSUME Core, NEW p \in Procs,
           \/ StartMkdir(p) \/ StartCreate(p) \/ WriteBegun(p) \/ WriteDone(p)
           \/ \E k \in Kinds : AppendLocked(p, k)
    PROVE  StartInv' /\ LockInv' /\ RecordInv' /\ (SealInv => SealInv')
<1> USE DEF Goto, Return, Places, Locked, Publishing, Filled, Writing, Core, StoreType
<1>0. \A q \in Procs : q # p => at'[q] = at[q] /\ mine'[q] = mine[q] /\ kind'[q] = kind[q]
  BY DEF StartMkdir, StartCreate, WriteBegun, WriteDone, AppendLocked, files
<1>1. CASE StartMkdir(p)
  <2>1. lines = None /\ final = None /\ \A q \in Procs : ~Starting(q) /\ ~Appending(q) /\ at[q] \notin Publishing
    BY <1>1 DEF StartMkdir, StartInv, LockInv, SealInv, LogValid
  <2>2. at'[p] = "start_create" /\ UNCHANGED <<lines, torn, record, final, lock, mine, kind>> /\ dir'
    BY <1>1 DEF StartMkdir
  <2>3. StartInv'
    BY <1>0, <2>1, <2>2 DEF StartInv, Starting
  <2>4. LockInv'
    BY <1>0, <2>1, <2>2 DEF LockInv, Appending
  <2>5. RecordInv'
    BY <1>0, <2>1, <2>2 DEF RecordInv
  <2> QED
    BY <2>1, <2>2, <2>3, <2>4, <2>5 DEF SealInv
<1>2. CASE StartCreate(p)
  <2>1. Starting(p) /\ lines = None /\ final = None
    BY <1>2 DEF StartCreate, Starting, StartInv
  <2>2. \A q \in Procs : q # p => ~Starting(q) /\ ~Appending(q) /\ at[q] \notin Publishing
    BY <2>1 DEF StartInv, LockInv, LogValid
  <2>3. at'[p] = "write" /\ kind'[p] = "attempt_started" /\ lines' = <<>> /\ UNCHANGED <<dir, torn, record, final, lock, mine>>
    BY <1>2 DEF StartCreate
  <2>4. StartInv'
    BY <1>0, <2>1, <2>2, <2>3 DEF StartInv, Starting
  <2>5. LockInv'
    BY <1>0, <2>2, <2>3 DEF LockInv, Appending
  <2>6. RecordInv'
    BY <1>0, <2>2, <2>3 DEF RecordInv
  <2> QED
    BY <2>1, <2>3, <2>4, <2>5, <2>6 DEF SealInv
<1>3. CASE WriteBegun(p)
  <2>1. at[p] = "write" /\ at'[p] = "write_rest" /\ torn' /\ UNCHANGED <<dir, lines, record, final, lock, mine, kind>>
    BY <1>3 DEF WriteBegun
  <2>2. final = None /\ \A q \in Procs : q # p => at[q] \notin Publishing
    BY <2>1 DEF StartInv, LockInv, Starting, Appending, LogValid
  <2>3. StartInv'
    BY <1>0, <2>1 DEF StartInv, Starting
  <2>4. LockInv'
    BY <1>0, <2>1, <2>2 DEF LockInv, Appending
  <2>5. RecordInv'
    BY <1>0, <2>1, <2>2 DEF RecordInv
  <2> QED
    BY <2>1, <2>2, <2>3, <2>4, <2>5 DEF SealInv
<1>4. CASE WriteDone(p)
  <2>1. at[p] = "write_rest" /\ at'[p] = "sync_line" /\ UNCHANGED <<dir, record, final, lock, mine, kind>>
    BY <1>4 DEF WriteDone
  <2>2. dir /\ final = None /\ \A q \in Procs : q # p => ~Starting(q) /\ ~Appending(q) /\ at[q] \notin Publishing
    BY <2>1 DEF StartInv, LockInv, Starting, Appending, LogValid
  <2>3. StartInv'
    BY <1>0, <2>1, <2>2 DEF StartInv, Starting
  <2>4. LockInv'
    BY <1>0, <2>1, <2>2 DEF LockInv, Appending
  <2>5. RecordInv'
    BY <1>0, <2>1, <2>2 DEF RecordInv
  <2> QED
    BY <2>1, <2>2, <2>3, <2>4, <2>5 DEF SealInv
<1>5. ASSUME NEW k \in Kinds, AppendLocked(p, k) PROVE StartInv' /\ LockInv' /\ RecordInv' /\ (SealInv => SealInv')
  <2>1. /\ at'[p] = "write" /\ kind'[p] = k /\ k # "attempt_started" /\ lock = None /\ lock' = p
        /\ final = None /\ LogValid /\ lines[Len(lines)] # "attempt_interrupted"
        /\ UNCHANGED <<dir, lines, torn, record, final, mine>>
    BY <1>5 DEF AppendLocked, Appendable, files, Kinds
  <2>2. StartInv'
    BY <1>0, <2>1 DEF StartInv, Starting
  <2>3. LockInv'
    BY <1>0, <2>1 DEF LockInv, Appending, LogValid
  <2>4. RecordInv'
    BY <1>0, <2>1 DEF RecordInv
  <2> QED
    BY <2>1, <2>2, <2>3, <2>4 DEF SealInv
<1> QED
  BY <1>1, <1>2, <1>3, <1>4, <1>5

\* The steps that make a record and publish it, and a death.
LEMMA RecordSteps ==
    ASSUME Core, NEW p \in Procs,
           \/ \E t \in Temps, status \in Statuses : CreateTemp(p, t, status)
           \/ FillTemp(p) \/ Link(p) \/ RecoverLink(p) \/ Crash(p)
    PROVE  StartInv' /\ LockInv' /\ RecordInv' /\ (SealInv => SealInv')
<1> USE DEF Goto, Return, Places, Locked, Publishing, Filled, Writing, Core, StoreType
<1>0. \A q \in Procs : q # p => at'[q] = at[q] /\ mine'[q] = mine[q] /\ kind'[q] = kind[q]
  BY DEF CreateTemp, FillTemp, Link, RecoverLink, Crash
<1>1. ASSUME at[p] \in Publishing
      PROVE  /\ lock = p /\ LogValid /\ final = None
             /\ \A q \in Procs : ~Starting(q) /\ ~Appending(q) /\ (q # p => at[q] \notin Locked)
  <2>1. lock = p /\ LogValid /\ final = None
    BY <1>1 DEF LockInv
  <2>2. ASSUME NEW q \in Procs PROVE ~Starting(q)
    BY <2>1 DEF StartInv, LogValid
  <2>3. ASSUME NEW q \in Procs PROVE ~Appending(q)
    BY <1>1, <2>1 DEF LockInv, Appending
  <2>4. ASSUME NEW q \in Procs, q # p PROVE at[q] \notin Locked
    BY <2>1, <2>4 DEF LockInv
  <2> QED
    BY <2>1, <2>2, <2>3, <2>4
<1>2. ASSUME NEW t \in Temps, NEW status \in Statuses, CreateTemp(p, t, status)
      PROVE  StartInv' /\ LockInv' /\ RecordInv' /\ (SealInv => SealInv')
  <2>1. /\ at[p] = "create" /\ at'[p] = "fill" /\ mine'[p] = t
        /\ record' = [record EXCEPT ![t] = [whole |-> FALSE, count |-> Len(lines), status |-> status]]
        /\ UNCHANGED <<dir, lines, torn, final, lock, kind>>
    BY <1>2 DEF CreateTemp
  <2>2. StartInv'
    BY <1>0, <1>1, <2>1 DEF StartInv, Starting
  <2>3. LockInv'
    BY <1>0, <1>1, <2>1 DEF LockInv, Appending, LogValid
  <2>4. RecordInv'
    <3>1. \A u \in Temps : u # t => record'[u] = record[u]
      BY <2>1
    <3>2. ~record'[t].whole /\ record'[t].count = Len(lines) /\ record'[t].status = status
      BY <2>1
    <3> QED
      BY <1>0, <1>1, <2>1, <3>1, <3>2 DEF RecordInv
  <2> QED
    BY <1>1, <2>1, <2>2, <2>3, <2>4 DEF SealInv
<1>3. CASE FillTemp(p)
  <2>1. /\ at[p] = "fill" /\ at'[p] = "sync_temp" /\ UNCHANGED <<dir, lines, torn, final, lock, mine, kind>>
        /\ record' = [record EXCEPT ![mine[p]].whole = TRUE]
    BY <1>3 DEF FillTemp
  <2>2. mine[p] \in Temps /\ record[mine[p]].count = Len(lines) /\ record[mine[p]].status \in Statuses
    BY <2>1 DEF RecordInv
  <2>3. StartInv'
    BY <1>0, <1>1, <2>1 DEF StartInv, Starting
  <2>4. LockInv'
    BY <1>0, <1>1, <2>1 DEF LockInv, Appending, LogValid
  <2>5. RecordInv'
    <3>1. \A u \in Temps : u # mine[p] => record'[u] = record[u]
      BY <2>1, <2>2
    <3>2. /\ record'[mine[p]].whole /\ record'[mine[p]].count = record[mine[p]].count
          /\ record'[mine[p]].status = record[mine[p]].status
      BY <2>1, <2>2 DEF Record
    <3> QED
      BY <1>0, <1>1, <2>1, <2>2, <3>1, <3>2 DEF RecordInv
  <2> QED
    BY <1>1, <2>1, <2>3, <2>4, <2>5 DEF SealInv
<1>4. CASE Link(p) \/ RecoverLink(p)
  <2>1. /\ at[p] \in {"link", "recover_link"} /\ at'[p] \in {"sync_link", "recover_sync"} /\ final' = mine[p]
        /\ UNCHANGED <<dir, lines, torn, record, lock, mine, kind>>
    BY <1>4 DEF Link, RecoverLink
  <2>2. mine[p] \in Temps /\ record[mine[p]].count = Len(lines) /\ record[mine[p]].whole
    BY <2>1 DEF RecordInv
  <2>3. StartInv'
    <3>1. dir
      BY <1>1, <2>1 DEF StartInv, LogValid
    <3> QED
      BY <1>0, <1>1, <2>1, <3>1 DEF StartInv, Starting
  <2>4. LockInv'
    BY <1>0, <1>1, <2>1 DEF LockInv, Appending
  <2>5. RecordInv'
    BY <1>0, <1>1, <2>1 DEF RecordInv
  <2>6. SealInv'
    BY <1>1, <2>1, <2>2 DEF SealInv, LogValid, Matches
  <2> QED
    BY <2>3, <2>4, <2>5, <2>6
<1>5. CASE Crash(p)
  <2>1. /\ at'[p] = "idle" /\ UNCHANGED <<dir, lines, torn, record, final>>
        /\ lock' = IF lock = p THEN None ELSE lock
    BY <1>5 DEF Crash, files
  <2>2. StartInv'
    BY <1>0, <2>1 DEF StartInv, Starting
  <2>3. LockInv'
    BY <1>0, <2>1 DEF LockInv, Appending, LogValid
  <2>4. RecordInv'
    BY <1>0, <2>1 DEF RecordInv
  <2> QED
    BY <2>1, <2>2, <2>3, <2>4 DEF SealInv, LogValid, Matches
<1> QED
  BY <1>2, <1>3, <1>4, <1>5

\* Until the machine dies, every step keeps all of it.
LEMMA ProcessSteps ==
    ASSUME Core, NEW p \in Procs, Step(p) \/ Crash(p)
    PROVE  Core' /\ (SealInv => SealInv') /\ UNCHANGED lost
<1>1. StoreType'
  BY TypeStep
<1>2. StartInv' /\ LockInv' /\ RecordInv' /\ (SealInv => SealInv')
  BY FrameSteps, WriteSteps, RecordSteps DEF Step
<1>3. UNCHANGED lost
  BY DEF Step, Crash, StartMkdir, StartCreate, WriteBegun, WriteDone, SyncLine, SyncAttempt, AppendLocked, FinalizeLocked,
         CreateTemp, FillTemp, CallFails, SyncTemp, Link, SyncLink, PublishFails, Unlink, SyncUnlink, VerifyLocked,
         RecoverLink, RecoverSync, RecoverUnlink, Recovered, ListPending, StatPending
<1> QED
  BY <1>1, <1>2, <1>3 DEF Core

-----------------------------------------------------------------------------
DiskType ==
    /\ disk \in [dir : BOOLEAN, count : Nat, temps : SUBSET Temps, final : Temps \cup {None}, whole : SUBSET Temps]
    /\ temps \subseteq Temps /\ acked \in Nat /\ wrote \in [Procs -> Nat]

\* What has been acknowledged is on the disk, and a line is on the disk before
\* its writer goes on to acknowledge it.
DiskInv ==
    /\ IF lines = None THEN disk.count = 0 ELSE disk.count <= Len(lines)
    /\ disk.dir => dir /\ lines # None
    /\ acked <= disk.count /\ (acked > 0 => disk.dir)
    /\ \A p \in Procs :
          /\ at[p] \in {"sync_line", "sync_attempt"} => lines # None /\ wrote[p] <= Len(lines)
          /\ at[p] = "sync_attempt" => wrote[p] <= disk.count

\* A process writes to the disk what is there.
LEMMA DiskTypeStep ==
    ASSUME Core, DiskType, DiskInv, NEW p \in Procs, Step(p) \/ Crash(p)
    PROVE  DiskType'
<1> USE DEF Core, StoreType, DiskType, Return
<1>1. ASSUME UNCHANGED <<disk, temps, acked>>, wrote' = wrote \/ wrote' = [wrote EXCEPT ![p] = 0] PROVE DiskType'
  BY <1>1
<1>2. CASE StartMkdir(p) \/ StartCreate(p) \/ WriteBegun(p) \/ \E k \in Kinds : AppendLocked(p, k)
  BY <1>1, <1>2 DEF StartMkdir, StartCreate, WriteBegun, AppendLocked, files
<1>3. CASE WriteDone(p)
  <2>1. lines \in Seq(Line)
    BY <1>3, LineBegun DEF WriteDone
  <2> QED
    BY <1>3, <2>1 DEF WriteDone
<1>4. CASE SyncLine(p)
  <2>1. Len(lines) \in Nat
    BY <1>4 DEF SyncLine, DiskInv
  <2> QED
    BY <1>4, <2>1 DEF SyncLine, files
<1>5. CASE SyncAttempt(p)
  BY <1>5 DEF SyncAttempt, files
<1>6. CASE \/ FinalizeLocked(p) \/ FillTemp(p) \/ CallFails(p) \/ Link(p) \/ VerifyLocked(p) \/ RecoverLink(p)
           \/ ListPending(p) \/ StatPending(p)
  BY <1>1, <1>6 DEF FinalizeLocked, FillTemp, CallFails, Link, VerifyLocked, RecoverLink, ListPending, StatPending, files
<1>7. ASSUME NEW t \in Temps, NEW status \in Statuses, CreateTemp(p, t, status) PROVE DiskType'
  BY <1>7 DEF CreateTemp
<1>8. CASE SyncTemp(p)
  <2>1. mine[p] \in Temps
    BY <1>8 DEF SyncTemp, RecordInv, Filled
  <2> QED
    BY <1>8, <2>1 DEF SyncTemp, files
<1>9. CASE SyncLink(p) \/ SyncUnlink(p) \/ RecoverSync(p) \/ Recovered(p)
  <2>1. disk' = [disk EXCEPT !.temps = temps, !.final = final]
    BY <1>9 DEF SyncLink, SyncUnlink, RecoverSync, Recovered
  <2>2. UNCHANGED <<temps, acked>> /\ (wrote' = wrote \/ wrote' = [wrote EXCEPT ![p] = 0])
    BY <1>9 DEF SyncLink, SyncUnlink, RecoverSync, Recovered, files
  <2>3. /\ disk' \in [dir : BOOLEAN, count : Nat, temps : SUBSET Temps, final : Temps \cup {None}, whole : SUBSET Temps]
        /\ temps' \subseteq Temps /\ acked' \in Nat
    BY <2>1, <2>2
  <2>4. wrote' \in [Procs -> Nat]
    BY <2>2
  <2> QED
    BY <2>3, <2>4
<1>10. CASE PublishFails(p) \/ Unlink(p) \/ RecoverUnlink(p)
  <2>1. /\ UNCHANGED <<disk, acked>> /\ temps' \subseteq temps
        /\ wrote' = wrote \/ wrote' = [wrote EXCEPT ![p] = 0]
    BY <1>10 DEF PublishFails, Unlink, RecoverUnlink
  <2> QED
    BY <2>1
<1>11. CASE Crash(p)
  BY <1>11 DEF Crash, files
<1> QED
  BY <1>2, <1>3, <1>4, <1>5, <1>6, <1>7, <1>8, <1>9, <1>10, <1>11 DEF Step

\* A line is synced before it is acknowledged.
LEMMA DiskStep ==
    ASSUME Core, DiskType, DiskInv, NEW p \in Procs, Step(p) \/ Crash(p)
    PROVE  DiskInv'
<1> USE DEF Core, StoreType, DiskType, Goto, Return
<1>0. lines # None => Len(lines) \in Nat
  OBVIOUS
<1>1. ASSUME NEW place \in Places, place \notin {"sync_line", "sync_attempt"}, at' = [at EXCEPT ![p] = place],
             UNCHANGED <<dir, lines, acked>>, disk'.dir = disk.dir, disk'.count = disk.count,
             \A q \in Procs : q # p => wrote'[q] = wrote[q]
      PROVE  DiskInv'
  BY <1>1 DEF DiskInv
<1> USE DEF Places
<1>2. CASE StartMkdir(p)
  BY <1>2 DEF StartMkdir, DiskInv
<1>3. CASE StartCreate(p)
  <2>1. lines = None /\ lines' = <<>> /\ at' = [at EXCEPT ![p] = "write"] /\ UNCHANGED <<dir, disk, acked, wrote>>
    BY <1>3 DEF StartCreate, StartInv, Starting
  <2>2. lines' # None /\ Len(lines') = 0
    <3>1. <<>> \in Seq(Line)
      OBVIOUS
    <3> QED
      BY <2>1, <3>1 DEF Line
  <2>3. disk.count = 0 /\ ~disk.dir /\ \A q \in Procs : at[q] \notin {"sync_line", "sync_attempt"}
    BY <2>1 DEF DiskInv
  <2> QED
    BY <2>1, <2>2, <2>3 DEF DiskInv
<1>4. CASE WriteDone(p)
  <2>1. /\ at' = [at EXCEPT ![p] = "sync_line"] /\ lines' = Append(lines, kind[p])
        /\ wrote' = [wrote EXCEPT ![p] = Len(lines) + 1] /\ UNCHANGED <<dir, disk, acked>>
    BY <1>4 DEF WriteDone
  <2>2. lines \in Seq(Line)
    BY <1>4, LineBegun DEF WriteDone
  <2>3. kind[p] \in Line
    OBVIOUS
  <2>4. lines' \in Seq(Line) /\ Len(lines') = Len(lines) + 1 /\ Len(lines) \in Nat
    BY <2>1, <2>2, <2>3
  <2>5. lines # None /\ lines' # None
    BY <2>2, <2>4 DEF Line
  <2> QED
    BY <2>1, <2>4, <2>5 DEF DiskInv
<1>5. CASE SyncLine(p)
  <2>1. /\ at[p] = "sync_line" /\ at' = [at EXCEPT ![p] = "sync_attempt"] /\ UNCHANGED <<dir, lines, acked, wrote>>
        /\ disk'.count = Len(lines) /\ disk'.dir = disk.dir
    BY <1>5 DEF SyncLine, files
  <2>2. lines # None /\ disk.count <= Len(lines) /\ wrote[p] <= Len(lines)
    BY <2>1 DEF DiskInv
  <2> QED
    BY <1>0, <2>1, <2>2 DEF DiskInv
<1>6. CASE SyncAttempt(p)
  <2>1. /\ at[p] = "sync_attempt" /\ at' = [at EXCEPT ![p] = "idle"] /\ UNCHANGED <<dir, lines>>
        /\ \A q \in Procs : q # p => wrote'[q] = wrote[q]
        /\ disk'.count = disk.count
        /\ disk'.dir = (disk.dir \/ kind[p] = "attempt_started")
        /\ acked' = IF (kind[p] = "attempt_started" \/ acked > 0) /\ wrote[p] > acked THEN wrote[p] ELSE acked
    BY <1>6 DEF SyncAttempt, files
  <2>2. lines # None /\ wrote[p] <= disk.count /\ dir
    BY <2>1 DEF DiskInv, StartInv
  <2> QED
    BY <2>1, <2>2 DEF DiskInv
<1>7. CASE WriteBegun(p) \/ \E k \in Kinds : AppendLocked(p, k)
  BY <1>1, <1>7 DEF WriteBegun, AppendLocked, files
<1>8. CASE FinalizeLocked(p) \/ FillTemp(p) \/ CallFails(p) \/ \E t \in Temps, status \in Statuses : CreateTemp(p, t, status)
  BY <1>1, <1>8 DEF FinalizeLocked, FillTemp, CallFails, CreateTemp, files
<1>9. CASE Link(p) \/ RecoverLink(p) \/ PublishFails(p) \/ Unlink(p) \/ RecoverUnlink(p)
  BY <1>1, <1>9 DEF Link, RecoverLink, PublishFails, Unlink, RecoverUnlink
<1>10. CASE SyncTemp(p) \/ SyncLink(p) \/ SyncUnlink(p) \/ RecoverSync(p) \/ Recovered(p)
  BY <1>1, <1>10 DEF SyncTemp, SyncLink, SyncUnlink, RecoverSync, Recovered, files
<1>11. CASE VerifyLocked(p) \/ ListPending(p) \/ StatPending(p)
  BY <1>1, <1>11 DEF VerifyLocked, ListPending, StatPending, files
<1>12. CASE Crash(p)
  BY <1>1, <1>12 DEF Crash, files
<1> QED
  BY <1>2, <1>3, <1>4, <1>5, <1>6, <1>7, <1>8, <1>9, <1>10, <1>11, <1>12 DEF Step

\* A power loss takes nothing that is on the disk.  It may leave a final record
\* that counts more than the log has; the rest holds, because every process ends.
LEMMA PowerLossKeeps ==
    ASSUME Core, DiskType, DiskInv, PowerLoss
    PROVE  Core' /\ DiskType' /\ DiskInv' /\ lost'
<1> USE DEF Core, StoreType, DiskType
<1>1. /\ at' = [q \in Procs |-> "idle"] /\ mine' = [q \in Procs |-> None] /\ kind' = [q \in Procs |-> "event"]
      /\ wrote' = [q \in Procs |-> 0] /\ acked' = acked /\ lost' /\ dir
      /\ disk' = [dir |-> dir', count |-> IF lines' = None THEN 0 ELSE Len(lines'),
                  temps |-> temps', final |-> final', whole |-> {t \in Temps : record'[t].whole}]
  BY DEF PowerLoss
<1>2. CASE ~disk.dir /\ dir' = FALSE /\ lines' = None /\ torn' = FALSE /\ temps' = {} /\ final' = None /\ record' = record
  <2>1. StoreType'
    <3>1. "event" \in Line
      BY DEF Line, Kinds
    <3> QED
      BY <1>1, <1>2, <3>1 DEF Places
  <2>2. StartInv' /\ LockInv' /\ RecordInv'
    <3>1. StartInv' /\ LockInv'
      BY <1>1, <1>2 DEF StartInv, Starting, LockInv, Appending, Locked, Publishing, Filled, Writing
    <3>2. RecordInv'
      BY <1>1, <1>2 DEF RecordInv, Filled
    <3> QED
      BY <3>1, <3>2
  <2>3. DiskType'
    BY <1>1, <1>2
  <2>4. disk'.count = 0 /\ ~disk'.dir
    BY <1>1, <1>2
  <2>5. acked = 0
    BY <1>2 DEF DiskInv
  <2>6. DiskInv'
    BY <1>1, <1>2, <2>4, <2>5 DEF DiskInv
  <2> QED
    BY <1>1, <2>1, <2>2, <2>3, <2>6
<1>3. ASSUME NEW n \in disk.count..Len(lines), NEW cut \in SUBSET Temps, lines # None,
             lines' = SubSeq(lines, 1, n), torn' \in BOOLEAN, dir' = dir,
             temps' \in SUBSET (temps \cup disk.temps), final' \in {final, disk.final},
             record' = [t \in Temps |-> IF t \in cut THEN [record[t] EXCEPT !.whole = FALSE] ELSE record[t]]
      PROVE  Core' /\ DiskType' /\ DiskInv'
  <2>1. lines' \in Seq(Line) /\ Len(lines') = n /\ n \in Nat /\ lines' # None
    <3>1. lines \in Seq(Line) /\ Len(lines) \in Nat /\ n \in Nat /\ n <= Len(lines)
      BY <1>3
    <3>2. lines' \in Seq(Line) /\ Len(lines') = n
      BY <1>3, <3>1
    <3> QED
      BY <3>1, <3>2 DEF Line
  <2>2. \A t \in Temps : record'[t] \in Record /\ (record'[t].whole => record[t].whole) /\ record'[t].status = record[t].status
    <3> SUFFICES ASSUME NEW t \in Temps
                 PROVE  /\ record'[t] \in Record /\ (record'[t].whole => record[t].whole)
                        /\ record'[t].status = record[t].status
      OBVIOUS
    <3>1. record'[t] = [record[t] EXCEPT !.whole = FALSE] \/ record'[t] = record[t]
      BY <1>3
    <3> QED
      BY <3>1 DEF Record
  <2>3. StoreType'
    <3>1. record' \in [Temps -> Record]
      BY <1>3, <2>2
    <3>2. "event" \in Line
      BY DEF Line, Kinds
    <3> QED
      BY <1>1, <1>3, <2>1, <3>1, <3>2 DEF Places
  <2>4. StartInv' /\ LockInv'
    BY <1>1, <1>3 DEF StartInv, Starting, LockInv, Appending, Locked, Publishing, Filled, Writing
  <2>5. RecordInv'
    BY <1>1, <2>2 DEF RecordInv, Filled
  <2>6. DiskType'
    BY <1>1, <1>3, <2>1, <2>3
  <2>7. DiskInv'
    BY <1>1, <1>3, <2>1 DEF DiskInv
  <2> QED
    BY <2>3, <2>4, <2>5, <2>6, <2>7
<1> QED
  BY <1>1, <1>2, <1>3 DEF PowerLoss

-----------------------------------------------------------------------------
StoreInv == Core /\ DiskType /\ DiskInv /\ (lost \/ SealInv)

\* The beginning: no directory, no files, nobody at work.
LEMMA StoreInit == Init => StoreInv /\ ~lost
<1> SUFFICES ASSUME Init PROVE StoreInv /\ ~lost
  OBVIOUS
<1>1. NoRecord \in Record /\ ~NoRecord.whole
  BY DEF NoRecord, Record
<1>2. StoreType
  BY <1>1 DEF Init, StoreType, Places, Line, Kinds
<1>3. StartInv /\ LockInv /\ RecordInv /\ SealInv
  BY <1>1 DEF Init, StartInv, Starting, LockInv, Appending, RecordInv, SealInv, Locked, Publishing, Filled, Writing
<1>4. DiskType /\ DiskInv /\ ~lost
  BY DEF Init, DiskType, DiskInv
<1> QED
  BY <1>2, <1>3, <1>4 DEF StoreInv, Core

\* Every step keeps the invariant, and only a power loss is one.
LEMMA StoreStep == StoreInv /\ [Next]_vars => StoreInv' /\ (lost' = lost \/ PowerLoss)
<1> SUFFICES ASSUME StoreInv, [Next]_vars PROVE StoreInv' /\ (lost' = lost \/ PowerLoss)
  OBVIOUS
<1>1. ASSUME NEW p \in Procs, Step(p) \/ Crash(p) PROVE StoreInv' /\ lost' = lost
  BY <1>1, ProcessSteps, DiskTypeStep, DiskStep DEF StoreInv
<1>2. CASE PowerLoss
  BY <1>2, PowerLossKeeps DEF StoreInv
<1>3. CASE UNCHANGED vars
  BY <1>3 DEF vars, StoreInv, Core, StoreType, StartInv, Starting, LockInv, Appending, RecordInv, SealInv, LogValid,
              Matches, DiskType, DiskInv
<1> QED
  BY <1>1, <1>2, <1>3 DEF Next

\* As long as the machine stays up, a final record is whole and counts exactly
\* the lines of a valid log, whoever linked it and whoever died meanwhile.
THEOREM FinalSealsTheLog == Spec => []FinalSealsLog
<1>1. StoreInv => FinalSealsLog
  BY DEF StoreInv, SealInv, FinalSealsLog
<1> QED
  BY <1>1, StoreInit, StoreStep, PTL DEF Spec

\* An event whose append has returned is in the log for good, whatever dies,
\* the machine included.
THEOREM AcknowledgedSurvives == Spec => []AckedSurvives
<1>1. StoreInv => AckedSurvives
  BY DEF StoreInv, DiskInv, DiskType, AckedSurvives, Core, StoreType
<1> QED
  BY <1>1, StoreInit, StoreStep, PTL DEF Spec

-----------------------------------------------------------------------------
Events == IF lines = None THEN <<>> ELSE lines
LogVerdict == IF final = None THEN None ELSE [status |-> record[final].status, count |-> record[final].count]

\* Only the end of a write and the two links are visible in the abstract log.
LEMMA StepMaps ==
    ASSUME Core, Core', NEW p \in Procs, Step(p) \/ Crash(p)
    PROVE  Log!Next \/ UNCHANGED <<Events, LogVerdict>>
<1> USE DEF Events, LogVerdict
<1>1. CASE UNCHANGED <<lines, final, record>>
  BY <1>1
<1>2. CASE StartCreate(p)
  <2>1. Starting(p)
    BY <1>2 DEF StartCreate, Starting
  <2>2. lines = None /\ lines' = <<>> /\ UNCHANGED <<final, record>>
    BY <1>2, <2>1 DEF StartCreate, Core, StartInv
  <2> QED
    BY <2>2
<1>3. CASE WriteDone(p)
  <2>1. at[p] = "write_rest" /\ lines' = Append(lines, kind[p]) /\ UNCHANGED <<final, record>>
    BY <1>3 DEF WriteDone
  <2>2. lines' # None
    <3>1. lines \in Seq(Line) /\ kind[p] \in Line
      BY <2>1, LineBegun DEF Core, StoreType
    <3>2. lines' \in Seq(Line)
      BY <2>1, <3>1
    <3> QED
      BY <3>2 DEF Line
  <2>3. CASE Starting(p)
    <3>1. kind[p] = "attempt_started" /\ lines = <<>>
      BY <2>1, <2>3 DEF Starting, Core, StartInv
    <3>2. Events = <<>> /\ Events' = <<"attempt_started">> /\ UNCHANGED LogVerdict
      BY <2>1, <2>2, <3>1
    <3> QED
      BY <3>2 DEF Log!Next, Log!Start
  <2>4. CASE ~Starting(p)
    <3>1. /\ kind[p] \in Kinds /\ final = None /\ lines \notin {None, <<>>}
          /\ lines[Len(lines)] # "attempt_interrupted"
      BY <2>1, <2>4 DEF Core, LockInv, Starting, Appending, Writing
    <3>2. Log!Record(kind[p])
      BY <2>1, <2>2, <3>1 DEF Log!Record
    <3> QED
      BY <3>1, <3>2 DEF Log!Next
  <2> QED
    BY <2>3, <2>4
<1>4. CASE FillTemp(p) \/ \E t \in Temps, status \in Statuses : CreateTemp(p, t, status)
  <2>1. final = None /\ UNCHANGED <<lines, final>>
    BY <1>4 DEF FillTemp, CreateTemp, Core, LockInv, Publishing
  <2> QED
    BY <2>1
<1>5. CASE Link(p) \/ RecoverLink(p)
  <2>1. at[p] \in {"link", "recover_link"} /\ final' = mine[p] /\ UNCHANGED <<lines, record>>
    BY <1>5 DEF Link, RecoverLink
  <2>2. /\ LogValid /\ final = None
        /\ mine[p] \in Temps /\ record[mine[p]].count = Len(lines) /\ record[mine[p]].status \in Statuses
    BY <2>1 DEF Core, LockInv, RecordInv, Publishing, Filled
  <2>3. Log!Seal(record[mine[p]].status)
    BY <2>1, <2>2 DEF Log!Seal, LogValid
  <2> QED
    BY <2>2, <2>3 DEF Log!Next
<1>6. CASE StartMkdir(p) \/ WriteBegun(p) \/ SyncLine(p) \/ SyncAttempt(p) \/ \E k \in Kinds : AppendLocked(p, k)
  BY <1>1, <1>6 DEF StartMkdir, WriteBegun, SyncLine, SyncAttempt, AppendLocked, files
<1>7. CASE \/ FinalizeLocked(p) \/ CallFails(p) \/ SyncTemp(p) \/ SyncLink(p) \/ PublishFails(p) \/ Unlink(p)
           \/ SyncUnlink(p)
  BY <1>1, <1>7 DEF FinalizeLocked, CallFails, SyncTemp, SyncLink, PublishFails, Unlink, SyncUnlink, files
<1>8. CASE \/ VerifyLocked(p) \/ RecoverSync(p) \/ RecoverUnlink(p) \/ Recovered(p) \/ ListPending(p)
           \/ StatPending(p) \/ Crash(p)
  BY <1>1, <1>8 DEF VerifyLocked, RecoverSync, RecoverUnlink, Recovered, ListPending, StatPending, Crash, files
<1> QED
  BY <1>2, <1>3, <1>4, <1>5, <1>6, <1>7, <1>8 DEF Step

\* On a machine that stays up, the store implements the abstract log: lines
\* are only appended, one verdict is given, and nothing follows it.
THEOREM StoreImplementsLog == ~PowerLossPossible => (Spec => ImplementsAttemptLog)
<1> SUFFICES ASSUME ~PowerLossPossible PROVE Spec => ImplementsAttemptLog
  OBVIOUS
<1>1. Init => Log!Init
  BY DEF Init, Log!Init
<1>2. StoreInv /\ StoreInv' /\ [Next]_vars => [Log!Next]_(Log!logVars)
  <2> SUFFICES ASSUME StoreInv, StoreInv', [Next]_vars PROVE Log!Next \/ UNCHANGED <<Events, LogVerdict>>
    BY DEF Log!logVars, Events, LogVerdict
  <2>1. CASE UNCHANGED vars
    BY <2>1 DEF vars, Events, LogVerdict
  <2>2. CASE PowerLoss
    BY <2>2 DEF PowerLoss
  <2>3. ASSUME NEW p \in Procs, Step(p) \/ Crash(p) PROVE Log!Next \/ UNCHANGED <<Events, LogVerdict>>
    BY <2>3, StepMaps DEF StoreInv
  <2> QED
    BY <2>1, <2>2, <2>3 DEF Next
<1> QED
  BY <1>1, <1>2, StoreInit, StoreStep, PTL DEF Spec, ImplementsAttemptLog, Log!Spec

-----------------------------------------------------------------------------
\* As long as nobody goes on beside a leftover temporary, there is at most one,
\* it counts the lines, and whoever writes the log or makes a new one works in
\* a directory without any.
PendingInv ==
    /\ temps # {} => lines \notin {None, <<>>}
    /\ \A t, u \in temps : t = u
    /\ \A t \in temps : record[t].count = Len(lines)
    /\ \A p \in Procs :
          /\ Appending(p) \/ at[p] = "create" => temps = {}
          /\ at[p] \in {"fill"} \cup Filled => temps \subseteq {mine[p]}
    /\ final # None => temps \subseteq {final}

\* Steps of p that add no temporary, write no line and link nothing.
LEMMA PendingFrame ==
    ASSUME Core, PendingInv, NEW p \in Procs, NEW place \in Places,
           at' = [at EXCEPT ![p] = place],
           UNCHANGED <<lines, final>>, temps' \subseteq temps,
           \A t \in temps' : record'[t].count = record[t].count,
           \A q \in Procs \ {p} : mine'[q] = mine[q] /\ kind'[q] = kind[q],
           place \notin Writing \cup {"create"},
           place \in {"fill"} \cup Filled => temps' \subseteq {mine'[p]}
    PROVE  PendingInv'
<1>1. at'[p] = place /\ \A q \in Procs : q # p => at'[q] = at[q]
  BY DEF Core, StoreType
<1>2. /\ temps' # {} => lines' \notin {None, <<>>}
      /\ \A t, u \in temps' : t = u
      /\ \A t \in temps' : record'[t].count = Len(lines')
      /\ final' # None => temps' \subseteq {final'}
  BY DEF PendingInv
<1>3. ASSUME NEW q \in Procs
      PROVE  /\ Appending(q)' \/ at'[q] = "create" => temps' = {}
             /\ at'[q] \in {"fill"} \cup Filled => temps' \subseteq {mine'[q]}
  <2>1. CASE q = p
    BY <1>1, <2>1 DEF Appending
  <2>2. CASE q # p
    <3>1. Appending(q)' \/ at'[q] = "create" => Appending(q) \/ at[q] = "create"
      BY <1>1, <2>2 DEF Appending
    <3> QED
      BY <1>1, <2>2, <3>1 DEF PendingInv
  <2> QED
    BY <2>1, <2>2
<1> QED
  BY <1>2, <1>3 DEF PendingInv

\* The steps that move a process or remove a temporary.
LEMMA PendingMoves ==
    ASSUME Core, PendingInv, NEW p \in Procs,
           \/ SyncLine(p) \/ SyncAttempt(p) \/ FillTemp(p) \/ SyncTemp(p) \/ SyncLink(p) \/ PublishFails(p)
           \/ Unlink(p) \/ SyncUnlink(p) \/ RecoverSync(p) \/ RecoverUnlink(p) \/ Recovered(p)
           \/ ListPending(p) \/ StatPending(p) \/ CallFails(p) \/ Crash(p)
    PROVE  PendingInv'
<1> USE DEF Goto, Return, Places, Filled, Writing
<1> DEFINE Moved(place) ==
             /\ at' = [at EXCEPT ![p] = place]
             /\ UNCHANGED <<lines, final>>
             /\ \A q \in Procs \ {p} : mine'[q] = mine[q] /\ kind'[q] = kind[q]
<1>1. ASSUME NEW place \in Places, Moved(place), temps' \subseteq temps, UNCHANGED record,
             place \notin Writing \cup {"create", "fill"} \cup Filled
      PROVE  PendingInv'
  BY <1>1, PendingFrame
<1>2. CASE SyncLine(p)
  BY <1>1, <1>2 DEF SyncLine, files
<1>3. CASE SyncAttempt(p) \/ Recovered(p) \/ StatPending(p) \/ CallFails(p) \/ Crash(p)
  <2>1. Moved("idle") /\ UNCHANGED <<temps, record>>
    BY <1>3 DEF SyncAttempt, Recovered, StatPending, CallFails, Crash, files, Core, StoreType
  <2> QED
    BY <1>1, <2>1
<1>4. CASE PublishFails(p)
  <2>1. Moved("idle") /\ temps' \subseteq temps /\ UNCHANGED record
    BY <1>4 DEF PublishFails
  <2> QED
    BY <1>1, <2>1
<1>5. CASE SyncLink(p) \/ SyncUnlink(p) \/ RecoverSync(p) \/ ListPending(p)
  <2>1. /\ Moved("unlink") \/ Moved("verify") \/ Moved("recover_unlink") \/ Moved("stat_pending")
        /\ UNCHANGED <<temps, record>>
    BY <1>5 DEF SyncLink, SyncUnlink, RecoverSync, ListPending, files
  <2> QED
    BY <1>1, <2>1
<1>6. CASE Unlink(p) \/ RecoverUnlink(p)
  <2>1. (Moved("sync_unlink") \/ Moved("recovered")) /\ temps' \subseteq temps /\ UNCHANGED record
    BY <1>6 DEF Unlink, RecoverUnlink
  <2> QED
    BY <1>1, <2>1
<1>7. CASE FillTemp(p)
  <2>1. /\ at[p] = "fill" /\ Moved("sync_temp") /\ UNCHANGED <<temps, mine>>
        /\ record' = [record EXCEPT ![mine[p]].whole = TRUE]
    BY <1>7 DEF FillTemp
  <2>2. temps \subseteq {mine[p]} /\ mine[p] \in Temps
    BY <2>1 DEF PendingInv, Core, RecordInv
  <2>3. \A t \in temps' : record'[t].count = record[t].count
    BY <2>1, <2>2 DEF Core, StoreType, Record
  <2> QED
    BY <2>1, <2>2, <2>3, PendingFrame
<1>8. CASE SyncTemp(p)
  <2>1. at[p] = "sync_temp" /\ Moved("link") /\ UNCHANGED <<temps, mine, record>>
    BY <1>8 DEF SyncTemp, files
  <2>2. temps \subseteq {mine[p]}
    BY <2>1 DEF PendingInv
  <2> QED
    BY <2>1, <2>2, PendingFrame
<1> QED
  BY <1>2, <1>3, <1>4, <1>5, <1>6, <1>7, <1>8

\* The steps that write a line, or check that they may: no temporary is there.
LEMMA PendingLines ==
    ASSUME Core, PendingInv, NEW p \in Procs, ~slipped',
           \/ StartMkdir(p) \/ StartCreate(p) \/ WriteBegun(p) \/ WriteDone(p)
           \/ \E k \in Kinds : AppendLocked(p, k)
           \/ FinalizeLocked(p)
    PROVE  PendingInv'
<1>1. ASSUME temps' = {} PROVE PendingInv'
  BY <1>1 DEF PendingInv
<1>2. CASE StartMkdir(p) \/ StartCreate(p)
  <2>1. lines = None
    BY <1>2 DEF StartMkdir, StartCreate, Core, StartInv, Starting
  <2>2. temps = {} /\ temps' = temps
    BY <1>2, <2>1 DEF StartMkdir, StartCreate, PendingInv
  <2> QED
    BY <1>1, <2>2
<1>3. CASE WriteBegun(p) \/ WriteDone(p)
  <2>1. Starting(p) \/ Appending(p)
    BY <1>3 DEF WriteBegun, WriteDone, Starting, Appending, Writing
  <2>2. Starting(p) => lines \in {None, <<>>}
    BY DEF Core, StartInv
  <2>3. temps = {} /\ temps' = temps
    BY <1>3, <2>1, <2>2 DEF WriteBegun, WriteDone, PendingInv
  <2> QED
    BY <1>1, <2>3
<1>4. CASE FinalizeLocked(p) \/ \E k \in Kinds : AppendLocked(p, k)
  BY <1>1, <1>4 DEF FinalizeLocked, AppendLocked, GoOn, files
<1> QED
  BY <1>2, <1>3, <1>4

\* The steps that make a temporary, link one, or decide on what is there.
LEMMA PendingWrites ==
    ASSUME Core, PendingInv, temps \subseteq Temps, NEW p \in Procs,
           \/ \E t \in Temps, status \in Statuses : CreateTemp(p, t, status)
           \/ Link(p) \/ RecoverLink(p) \/ VerifyLocked(p)
    PROVE  PendingInv'
<1> USE DEF Goto, Return, Places, Filled, Writing
<1>1. ASSUME at[p] \in Publishing
      PROVE  /\ LogValid /\ final = None
             /\ \A q \in Procs : ~Appending(q) /\ (q # p => at[q] \notin Locked)
  BY <1>1 DEF Core, LockInv, Appending, Locked, Publishing
<1>2. ASSUME NEW t \in Temps, NEW status \in Statuses, CreateTemp(p, t, status) PROVE PendingInv'
  <2>1. /\ at[p] = "create" /\ at' = [at EXCEPT ![p] = "fill"] /\ temps' = temps \cup {t}
        /\ record' = [record EXCEPT ![t] = [whole |-> FALSE, count |-> Len(lines), status |-> status]]
        /\ mine' = [mine EXCEPT ![p] = t] /\ UNCHANGED <<lines, final, kind>>
    BY <1>2 DEF CreateTemp
  <2>2. temps' = {t} /\ record'[t].count = Len(lines') /\ mine'[p] = t /\ at'[p] = "fill"
    BY <2>1 DEF PendingInv, Core, StoreType
  <2>3. LogValid /\ final = None /\ \A q \in Procs : ~Appending(q) /\ (q # p => at[q] \notin Locked)
    BY <1>1, <2>1 DEF Publishing
  <2>4. \A q \in Procs : q # p => at'[q] = at[q]
    BY <2>1 DEF Core, StoreType
  <2>5. \A q \in Procs : ~Appending(q)' /\ at'[q] # "create" /\ (q # p => at'[q] \notin {"fill"} \cup Filled)
    BY <2>1, <2>2, <2>3, <2>4 DEF Appending, Locked, Publishing
  <2> QED
    BY <2>1, <2>2, <2>3, <2>5 DEF PendingInv, LogValid
<1>3. CASE Link(p) \/ RecoverLink(p)
  <2>1. /\ at[p] \in {"link", "recover_link"} /\ final' = mine[p]
        /\ at' = [at EXCEPT ![p] = "sync_link"] \/ at' = [at EXCEPT ![p] = "recover_sync"]
        /\ UNCHANGED <<lines, temps, record, mine, kind>>
    BY <1>3 DEF Link, RecoverLink
  <2>2. temps \subseteq {mine[p]}
    BY <2>1 DEF PendingInv
  <2>3. \A q \in Procs : /\ Appending(q)' => Appending(q)
                         /\ at'[q] \in {"create", "fill"} \cup Filled => at'[q] = at[q]
    BY <2>1 DEF Core, StoreType, Appending
  <2>4. \A q \in Procs :
           /\ Appending(q)' \/ at'[q] = "create" => temps' = {}
           /\ at'[q] \in {"fill"} \cup Filled => temps' \subseteq {mine'[q]}
    <3> SUFFICES ASSUME NEW q \in Procs
                 PROVE  /\ Appending(q)' \/ at'[q] = "create" => temps' = {}
                        /\ at'[q] \in {"fill"} \cup Filled => temps' \subseteq {mine'[q]}
      OBVIOUS
    <3>1. /\ Appending(q) \/ at[q] = "create" => temps = {}
          /\ at[q] \in {"fill"} \cup Filled => temps \subseteq {mine[q]}
      BY DEF PendingInv
    <3>2. /\ Appending(q)' => Appending(q)
          /\ at'[q] \in {"create", "fill"} \cup Filled => at'[q] = at[q]
      BY <2>3
    <3> QED
      BY <2>1, <3>1, <3>2
  <2> QED
    BY <2>1, <2>2, <2>4 DEF PendingInv
<1>4. CASE VerifyLocked(p)
  <2>1. UNCHANGED <<lines, temps, record, final>>
    BY <1>4 DEF VerifyLocked, files
  <2>2. ASSUME NEW place \in {"idle", "list_pending", "recover_unlink"}, at' = [at EXCEPT ![p] = place],
               \A q \in Procs \ {p} : mine'[q] = mine[q] /\ kind'[q] = kind[q]
        PROVE  PendingInv'
    BY <2>1, <2>2, PendingFrame
  <2>3. CASE Return(p)
    <3>1. \A q \in Procs \ {p} : mine'[q] = mine[q] /\ kind'[q] = kind[q]
      BY <2>3 DEF Core, StoreType
    <3> QED
      BY <2>2, <2>3, <3>1
  <2>4. CASE at' = [at EXCEPT ![p] = "list_pending"] /\ UNCHANGED <<mine, kind>>
    BY <2>2, <2>4
  <2>5. CASE /\ HalfLinked \/ HalfUnlinked
             /\ mine' = [mine EXCEPT ![p] = CHOOSE t \in Temps : temps = {t}]
             /\ at' = [at EXCEPT ![p] = IF HalfLinked THEN "recover_link" ELSE "recover_unlink"]
             /\ UNCHANGED kind
    <3>1. \A q \in Procs \ {p} : mine'[q] = mine[q] /\ kind'[q] = kind[q]
      BY <2>5 DEF Core, StoreType
    <3>2. CASE ~HalfLinked
      BY <2>2, <2>5, <3>1, <3>2
    <3>3. CASE HalfLinked
      <4>1. PICK t \in Temps : temps = {t}
        BY <3>3 DEF HalfLinked
      <4>2. (CHOOSE u \in Temps : temps = {u}) = t
        BY <4>1
      <4>3. mine'[p] = t
        BY <2>5, <4>2 DEF Core, StoreType
      <4> QED
        BY <2>1, <2>5, <3>1, <3>3, <4>1, <4>3, PendingFrame
    <3> QED
      BY <3>2, <3>3
  <2> QED
    BY <1>4, <2>3, <2>4, <2>5 DEF VerifyLocked
<1> QED
  BY <1>2, <1>3, <1>4

\* Deaths at any point and failures of any call, of executors or of inspectors
\* that have taken over a publication, leave something that verify accepts or
\* finishes, with the exceptions that Recoverable names.
THEOREM AttemptsAreRecoverable == Spec => []Recoverable
<1>1. Init => lost \/ slipped \/ PendingInv
  BY DEF Init, PendingInv, Appending, Writing, Filled
<1>2. StoreInv /\ (lost \/ slipped \/ PendingInv) /\ [Next]_vars => (lost \/ slipped \/ PendingInv)'
  <2>1. ASSUME StoreInv, NEW p \in Procs, Step(p) \/ Crash(p), PendingInv, ~slipped' PROVE PendingInv'
    <3>1. Core /\ temps \subseteq Temps
      BY <2>1 DEF StoreInv, DiskType
    <3> QED
      BY <2>1, <3>1, PendingMoves, PendingLines, PendingWrites DEF Step
  <2>2. ASSUME NEW p \in Procs, Step(p) \/ Crash(p), slipped PROVE slipped'
    BY <2>2 DEF Step, Crash, StartMkdir, StartCreate, WriteBegun, WriteDone, SyncLine, SyncAttempt, AppendLocked,
           FinalizeLocked, GoOn, CreateTemp, FillTemp, SyncTemp, Link, SyncLink, PublishFails, Unlink, SyncUnlink,
           VerifyLocked, RecoverLink, RecoverSync, RecoverUnlink, Recovered, ListPending, StatPending, CallFails
  <2>3. ASSUME StoreInv, [Next]_vars, lost PROVE lost'
    BY <2>3, StoreStep, PowerLossKeeps DEF StoreInv
  <2>4. ASSUME UNCHANGED vars, slipped \/ PendingInv PROVE slipped' \/ PendingInv'
    BY <2>4 DEF vars, PendingInv, Appending
  <2>5. ASSUME StoreInv, PowerLoss PROVE lost'
    BY <2>5, PowerLossKeeps DEF StoreInv
  <2> QED
    BY <2>1, <2>2, <2>3, <2>4, <2>5 DEF Next
<1>3. StoreInv /\ (lost \/ slipped \/ PendingInv) => Recoverable
  <2> SUFFICES ASSUME StoreInv, ~lost, PendingInv, ~CutShort PROVE Accepted
    BY DEF Recoverable
  <2>1. LogValid /\ temps \subseteq Temps /\ \A t \in temps : record[t].whole
    BY DEF CutShort, LogValid, StoreInv, DiskType
  <2>2. CASE final # None
    <3>1. temps \subseteq {final} /\ Matches(final)
      BY <2>2 DEF PendingInv, StoreInv, SealInv
    <3> QED
      BY <2>1, <2>2, <3>1 DEF Accepted, Sealed, HalfUnlinked
  <2>3. CASE final = None /\ temps # {}
    <3>1. PICK t \in temps : TRUE
      BY <2>3
    <3>2. temps = {t} /\ t \in Temps /\ record[t].whole /\ record[t].count = Len(lines)
      BY <2>1, <2>3, <3>1 DEF PendingInv
    <3> QED
      BY <2>1, <2>3, <3>2 DEF Accepted, HalfLinked, Matches
  <2> QED
    BY <2>1, <2>2, <2>3 DEF Accepted, Unsealed
<1> QED
  BY <1>1, <1>2, <1>3, StoreInit, StoreStep, PTL DEF Spec
=============================================================================
