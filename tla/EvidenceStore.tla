---------------------------- MODULE EvidenceStore ----------------------------
(***************************************************************************)
(* The evidence store (evidence.py), at the level of the file system calls *)
(* it makes for one attempt: the directory, events.jsonl, final.json and   *)
(* the .final-*.tmp names.  Executors start, append, finalize and verify;  *)
(* inspectors (evidence-status) only verify.  Any of them may die between  *)
(* two calls; with PowerLossPossible the machine may lose whatever was not *)
(* synced.  Attempts do not share files, so one is enough.                 *)
(*                                                                         *)
(* A line, the name of a temporary and its bytes are written in two steps  *)
(* (begun, done), so that a death leaves a torn line or a partial record.  *)
(* The hash chain is abstracted to what it detects: a line that is not     *)
(* whole, and a final record that does not count the lines that are there. *)
(***************************************************************************)
EXTENDS Naturals, Sequences, FiniteSets

CONSTANTS Executors, Inspectors,
          Temps,             \* names a finalization may draw (uuid4)
          Statuses,          \* terminal statuses
          MaxEvents,         \* bound: lines in the log
          PowerLossPossible, \* BOOLEAN
          None

Procs == Executors \cup Inspectors
Kinds == {"event", "attempt_interrupted"}

ASSUME StoreAssumption ==
    /\ MaxEvents \in Nat \ {0}
    /\ PowerLossPossible \in BOOLEAN
    /\ None \notin Procs \cup Temps \cup Statuses
    /\ None \notin Seq(Kinds \cup {"attempt_started"})

VARIABLES dir,    \* the attempt directory exists
          lines,  \* events.jsonl: kinds of its whole lines, None without a file
          torn,   \* events.jsonl ends in the middle of a line
          temps,  \* .final-*.tmp names in the directory
          record, \* the file a temporary name was created for
          final,  \* the file final.json links to, None without one
          disk,   \* what a power loss cannot take away
          lock,   \* holder of flock on events.jsonl
          at,     \* next call of each process
          mine,   \* the temporary each process is working on
          kind,   \* the kind of event each process is appending
          seen,   \* the temporaries each process has listed
          open,   \* executors that hold an Attempt
          wrote,  \* history: the line each process last wrote
          acked,  \* history: lines acknowledged since start returned
          slipped, \* history: an executor went on beside a leftover temporary
          lost    \* history: a power loss has happened

files == <<dir, lines, torn, temps, record, final>>
vars == <<dir, lines, torn, temps, record, final, disk, lock,
          at, mine, kind, seen, open, wrote, acked, slipped, lost>>

NoRecord == [whole |-> FALSE, count |-> 0, status |-> None]

Init ==
    /\ dir = FALSE /\ lines = None /\ torn = FALSE
    /\ temps = {} /\ final = None
    /\ record = [t \in Temps |-> NoRecord]
    /\ disk = [dir |-> FALSE, count |-> 0, temps |-> {}, final |-> None, whole |-> {}]
    /\ lock = None
    /\ at = [p \in Procs |-> "idle"]
    /\ mine = [p \in Procs |-> None]
    /\ kind = [p \in Procs |-> "event"]
    /\ seen = [p \in Procs |-> {}]
    /\ open = {}
    /\ wrote = [p \in Procs |-> 0]
    /\ acked = 0 /\ slipped = FALSE /\ lost = FALSE

Goto(p, step) == at' = [at EXCEPT ![p] = step]

\* A call of the store returns or raises, and its locals are gone.
Return(p) ==
    /\ Goto(p, "idle")
    /\ mine' = [mine EXCEPT ![p] = None]
    /\ kind' = [kind EXCEPT ![p] = "event"]
    /\ seen' = [seen EXCEPT ![p] = {}]
    /\ wrote' = [wrote EXCEPT ![p] = 0]

\* _parse_events and _validate_chain
LogValid == lines \notin {None, <<>>} /\ ~torn

\* _read_valid_final
Matches(t) == record[t].whole /\ record[t].count = Len(lines)

-----------------------------------------------------------------------------
\* start: no lock; the directory is the only guard against a second start.
StartMkdir(p) ==
    /\ p \in Executors /\ at[p] = "idle"
    /\ ~dir
    /\ dir' = TRUE
    /\ Goto(p, "start_create")
    /\ UNCHANGED <<lines, torn, temps, record, final, disk, lock, mine, kind, seen, open, wrote, acked, slipped, lost>>

StartCreate(p) ==
    /\ at[p] = "start_create"
    /\ lines' = <<>>
    /\ kind' = [kind EXCEPT ![p] = "attempt_started"]
    /\ Goto(p, "write")
    /\ UNCHANGED <<dir, torn, temps, record, final, disk, lock, mine, seen, open, wrote, acked, slipped, lost>>

\* _write_all and os.fsync of one line, for start and for append.
WriteBegun(p) ==
    /\ at[p] = "write"
    /\ torn' = TRUE
    /\ Goto(p, "write_rest")
    /\ UNCHANGED <<dir, lines, temps, record, final, disk, lock, mine, kind, seen, open, wrote, acked, slipped, lost>>

WriteDone(p) ==
    /\ at[p] = "write_rest"
    /\ torn' = FALSE
    /\ lines' = Append(lines, kind[p])
    /\ wrote' = [wrote EXCEPT ![p] = Len(lines) + 1]
    /\ Goto(p, "sync_line")
    /\ UNCHANGED <<dir, temps, record, final, disk, lock, mine, kind, seen, open, acked, slipped, lost>>

LeaveLineUnsynced(p) == \* mutant: no fsync of the log
    /\ at[p] = "sync_line"
    /\ lock' = IF lock = p THEN None ELSE lock
    /\ Goto(p, "sync_attempt")
    /\ UNCHANGED <<files, disk, mine, kind, seen, open, wrote, acked, slipped, lost>>

SyncLine(p) ==
    /\ at[p] = "sync_line"
    /\ disk' = [disk EXCEPT !.count = Len(lines)]
    /\ lock' = IF lock = p THEN None ELSE lock
    /\ Goto(p, "sync_attempt")
    /\ UNCHANGED <<files, mine, kind, seen, open, wrote, acked, slipped, lost>>

\* _sync_dir of the attempt, and for start of the directory above it; the
\* caller now holds an Attempt, and is told that the event is recorded.
SyncAttempt(p) ==
    /\ at[p] = "sync_attempt"
    /\ LET starting == kind[p] = "attempt_started"
       IN /\ disk' = [disk EXCEPT !.dir = @ \/ starting, !.temps = temps, !.final = final]
          /\ acked' = IF (starting \/ acked > 0) /\ wrote[p] > acked THEN wrote[p] ELSE acked
    /\ open' = open \cup {p}
    /\ Return(p)
    /\ UNCHANGED <<files, lock, slipped, lost>>

\* _append: everything it checks, it checks under the lock.
AppendableAfterFinal == \* mutant: final.json is not looked for
    LogValid /\ lines[Len(lines)] # "attempt_interrupted"
AppendableAfterInterrupt == final = None /\ LogValid \* mutant: of the last event

Appendable ==
    /\ final = None
    /\ LogValid
    /\ lines[Len(lines)] # "attempt_interrupted"

\* With the lock free, a temporary that is there has been left behind.
GoOn == slipped' = (slipped \/ temps # {})

AppendUnlocked(p, k) == \* mutant: no flock for the append
    /\ at[p] = "idle" /\ p \in open
    /\ lock = None
    /\ Appendable
    /\ Len(lines) < MaxEvents
    /\ GoOn
    /\ kind' = [kind EXCEPT ![p] = k]
    /\ Goto(p, "write")
    /\ UNCHANGED <<files, disk, lock, mine, seen, open, wrote, acked, lost>>

AppendLocked(p, k) ==
    /\ at[p] = "idle" /\ p \in open
    /\ lock = None
    /\ Appendable
    /\ Len(lines) < MaxEvents
    /\ lock' = p
    /\ GoOn
    /\ kind' = [kind EXCEPT ![p] = k]
    /\ Goto(p, "write")
    /\ UNCHANGED <<files, disk, mine, seen, open, wrote, acked, lost>>

-----------------------------------------------------------------------------
\* finalize: temporary, sync, link, sync, unlink, and a verification.
FinalizeLocked(p) ==
    /\ at[p] = "idle" /\ p \in open
    /\ lock = None
    /\ final = None
    /\ LogValid
    /\ lock' = p
    /\ GoOn
    /\ Goto(p, "create")
    /\ UNCHANGED <<files, disk, mine, kind, seen, open, wrote, acked, lost>>

CreateTemp(p, t, status) ==
    /\ at[p] = "create"
    /\ record[t] = NoRecord
    /\ temps' = temps \cup {t}
    /\ record' = [record EXCEPT ![t] =
                     [whole |-> FALSE, count |-> Len(lines), status |-> status]]
    /\ mine' = [mine EXCEPT ![p] = t]
    /\ Goto(p, "fill")
    /\ UNCHANGED <<dir, lines, torn, final, disk, lock, kind, seen, open, wrote, acked, slipped, lost>>

FillTemp(p) ==
    /\ at[p] = "fill"
    /\ record' = [record EXCEPT ![mine[p]].whole = TRUE]
    /\ Goto(p, "sync_temp")
    /\ UNCHANGED <<dir, lines, torn, temps, final, disk, lock, mine, kind, seen, open, wrote, acked, slipped, lost>>

SyncTemp(p) ==
    /\ at[p] = "sync_temp"
    /\ disk' = [disk EXCEPT !.whole = @ \cup {mine[p]}]
    /\ Goto(p, "link")
    /\ UNCHANGED <<files, lock, mine, kind, seen, open, wrote, acked, slipped, lost>>

Link(p) ==
    /\ at[p] = "link"
    /\ final' = mine[p]
    /\ Goto(p, "sync_link")
    /\ UNCHANGED <<dir, lines, torn, temps, record, disk, lock, mine, kind, seen, open, wrote, acked, slipped, lost>>

SyncLink(p) ==
    /\ at[p] = "sync_link"
    /\ disk' = [disk EXCEPT !.temps = temps, !.final = final]
    /\ Goto(p, "unlink")
    /\ UNCHANGED <<files, lock, mine, kind, seen, open, wrote, acked, slipped, lost>>

\* os.link or the sync after it fails: the temporary is removed, the error is
\* raised, and final.json stays if the link was made.
PublishFails(p) ==
    /\ at[p] \in {"link", "sync_link"}
    /\ temps' = temps \ {mine[p]}
    /\ lock' = None
    /\ Return(p)
    /\ UNCHANGED <<dir, lines, torn, record, final, disk, open, acked, slipped, lost>>

Unlink(p) ==
    /\ at[p] = "unlink"
    /\ temps' = temps \ {mine[p]}
    /\ lock' = None
    /\ Goto(p, "sync_unlink")
    /\ UNCHANGED <<dir, lines, torn, record, final, disk, mine, kind, seen, open, wrote, acked, slipped, lost>>

SyncUnlink(p) ==
    /\ at[p] = "sync_unlink"
    /\ disk' = [disk EXCEPT !.temps = temps, !.final = final]
    /\ Goto(p, "verify")
    /\ UNCHANGED <<files, lock, mine, kind, seen, open, wrote, acked, slipped, lost>>

-----------------------------------------------------------------------------
\* verify: log and final record are read, and a pending finalization is
\* finished, under the lock.  finalize ends with one; verify_all, resume and
\* inspect_all run one for an attempt they see in the directory.
MayVerify(p) == at[p] = "verify" \/ (at[p] = "idle" /\ dir)

\* final.json and the temporaries say what they may say.
Sealed == final # None /\ Matches(final) /\ temps = {}
HalfUnlinked == final # None /\ Matches(final) /\ temps = {final}
HalfLinked == final = None /\ \E t \in Temps : temps = {t} /\ Matches(t)
Unsealed == final = None /\ temps = {}
Accepted == LogValid /\ (Sealed \/ HalfUnlinked \/ HalfLinked \/ Unsealed)

\* _final_if_present, or an EvidenceIntegrityError on the way to it
VerifyLocked(p) ==
    /\ MayVerify(p)
    /\ lock = None
    /\ UNCHANGED <<files, disk, open, acked, slipped, lost>>
    /\ \/ /\ ~Accepted \/ Sealed
          /\ Return(p)
          /\ UNCHANGED lock
       \/ /\ LogValid /\ Unsealed
          /\ Goto(p, "list_pending")
          /\ UNCHANGED <<lock, mine, kind, seen, wrote>>
       \/ /\ LogValid /\ (HalfLinked \/ HalfUnlinked)
          /\ lock' = p
          /\ mine' = [mine EXCEPT ![p] = CHOOSE t \in Temps : temps = {t}]
          /\ Goto(p, IF HalfLinked THEN "recover_link" ELSE "recover_unlink")
          /\ UNCHANGED <<kind, seen, wrote>>

RecoverLink(p) ==
    /\ at[p] = "recover_link"
    /\ final' = mine[p]
    /\ Goto(p, "recover_sync")
    /\ UNCHANGED <<dir, lines, torn, temps, record, disk, lock, mine, kind, seen, open, wrote, acked, slipped, lost>>

RecoverSync(p) ==
    /\ at[p] = "recover_sync"
    /\ disk' = [disk EXCEPT !.temps = temps, !.final = final]
    /\ Goto(p, "recover_unlink")
    /\ UNCHANGED <<files, lock, mine, kind, seen, open, wrote, acked, slipped, lost>>

RecoverUnlink(p) ==
    /\ at[p] = "recover_unlink"
    /\ temps' = temps \ {mine[p]}
    /\ Goto(p, "recovered")
    /\ UNCHANGED <<dir, lines, torn, record, final, disk, lock, mine, kind, seen, open, wrote, acked, slipped, lost>>

Recovered(p) ==
    /\ at[p] = "recovered"
    /\ disk' = [disk EXCEPT !.temps = temps, !.final = final]
    /\ lock' = None
    /\ Return(p)
    /\ UNCHANGED <<files, open, acked, slipped, lost>>

\* verify adds pending_finalization after the lock is gone: the directory is
\* listed, then every listed temporary is looked at.
ListPending(p) ==
    /\ at[p] = "list_pending"
    /\ seen' = [seen EXCEPT ![p] = temps]
    /\ Goto(p, "stat_pending")
    /\ UNCHANGED <<files, disk, lock, mine, kind, open, wrote, acked, slipped, lost>>

\* An executor that is told "incomplete" may go on with the attempt.
MayResume(p) == p \in Executors

StatPending(p) ==
    /\ at[p] = "stat_pending"
    /\ open' = IF seen[p] \subseteq temps /\ MayResume(p) THEN open \cup {p} ELSE open
    /\ Return(p)
    /\ UNCHANGED <<files, disk, lock, acked, slipped, lost>>

-----------------------------------------------------------------------------
\* A call raises (a full disk, an error of fsync) and the process lives on.
\* What the call was to do is not done, what was done before it stays: a torn
\* line, a line that is not synced, a temporary that is cut short or, when
\* os.fsync of it or its publication fails, whole.  At link and sync_link
\* this is the unlink of the error path that fails as well.
Fallible ==
    {"start_create", "write_rest", "sync_line", "sync_attempt", "create", "fill", "sync_temp", "link", "sync_link",
     "unlink", "sync_unlink", "recover_link", "recover_sync", "recover_unlink", "recovered"}

CallFails(p) ==
    /\ at[p] \in Fallible
    /\ lock' = IF lock = p THEN None ELSE lock
    /\ Return(p)
    /\ UNCHANGED <<files, disk, open, acked, slipped, lost>>

\* A process dies between two calls; the system drops its flock.
Crash(p) ==
    /\ at[p] # "idle" \/ p \in open
    /\ Return(p)
    /\ lock' = IF lock = p THEN None ELSE lock
    /\ open' = open \ {p}
    /\ UNCHANGED <<files, disk, acked, slipped, lost>>

\* The machine dies.  Of what was not synced, any part may be gone: the end
\* of the log, names made or removed, the bytes of a temporary.
PowerLoss ==
    /\ PowerLossPossible
    /\ dir
    /\ \/ /\ ~disk.dir
          /\ dir' = FALSE /\ lines' = None /\ torn' = FALSE
          /\ temps' = {} /\ final' = None
          /\ UNCHANGED record
       \/ /\ lines # None
          /\ \E n \in disk.count..Len(lines) :
                /\ lines' = SubSeq(lines, 1, n)
                /\ torn' \in (IF torn \/ n < Len(lines) THEN BOOLEAN ELSE {FALSE})
          /\ temps' \in {T \in SUBSET (temps \cup disk.temps) : temps \cap disk.temps \subseteq T}
          /\ final' \in {final, disk.final}
          /\ \E cut \in SUBSET (Temps \ disk.whole) :
                record' = [t \in Temps |-> IF t \in cut THEN [record[t] EXCEPT !.whole = FALSE]
                                                       ELSE record[t]]
          /\ UNCHANGED dir
    /\ disk' = [dir |-> dir', count |-> IF lines' = None THEN 0 ELSE Len(lines'),
                temps |-> temps', final |-> final', whole |-> {t \in Temps : record'[t].whole}]
    /\ lock' = None
    /\ at' = [p \in Procs |-> "idle"]
    /\ mine' = [p \in Procs |-> None]
    /\ kind' = [p \in Procs |-> "event"]
    /\ seen' = [p \in Procs |-> {}]
    /\ open' = {}
    /\ wrote' = [p \in Procs |-> 0]
    /\ lost' = TRUE
    /\ UNCHANGED <<acked, slipped>>

Step(p) ==
    \/ StartMkdir(p) \/ StartCreate(p)
    \/ WriteBegun(p) \/ WriteDone(p) \/ SyncLine(p) \/ SyncAttempt(p)
    \/ \E k \in Kinds : AppendLocked(p, k)
    \/ FinalizeLocked(p)
    \/ \E t \in Temps, status \in Statuses : CreateTemp(p, t, status)
    \/ FillTemp(p) \/ SyncTemp(p)
    \/ Link(p) \/ SyncLink(p) \/ PublishFails(p) \/ Unlink(p) \/ SyncUnlink(p)
    \/ VerifyLocked(p)
    \/ RecoverLink(p) \/ RecoverSync(p) \/ RecoverUnlink(p) \/ Recovered(p)
    \/ ListPending(p) \/ StatPending(p)
    \/ CallFails(p)

Next == (\E p \in Procs : Step(p) \/ Crash(p)) \/ PowerLoss

Spec == Init /\ [][Next]_vars

-----------------------------------------------------------------------------
\* While the machine stays up, a published final record is whole and counts
\* exactly the lines of the log, whoever publishes it (finalize, or a verify
\* that finishes the publication of a process that died), whatever other
\* executors append meanwhile, and for as long as the attempt exists.
FinalSealsLog == ~lost /\ final # None => LogValid /\ Matches(final)

\* Whatever processes die and whatever calls fail, with any number of
\* executors and inspectors, verify accepts what they leave, or finishes it:
\* verify_all does not wedge a resume.  These are all the dead ends:
\*   - a start that ended between mkdir and the last byte of the first line;
\*   - a line, or the temporary of a final record, that was cut short;
\*   - an executor that appended or finalized again although a finalization
\*     had left its temporary (run_exam does after a failing os.fsync of it,
\*     and so may a second executor after the death of the first);
\*   - a power loss (a final record may count a line that was never synced).
Quiet == \A p \in Procs : at[p] = "idle"
CutShort == lines \in {None, <<>>} \/ torn \/ \E t \in temps : ~record[t].whole
Recoverable == ~lost /\ ~slipped /\ Quiet /\ dir => CutShort \/ Accepted

\* Once start has returned, no power loss takes back an event whose append
\* has returned, or the attempt itself (os.fsync and both _sync_dir calls).
AckedSurvives == acked > 0 => lines # None /\ Len(lines) >= acked

\* The store implements the abstract log: events are only appended, one
\* verdict is given, it seals the log, and nothing follows it.
Log == INSTANCE AttemptLog WITH
    events <- IF lines = None THEN <<>> ELSE lines,
    verdict <- IF final = None THEN None
               ELSE [status |-> record[final].status, count |-> record[final].count]
ImplementsAttemptLog == Log!Spec
=============================================================================
