--------------------------- MODULE AdmissionCommand ---------------------------
(***************************************************************************)
(* invoke_admission of admission_command.py: one verified command is run   *)
(* from a private snapshot of its declared files, with bounded output and  *)
(* a deadline.  The caller, the two capture threads, the thread that       *)
(* writes the request, the child, one descendant of it and whoever changes *)
(* the declared files run concurrently.                                    *)
(*                                                                         *)
(* Output is counted in chunks.  A join or a wait that gives up after its  *)
(* five seconds may do so at any time.                                     *)
(***************************************************************************)
EXTENDS NoValue, FiniteSets

CONSTANTS
    Files,     \* declared_files
    Limit,     \* stdout_max_bytes and stderr_max_bytes, in chunks
    Timeout,   \* timeout_seconds, in ticks
    MaxChunks, \* bound: chunks the processes write, per stream
    MaxTime,   \* bound: ticks
    Descendants \* bound: descendants, in the group or not and holding the pipes or not

ASSUME CommandAssumption ==
    /\ Limit \in Nat \ {0} /\ Timeout \in 1..MaxTime /\ MaxTime \in Nat
    /\ MaxChunks \in [{"out", "err"} -> Nat] /\ IsFiniteSet(Files)
    /\ Descendants \subseteq BOOLEAN \X BOOLEAN

ASSUME NothingAssumption ==
    /\ None \notin {0, 1, 9}
    /\ None \notin {"declared", "other", "output_overflow", "timeout", "cleanup_failed"}

Streams == {"out", "err"}
Procs == {"child", "helper"}

VARIABLES
    disk,     \* what a declared path holds: "declared" bytes, or "other" or none
    payload,  \* bytes read and verified, per file
    snapshot, \* bytes in the private directory, per file
    proc,     \* processes: state, in the child's group or not, holder of the pipes, killed
    asked,    \* the child has read its standard input
    code,     \* exit status of the child
    pipe, written, \* chunks in a pipe, and ever written to it
    capture,  \* the two _Capture objects with their threads
    writer,   \* the thread of _write_stdin
    overflow, \* the event
    now,      \* time since the deadline was set
    pc, returned, terminal, result \* the caller, return_code, terminal_status

files == <<disk, payload, snapshot>>
processes == <<proc, asked, code, pipe, written>>
threads == <<capture, writer, overflow>>
caller == <<pc, returned, terminal, result>>
commandVars == <<files, processes, threads, now, caller>>

Absent == [state |-> "none", grouped |-> FALSE, holds |-> FALSE, killed |-> FALSE]
Idle == [at |-> "idle", count |-> 0, kept |-> 0, failed |-> FALSE]
NoFiles == [f \in Files |-> None]

CommandInit ==
    /\ disk = [f \in Files |-> "declared"] /\ payload = NoFiles /\ snapshot = NoFiles
    /\ proc = [p \in Procs |-> Absent] /\ asked = FALSE /\ code = None
    /\ pipe = [s \in Streams |-> 0] /\ written = pipe
    /\ capture = [s \in Streams |-> Idle] /\ writer = "idle" /\ overflow = FALSE
    /\ now = 0
    /\ pc = "idle" /\ returned = None /\ terminal = None /\ result = None

Alive(p) == proc[p].state = "alive"
Active(p) == Alive(p) /\ ~proc[p].killed
Watched == pc \notin {"done", "raised"} \* bound: what processes say after the return is of no concern
Held == \E p \in Procs : Alive(p) /\ proc[p].holds

Report(status) ==
    [status |-> status, stdout |-> IF status = "success" THEN capture["out"].kept ELSE None,
     count |-> [s \in Streams |-> capture[s].count]]

-----------------------------------------------------------------------------
\* Others may replace or remove a declared file at any time until the child runs.
Change(f) ==
    /\ disk[f] = "declared" /\ pc \in {"idle", "shape", "load", "snapshot"}
    /\ disk' = [disk EXCEPT ![f] = "other"]
    /\ UNCHANGED <<payload, snapshot, processes, threads, now, caller>>

Return(status) == pc' = "done" /\ result' = Report(status) /\ UNCHANGED <<returned, terminal>>
Goto(label) == pc' = label /\ UNCHANGED <<returned, terminal, result>>

\* What does not read bytes, lstat of every file included, which sees that one
\* is missing and not that it has changed.
ValidateShape ==
    /\ pc = "shape"
    /\ \/ Goto("load")
       \/ (\E f \in Files : disk[f] # "declared") /\ Return("identity_mismatch")
    /\ UNCHANGED <<files, processes, threads, now>>

ReadVerified(f) ==
    /\ pc = "load" /\ payload[f] = None
    /\ IF disk[f] = "declared"
       THEN payload' = [payload EXCEPT ![f] = disk[f]] /\ UNCHANGED caller
       ELSE Return("identity_mismatch") /\ UNCHANGED payload
    /\ UNCHANGED <<disk, snapshot, processes, threads, now>>

\* The request must be JSON within stdin_max_bytes, and every variable must be set.
CheckRequest ==
    /\ pc = "load" /\ None \notin {payload[f] : f \in Files}
    /\ \/ Goto("snapshot")
       \/ \E status \in {"invalid_request", "environment_missing"} : Return(status)
    /\ UNCHANGED <<files, processes, threads, now>>

SnapshotFromDisk == snapshot' = disk \* mutant: the files are opened again
TakeSnapshot == snapshot' = payload

Snapshot ==
    /\ pc = "snapshot"
    /\ \/ TakeSnapshot /\ Goto("spawn")
       \/ Return("execution_error") /\ UNCHANGED snapshot
    /\ UNCHANGED <<disk, payload, processes, threads, now>>

Spawn ==
    /\ pc = "spawn"
    /\ \/ /\ proc' = [proc EXCEPT !["child"] = [state |-> "alive", grouped |-> TRUE, holds |-> TRUE, killed |-> FALSE]]
          /\ capture' = [s \in Streams |-> [Idle EXCEPT !.at = "read"]] /\ writer' = "writing"
          /\ Goto("poll")
       \/ Return("spawn_error") /\ UNCHANGED <<proc, capture, writer>>
    /\ UNCHANGED <<files, asked, code, pipe, written, overflow, now>>

-----------------------------------------------------------------------------
\* The child and its descendant do what they like until they are killed.
Emit(p, s) ==
    /\ Watched /\ Active(p) /\ proc[p].holds /\ written[s] < MaxChunks[s]
    /\ written' = [written EXCEPT ![s] = @ + 1] /\ pipe' = [pipe EXCEPT ![s] = @ + 1]
    /\ UNCHANGED <<files, proc, asked, code, threads, now, caller>>

Fork(grouped, holds) ==
    /\ Watched /\ Active("child") /\ proc["helper"] = Absent
    /\ proc' = [proc EXCEPT !["helper"] = [state |-> "alive", grouped |-> grouped, holds |-> holds, killed |-> FALSE]]
    /\ UNCHANGED <<files, asked, code, pipe, written, threads, now, caller>>

ReadInput ==
    /\ Watched /\ Active("child") /\ ~asked /\ asked' = TRUE
    /\ UNCHANGED <<files, proc, code, pipe, written, threads, now, caller>>

Exit(p) ==
    /\ Alive(p)
    /\ proc' = [proc EXCEPT ![p].state = "gone"]
    /\ code' \in IF p # "child" THEN {code} ELSE IF proc[p].killed THEN {9} ELSE {0, 1}
    /\ UNCHANGED <<files, asked, pipe, written, threads, now, caller>>

-----------------------------------------------------------------------------
\* _Capture.read: the count, the digest and the buffer follow one os.read.
ReadChunk(s) ==
    /\ capture[s].at = "read" /\ pipe[s] > 0
    /\ \E n \in 1..pipe[s] :
          LET count == capture[s].count + n IN
          /\ pipe' = [pipe EXCEPT ![s] = @ - n]
          /\ capture' = [capture EXCEPT ![s].count = count, ![s].kept = IF count <= Limit THEN @ + n ELSE 0]
          /\ overflow' = (overflow \/ count > Limit)
    /\ UNCHANGED <<files, proc, asked, code, written, writer, now, caller>>

EndOfFile(s) ==
    /\ capture[s].at = "read" /\ pipe[s] = 0 /\ ~Held
    /\ capture' = [capture EXCEPT ![s].at = "ended"]
    /\ UNCHANGED <<files, processes, writer, overflow, now, caller>>

ReadFails(s) ==
    /\ capture[s].at = "read"
    /\ capture' = [capture EXCEPT ![s].at = "ended", ![s].failed = TRUE] /\ overflow' = TRUE
    /\ UNCHANGED <<files, processes, writer, now, caller>>

\* The write ends when the child has read the request, or nobody can any more.
WriteStdin ==
    /\ writer = "writing" /\ (asked \/ ~Held)
    /\ writer' = "ended"
    /\ UNCHANGED <<files, processes, capture, overflow, now, caller>>

Tick ==
    /\ \/ pc = "poll" /\ now < Timeout
       \/ pc = "join" /\ now < MaxTime
    /\ now' = now + 1
    /\ UNCHANGED <<files, processes, threads, caller>>

-----------------------------------------------------------------------------
Stop(status) == terminal' = status /\ pc' = "kill" /\ UNCHANGED <<returned, result>>

\* An iteration of the loop.  The event or the deadline may come between their
\* tests and the end of the wait, so that a child that has gone may win.
Poll ==
    /\ pc = "poll"
    /\ \/ overflow /\ Stop("output_overflow")
       \/ ~overflow /\ now >= Timeout /\ Stop("timeout")
       \/ /\ proc["child"].state = "gone"
          /\ returned' = code /\ pc' = "kill" /\ UNCHANGED <<terminal, result>>
    /\ UNCHANGED <<files, processes, threads, now>>

\* killpg reaches whoever is in the group, also when its leader has gone.
KillGroup == proc' = [p \in Procs |-> [proc[p] EXCEPT !.killed = @ \/ (Alive(p) /\ proc[p].grouped)]]
KillUnlessExited == IF returned = None THEN KillGroup ELSE UNCHANGED proc \* mutant: no kill after a normal exit
KillProcessGroup == KillGroup

Kill ==
    /\ pc = "kill"
    /\ KillProcessGroup /\ Goto("reap")
    /\ UNCHANGED <<files, asked, code, pipe, written, threads, now>>

\* process.wait(timeout=5), only when the loop has not reaped the child.
Reap ==
    /\ pc = "reap" /\ pc' = "join"
    /\ IF returned # None THEN UNCHANGED <<returned, terminal>>
       ELSE \/ proc["child"].state = "gone" /\ returned' = code /\ UNCHANGED terminal
            \/ proc["child"].state # "gone" /\ terminal' = "cleanup_failed" /\ UNCHANGED returned
    /\ UNCHANGED <<files, processes, threads, now, result>>

ThreadsEnded == writer = "ended" /\ \A s \in Streams : capture[s].at = "ended"
JoinForever == ThreadsEnded \* mutant: join without a timeout
JoinReturns == TRUE

Failed == \E s \in Streams : capture[s].failed
VerdictUnjoined == IF Failed THEN "cleanup_failed" ELSE IF overflow THEN "output_overflow" ELSE terminal \* mutant: threads that still read are ignored
Verdict ==
    IF ~ThreadsEnded \/ Failed THEN "cleanup_failed"
    ELSE IF overflow THEN "output_overflow" ELSE terminal

JoinAndJudge ==
    /\ pc = "join" /\ JoinReturns
    /\ terminal' = Verdict /\ pc' = "cleanup"
    /\ result' = Report(IF Verdict # None THEN Verdict ELSE IF returned # 0 THEN "nonzero_exit" ELSE "success")
    /\ UNCHANGED <<files, processes, threads, now, returned>>

\* The temporary directory is removed; a process that still writes there, or
\* the file system, may make that fail.
Cleanup ==
    /\ pc = "cleanup"
    /\ \/ Goto("done") /\ UNCHANGED proc
       \/ KillGroup /\ Return("execution_error")
    /\ UNCHANGED <<files, asked, code, pipe, written, threads, now>>

\* Any other exception: the group is killed, and the exception goes on.
Interrupt ==
    /\ pc \in {"poll", "kill", "reap", "join"}
    /\ KillGroup /\ Goto("raised")
    /\ UNCHANGED <<files, asked, code, pipe, written, threads, now>>

CommandThreads == WriteStdin \/ \E s \in Streams : ReadChunk(s) \/ EndOfFile(s)
CommandMain ==
    \/ ValidateShape \/ CheckRequest \/ Snapshot \/ Spawn
    \/ (\E f \in Files : ReadVerified(f))
    \/ Poll \/ Kill \/ Reap \/ JoinAndJudge \/ Cleanup
CommandOthers ==
    \/ \E f \in Files : Change(f)
    \/ \E p \in Procs, s \in Streams : Emit(p, s)
    \/ \E d \in Descendants : Fork(d[1], d[2])
    \/ ReadInput \/ Interrupt
    \/ \E p \in Procs : Exit(p)
    \/ \E s \in Streams : ReadFails(s)

CommandNext == CommandMain \/ CommandThreads \/ CommandOthers \/ Tick

-----------------------------------------------------------------------------
\* What the caller is told of a stream is all of it, whenever the threads were joined in time; a success carries the whole
\* standard output, within its limit, of a child that exited with 0.
ReportIsExact ==
    (pc \in {"cleanup", "done"} /\ result # None /\ result.status \in {"success", "nonzero_exit", "timeout", "output_overflow"}) =>
        /\ result.count = written
        /\ result.status = "success" =>
              /\ result.stdout = written["out"] /\ code = 0
              /\ \A s \in Streams : written[s] <= Limit

\* Whoever gets an answer, or the exception, leaves nobody of the child's group
\* running: not a grandchild of a child that has exited either.
NoSurvivors == pc \in {"done", "raised"} => \A p \in Procs : ~(Active(p) /\ proc[p].grouped)
=============================================================================
