------------------------------ MODULE NativeTrial ------------------------------
(***************************************************************************)
(* One trial of a native adapter: run_kimi, run_cursor, run_claude,        *)
(* run_codex or run_agy, with the client it supervises, processes the      *)
(* client leaves behind, the bridge that serves reference lookups, and     *)
(* AGY's permission hook.                                                  *)
(*                                                                         *)
(* The client is external.  It may ask for any tool, in parallel, change   *)
(* its session or model, repeat requests, be replaced on disk, print lines *)
(* of any shape, hang, fork and die; what it does it also reports before   *)
(* it exits with 0, since no adapter can know what a client conceals.      *)
(***************************************************************************)
EXTENDS CliStreams

CONSTANTS
    MaxCalls,  \* bound: tools asked for in one trial
    MaxMishaps \* bound: changes of session, model or version, repeated requests and new bridges in one trial

ASSUME TrialAssumption == MaxCalls \in Nat \ {0} /\ MaxMishaps \in Nat

VARIABLES
    trial,     \* [adapter, tools, max]: the checked configuration and the condition's allowlist
    pc,        \* preflight, probe, spawn, wait, drain, judge, closing, done (http: see HttpTrial)
    expired,   \* time.monotonic() >= deadline
    mishaps,   \* of MaxMishaps, how many were used
    installed, \* version of the client on disk
    seen,      \* version preflight and the adapter's own probe found
    cli,       \* the client: state, exit code, version, session and model, and what it has used
    due,       \* sessions and models used and not yet reported
    holders,   \* processes alive that hold an output pipe: client, child of its group, daemon
    calls,     \* tools asked for: [id, tool, stage, told]
    bridge,    \* Bridge: count, busy call; lookups upstream; AGY's calls and error
    hooks,     \* AGY's receipts
    stream,    \* the parser's state after the lines printed so far
    result     \* what run_exam is given: [kind, session, tools, version]

world == <<mishaps, installed, cli, due, holders>>
nativeVars == <<trial, pc, expired, mishaps, installed, seen, cli, due, holders, calls, bridge, hooks, stream, result>>

Pending == [kind |-> "none", session |-> 0, tools |-> 0, version |-> 0]
Raised == [Pending EXCEPT !.kind = "raised"]    \* one of the errors run_exam turns into a failed trial
Escaped == [Pending EXCEPT !.kind = "escaped"]  \* an exception run_exam does not catch
Accepted == {"answered", "candidate"}

Bounded == trial.adapter = "codex"  \* reads with a selector, the others with communicate()
Gated == trial.adapter = "agy"      \* a hook before each tool, a server in the adapter's process

NativeInit ==
    /\ pc = "preflight" /\ expired = FALSE /\ mishaps = 0 /\ installed = 1 /\ seen = [preflight |-> 0, probe |-> 0]
    /\ cli = [state |-> "unborn", code |-> 0, version |-> 0, session |-> 1, model |-> Model,
              sessions |-> {1}, models |-> {Model}, repeated |-> FALSE]
    /\ due = {} /\ holders = {} /\ calls = <<>> /\ hooks = <<>>
    /\ bridge = [count |-> 0, busy |-> 0, upstream |-> 0, served |-> <<>>, error |-> FALSE]
    /\ stream = NoLines /\ result = Pending

(***************************************************************************)
(* Before the client: what run_exam's preflight finds is compared with     *)
(* what the adapter itself probes.  A failure of either raises, and        *)
(* nothing catches the time limit of AGY's --help.                         *)
(***************************************************************************)
Preflight ==
    /\ pc = "preflight"
    /\ \/ pc' = "probe" /\ seen' = [seen EXCEPT !.preflight = installed] /\ UNCHANGED result
       \/ pc' = "done" /\ result' \in {Raised} \union (IF Gated THEN {Escaped} ELSE {}) /\ UNCHANGED seen
    /\ UNCHANGED <<trial, expired, world, calls, bridge, hooks, stream>>

Probe ==
    /\ pc = "probe" /\ trial.adapter \in Streaming
    /\ pc' = "spawn" /\ seen' = [seen EXCEPT !.probe = installed]
    /\ UNCHANGED <<trial, expired, world, calls, bridge, hooks, stream, result>>

\* the adapter leaves its temporary directory with a verdict or an error
Conclude(verdict) ==
    /\ pc' = (IF Gated THEN "closing" ELSE "done") /\ result' = verdict
    /\ stream' = NoLines /\ due' = {} /\ hooks' = <<>>
    /\ UNCHANGED <<trial, expired, mishaps, installed, seen, cli, holders, calls, bridge>>

\* AGY's deadline starts before its home is provisioned; its own probe and git init may fail in
\* a way nothing catches
Spawn ==
    /\ pc = "spawn"
    /\ \/ /\ ~(Gated /\ expired)
          /\ pc' = "wait" /\ holders' = {"client"}
          /\ cli' = [cli EXCEPT !.state = "running", !.version = installed]
          /\ due' = IF trial.adapter = "kimi" THEN {1} ELSE {}
          /\ UNCHANGED <<trial, expired, mishaps, installed, seen, calls, bridge, hooks, stream, result>>
       \/ Conclude(Raised)
       \/ Gated /\ Conclude(Escaped)

(***************************************************************************)
(* The client and its surroundings (external).                             *)
(***************************************************************************)
Running == pc = "wait" /\ cli.state = "running"

Line(kind) == [kind |-> kind, id |-> 0, tool |-> "none", session |-> cli.session, model |-> cli.model,
               version |-> cli.version, answer |-> "none"]
CallLine(kind, c) == [Line(kind) EXCEPT !.id = calls[c].id, !.tool = calls[c].tool]

Reports(l) ==
    CASE trial.adapter = "kimi" -> IF l.kind = "hint" THEN {l.session} ELSE {l.model}
      [] trial.adapter = "codex" -> IF l.kind = "open" THEN {l.session} ELSE {}
      [] trial.adapter = "agy" -> IF l.kind = "open" THEN {} ELSE {l.session}
      [] trial.adapter = "claude" /\ l.kind \in {"open", "text", "call"} -> {l.session, l.model}
      [] OTHER -> {l.session}

Prints(l) ==
    /\ Running /\ stream.fault = "none"
    /\ stream' = Read(trial.adapter, stream, l, trial)
    /\ due' = IF stream'.fault = "none" THEN due \ Reports(l) ELSE {}

Still == UNCHANGED <<trial, pc, expired, installed, seen, holders, bridge, hooks, result>>
Quiet == Still /\ UNCHANGED mishaps

Mishap == mishaps < MaxMishaps /\ mishaps' = mishaps + 1

Say ==
    /\ \E kind \in {"open", "turn", "other", "alien", "junk", "bytes"} : Prints(Line(kind))
    /\ UNCHANGED <<cli, calls>> /\ Quiet

SayAnswer ==
    /\ \E kind \in {"text", "end"}, answer \in {"good", "bad", "error"} :
          /\ kind = "text" => answer # "error"
          /\ Prints([Line(kind) EXCEPT !.answer = answer])
    /\ UNCHANGED <<cli, calls>> /\ Quiet

\* Kimi prints the hint of every session it used
SayHint ==
    /\ trial.adapter = "kimi"
    /\ \E s \in cli.sessions : Prints([Line("hint") EXCEPT !.session = s])
    /\ UNCHANGED <<cli, calls>> /\ Quiet

Repeat ==
    /\ Mishap /\ Prints(Line("retry")) /\ cli' = [cli EXCEPT !.repeated = TRUE]
    /\ UNCHANGED calls /\ Still

\* a new session, or a model the trial did not ask for, in the middle of the run
Drift ==
    /\ Mishap /\ Running /\ stream.opened /\ (Gated => stream.turn)
    /\ \/ cli.session = 1 /\ cli' = [cli EXCEPT !.session = 2, !.sessions = {1, 2}] /\ due' = due \union {2}
       \/ /\ trial.adapter \in {"kimi", "claude"} /\ cli.model = Model
          /\ cli' = [cli EXCEPT !.model = Fallback, !.models = @ \union {Fallback}] /\ due' = due \union {Fallback}
    /\ UNCHANGED <<calls, stream>> /\ Still

\* tools outside the allowlist are the client's own and need no bridge; AGY announces a step
\* as it starts, and its calls differ in their arguments
NewCall(id, tool) ==
    [id |-> id, tool |-> tool, told |-> Gated,
     stage |-> IF Gated THEN "asked" ELSE IF tool = "ref" THEN "sent" ELSE "answered"]

AskTool ==
    /\ Running /\ stream.fault = "none" /\ Len(calls) < MaxCalls
    /\ \E id \in (IF Gated THEN {Len(calls) + 1} ELSE 1..(Len(calls) + 1)), tool \in {"ref", "shell"} \union (IF trial.adapter = "cursor" THEN {"meta"} ELSE {}) :
          /\ calls' = Append(calls, NewCall(id, tool))
          /\ IF Gated THEN Prints([Line("call") EXCEPT !.id = id, !.tool = tool]) ELSE UNCHANGED <<due, stream>>
    /\ UNCHANGED cli /\ Quiet

Tell ==
    /\ \E c \in DOMAIN calls :
          ~calls[c].told /\ Prints(CallLine("call", c)) /\ calls' = [calls EXCEPT ![c].told = TRUE]
    /\ UNCHANGED cli /\ Quiet

\* Claude's and Codex's parsers look at no results
TellResult ==
    /\ trial.adapter \in {"kimi", "cursor", "agy"}
    /\ \E c \in DOMAIN calls :
          /\ calls[c].told /\ calls[c].stage \in {"answered", "denied"}
          /\ Prints(CallLine(IF Gated /\ calls[c].stage = "denied" THEN "failed" ELSE "result", c))
          /\ calls' = [calls EXCEPT ![c].stage = "told"]
    /\ UNCHANGED cli /\ Quiet

\* what a client has forked matters once it ends: a child in its group, and a daemon that left
\* the group, which hold the pipes they inherited.  The output of a client that fails or is
\* killed is not parsed
Left == {{}, {"child"}, {"daemon"}}
Discard ==
    /\ stream' = [NoLines EXCEPT !.fault = IF stream.fault = "undecodable" THEN "undecodable" ELSE "rejected"]
    /\ due' = {} /\ hooks' = <<>>

Exit ==
    /\ Running
    /\ \E code \in {0, 1} :
          /\ code = 0 => stream.fault # "none" \/ (due = {} /\ \A c \in DOMAIN calls : calls[c].told)
          /\ cli' = [cli EXCEPT !.state = "gone", !.code = code]
          /\ IF code = 0 /\ stream.fault # "rejected" THEN UNCHANGED <<stream, due, hooks>> ELSE Discard
    /\ holders' \in Left
    /\ UNCHANGED <<trial, pc, expired, mishaps, installed, seen, calls, bridge, result>>

Leave ==
    /\ \E p \in holders \ {"client"} : holders' = holders \ {p}
    /\ UNCHANGED <<trial, pc, expired, mishaps, installed, seen, cli, due, calls, bridge, hooks, stream, result>>

RestartProxy ==
    /\ Mishap /\ Running /\ ~Gated /\ bridge.busy = 0 /\ bridge.count > 0
    /\ bridge' = [bridge EXCEPT !.count = 0]
    /\ UNCHANGED <<trial, pc, expired, installed, seen, cli, due, holders, calls, hooks, stream, result>>

\* the client is replaced once, and not put back: AGY, which compares it with what it probed
\* only after it has ended, would not see that
Upgrade ==
    /\ pc \in {"probe", "spawn"} \/ (Gated /\ pc = "judge")
    /\ Mishap /\ trial.adapter \in Streaming /\ installed = 1 /\ installed' = 2
    /\ UNCHANGED <<trial, pc, expired, seen, cli, due, holders, calls, bridge, hooks, stream, result>>

Expire ==
    /\ ~expired /\ expired' = TRUE
    /\ pc \in {"http", "broker"} \/ (Gated /\ pc \in {"spawn", "wait"})
    /\ UNCHANGED <<trial, pc, mishaps, installed, seen, cli, due, holders, calls, bridge, hooks, stream, result>>

(***************************************************************************)
(* agy_hook.py: one process per tool, one at a time under the flock; the   *)
(* count it keeps is the number of lookups it allowed.                     *)
(***************************************************************************)
AllowedRefs == Len(SelectSeq(hooks, LAMBDA h : h.allow /\ h.tool = "ref"))

Decide(tool) ==
    /\ ~expired
    /\ tool = "finish" \/ (tool \in trial.tools /\ AllowedRefs < trial.max)

Receipt(id, tool, allow) == [id |-> id, tool |-> tool, allow |-> allow]

Hook ==
    /\ Running /\ Gated /\ stream.fault = "none"
    /\ \E c \in DOMAIN calls :
          /\ calls[c].stage = "asked"
          /\ LET allow == Decide(calls[c].tool) IN
             \/ /\ hooks' = Append(hooks, Receipt(calls[c].id, calls[c].tool, allow))
                /\ calls' = [calls EXCEPT ![c].stage = IF allow THEN "sent" ELSE "denied"]
             \/ hooks' = hooks /\ calls' = [calls EXCEPT ![c].stage = "denied"] \* the gate failed
    /\ UNCHANGED <<trial, pc, expired, world, seen, bridge, stream, result>>

Finish ==
    /\ Gated /\ \A k \in DOMAIN hooks : hooks[k].tool # "finish"
    /\ hooks' = Append(hooks, Receipt(0, "finish", Decide("finish")))
    /\ Prints(Line("finish"))
    /\ UNCHANGED <<trial, pc, expired, mishaps, installed, seen, cli, holders, calls, bridge, result>>

(***************************************************************************)
(* Bridge.handle for tools/call, one call at a time: main() of mcp_proxy   *)
(* reads line by line in a process of the client's group, and AGY's server *)
(* holds a lock in threads of the adapter.  Every attempt upstream counts. *)
(***************************************************************************)
Serving == IF Gated THEN pc \in {"wait", "drain", "judge", "closing"} ELSE pc = "wait"

Rejects == Gated /\ (trial.tools = {} \/ bridge.error \/ expired)

Begin ==
    /\ Serving /\ bridge.busy = 0
    /\ \E c \in DOMAIN calls :
          /\ calls[c].stage = "sent"
          /\ IF Rejects \/ calls[c].tool \notin trial.tools \/ bridge.count >= trial.max
             THEN /\ calls' = [calls EXCEPT ![c].stage = IF Gated THEN "failed" ELSE "answered"]
                  /\ UNCHANGED bridge
             ELSE /\ bridge' = [bridge EXCEPT !.busy = c, !.count = @ + 1, !.upstream = @ + 1]
                  /\ UNCHANGED calls
    /\ UNCHANGED <<trial, pc, expired, world, seen, hooks, stream, result>>

\* a failed lookup is an answer to the clients with a proxy, and an error to AGY's server
End ==
    /\ Serving /\ bridge.busy # 0
    /\ LET c == bridge.busy IN
       \/ /\ calls' = [calls EXCEPT ![c].stage = "answered"]
          /\ bridge' = [bridge EXCEPT !.busy = 0,
                        !.served = IF Gated THEN Append(@, [id |-> calls[c].id, tool |-> calls[c].tool]) ELSE @]
       \/ /\ Gated /\ calls' = [calls EXCEPT ![c].stage = "failed"]
          /\ bridge' = [bridge EXCEPT !.busy = 0]
    /\ UNCHANGED <<trial, pc, expired, world, seen, hooks, stream, result>>

\* the except clause is outside the lock: another thread may be served before the error is kept
Fail ==
    /\ \E c \in DOMAIN calls :
          /\ calls[c].stage = "failed" /\ calls' = [calls EXCEPT ![c].stage = "denied"]
          /\ bridge' = [bridge EXCEPT !.error = TRUE]
    /\ UNCHANGED <<trial, pc, expired, world, seen, hooks, stream, result>>

(***************************************************************************)
(* Supervision.  communicate() ends when both pipes are at their end and   *)
(* the client is reaped; after the deadline it kills the group and calls   *)
(* communicate() again, without a deadline.  Only AGY's hook and server    *)
(* look at the clock too; for the other clients the deadline passes when   *)
(* the adapter sees it pass.                                               *)
(***************************************************************************)
Drained == holders = {} /\ cli.state = "gone"
Undecodable == stream.fault = "undecodable"

Communicated ==
    /\ pc = "wait" /\ Drained
    /\ IF Undecodable THEN Conclude(Escaped)
       ELSE pc' = "judge" /\ UNCHANGED <<trial, expired, world, seen, calls, bridge, hooks, stream, result>>

Alive == IF cli.state = "running" THEN Left ELSE {holders}
KillClient(alive) == alive \* process.kill() alone
KillGroup(alive) == alive \ {"child"}

Killed == [cli EXCEPT !.state = "gone", !.code = IF cli.state = "running" THEN 9 ELSE @]

TimeoutExpired ==
    /\ pc = "wait" /\ ~Bounded /\ (Gated => expired)
    /\ pc' = "drain" /\ cli' = Killed /\ Discard
    /\ \E alive \in Alive : holders' = KillGroup(alive)
    /\ UNCHANGED <<trial, expired, mishaps, installed, seen, calls, bridge, result>>

CommunicatedAgain ==
    /\ pc = "drain" /\ Drained
    /\ Conclude(IF Undecodable THEN Escaped ELSE Raised)

\* _run_process of Codex: the time, an overflow or a read error ends the loop, and the waits
\* for the killed client are bounded too: reaped or not, the adapter returns
Terminated ==
    /\ pc = "wait" /\ Bounded
    /\ pc' = "done" /\ result' = Raised
    /\ \/ cli' = Killed /\ \E alive \in Alive : holders' = KillGroup(alive)
       \/ UNCHANGED <<cli, holders>>
    /\ UNCHANGED <<trial, expired, mishaps, installed, seen, due, calls, bridge, hooks, stream>>

(***************************************************************************)
(* The verdict on a client that ended, and what run_exam compares with its *)
(* preflight.                                                              *)
(***************************************************************************)
\* AGY's stream without its hook and its server
StreamAccepts ==
    CASE trial.adapter = "kimi" -> KimiAccepts(stream, seen.probe)
      [] trial.adapter = "cursor" -> CursorAccepts(stream)
      [] trial.adapter = "claude" -> ClaudeAccepts(stream, trial)
      [] trial.adapter = "codex" -> CodexAccepts(stream)
      [] Gated -> stream.over /\ stream.answer = "good"

Accepts ==
    /\ StreamAccepts
    /\ Gated => ~bridge.error /\ installed = seen.probe /\ AgyAccepts(stream, hooks, bridge.served, trial)

SameClient == trial.adapter \in {"kimi", "agy", "codex", "cursor"} => seen.preflight = seen.probe

Verdict ==
    [kind |-> IF stream.answer = "good" THEN "answered" ELSE "candidate",
     session |-> IF trial.adapter \in {"claude", "agy"} THEN stream.last ELSE stream.session,
     tools |-> IF Gated THEN Len(bridge.served) ELSE stream.count, version |-> seen.probe]

JudgeClient ==
    /\ pc = "judge"
    /\ IF cli.code # 0 \/ stream.fault = "rejected" THEN Conclude(Raised)
       ELSE IF stream.fault = "unreadable" THEN
            Conclude(IF bridge.error \/ installed # seen.probe \/ ~Permitted(hooks) THEN Raised ELSE Escaped)
       ELSE IF Accepts /\ SameClient THEN Conclude(Verdict) ELSE Conclude(Raised)

\* ReferenceServer.__exit__ waits for the threads of the requests it accepted
CloseServer ==
    /\ pc = "closing" /\ bridge.busy = 0
    /\ \A c \in DOMAIN calls : calls[c].stage \notin {"sent", "failed"}
    /\ pc' = "done"
    /\ UNCHANGED <<trial, expired, world, seen, calls, bridge, hooks, stream, result>>

Client == Say \/ SayAnswer \/ SayHint \/ Repeat \/ Drift \/ AskTool \/ Tell \/ TellResult \/ Exit \/ Leave
          \/ RestartProxy \/ Upgrade \/ Hook \/ Finish
Lookups == Begin \/ End \/ Fail
Supervision == Preflight \/ Probe \/ Spawn \/ Communicated \/ TimeoutExpired \/ CommunicatedAgain
           \/ Terminated \/ JudgeClient \/ CloseServer

NativeNext == Client \/ Lookups \/ Supervision \/ Expire
=============================================================================
