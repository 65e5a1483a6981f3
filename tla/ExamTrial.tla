------------------------------- MODULE ExamTrial -------------------------------
(***************************************************************************)
(* run_exam of runner.py over every adapter but OpenCode, whose trial is   *)
(* in OpenCodeGateway: one trial, from preflight to the verdict.           *)
(***************************************************************************)
EXTENDS HttpTrial

CONSTANT Trials \* checked configurations under a condition: [adapter, tools, max]

ASSUME TrialsAssumption ==
    \A t \in Trials : t.adapter \in Streaming \union Http /\ t.tools \subseteq {"ref"} /\ t.max \in Nat \ {0}

trialVars == <<nativeVars, http, body>>

TrialInit == trial \in Trials /\ NativeInit /\ HttpInit

TrialNext == (NativeNext /\ UNCHANGED <<http, body>>) \/ HttpNext

\* the adapter's process runs, AGY's handler threads are its own, and a clock goes on; nothing
\* is asked of the client, or of what it leaves behind
Fairness ==
    /\ WF_trialVars(Supervision /\ UNCHANGED <<http, body>>)
    /\ WF_trialVars(Lookups /\ UNCHANGED <<http, body>>)
    /\ WF_trialVars(Expire /\ UNCHANGED <<http, body>>)
    /\ WF_trialVars(HttpNext)

TrialSpec == TrialInit /\ [][TrialNext]_trialVars
FairTrialSpec == TrialSpec /\ Fairness

(***************************************************************************)
(* A trial that run_exam records as the model's, answered or failed by the *)
(* candidate, is one in which the client ended by itself and in good       *)
(* order, used only the tools of the condition, no more often than allowed *)
(* and exactly as often as the trial says, looked nothing up that the      *)
(* trial does not count, and worked in the one session the trial names;    *)
(* with the model that was asked for where the stream tells (Kimi,         *)
(* Claude), without repeating a request where it would say so (Kimi,       *)
(* Codex, AGY), and in the version the trial records where it is checked   *)
(* after the start (Kimi, AGY).  For AGY each call was allowed, served and *)
(* reported; for the Responses API no two calls share an identifier.       *)
(***************************************************************************)
UsedTools == {c \in DOMAIN calls : calls[c].tool # "meta"}

OrderlyClient ==
    /\ cli.code = 0 /\ cli.sessions = {result.session}
    /\ trial.adapter \in {"kimi", "claude"} => cli.models = {Model}
    /\ trial.adapter \in {"kimi", "codex", "agy"} => ~cli.repeated
    /\ trial.adapter \in {"kimi", "agy"} => cli.version = result.version

AcceptedTrialsAreClean ==
    result.kind \in Accepted =>
        /\ \A c \in UsedTools : calls[c].tool \in trial.tools
        /\ trial.tools = {} => calls = <<>>
        /\ result.tools = Cardinality(UsedTools) /\ result.tools <= trial.max
        /\ bridge.upstream <= result.tools
        /\ trial.adapter \in Streaming => OrderlyClient
        /\ trial.adapter = "agy" => bridge.upstream = result.tools /\ \A c \in DOMAIN calls : calls[c].stage = "told"
        /\ trial.adapter = "responses" => \A c, d \in DOMAIN calls : calls[c].id = calls[d].id => c = d

(***************************************************************************)
(* Every trial ends, whatever the client does, but for one case: after a   *)
(* timeout the adapters that use communicate() wait for as long as a       *)
(* process that has left the client's group holds an output pipe.          *)
(***************************************************************************)
TrialsEnd == <>(pc = "done") \/ <>[](~Bounded /\ "daemon" \in holders)
=============================================================================
