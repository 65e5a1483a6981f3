---------------------------- MODULE OpenCodeGateway ----------------------------
(***************************************************************************)
(* The local gate between the native OpenCode CLI and its provider         *)
(* (opencode_gateway.py, with the Bridge of mcp_proxy.py behind it), and   *)
(* the adapter that reads what the gate has accounted for                  *)
(* (native_opencode.run_opencode).  The CLI is outside: it may open        *)
(* several connections at a time, and each is served by a thread of its    *)
(* own.  A thread holds gateway.lock while it serves its POST, provider    *)
(* and reference lookups included; the adapter never takes it.             *)
(*                                                                         *)
(* A request body stands for its hash, a tool call for its name and        *)
(* arguments; what a POST asks for is chosen in the action that serves it. *)
(* Every blocking call has the trial's deadline as its timeout, and        *)
(* missing it is one of the ways in which a step may fail.  There is a     *)
(* request budget, as there must be for every endpoint that is not local.  *)
(***************************************************************************)
EXTENDS UnitSums, Sequences

CONSTANTS
    Handlers,     \* bound: connections served at a time
    Bodies,       \* bodies of completion requests the CLI may send
    Conforming,   \* those that pass every policy check
    Names, Args,  \* reference tools, and the arguments of their calls
    MaxToolCalls, \* max_tool_calls of the config
    MaxParallel,  \* bound: calls of one tool in a response, and of a rejected one
    None

ASSUME GatewayAssumption ==
    /\ Conforming \subseteq Bodies
    /\ MaxToolCalls \in Nat /\ MaxParallel \in Nat
    /\ IsFiniteSet(Names)
    /\ None \notin Handlers \cup {"ok"}

\* The reference calls decode_stream finds in a complete stream: for every
\* tool the arguments it is asked for, in order.
Responses == [Names -> UNION {[1..k -> Args] : k \in 0..MaxParallel}]
Count(refs) == Total([n \in Names |-> Len(refs[n])])

VARIABLES
    closedBook, \* the condition: closed-book, or sources
    at,         \* where each handler thread is
    lock,       \* holder of gateway.lock
    error,      \* gateway.error is set
    requests,   \* bodies the gateway has accepted
    pending,    \* calls of the provider that are still to be made, by name
    toolCalls, finished, final, \* tool_calls, finished, structured_output set
    usage,      \* responses counted in usage and cost
    committed, observed, \* requests the budget has recorded, and bound
    sent,       \* requests the provider has received
    asked, made,         \* history: calls requested, and forwarded, by name
    delivered, looked, told, \* what the CLI got: answers, lookups, a final one
    main,       \* where the adapter is
    outcome     \* what it returns or raises

gate == <<error, requests, pending, toolCalls, finished, final, usage>>
budget == <<committed, observed, sent>>
history == <<asked, made>>
client == <<delivered, looked, told>>
adapter == <<main, outcome>>
vars == <<closedBook, at, lock, gate, budget, history, client, adapter>>

Init ==
    /\ closedBook \in BOOLEAN
    /\ at = [h \in Handlers |-> "idle"]
    /\ lock = None /\ error = FALSE
    /\ requests = {} /\ pending = [n \in Names |-> <<>>]
    /\ toolCalls = 0 /\ finished = FALSE /\ final = FALSE /\ usage = 0
    /\ committed = 0 /\ observed = 0 /\ sent = 0
    /\ asked = [n \in Names |-> <<>>] /\ made = [n \in Names |-> <<>>]
    /\ delivered = 0 /\ looked = 0 /\ told = FALSE
    /\ main = "awaiting" /\ outcome = None

Goto(h, step) == at' = [at EXCEPT ![h] = step]

-----------------------------------------------------------------------------
\* A connection is accepted, by a thread of its own.  One that was made before
\* the CLI was killed may be accepted after that.
Connect(h) ==
    /\ at[h] = "idle" /\ main \notin {"joining", "closed"}
    /\ Goto(h, "waiting")
    /\ UNCHANGED <<closedBook, lock, gate, budget, history, client, adapter>>

\* An earlier error rejects the request before its body is read.
Enter(h) ==
    /\ at[h] = "waiting" /\ lock = None
    /\ IF error THEN Goto(h, "raised") /\ UNCHANGED lock
                ELSE Goto(h, "entered") /\ lock' = h
    /\ UNCHANGED <<closedBook, gate, budget, history, client, adapter>>

\* A request without the token, or an MCP message that is no tools/call.
Pass(h) ==
    /\ at[h] = "entered" \/ (at[h] = "waiting" /\ lock = None)
    /\ Goto(h, "idle") /\ lock' = None
    /\ UNCHANGED <<closedBook, gate, budget, history, client, adapter>>

\* An exception leaves the block of the lock before it is retained, so that a
\* thread which waits for the lock may enter in between.
RaiseLocked(h) == Goto(h, "raised") /\ UNCHANGED lock \* mutant: never released
Raise(h) == Goto(h, "raised") /\ lock' = None

Retain(h) ==
    /\ at[h] = "raised"
    /\ error' = TRUE /\ Goto(h, "idle")
    /\ UNCHANGED <<closedBook, lock, requests, pending, toolCalls, finished, final, usage,
                   budget, history, client, adapter>>

\* The body does not arrive, or one of the checks on it fails.
Refuse(h) ==
    /\ at[h] = "entered"
    /\ Raise(h)
    /\ UNCHANGED <<closedBook, gate, budget, history, client, adapter>>

-----------------------------------------------------------------------------
\* completion: policy, duplicates, rounds, and the budget's commitment.
AcceptableAfterFinal(b) == \* mutant: finished is not looked at
    /\ ~error /\ \A n \in Names : pending[n] = <<>>
    /\ b \in Conforming \ requests
    /\ Cardinality(requests) < MaxToolCalls + 1
    /\ closedBook => requests = {}

Acceptable(b) ==
    /\ ~error /\ ~finished /\ \A n \in Names : pending[n] = <<>>
    /\ b \in Conforming \ requests
    /\ Cardinality(requests) < MaxToolCalls + 1
    /\ closedBook => requests = {}

\* commit_request: no commitment beside one that was never observed
Accept(h, b) ==
    /\ at[h] = "entered" /\ Acceptable(b)
    /\ requests' = requests \cup {b}
    /\ \/ /\ committed = observed
          /\ committed' = committed + 1
          /\ Goto(h, "committed") /\ UNCHANGED lock
       \/ Raise(h) /\ UNCHANGED committed
    /\ UNCHANGED <<closedBook, error, pending, toolCalls, finished, final, usage,
                   observed, sent, history, client, adapter>>

Send(h) ==
    /\ at[h] = "committed"
    /\ \/ sent' = sent + 1 /\ Goto(h, "sent") /\ UNCHANGED lock
       \/ Raise(h) /\ UNCHANGED sent
    /\ UNCHANGED <<closedBook, gate, committed, observed, history, client, adapter>>

\* No complete stream arrives, or the budget rejects its usage; or the budget
\* has bound it, and its identity, charge or final output is not accepted.
Reject(h) ==
    /\ at[h] = "sent"
    /\ Raise(h)
    /\ \/ UNCHANGED <<observed, usage, final>>
       \/ observed' = observed + 1 /\ UNCHANGED <<usage, final>>
       \/ observed' = observed + 1 /\ usage' = usage + 1 /\ final' \in {final, TRUE}
    /\ UNCHANGED <<closedBook, error, requests, pending, toolCalls, finished, committed, sent,
                   history, client, adapter>>

\* The calls of a response, added to those that are pending
Ask(refs) ==
    /\ pending' = [n \in Names |-> pending[n] \o refs[n]]
    /\ asked' = [n \in Names |-> asked[n] \o refs[n]]

\* One of count calls is not allowed, after those in refs, or they are too many.
RejectCalls(h, refs, count) ==
    /\ at[h] = "sent"
    /\ Count(refs) < count
    /\ (closedBook \/ toolCalls + count > MaxToolCalls) => Count(refs) = 0
    /\ observed' = observed + 1 /\ usage' = usage + 1
    /\ toolCalls' = toolCalls + count
    /\ Ask(refs)
    /\ Raise(h)
    /\ UNCHANGED <<closedBook, error, requests, finished, final, committed, sent, made, client, adapter>>

\* A response with reference calls, or a terminal one without.
Judge(h, refs, terminal) ==
    /\ at[h] = "sent"
    /\ (terminal \/ closedBook) => Count(refs) = 0
    /\ toolCalls + Count(refs) <= MaxToolCalls
    /\ observed' = observed + 1 /\ usage' = usage + 1
    /\ toolCalls' = toolCalls + Count(refs)
    /\ Ask(refs)
    /\ finished' = (Count(refs) = 0) /\ final' = (final \/ terminal)
    /\ Goto(h, IF terminal THEN "concluding" ELSE "answering")
    /\ UNCHANGED <<closedBook, lock, error, requests, committed, sent, made, client, adapter>>

-----------------------------------------------------------------------------
\* mcp, for tools/call: the next call of that name, then the Bridge.  An error
\* that was retained after the thread entered is not looked at here.
RequestedByName(n, a) == pending[n] # <<>> \* mutant: arguments are not compared
Requested(n, a) == pending[n] # <<>> /\ Head(pending[n]) = a

Lookup(h, n, a) ==
    /\ at[h] = "entered" /\ ~closedBook
    /\ Requested(n, a)
    /\ pending' = [pending EXCEPT ![n] = Tail(@)]
    /\ \/ /\ made' = [made EXCEPT ![n] = Append(@, a)]
          /\ (Goto(h, "resulting") /\ UNCHANGED lock) \/ Raise(h)
       \/ Raise(h) /\ UNCHANGED made
    /\ UNCHANGED <<closedBook, error, requests, toolCalls, finished, final, usage,
                   budget, asked, client, adapter>>

\* The reply is written, or the write fails; the CLI may have hung up.
Deliver(h) ==
    /\ at[h] \in {"answering", "concluding", "resulting"}
    /\ \/ /\ Goto(h, "idle") /\ lock' = None
          /\ IF at[h] = "resulting"
             THEN looked' \in {looked, looked + 1} /\ UNCHANGED <<delivered, told>>
             ELSE /\ \/ delivered' = delivered + 1 /\ told' = (told \/ at[h] = "concluding")
                     \/ UNCHANGED <<delivered, told>>
                  /\ UNCHANGED looked
       \/ Raise(h) /\ UNCHANGED client
    /\ UNCHANGED <<closedBook, gate, budget, history, adapter>>

-----------------------------------------------------------------------------
\* _run_native_server and run_opencode.  The CLI answers from what it has been
\* told, and lists the answers it got; it is killed; then gateway.error, the
\* calls and the final answer are read, without the lock.
Stay == UNCHANGED <<closedBook, at, lock, gate, budget, history, client>>
Close(result) == main' = "closing" /\ outcome' = result

Answer ==
    /\ main = "awaiting" /\ told
    /\ main' = "answered" /\ UNCHANGED outcome /\ Stay

Collect ==
    /\ main = "answered"
    /\ IF delivered = Cardinality(requests)
       THEN main' = "checking" /\ UNCHANGED outcome ELSE Close("failed")
    /\ Stay

CheckError ==
    /\ main = "checking"
    /\ IF error THEN Close("failed") ELSE main' = "verifying" /\ UNCHANGED outcome
    /\ Stay

Consistent ==
    /\ looked = toolCalls /\ \A n \in Names : pending[n] = <<>>
    /\ requests # {} /\ final

Verify ==
    /\ main = "verifying"
    /\ Close(IF Consistent THEN "ok" ELSE "failed")
    /\ Stay

\* Startup, an API call of the CLI or the deadline fails.
GiveUp ==
    /\ main \in {"awaiting", "answered"}
    /\ Close("failed") /\ Stay

\* __exit__: the server stops accepting, and waits for its threads; then the
\* adapter returns, and run_exam finalizes the budget.
Shutdown ==
    /\ main = "closing"
    /\ main' = "joining" /\ UNCHANGED outcome /\ Stay

JoinNothing == \* mutant: the threads are daemons
    /\ main = "joining"
    /\ main' = "closed" /\ UNCHANGED outcome /\ Stay

Join ==
    /\ main = "joining"
    /\ \A h \in Handlers : at[h] = "idle"
    /\ main' = "closed" /\ UNCHANGED outcome /\ Stay

Serve(h) ==
    \/ Enter(h) \/ Pass(h) \/ Retain(h) \/ Refuse(h)
    \/ \E b \in Bodies : Accept(h, b)
    \/ Send(h) \/ Reject(h)
    \/ \E refs \in Responses, count \in 1..MaxParallel : RejectCalls(h, refs, count)
    \/ \E refs \in Responses, terminal \in BOOLEAN : Judge(h, refs, terminal)
    \/ \E n \in Names, a \in Args : Lookup(h, n, a)
    \/ Deliver(h)

Adapter == Collect \/ CheckError \/ Verify \/ GiveUp \/ Shutdown \/ Join

Next == (\E h \in Handlers : Connect(h) \/ Serve(h)) \/ Answer \/ Adapter

Spec == Init /\ [][Next]_vars

\* Threads run, and every call they block in has a timeout.  Nothing is asked
\* of the CLI.
FairSpec == Spec /\ WF_vars(Adapter) /\ \A h \in Handlers : WF_vars(Serve(h))

-----------------------------------------------------------------------------
\* A trial that succeeds has accounted for every request its provider got:
\* the unlocked reads of the adapter miss none, although the CLI may have sent
\* requests from elsewhere, and threads may still be serving them.
SuccessIsAccounted ==
    outcome = "ok" => /\ sent = committed /\ sent = observed /\ sent = usage
                      /\ sent = delivered /\ finished

\* Accounting closes last: once the adapter is back, and run_exam finalizes
\* the budget, no thread sends, commits or observes a request any more
\* (server.daemon_threads = False).
ClosedIsQuiet == [][main = "closed" => UNCHANGED <<budget, gate>>]_vars

\* The reference server sees calls the provider has asked for, each at most
\* once, those of a name in their order, and no others, whatever the CLI
\* posts.  Only those whose lookup failed before the server saw them are left
\* out, and no more are forwarded than the config allows.
InOrder(s, t) ==
    \E place \in [DOMAIN s -> DOMAIN t] :
        \A i \in DOMAIN s : s[i] = t[place[i]] /\ \A j \in 1..i - 1 : place[j] < place[i]
LookupsAsAsked ==
    \A n \in Names : InOrder(made[n], asked[n]) /\ Len(made[n]) <= MaxToolCalls

\* Whatever the CLI does, the adapter comes back: no error leaves the lock
\* taken, and shutdown and threads do not wait for each other.
Closes == <>(main = "closed")
=============================================================================
