------------------------------ MODULE CliStreams ------------------------------
(***************************************************************************)
(* What the native adapters make of the JSON lines a command-line client   *)
(* prints: the loops of _parse_stream_envelope (Kimi, Cursor),             *)
(* _parse_stream_json (Claude), _parse_events (Codex) and parse_events     *)
(* (AGY), each as the condition under which it takes one more line, and    *)
(* the checks it makes after the last one.                                 *)
(*                                                                         *)
(* A line is [kind, id, tool, session, model, version, answer].  Kinds:    *)
(*   open    system.version, init, or thread.started                       *)
(*   hint    Kimi's session.resume_hint                                    *)
(*   turn    Codex's turn.started, AGY's user_input step                   *)
(*   call    the model uses a tool      result  the tool's result          *)
(*   failed  AGY's step with an error   text    assistant text             *)
(*   finish  AGY's finish step          end     result or turn.completed   *)
(*   retry   the request is repeated    other   well formed, unknown       *)
(*   alien   a shape no client prints   junk    not a JSON line at all     *)
(*   bytes   not UTF-8                                                     *)
(* Model is the model the trial asked for, Fallback another one, and the   *)
(* sessions a client works in are 1 and 2.                                 *)
(***************************************************************************)
EXTENDS Naturals, Sequences, FiniteSets

CONSTANTS Model, Fallback

ASSUME ModelsAssumption == Model # Fallback /\ {Model, Fallback} \cap Nat = {}

Streaming == {"kimi", "cursor", "claude", "codex", "agy"}

NoLines == [fault |-> "none", opened |-> FALSE, turn |-> FALSE, finished |-> FALSE, over |-> FALSE,
            version |-> 0, session |-> 0, last |-> 0, sessions |-> {}, models |-> {},
            calls |-> <<>>, results |-> {}, returned |-> 0, count |-> 0, answer |-> "none"]

\* "ref" is a tool of the allowlist in any spelling the adapter normalises; "shell" any other
\* name, and one the adapter cannot trust: two families, another server, conflicting names
Ids(st) == {st.calls[k].id : k \in DOMAIN st.calls}
Named(l) == [id |-> l.id, tool |-> l.tool]

\* cursor's discovery tools are tolerated with Sources and never counted
Counted(adapter, tool) == IF adapter = "cursor" /\ tool = "meta" THEN 0 ELSE 1

(***************************************************************************)
(* Which lines each loop takes.  rules = [tools, max].                     *)
(***************************************************************************)
\* without the test for a repeated id
KimiTakesRepeats(st, l, rules) ==
    /\ l.model = Model
    /\ st.opened <=> l.kind # "open"
    /\ \/ l.kind \in {"open", "text"}
       \/ l.kind = "hint" /\ st.session \in {0, l.session}
       \/ l.kind = "call" /\ l.tool \in rules.tools /\ Cardinality(Ids(st) \union {l.id}) <= rules.max
       \/ l.kind = "result" /\ l.id \in Ids(st)

KimiTakes(st, l, rules) ==
    /\ l.model = Model \* _check_event_identity
    /\ st.opened <=> l.kind # "open"
    /\ \/ l.kind \in {"open", "text"}
       \/ l.kind = "hint" /\ st.session \in {0, l.session}
       \/ l.kind = "call" /\ l.id \notin Ids(st) /\ l.tool \in rules.tools /\ st.count < rules.max
       \/ l.kind = "result" /\ l.id \in Ids(st) \ st.results

CursorTakes(st, l, rules) ==
    \/ l.kind = "open" /\ ~st.opened
    \/ /\ l.kind \in {"turn", "text", "retry", "other"}
       /\ st.opened /\ l.session = st.session
    \/ /\ l.kind = "call"
       /\ st.opened /\ l.session = st.session
       /\ IF l.tool = "meta" THEN rules.tools # {} ELSE l.tool \in rules.tools
       /\ l.id \notin Ids(st) /\ st.count + Counted("cursor", l.tool) <= rules.max
    \/ l.kind = "result" /\ l.session = st.session /\ \E k \in DOMAIN st.calls : st.calls[k] = Named(l)
    \/ l.kind = "end" /\ st.opened /\ ~st.over /\ l.session = st.session /\ l.answer # "error"

\* tools and models are only collected here, and judged in ClaudeAccepts
ClaudeTakes(st, l, rules) == l.kind \notin {"alien", "junk"} /\ (l.kind = "end" => l.answer # "error")

CodexTakes(st, l, rules) ==
    /\ ~st.over
    /\ \/ l.kind = "open" /\ ~st.opened
       \/ l.kind \in {"turn", "other"} /\ st.opened /\ ~st.turn
       \/ l.kind \in {"text", "end"} /\ st.turn

AgyTakes(st, l, rules) ==
    /\ ~st.over
    /\ \/ l.kind = "open" /\ ~st.opened /\ l.model = Model
       \/ l.kind = "turn" /\ st.opened /\ ~st.turn
       \/ l.kind = "finish" /\ st.opened /\ ~st.finished
       \/ l.kind \in {"text", "call", "result", "end"} /\ st.opened

Takes(adapter, st, l, rules) ==
    CASE adapter = "kimi" -> KimiTakes(st, l, rules)
      [] adapter = "cursor" -> CursorTakes(st, l, rules)
      [] adapter = "claude" -> ClaudeTakes(st, l, rules)
      [] adapter = "codex" -> CodexTakes(st, l, rules)
      [] adapter = "agy" -> AgyTakes(st, l, rules)

(***************************************************************************)
(* What a line that is taken leaves behind.  Kimi and Codex join all the   *)
(* assistant text, Cursor keeps the last segment, Claude and AGY answer in *)
(* the final record.                                                       *)
(***************************************************************************)
AnswerAfter(adapter, st, l) ==
    CASE l.kind = "text" /\ adapter \in {"kimi", "codex"} ->
            IF st.answer = "none" THEN l.answer ELSE "bad"
      [] l.kind = "text" /\ adapter = "cursor" -> l.answer
      [] l.kind = "end" /\ adapter \in {"claude", "agy"} -> l.answer
      [] OTHER -> st.answer

Session(adapter, st, l) ==
    IF (l.kind = "hint" /\ adapter = "kimi") \/ (l.kind = "open" /\ adapter \in {"cursor", "codex"})
    THEN l.session ELSE st.session

Collected(adapter, l) == adapter = "claude" \/ (adapter = "agy" /\ l.kind # "open")

\* each parser keeps only what its own checks need
Take(adapter, st, l) ==
    [st EXCEPT !.opened = @ \/ l.kind = "open",
               !.turn = @ \/ (l.kind = "turn" /\ adapter \in {"codex", "agy"}),
               !.finished = @ \/ (l.kind = "finish" /\ adapter = "agy"),
               !.over = @ \/ l.kind = "end",
               !.version = IF l.kind = "open" /\ adapter = "kimi" THEN l.version ELSE @,
               !.session = Session(adapter, st, l),
               !.last = IF l.kind = "end" /\ adapter \in {"claude", "agy"} THEN l.session ELSE @,
               !.sessions = IF Collected(adapter, l) THEN @ \union {l.session} ELSE @,
               !.models = IF adapter = "claude" /\ l.kind \in {"open", "text", "call"} THEN @ \union {l.model} ELSE @,
               !.calls = IF l.kind = "call" THEN Append(@, Named(l)) ELSE @,
               !.count = IF l.kind # "call" THEN @
                         ELSE IF adapter = "kimi" THEN Cardinality(Ids(st) \union {l.id})
                         ELSE @ + Counted(adapter, l.tool),
               !.results = IF l.kind = "result" /\ adapter = "kimi" THEN @ \union {l.id} ELSE @,
               !.returned = IF l.kind = "result" /\ adapter = "agy" THEN @ + 1 ELSE @,
               !.answer = AnswerAfter(adapter, st, l)]

\* a parser ends at the first line it does not take; text=True decodes inside communicate(),
\* and parse_events reads the fields of a step without looking whether they are there
Fault(adapter, l) ==
    CASE l.kind = "bytes" /\ adapter # "codex" -> "undecodable"
      [] l.kind = "alien" /\ adapter = "agy" -> "unreadable"
      [] OTHER -> "rejected"

Read(adapter, st, l, rules) ==
    IF l.kind # "bytes" /\ Takes(adapter, st, l, rules) THEN Take(adapter, st, l)
    ELSE [NoLines EXCEPT !.fault = Fault(adapter, l)]

(***************************************************************************)
(* The checks after the last line.                                         *)
(***************************************************************************)
KimiAccepts(st, probed) ==
    /\ st.opened /\ st.version = probed /\ st.session # 0
    /\ Ids(st) = st.results

CursorAccepts(st) == st.opened /\ st.over

ClaudeAccepts(st, rules) ==
    /\ \A k \in DOMAIN st.calls : st.calls[k].tool \in rules.tools
    /\ st.count <= rules.max
    /\ st.opened /\ st.models \subseteq {Model} /\ st.over
    /\ Cardinality(st.sessions) = 1 /\ st.last \in st.sessions
    /\ st.answer = "good"

CodexAccepts(st) == st.opened /\ st.turn /\ st.over /\ st.answer # "none"

Permitted(hooks) == hooks # <<>> /\ \A k \in DOMAIN hooks : hooks[k].allow

\* parse_events: hooks are the receipts of agy_hook, served the calls the reference server
\* answered, each as [id, tool, allow] and [id, tool]; the n-th of each must be the same call
AgyAccepts(st, hooks, served, rules) ==
    LET refs == SelectSeq(hooks, LAMBDA h : h.tool # "finish") IN
    /\ Permitted(hooks)
    /\ st.opened /\ st.over /\ st.turn /\ st.finished
    /\ st.returned = Len(st.calls)
    /\ st.sessions = {st.last} /\ st.answer = "good"
    /\ Len(hooks) = Len(refs) + 1 /\ hooks[Len(hooks)].tool = "finish"
    /\ Len(st.calls) = Len(served) /\ Len(refs) = Len(served) /\ Len(served) <= rules.max
    /\ \A k \in DOMAIN served : st.calls[k] = served[k] /\ refs[k].id = served[k].id /\ refs[k].tool = served[k].tool
=============================================================================
