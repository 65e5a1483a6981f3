------------------------------ MODULE TrialProofs ------------------------------
(***************************************************************************)
(* Theorems about one trial. First the trial that a native CLI or an HTTP  *)
(* provider answers, for any two models and any bounds: a trial that is    *)
(* accepted was run in order, and every lookup of it was counted and       *)
(* allowed. Then the gateway of the OpenCode adapter, for any number of    *)
(* connections, request bodies and reference tools: a trial that succeeds  *)
(* has accounted for every request, accounting closes last, and the        *)
(* reference server sees the calls of the provider in their order.         *)
(***************************************************************************)
EXTENDS ExamTrial, OpenCodeGateway, UnitSumTheorems, FiniteSetTheorems, SequenceTheorems, TLAPS

-----------------------------------------------------------------------------
(* The trial: what is known of the calls, of what the parser of the client *)
(* has read, and of what the client has yet to say.                        *)

Tools == {"ref", "shell", "meta"}
CallRecord == [id : Nat, tool : Tools, told : BOOLEAN, stage : {"asked", "sent", "answered", "failed", "denied", "told"}]
NamedRecord == [id : Nat, tool : Tools]
StreamRecord ==
    [fault : {"none", "rejected", "undecodable", "unreadable"}, opened : BOOLEAN, turn : BOOLEAN, finished : BOOLEAN,
     over : BOOLEAN, version : Nat, session : Nat, last : Nat, sessions : SUBSET {1, 2},
     models : SUBSET {Model, Fallback}, calls : Seq(NamedRecord), results : SUBSET Nat, returned : Nat, count : Nat,
     answer : {"none", "good", "bad", "error"}]
ClientRecord ==
    [state : {"unborn", "running", "gone"}, code : Nat, version : Nat, session : {1, 2}, model : {Model, Fallback},
     sessions : SUBSET {1, 2}, models : SUBSET {Model, Fallback}, repeated : BOOLEAN]
BridgeRecord == [count : Nat, busy : Nat, upstream : Nat, served : Seq(NamedRecord), error : BOOLEAN]

NativePcs == {"preflight", "probe", "spawn", "wait", "drain", "judge", "closing", "done"}
HttpPcs == {"preflight", "probe", "http", "broker", "done"}

TrialType ==
    /\ trial \in Trials
    /\ pc \in IF trial.adapter \in Streaming THEN NativePcs ELSE HttpPcs
    /\ calls \in Seq(CallRecord) /\ bridge \in BridgeRecord
    /\ cli \in ClientRecord /\ 1 \in cli.sessions /\ cli.session \in cli.sessions /\ Model \in cli.models
    /\ stream \in StreamRecord
    /\ installed \in {1, 2} /\ seen \in [preflight : Nat, probe : Nat]
    /\ \A c \in DOMAIN calls : calls[c].tool = "meta" => trial.adapter = "cursor"
    /\ pc \notin {"closing", "done"} => result = Pending

\* Nothing has happened before the client runs.
StartInv ==
    /\ pc \in {"preflight", "probe", "spawn"} =>
          /\ stream = NoLines /\ calls = <<>> /\ ~cli.repeated
          /\ cli.session = 1 /\ cli.sessions = {1} /\ cli.model = Model /\ cli.models = {Model}
    /\ pc \in {"spawn", "wait", "judge"} => seen.probe <= installed
    /\ pc \in {"wait", "judge"} => seen.probe <= cli.version /\ cli.version <= installed
    /\ pc = "drain" => stream.fault # "none"

\* A lookup that went upstream was made for a call of its own, to a tool of the condition.
Tried == {c \in DOMAIN calls : calls[c].tool = "ref" /\ (c = bridge.busy \/ calls[c].stage \notin {"asked", "sent"})}
FetchInv ==
    /\ bridge.busy # 0 => /\ bridge.busy \in DOMAIN calls
                          /\ calls[bridge.busy].stage = "sent" /\ calls[bridge.busy].tool \in trial.tools
    /\ bridge.upstream <= Cardinality(Tried)
    /\ Len(bridge.served) + (IF bridge.busy = 0 THEN 0 ELSE 1) <= bridge.upstream
    /\ \A k \in DOMAIN bridge.served : bridge.served[k].tool \in trial.tools

Live == pc \in {"wait", "judge"} /\ stream.fault = "none"

\* What the parser has seen, and what it has to see before it can know of a change
Known == IF trial.adapter \in {"kimi", "cursor", "codex"} THEN {stream.session} ELSE stream.sessions
KnownModels == IF trial.adapter = "kimi" THEN {Model} ELSE stream.models
Underway ==
    CASE trial.adapter = "kimi" -> TRUE
      [] trial.adapter = "agy" -> stream.turn
      [] OTHER -> stream.opened

\* What the client has used and the parser not seen is due.
ReportInv ==
    Live =>
       /\ IF Underway THEN cli.sessions \ Known \subseteq due ELSE cli.session = 1 /\ cli.sessions = {1}
       /\ trial.adapter \in {"kimi", "claude"} =>
             IF Underway THEN cli.models \ KnownModels \subseteq due ELSE cli.model = Model /\ cli.models = {Model}
       /\ trial.adapter \in {"kimi", "codex", "agy"} => ~cli.repeated
       /\ trial.adapter = "kimi" /\ stream.opened => stream.version = cli.version

\* The parser's account of the calls it was told of.
Told == {c \in DOMAIN calls : calls[c].told /\ calls[c].tool # "meta"}
Returned == {c \in DOMAIN calls : calls[c].stage = "told"}
CountInv ==
    Live =>
       /\ trial.adapter # "agy" => stream.count = Cardinality(Told)
       /\ trial.adapter = "kimi" => Cardinality(Ids(stream)) = stream.count
       /\ trial.adapter \in {"kimi", "cursor"} =>
             /\ stream.count <= trial.max
             /\ \A c \in DOMAIN calls :
                   calls[c].told => IF calls[c].tool = "meta" THEN trial.tools # {} ELSE calls[c].tool \in trial.tools
       /\ trial.adapter = "claude" =>
             \A c \in DOMAIN calls : calls[c].told => \E k \in DOMAIN stream.calls : stream.calls[k].tool = calls[c].tool
       /\ trial.adapter = "codex" => \A c \in DOMAIN calls : ~calls[c].told
       /\ trial.adapter = "agy" =>
             /\ Len(stream.calls) = Len(calls)
             /\ \A k \in DOMAIN calls : calls[k].told /\ stream.calls[k] = Named(calls[k])
             /\ stream.returned = Cardinality(Returned)

\* A client that has ended in good order has told everything.
ExitInv ==
    /\ pc = "judge" => cli.state = "gone" /\ stream.fault # "undecodable"
    /\ Live /\ cli.state = "gone" /\ cli.code = 0 => due = {} /\ \A c \in DOMAIN calls : calls[c].told

NativeInv == StartInv /\ FetchInv /\ ReportInv /\ CountInv /\ ExitInv

Batch == Seq([id : Nat, tool : {"ref", "shell"}])

\* The adapter itself has made the lookups of the calls behind http.next.
BrokerInv ==
    /\ http \in [tools : Nat, next : Nat, responses : SUBSET Nat, first : Nat]
    /\ body.id \in Nat /\ body.calls \in Batch
    /\ bridge.upstream = http.tools /\ http.next = http.tools + 1 /\ http.tools <= trial.max
    /\ http.next <= Len(calls) + 1 /\ (pc \notin {"broker", "done"} => http.next = Len(calls) + 1)
    /\ \A c \in DOMAIN calls : c < http.next => calls[c].tool \in trial.tools
    /\ trial.adapter = "responses" => \A c, d \in DOMAIN calls : calls[c].id = calls[d].id => c = d

\* Nothing is left to happen to a trial that was accepted.
AcceptInv ==
    result.kind \in Accepted => AcceptedTrialsAreClean /\ (trial.adapter = "agy" => bridge.busy = 0)

TrialInv ==
    /\ TrialType /\ AcceptInv
    /\ trial.adapter \in Streaming => NativeInv
    /\ trial.adapter \in Http => BrokerInv

-----------------------------------------------------------------------------
LineRecord ==
    [kind : {"open", "hint", "turn", "call", "result", "failed", "text", "finish", "end", "retry", "other", "alien",
             "junk", "bytes"},
     id : Nat, tool : Tools \cup {"none"}, session : {1, 2}, model : {Model, Fallback}, version : Nat,
     answer : {"none", "good", "bad", "error"}]

\* Taking a line keeps the parser's state in order.
LEMMA TakeType ==
    ASSUME NEW st \in StreamRecord, NEW l \in LineRecord, l.kind = "call" => l.tool \in Tools,
           NEW ad, Cardinality(Ids(st) \cup {l.id}) \in Nat
    PROVE  Take(ad, st, l) \in StreamRecord
<1> DEFINE opened == st.opened \/ l.kind = "open"
           turned == st.turn \/ (l.kind = "turn" /\ ad \in {"codex", "agy"})
           finish == st.finished \/ (l.kind = "finish" /\ ad = "agy")
           over == st.over \/ l.kind = "end"
           version == IF l.kind = "open" /\ ad = "kimi" THEN l.version ELSE st.version
           session == Session(ad, st, l)
           last == IF l.kind = "end" /\ ad \in {"claude", "agy"} THEN l.session ELSE st.last
           sessions == IF Collected(ad, l) THEN st.sessions \cup {l.session} ELSE st.sessions
           models == IF ad = "claude" /\ l.kind \in {"open", "text", "call"} THEN st.models \cup {l.model}
                     ELSE st.models
           spoken == IF l.kind = "call" THEN Append(st.calls, Named(l)) ELSE st.calls
           count == IF l.kind # "call" THEN st.count
                    ELSE IF ad = "kimi" THEN Cardinality(Ids(st) \cup {l.id})
                    ELSE st.count + Counted(ad, l.tool)
           results == IF l.kind = "result" /\ ad = "kimi" THEN st.results \cup {l.id} ELSE st.results
           returned == IF l.kind = "result" /\ ad = "agy" THEN st.returned + 1 ELSE st.returned
           answer == AnswerAfter(ad, st, l)
<1>1. session \in Nat
  BY DEF Session, StreamRecord, LineRecord
<1>2. answer \in {"none", "good", "bad", "error"}
  BY DEF AnswerAfter, StreamRecord, LineRecord
<1>3. spoken \in Seq(NamedRecord)
  <2>1. st.calls \in Seq(NamedRecord)
    BY DEF StreamRecord
  <2>2. l.kind = "call" => Named(l) \in NamedRecord
    BY DEF Named, NamedRecord, LineRecord
  <2> QED
    BY <2>1, <2>2
<1>4. count \in Nat
  BY DEF Counted, StreamRecord
<1>5. returned \in Nat /\ version \in Nat /\ last \in Nat
  BY DEF StreamRecord, LineRecord
<1>6. sessions \in SUBSET {1, 2} /\ models \in SUBSET {Model, Fallback} /\ results \in SUBSET Nat
  BY DEF StreamRecord, LineRecord
<1>7. opened \in BOOLEAN /\ turned \in BOOLEAN /\ finish \in BOOLEAN /\ over \in BOOLEAN
  OBVIOUS
<1>8. Take(ad, st, l) = [st EXCEPT !.opened = opened, !.turn = turned, !.finished = finish, !.over = over,
          !.version = version, !.session = session, !.last = last, !.sessions = sessions, !.models = models,
          !.calls = spoken, !.count = count, !.results = results, !.returned = returned, !.answer = answer]
  BY DEF Take
<1> HIDE DEF opened, turned, finish, over, version, session, last, sessions, models, spoken, count, results, returned,
             answer
<1>9. [st EXCEPT !.opened = opened, !.turn = turned, !.finished = finish, !.over = over,
          !.version = version, !.session = session, !.last = last, !.sessions = sessions, !.models = models,
          !.calls = spoken, !.count = count, !.results = results, !.returned = returned, !.answer = answer] \in StreamRecord
  BY <1>1, <1>2, <1>3, <1>4, <1>5, <1>6, <1>7 DEF StreamRecord
<1> QED
  BY <1>8, <1>9, Zenon

\* The identifiers a parser has seen are finitely many.
LEMMA IdsFinite ==
    ASSUME NEW st \in StreamRecord
    PROVE  IsFiniteSet(Ids(st)) /\ Cardinality(Ids(st)) \in Nat
<1> DEFINE n == Len(st.calls)
           f == [k \in 1..n |-> st.calls[k].id]
<1>1. st.calls \in Seq(NamedRecord) /\ n \in Nat /\ DOMAIN st.calls = 1..n
  BY DEF StreamRecord
<1>2. IsFiniteSet(1..n)
  BY <1>1, FS_Interval
<1>3. f \in Surjection(1..n, Ids(st))
  BY <1>1 DEF Surjection, Ids
<1>4. IsFiniteSet(Ids(st))
  BY <1>2, <1>3, FS_Surjection
<1> QED
  BY <1>4, FS_CardinalityType

\* Sets of calls are finite, and grow only with what is added to them.
LEMMA CallSets ==
    ASSUME NEW q \in Seq(CallRecord), NEW S, S \subseteq DOMAIN q
    PROVE  IsFiniteSet(S) /\ Cardinality(S) \in Nat /\ Cardinality(S) <= Len(q)
           /\ (Cardinality(S) = Len(q) => S = DOMAIN q)
<1>1. DOMAIN q = 1..Len(q) /\ Len(q) \in Nat
  OBVIOUS
<1>2. IsFiniteSet(1..Len(q)) /\ Cardinality(1..Len(q)) = Len(q)
  <2>1. \A n \in Nat : IsFiniteSet(1..n) /\ Cardinality(1..n) = n
    BY FS_Interval
  <2> QED
    BY <1>1, <2>1
<1> QED
  BY <1>1, <1>2, FS_Subset, FS_CardinalityType

-----------------------------------------------------------------------------
Stages == {"asked", "sent", "answered", "failed", "denied", "told"}

\* A step of a call is a step of that call alone, and says only what it says.
LEMMA StageMoves ==
    ASSUME NEW q \in Seq(CallRecord), NEW c \in DOMAIN q, NEW s \in Stages
    PROVE  /\ [q EXCEPT ![c].stage = s] \in Seq(CallRecord)
           /\ Len([q EXCEPT ![c].stage = s]) = Len(q)
           /\ DOMAIN [q EXCEPT ![c].stage = s] = DOMAIN q
           /\ \A d \in DOMAIN q :
                 /\ [q EXCEPT ![c].stage = s][d].id = q[d].id
                 /\ [q EXCEPT ![c].stage = s][d].tool = q[d].tool
                 /\ [q EXCEPT ![c].stage = s][d].told = q[d].told
                 /\ [q EXCEPT ![c].stage = s][d].stage = IF d = c THEN s ELSE q[d].stage
<1> DEFINE r == [q[c] EXCEPT !.stage = s]
<1>1. q[c] \in CallRecord
  OBVIOUS
<1>2. r \in CallRecord /\ r.id = q[c].id /\ r.tool = q[c].tool /\ r.told = q[c].told /\ r.stage = s
  BY <1>1 DEF CallRecord, Stages
<1>3. [q EXCEPT ![c].stage = s] = [q EXCEPT ![c] = r]
  OBVIOUS
<1> HIDE DEF r
<1>4. /\ [q EXCEPT ![c] = r] \in Seq(CallRecord) /\ Len([q EXCEPT ![c] = r]) = Len(q)
      /\ \A d \in 1..Len(q) : [q EXCEPT ![c] = r][d] = IF d = c THEN r ELSE q[d]
  BY <1>2, ExceptSeq
<1>5. DOMAIN [q EXCEPT ![c] = r] = DOMAIN q /\ DOMAIN q = 1..Len(q)
  OBVIOUS
<1> QED
  BY <1>2, <1>3, <1>4, <1>5

\* Telling of a call changes nothing else of it, nor of any other.
LEMMA ToldMoves ==
    ASSUME NEW q \in Seq(CallRecord), NEW c \in DOMAIN q
    PROVE  /\ [q EXCEPT ![c].told = TRUE] \in Seq(CallRecord)
           /\ Len([q EXCEPT ![c].told = TRUE]) = Len(q)
           /\ DOMAIN [q EXCEPT ![c].told = TRUE] = DOMAIN q
           /\ \A d \in DOMAIN q :
                 /\ [q EXCEPT ![c].told = TRUE][d].id = q[d].id
                 /\ [q EXCEPT ![c].told = TRUE][d].tool = q[d].tool
                 /\ [q EXCEPT ![c].told = TRUE][d].stage = q[d].stage
                 /\ [q EXCEPT ![c].told = TRUE][d].told <=> (d = c \/ q[d].told)
<1> DEFINE r == [q[c] EXCEPT !.told = TRUE]
<1>1. q[c] \in CallRecord
  OBVIOUS
<1>2. r \in CallRecord /\ r.id = q[c].id /\ r.tool = q[c].tool /\ r.stage = q[c].stage /\ r.told
  BY <1>1 DEF CallRecord
<1>3. [q EXCEPT ![c].told = TRUE] = [q EXCEPT ![c] = r]
  OBVIOUS
<1> HIDE DEF r
<1>4. /\ [q EXCEPT ![c] = r] \in Seq(CallRecord) /\ Len([q EXCEPT ![c] = r]) = Len(q)
      /\ \A d \in 1..Len(q) : [q EXCEPT ![c] = r][d] = IF d = c THEN r ELSE q[d]
  BY <1>2, ExceptSeq
<1>5. DOMAIN [q EXCEPT ![c] = r] = DOMAIN q /\ DOMAIN q = 1..Len(q)
  OBVIOUS
<1> QED
  BY <1>2, <1>3, <1>4, <1>5

\* A tool that is asked for is one more call, and the others stay as they are.
LEMMA CallAdded ==
    ASSUME NEW q \in Seq(CallRecord), NEW r \in CallRecord
    PROVE  /\ Append(q, r) \in Seq(CallRecord) /\ Len(Append(q, r)) = Len(q) + 1
           /\ DOMAIN Append(q, r) = DOMAIN q \cup {Len(q) + 1} /\ Len(q) + 1 \notin DOMAIN q
           /\ \A d \in DOMAIN q : Append(q, r)[d] = q[d]
           /\ Append(q, r)[Len(q) + 1] = r
OBVIOUS

-----------------------------------------------------------------------------
\* What a client prints carries its session and its model, and a hint one of its sessions.
Spoken(l) ==
    /\ l.model = cli.model /\ l.version = cli.version
    /\ IF l.kind = "hint" THEN l.session \in cli.sessions ELSE l.session = cli.session

Taken(l) ==
    /\ Takes(trial.adapter, stream, l, trial) /\ stream' = Take(trial.adapter, stream, l)
    /\ due' = due \ Reports(l)

\* Only a running client whose lines are readable prints, and a line without fault is taken.
LEMMA LinesAreRead ==
    ASSUME TrialType, NEW l \in LineRecord, l.kind = "call" => l.tool \in Tools, Prints(l)
    PROVE  /\ pc = "wait" /\ cli.state = "running" /\ stream.fault = "none"
           /\ stream' \in StreamRecord
           /\ stream'.fault = "none" => Taken(l)
<1>1. pc = "wait" /\ cli.state = "running" /\ stream.fault = "none"
  BY DEF Prints, Running
<1>2. stream \in StreamRecord
  BY DEF TrialType
<1>3. CASE l.kind # "bytes" /\ Takes(trial.adapter, stream, l, trial)
  <2>1. stream' = Take(trial.adapter, stream, l)
    BY <1>3 DEF Prints, Read
  <2>2. IsFiniteSet(Ids(stream) \cup {l.id})
    BY <1>2, IdsFinite, FS_AddElement
  <2>3. Cardinality(Ids(stream) \cup {l.id}) \in Nat
    BY <2>2, FS_CardinalityType
  <2>4. stream' \in StreamRecord
    BY <1>2, <2>1, <2>3, TakeType
  <2>5. stream'.fault = "none" => due' = due \ Reports(l)
    BY DEF Prints
  <2> QED
    BY <1>1, <1>3, <2>1, <2>4, <2>5 DEF Taken
<1>4. CASE ~(l.kind # "bytes" /\ Takes(trial.adapter, stream, l, trial))
  <2>1. stream' = [NoLines EXCEPT !.fault = Fault(trial.adapter, l)]
    BY <1>4 DEF Prints, Read
  <2>2. Fault(trial.adapter, l) \in {"rejected", "undecodable", "unreadable"}
    BY DEF Fault
  <2>3. NoLines \in StreamRecord
    BY DEF NoLines, StreamRecord
  <2>4. stream' \in StreamRecord /\ stream'.fault # "none"
    BY <2>1, <2>2, <2>3 DEF StreamRecord
  <2> QED
    BY <1>1, <2>4
<1> QED
  BY <1>3, <1>4

\* What a line that is taken changes in the parser's state.
LEMMA TakenMarks ==
    ASSUME stream \in StreamRecord, NEW l, Taken(l)
    PROVE  /\ stream'.opened <=> stream.opened \/ l.kind = "open"
           /\ stream'.turn <=> stream.turn \/ (l.kind = "turn" /\ trial.adapter \in {"codex", "agy"})
           /\ stream'.version = IF l.kind = "open" /\ trial.adapter = "kimi" THEN l.version ELSE stream.version
           /\ stream'.session = Session(trial.adapter, stream, l)
BY DEF Taken, Take, StreamRecord

\* A line that is taken adds the session and the model it names to those seen, where the adapter collects them.
LEMMA TakenSets ==
    ASSUME stream \in StreamRecord, NEW l, Taken(l)
    PROVE  /\ stream'.sessions = IF Collected(trial.adapter, l) THEN stream.sessions \cup {l.session} ELSE stream.sessions
           /\ stream'.models = IF trial.adapter = "claude" /\ l.kind \in {"open", "text", "call"}
                               THEN stream.models \cup {l.model} ELSE stream.models
<1>1. stream'.sessions = IF Collected(trial.adapter, l) THEN stream.sessions \cup {l.session} ELSE stream.sessions
  BY DEF Taken, Take, StreamRecord
<1>2. stream'.models = IF trial.adapter = "claude" /\ l.kind \in {"open", "text", "call"}
                       THEN stream.models \cup {l.model} ELSE stream.models
  BY DEF Taken, Take, StreamRecord
<1> QED
  BY <1>1, <1>2, Zenon

\* A line that names a call adds it to the calls and to their count; a result adds to what was returned.
LEMMA TakenCalls ==
    ASSUME stream \in StreamRecord, NEW l, Taken(l)
    PROVE  /\ stream'.calls = IF l.kind = "call" THEN Append(stream.calls, Named(l)) ELSE stream.calls
           /\ stream'.count = IF l.kind # "call" THEN stream.count
                              ELSE IF trial.adapter = "kimi" THEN Cardinality(Ids(stream) \cup {l.id})
                              ELSE stream.count + Counted(trial.adapter, l.tool)
           /\ stream'.returned = IF l.kind = "result" /\ trial.adapter = "agy" THEN stream.returned + 1
                                                                                ELSE stream.returned
<1>1. stream'.calls = IF l.kind = "call" THEN Append(stream.calls, Named(l)) ELSE stream.calls
  BY DEF Taken, Take, StreamRecord
<1>2. stream'.count = IF l.kind # "call" THEN stream.count
                      ELSE IF trial.adapter = "kimi" THEN Cardinality(Ids(stream) \cup {l.id})
                      ELSE stream.count + Counted(trial.adapter, l.tool)
  BY DEF Taken, Take, StreamRecord
<1>3. stream'.returned = IF l.kind = "result" /\ trial.adapter = "agy" THEN stream.returned + 1 ELSE stream.returned
  BY DEF Taken, Take, StreamRecord
<1> QED
  BY <1>1, <1>2, <1>3, Zenon

\* The steps in which the client says something, but for those about its tools.
Speaks == Say \/ SayAnswer \/ SayHint \/ Repeat \/ Finish

\* What a client says of itself names no call and no result, and changes nothing around it.
LEMMA SpeaksPlainly ==
    ASSUME TrialType, Speaks
    PROVE  /\ \E l \in LineRecord : /\ Prints(l) /\ Spoken(l) /\ l.kind \notin {"call", "result"}
                                    /\ \/ cli' = cli
                                       \/ l.kind = "retry" /\ cli' = [cli EXCEPT !.repeated = TRUE]
           /\ UNCHANGED <<trial, pc, installed, seen, calls, bridge, result>>
<1>1. cli \in ClientRecord /\ cli.sessions \subseteq {1, 2}
  BY DEF TrialType, ClientRecord
<1>2. \A kind \in {"open", "turn", "other", "alien", "junk", "bytes", "retry", "finish", "text", "end", "hint"} :
         /\ Line(kind) \in LineRecord /\ Line(kind).kind = kind
         /\ Line(kind).session = cli.session /\ Line(kind).model = cli.model /\ Line(kind).version = cli.version
  BY <1>1 DEF Line, LineRecord, ClientRecord
<1>3. CASE Say
  <2>1. PICK kind \in {"open", "turn", "other", "alien", "junk", "bytes"} : Prints(Line(kind))
    BY <1>3 DEF Say
  <2> QED
    BY <1>2, <1>3, <2>1 DEF Say, Spoken, Quiet, Still
<1>4. CASE SayAnswer
  <2>1. PICK kind \in {"text", "end"}, answer \in {"good", "bad", "error"} : Prints([Line(kind) EXCEPT !.answer = answer])
    BY <1>4 DEF SayAnswer
  <2> DEFINE l == [Line(kind) EXCEPT !.answer = answer]
  <2>2. l \in LineRecord /\ l.kind = kind /\ l.session = cli.session /\ l.model = cli.model /\ l.version = cli.version
    BY <1>2 DEF LineRecord
  <2>3. Prints(l)
    BY <2>1
  <2> HIDE DEF l
  <2> QED
    BY <1>4, <2>2, <2>3 DEF SayAnswer, Spoken, Quiet, Still
<1>5. CASE SayHint
  <2>1. PICK s \in cli.sessions : Prints([Line("hint") EXCEPT !.session = s])
    BY <1>5 DEF SayHint
  <2> DEFINE l == [Line("hint") EXCEPT !.session = s]
  <2>2. l \in LineRecord /\ l.kind = "hint" /\ l.session = s /\ l.model = cli.model /\ l.version = cli.version
    BY <1>1, <1>2 DEF LineRecord
  <2>3. Prints(l)
    BY <2>1
  <2> HIDE DEF l
  <2> QED
    BY <1>5, <2>2, <2>3 DEF SayHint, Spoken, Quiet, Still
<1>6. CASE Repeat
  BY <1>2, <1>6 DEF Repeat, Spoken, Still
<1>7. CASE Finish
  BY <1>2, <1>7 DEF Finish, Spoken
<1> QED
  BY <1>3, <1>4, <1>5, <1>6, <1>7 DEF Speaks

\* A line about a tool names a call of the client, and its identifier and its tool.
LEMMA ToolLine ==
    ASSUME TrialType, NEW kind \in {"call", "result", "failed"}, NEW c \in DOMAIN calls
    PROVE  /\ CallLine(kind, c) \in LineRecord /\ CallLine(kind, c).kind = kind /\ Spoken(CallLine(kind, c))
           /\ CallLine(kind, c).id = calls[c].id /\ CallLine(kind, c).tool = calls[c].tool
           /\ CallLine(kind, c).tool \in Tools /\ Named(CallLine(kind, c)) = Named(calls[c])
<1>1. calls[c] \in CallRecord
  BY DEF TrialType
<1>2. cli \in ClientRecord
  BY DEF TrialType
<1> DEFINE l == CallLine(kind, c)
<1>3. Line(kind) \in LineRecord
  BY <1>2 DEF Line, LineRecord, ClientRecord
<1>4. /\ Line(kind).kind = kind /\ Line(kind).session = cli.session /\ Line(kind).model = cli.model
      /\ Line(kind).version = cli.version
  BY DEF Line
<1>5. /\ l \in LineRecord /\ l.id = calls[c].id /\ l.tool = calls[c].tool /\ l.kind = kind
      /\ l.session = cli.session /\ l.model = cli.model /\ l.version = cli.version
  BY <1>1, <1>3, <1>4 DEF CallLine, LineRecord, CallRecord
<1> HIDE DEF l
<1>6. l.tool \in Tools /\ Named(l) = Named(calls[c]) /\ Spoken(l)
  BY <1>1, <1>5 DEF CallRecord, Named, Spoken
<1> QED
  BY <1>5, <1>6 DEF l

-----------------------------------------------------------------------------
\* The parser keeps its account of sessions and models: what a line reports it has seen.
LEMMA LineReported ==
    ASSUME TrialType, ReportInv, NEW l \in LineRecord, l.kind = "call" => l.tool \in Tools, Prints(l), Spoken(l),
           \/ cli' = cli
           \/ l.kind = "retry" /\ cli' = [cli EXCEPT !.repeated = TRUE],
           UNCHANGED <<trial, pc>>
    PROVE  ReportInv'
<1> SUFFICES ASSUME Live'
             PROVE  /\ (IF Underway THEN cli.sessions \ Known \subseteq due ELSE cli.session = 1 /\ cli.sessions = {1})'
                    /\ (trial.adapter \in {"kimi", "claude"} =>
                          IF Underway THEN cli.models \ KnownModels \subseteq due
                          ELSE cli.model = Model /\ cli.models = {Model})'
                    /\ (trial.adapter \in {"kimi", "codex", "agy"} => ~cli.repeated)'
                    /\ (trial.adapter = "kimi" /\ stream.opened => stream.version = cli.version)'
  BY DEF ReportInv
<1>1. stream'.fault = "none" /\ Taken(l) /\ pc = "wait" /\ Live
  BY LinesAreRead DEF Live
<1>2. trial.adapter \in Streaming /\ trial.adapter \in {"kimi", "cursor", "claude", "codex", "agy"}
  BY <1>1 DEF TrialType, HttpPcs, Streaming
<1>3. /\ stream'.opened <=> stream.opened \/ l.kind = "open"
      /\ stream'.turn <=> stream.turn \/ (l.kind = "turn" /\ trial.adapter \in {"codex", "agy"})
      /\ stream'.version = IF l.kind = "open" /\ trial.adapter = "kimi" THEN l.version ELSE stream.version
      /\ stream'.session = Session(trial.adapter, stream, l)
      /\ stream'.sessions = IF Collected(trial.adapter, l) THEN stream.sessions \cup {l.session} ELSE stream.sessions
      /\ stream'.models = IF trial.adapter = "claude" /\ l.kind \in {"open", "text", "call"}
                          THEN stream.models \cup {l.model} ELSE stream.models
  <2>1. stream \in StreamRecord
    BY DEF TrialType
  <2>2. /\ stream'.opened <=> stream.opened \/ l.kind = "open"
        /\ stream'.turn <=> stream.turn \/ (l.kind = "turn" /\ trial.adapter \in {"codex", "agy"})
        /\ stream'.version = IF l.kind = "open" /\ trial.adapter = "kimi" THEN l.version ELSE stream.version
        /\ stream'.session = Session(trial.adapter, stream, l)
    BY <1>1, <2>1, TakenMarks, Zenon
  <2> QED
    BY <1>1, <2>1, <2>2, TakenSets, Zenon
<1>4. /\ cli \in ClientRecord /\ cli.sessions \subseteq {1, 2} /\ cli.models \subseteq {Model, Fallback}
      /\ 1 \notin {Model, Fallback} /\ 2 \notin {Model, Fallback} /\ l.session \in {1, 2} /\ l.model \in {Model, Fallback}
  <2>1. 1 \notin {Model, Fallback} /\ 2 \notin {Model, Fallback}
    BY ModelsAssumption
  <2>2. cli \in ClientRecord
    BY DEF TrialType
  <2> QED
    BY <2>1, <2>2 DEF ClientRecord, LineRecord
<1>5. /\ cli'.sessions = cli.sessions /\ cli'.session = cli.session /\ cli'.models = cli.models
      /\ cli'.model = cli.model /\ cli'.version = cli.version
      /\ l.kind # "retry" => cli'.repeated = cli.repeated
  BY <1>4 DEF ClientRecord
<1>6. trial' = trial /\ l.model = cli.model /\ l.version = cli.version
      /\ (l.kind # "hint" => l.session = cli.session)
  BY DEF Spoken
<1>7. due' = due \ Reports(l) /\ Takes(trial.adapter, stream, l, trial)
  BY <1>1 DEF Taken
<1>8. /\ IF Underway THEN cli.sessions \ Known \subseteq due ELSE cli.session = 1 /\ cli.sessions = {1}
      /\ trial.adapter \in {"kimi", "claude"} =>
            IF Underway THEN cli.models \ KnownModels \subseteq due ELSE cli.model = Model /\ cli.models = {Model}
      /\ trial.adapter \in {"kimi", "codex", "agy"} => ~cli.repeated
      /\ trial.adapter = "kimi" /\ stream.opened => stream.version = cli.version
  BY <1>1 DEF ReportInv
<1>9. CASE trial.adapter = "kimi"
  <2>1. KimiTakes(stream, l, trial)
    BY <1>7, <1>9 DEF Takes
  <2>2. l.kind # "retry" /\ l.model = Model
    BY <2>1 DEF KimiTakes
  <2>3. \A s \in cli.sessions : s # stream'.session => s # stream.session /\ s \notin Reports(l)
    BY <1>3, <1>4, <1>9, <2>1, <2>2 DEF KimiTakes, Reports, Session
  <2>4. \A m \in cli.models : m # Model => m \notin Reports(l)
    BY <1>4, <1>9, <2>2 DEF Reports
  <2>5. cli'.sessions \ {stream'.session} \subseteq due'
    BY <1>5, <1>7, <1>8, <1>9, <2>3 DEF Underway, Known
  <2>6. cli'.models \ {Model} \subseteq due'
    BY <1>5, <1>7, <1>8, <1>9, <2>4 DEF Underway, KnownModels
  <2>7. stream'.opened => stream'.version = cli'.version
    BY <1>3, <1>5, <1>6, <1>8, <1>9
  <2> QED
    BY <1>5, <1>6, <1>8, <1>9, <2>2, <2>5, <2>6, <2>7 DEF Underway, Known, KnownModels
<1>10. CASE trial.adapter = "cursor"
  <2>1. CursorTakes(stream, l, trial)
    BY <1>7, <1>10 DEF Takes
  <2>2. l.kind # "hint" /\ (l.kind = "open" => ~stream.opened) /\ (l.kind # "open" => l.session = stream.session)
    BY <2>1 DEF CursorTakes
  <2>3. Reports(l) = {l.session}
    BY <1>10 DEF Reports
  <2>4. CASE stream.opened
    <3>1. stream'.session = stream.session /\ l.session = stream.session /\ stream'.opened
      BY <1>3, <1>10, <2>2, <2>4 DEF Session
    <3>2. cli'.sessions \ {stream'.session} \subseteq due'
      BY <1>5, <1>7, <1>8, <1>10, <2>3, <2>4, <3>1 DEF Underway, Known
    <3> QED
      BY <1>6, <1>10, <3>1, <3>2 DEF Underway, Known
  <2>5. CASE ~stream.opened
    <3>1. cli.session = 1 /\ cli.sessions = {1} /\ l.session = 1
      BY <1>6, <1>8, <1>10, <2>2, <2>5 DEF Underway
    <3>2. l.kind = "open" => stream'.session = 1
      BY <1>3, <1>10, <3>1 DEF Session
    <3> QED
      BY <1>3, <1>5, <1>6, <1>10, <2>5, <3>1, <3>2 DEF Underway, Known
  <2> QED
    BY <2>4, <2>5
<1>11. CASE trial.adapter = "claude"
  <2>1. stream'.sessions = stream.sessions \cup {l.session}
    BY <1>3, <1>11 DEF Collected
  <2>2. Reports(l) = IF l.kind \in {"open", "text", "call"} THEN {l.session, l.model} ELSE {l.session}
    BY <1>11 DEF Reports
  <2>3. CASE stream.opened
    <3>1. cli'.sessions \ stream'.sessions \subseteq due'
      BY <1>4, <1>5, <1>7, <1>8, <1>11, <2>1, <2>2, <2>3 DEF Underway, Known
    <3>2. cli'.models \ stream'.models \subseteq due'
      BY <1>3, <1>4, <1>5, <1>7, <1>8, <1>11, <2>2, <2>3 DEF Underway, KnownModels
    <3> QED
      BY <1>3, <1>6, <1>11, <2>3, <3>1, <3>2 DEF Underway, Known, KnownModels
  <2>4. CASE ~stream.opened
    <3>1. cli.sessions = {1} /\ cli.session = 1 /\ cli.models = {Model} /\ cli.model = Model
      BY <1>8, <1>11, <2>4 DEF Underway
    <3>2. l.kind = "open" => 1 \in stream'.sessions /\ Model \in stream'.models
      BY <1>3, <1>6, <1>11, <2>1, <3>1
    <3> QED
      BY <1>3, <1>5, <1>6, <1>11, <2>4, <3>1, <3>2 DEF Underway, Known, KnownModels
  <2> QED
    BY <2>3, <2>4
<1>12. CASE trial.adapter = "codex"
  <2>1. CodexTakes(stream, l, trial)
    BY <1>7, <1>12 DEF Takes
  <2>2. l.kind # "retry" /\ l.kind # "hint" /\ (l.kind = "open" => ~stream.opened)
    BY <2>1 DEF CodexTakes
  <2>3. CASE stream.opened
    <3>1. stream'.session = stream.session /\ stream'.opened /\ due' = due
      BY <1>3, <1>7, <1>12, <2>2, <2>3 DEF Session, Reports
    <3> QED
      BY <1>5, <1>6, <1>8, <1>12, <2>2, <2>3, <3>1 DEF Underway, Known
  <2>4. CASE ~stream.opened
    <3>1. cli.session = 1 /\ cli.sessions = {1} /\ l.session = 1
      BY <1>6, <1>8, <1>12, <2>2, <2>4 DEF Underway
    <3>2. l.kind = "open" => stream'.session = 1
      BY <1>3, <1>12, <3>1 DEF Session
    <3> QED
      BY <1>3, <1>5, <1>6, <1>8, <1>12, <2>2, <2>4, <3>1, <3>2 DEF Underway, Known
  <2> QED
    BY <2>3, <2>4
<1>13. CASE trial.adapter = "agy"
  <2>1. AgyTakes(stream, l, trial)
    BY <1>7, <1>13 DEF Takes
  <2>2. l.kind # "retry" /\ l.kind # "hint"
    BY <2>1 DEF AgyTakes
  <2>3. /\ stream'.sessions = stream.sessions \cup Reports(l)
        /\ l.kind # "open" => Reports(l) = {l.session}
    BY <1>3, <1>13 DEF Reports, Collected
  <2>4. CASE stream.turn
    <3>1. cli'.sessions \ stream'.sessions \subseteq due'
      BY <1>5, <1>7, <1>8, <1>13, <2>3, <2>4 DEF Underway, Known
    <3> QED
      BY <1>3, <1>5, <1>6, <1>8, <1>13, <2>2, <2>4, <3>1 DEF Underway, Known
  <2>5. CASE ~stream.turn
    <3>1. cli.session = 1 /\ cli.sessions = {1} /\ l.session = 1
      BY <1>6, <1>8, <1>13, <2>2, <2>5 DEF Underway
    <3>2. l.kind = "turn" => 1 \in stream'.sessions
      BY <2>3, <3>1
    <3> QED
      BY <1>3, <1>5, <1>6, <1>8, <1>13, <2>2, <2>5, <3>1, <3>2 DEF Underway, Known
  <2> QED
    BY <2>4, <2>5
<1> QED
  BY <1>2, <1>9, <1>10, <1>11, <1>12, <1>13

-----------------------------------------------------------------------------
\* A step that tells of no call keeps the account of the calls.
LEMMA CountKept ==
    ASSUME CountInv, Live' => Live, trial' = trial,
           Len(calls') = Len(calls), DOMAIN calls' = DOMAIN calls,
           \A c \in DOMAIN calls :
              /\ calls'[c].id = calls[c].id /\ calls'[c].tool = calls[c].tool /\ (calls'[c].told <=> calls[c].told)
              /\ trial.adapter = "agy" => (calls'[c].stage = "told" <=> calls[c].stage = "told"),
           Live' => /\ stream'.calls = stream.calls /\ stream'.count = stream.count
                    /\ stream'.returned = stream.returned
    PROVE  CountInv'
<1> SUFFICES ASSUME Live' PROVE CountInv'
  BY DEF CountInv
<1>1. Live /\ stream'.calls = stream.calls /\ stream'.count = stream.count /\ stream'.returned = stream.returned
  OBVIOUS
<1>2. Told' = Told /\ Ids(stream') = Ids(stream)
  BY <1>1 DEF Told, Ids
<1>3. trial.adapter = "agy" => Returned' = Returned
  BY DEF Returned
<1>4. \A c \in DOMAIN calls : Named(calls'[c]) = Named(calls[c])
  BY DEF Named
<1>5. /\ trial.adapter # "agy" => stream.count = Cardinality(Told)
      /\ trial.adapter = "kimi" => Cardinality(Ids(stream)) = stream.count
      /\ trial.adapter \in {"kimi", "cursor"} =>
            /\ stream.count <= trial.max
            /\ \A c \in DOMAIN calls :
                  calls[c].told => IF calls[c].tool = "meta" THEN trial.tools # {} ELSE calls[c].tool \in trial.tools
      /\ trial.adapter = "claude" =>
            \A c \in DOMAIN calls : calls[c].told => \E k \in DOMAIN stream.calls : stream.calls[k].tool = calls[c].tool
      /\ trial.adapter = "codex" => \A c \in DOMAIN calls : ~calls[c].told
      /\ trial.adapter = "agy" =>
            /\ Len(stream.calls) = Len(calls) /\ \A k \in DOMAIN calls : calls[k].told /\ stream.calls[k] = Named(calls[k])
            /\ stream.returned = Cardinality(Returned)
  BY <1>1 DEF CountInv
<1>6. (trial.adapter # "agy" => stream.count = Cardinality(Told))'
  BY <1>1, <1>2, <1>5
<1>7. (trial.adapter = "kimi" => Cardinality(Ids(stream)) = stream.count)'
  BY <1>1, <1>2, <1>5
<1>8. (trial.adapter \in {"kimi", "cursor"} =>
            /\ stream.count <= trial.max
            /\ \A c \in DOMAIN calls :
                  calls[c].told => IF calls[c].tool = "meta" THEN trial.tools # {} ELSE calls[c].tool \in trial.tools)'
  BY <1>1, <1>5
<1>9. (trial.adapter = "claude" =>
            \A c \in DOMAIN calls : calls[c].told => \E k \in DOMAIN stream.calls : stream.calls[k].tool = calls[c].tool)'
  BY <1>1, <1>5
<1>10. (trial.adapter = "codex" => \A c \in DOMAIN calls : ~calls[c].told)'
  BY <1>1, <1>5
<1>11. (trial.adapter = "agy" =>
            /\ Len(stream.calls) = Len(calls) /\ \A k \in DOMAIN calls : calls[k].told /\ stream.calls[k] = Named(calls[k])
            /\ stream.returned = Cardinality(Returned))'
  BY <1>1, <1>3, <1>4, <1>5
<1> QED
  BY <1>6, <1>7, <1>8, <1>9, <1>10, <1>11 DEF CountInv

\* What a client says of itself keeps the account of the calls.
LEMMA SpeaksOfNoCall ==
    ASSUME TrialType, CountInv, Speaks
    PROVE  CountInv'
<1>1. PICK l \in LineRecord : Prints(l) /\ Spoken(l) /\ l.kind \notin {"call", "result"}
  BY SpeaksPlainly
<1>2. UNCHANGED <<trial, pc, calls>>
  BY SpeaksPlainly
<1>3. stream.fault = "none" /\ pc = "wait" /\ (stream'.fault = "none" => Taken(l))
  BY <1>1, LinesAreRead
<1>4. Live' => /\ Live
               /\ stream'.calls = stream.calls /\ stream'.count = stream.count /\ stream'.returned = stream.returned
  <2> SUFFICES ASSUME Live' PROVE /\ Live
               /\ stream'.calls = stream.calls /\ stream'.count = stream.count /\ stream'.returned = stream.returned
    OBVIOUS
  <2>1. Taken(l) /\ Live /\ stream \in StreamRecord
    BY <1>2, <1>3 DEF Live, TrialType
  <2> QED
    BY <1>1, <2>1, TakenCalls
<1> QED
  BY <1>2, <1>4, CountKept

\* Telling of a call adds it to the calls told, once.
LEMMA CallIsCounted ==
    ASSUME TrialType, CountInv, NEW c \in DOMAIN calls, ~Gated, ~calls[c].told, Prints(CallLine("call", c)),
           calls' = [calls EXCEPT ![c].told = TRUE], UNCHANGED <<trial, pc>>
    PROVE  CountInv'
<1> SUFFICES ASSUME Live' PROVE CountInv'
  BY DEF CountInv
<1> DEFINE l == CallLine("call", c)
<1>1. /\ l \in LineRecord /\ l.kind = "call" /\ l.id = calls[c].id /\ l.tool = calls[c].tool /\ l.tool \in Tools
      /\ Named(l) = Named(calls[c])
  BY ToolLine
<1>2. Prints(l)
  OBVIOUS
<1> HIDE DEF l
<1>3. stream.fault = "none" /\ pc = "wait" /\ Taken(l) /\ stream \in StreamRecord
  BY <1>1, <1>2, LinesAreRead DEF Live, TrialType
<1>4. Live /\ trial.adapter \in {"kimi", "cursor", "claude", "codex"}
  BY <1>3 DEF Live, TrialType, HttpPcs, Streaming, Gated
<1>5. /\ stream.count = Cardinality(Told)
      /\ trial.adapter = "kimi" => Cardinality(Ids(stream)) = stream.count
      /\ trial.adapter \in {"kimi", "cursor"} =>
            /\ stream.count <= trial.max
            /\ \A d \in DOMAIN calls :
                  calls[d].told => IF calls[d].tool = "meta" THEN trial.tools # {} ELSE calls[d].tool \in trial.tools
      /\ trial.adapter = "claude" =>
            \A d \in DOMAIN calls : calls[d].told => \E k \in DOMAIN stream.calls : stream.calls[k].tool = calls[d].tool
      /\ trial.adapter = "codex" => \A d \in DOMAIN calls : ~calls[d].told
  BY <1>4 DEF CountInv
<1>6. /\ stream'.calls = Append(stream.calls, Named(l))
      /\ stream'.count = IF trial.adapter = "kimi" THEN Cardinality(Ids(stream) \cup {l.id})
                         ELSE stream.count + Counted(trial.adapter, l.tool)
  BY <1>1, <1>3, TakenCalls
<1>7. calls \in Seq(CallRecord) /\ stream.calls \in Seq(NamedRecord) /\ Named(l) \in NamedRecord /\ stream.count \in Nat
  BY <1>1, <1>3 DEF TrialType, StreamRecord, Named, NamedRecord, LineRecord
<1>8. /\ DOMAIN calls' = DOMAIN calls
      /\ \A d \in DOMAIN calls : calls'[d].tool = calls[d].tool /\ (calls'[d].told <=> d = c \/ calls[d].told)
  BY <1>7, ToldMoves
<1>9. /\ IsFiniteSet(Told) /\ c \notin Told
      /\ Told' = IF calls[c].tool = "meta" THEN Told ELSE Told \cup {c}
  <2>1. Told \subseteq DOMAIN calls /\ c \notin Told
    BY DEF Told
  <2>2. Told' = IF calls[c].tool = "meta" THEN Told ELSE Told \cup {c}
    BY <1>8 DEF Told
  <2> QED
    BY <1>7, <2>1, <2>2, CallSets
<1>10. Cardinality(Told') = IF calls[c].tool = "meta" THEN Cardinality(Told) ELSE Cardinality(Told) + 1
  BY <1>9, FS_AddElement
<1>11. Takes(trial.adapter, stream, l, trial)
  BY <1>3 DEF Taken
<1>12. Ids(stream') = Ids(stream) \cup {l.id}
  <2>1. DOMAIN stream'.calls = DOMAIN stream.calls \cup {Len(stream.calls) + 1}
        /\ stream'.calls[Len(stream.calls) + 1] = Named(l)
        /\ \A k \in DOMAIN stream.calls : k # Len(stream.calls) + 1 /\ stream'.calls[k] = stream.calls[k]
    BY <1>6, <1>7
  <2> QED
    BY <2>1 DEF Ids, Named
<1>13. trial' = trial /\ (trial.adapter # "cursor" => calls[c].tool # "meta")
  BY DEF TrialType
<1>14. CASE trial.adapter = "kimi"
  <2>1. l.id \notin Ids(stream) /\ l.tool \in trial.tools /\ stream.count < trial.max
    BY <1>1, <1>11, <1>14 DEF Takes, KimiTakes
  <2>2. Cardinality(Ids(stream) \cup {l.id}) = stream.count + 1
    <3>1. IsFiniteSet(Ids(stream))
      BY <1>3, IdsFinite
    <3>2. Cardinality(Ids(stream) \cup {l.id}) = Cardinality(Ids(stream)) + 1
      BY <2>1, <3>1, FS_AddElement
    <3> QED
      BY <1>5, <1>14, <3>2
  <2>3. /\ stream'.count = Cardinality(Told') /\ Cardinality(Ids(stream')) = stream'.count
    BY <1>5, <1>6, <1>10, <1>12, <1>13, <1>14, <2>2
  <2>4. trial.max \in Nat
    BY TrialsAssumption DEF TrialType
  <2>5. stream'.count <= trial.max
    BY <1>6, <1>7, <1>14, <2>1, <2>2, <2>4
  <2>6. \A d \in DOMAIN calls' : calls'[d].told => IF calls'[d].tool = "meta" THEN trial.tools # {}
                                                 ELSE calls'[d].tool \in trial.tools
    BY <1>1, <1>5, <1>8, <1>13, <1>14, <2>1
  <2> QED
    BY <1>13, <1>14, <2>3, <2>5, <2>6 DEF CountInv
<1>15. CASE trial.adapter = "cursor"
  <2>1. /\ IF l.tool = "meta" THEN trial.tools # {} ELSE l.tool \in trial.tools
        /\ stream.count + Counted("cursor", l.tool) <= trial.max
    BY <1>1, <1>11, <1>15 DEF Takes, CursorTakes
  <2>2. stream'.count = Cardinality(Told') /\ stream'.count <= trial.max
    BY <1>1, <1>5, <1>6, <1>7, <1>10, <1>15, <2>1 DEF Counted
  <2>3. \A d \in DOMAIN calls' : calls'[d].told => IF calls'[d].tool = "meta" THEN trial.tools # {}
                                                 ELSE calls'[d].tool \in trial.tools
    BY <1>1, <1>5, <1>8, <1>15, <2>1
  <2> QED
    BY <1>13, <1>15, <2>2, <2>3 DEF CountInv
<1>16. CASE trial.adapter = "claude"
  <2>1. stream'.count = Cardinality(Told')
    BY <1>5, <1>6, <1>7, <1>10, <1>13, <1>16 DEF Counted
  <2>2. ASSUME NEW d \in DOMAIN calls', calls'[d].told
        PROVE  \E k \in DOMAIN stream'.calls : stream'.calls[k].tool = calls'[d].tool
    <3>1. DOMAIN stream'.calls = DOMAIN stream.calls \cup {Len(stream.calls) + 1}
          /\ stream'.calls[Len(stream.calls) + 1] = Named(l)
          /\ \A k \in DOMAIN stream.calls : k # Len(stream.calls) + 1 /\ stream'.calls[k] = stream.calls[k]
      BY <1>6, <1>7
    <3>2. CASE d = c
      <4>1. Named(l).tool = calls'[d].tool
        BY <1>1, <1>8, <3>2 DEF Named
      <4> QED
        BY <3>1, <4>1
    <3>3. CASE d # c
      BY <1>5, <1>8, <1>16, <2>2, <3>1, <3>3
    <3> QED
      BY <3>2, <3>3
  <2> QED
    BY <1>13, <1>16, <2>1, <2>2 DEF CountInv
<1>17. CASE trial.adapter = "codex"
  BY <1>1, <1>11, <1>17 DEF Takes, CodexTakes
<1> QED
  BY <1>4, <1>14, <1>15, <1>16, <1>17

\* AGY's client announces a call as it asks for it.
LEMMA AskIsCounted ==
    ASSUME TrialType, CountInv, AskTool
    PROVE  CountInv'
<1> SUFFICES ASSUME Live' PROVE CountInv'
  BY DEF CountInv
<1>1. trial' = trial /\ pc' = pc /\ stream.fault = "none" /\ pc = "wait"
  BY DEF AskTool, Quiet, Still, Running
<1>2. Live /\ calls \in Seq(CallRecord) /\ stream \in StreamRecord /\ stream.calls \in Seq(NamedRecord)
  BY <1>1 DEF Live, TrialType, StreamRecord
<1>3. PICK id \in Nat, tool \in Tools :
         /\ calls' = Append(calls, NewCall(id, tool))
         /\ IF Gated THEN Prints([Line("call") EXCEPT !.id = id, !.tool = tool]) ELSE UNCHANGED <<due, stream>>
  <2>1. Len(calls) \in Nat
    BY <1>2
  <2>2. (IF Gated THEN {Len(calls) + 1} ELSE 1..(Len(calls) + 1)) \subseteq Nat
    BY <2>1
  <2>3. {"ref", "shell"} \union (IF trial.adapter = "cursor" THEN {"meta"} ELSE {}) \subseteq Tools
    BY DEF Tools
  <2> QED
    BY <2>2, <2>3 DEF AskTool
<1>4. NewCall(id, tool) \in CallRecord /\ NewCall(id, tool).told = Gated /\ NewCall(id, tool).stage # "told"
      /\ NewCall(id, tool).id = id /\ NewCall(id, tool).tool = tool
  BY DEF NewCall, CallRecord, Tools, Gated
<1>5. /\ Len(calls') = Len(calls) + 1 /\ DOMAIN calls' = DOMAIN calls \cup {Len(calls) + 1}
      /\ Len(calls) + 1 \notin DOMAIN calls
      /\ \A d \in DOMAIN calls : calls'[d] = calls[d]
      /\ calls'[Len(calls) + 1] = NewCall(id, tool)
  BY <1>2, <1>3, <1>4, CallAdded
<1>6. CASE Gated
  <2> DEFINE l == [Line("call") EXCEPT !.id = id, !.tool = tool]
  <2>1. l \in LineRecord /\ l.kind = "call" /\ l.id = id /\ l.tool = tool
    <3>1. cli \in ClientRecord
      BY DEF TrialType
    <3>2. Line("call") \in LineRecord /\ Line("call").kind = "call"
      BY <3>1 DEF Line, LineRecord, ClientRecord
    <3> QED
      BY <3>2 DEF LineRecord
  <2>2. Prints(l)
    BY <1>3, <1>6
  <2> HIDE DEF l
  <2>3. Taken(l)
    BY <2>1, <2>2, LinesAreRead DEF Live
  <2>4. stream'.calls = Append(stream.calls, Named(l)) /\ stream'.returned = stream.returned
    BY <1>2, <2>1, <2>3, TakenCalls
  <2>5. Returned' = Returned
    BY <1>4, <1>5 DEF Returned
  <2>6. Len(stream.calls) = Len(calls) /\ (\A k \in DOMAIN calls : calls[k].told /\ stream.calls[k] = Named(calls[k]))
        /\ stream.returned = Cardinality(Returned)
    BY <1>2, <1>6 DEF CountInv, Gated
  <2>7. Named(l) = Named(NewCall(id, tool)) /\ Named(l) \in NamedRecord
    BY <1>4, <2>1 DEF Named, NamedRecord
  <2>8. Len(stream'.calls) = Len(calls')
    BY <1>2, <1>5, <2>4, <2>6, <2>7
  <2>9. ASSUME NEW k \in DOMAIN calls'
        PROVE  calls'[k].told /\ stream'.calls[k] = Named(calls'[k])
    <3>1. CASE k \in DOMAIN calls
      <4>1. k \in DOMAIN stream.calls
        BY <1>2, <2>6, <3>1
      <4>2. stream'.calls[k] = stream.calls[k]
        BY <1>2, <2>4, <2>7, <4>1
      <4> QED
        BY <1>5, <2>6, <3>1, <4>2
    <3>2. CASE k = Len(calls) + 1
      <4>1. stream'.calls[k] = Named(l)
        BY <1>2, <2>4, <2>6, <2>7, <3>2
      <4> QED
        BY <1>4, <1>5, <1>6, <2>7, <3>2, <4>1
    <3> QED
      BY <1>5, <3>1, <3>2
  <2>10. trial'.adapter = "agy"
    BY <1>1, <1>6 DEF Gated
  <2> QED
    BY <2>4, <2>5, <2>6, <2>8, <2>9, <2>10 DEF CountInv
<1>7. CASE ~Gated
  <2>1. stream' = stream /\ ~NewCall(id, tool).told /\ trial.adapter # "agy"
    BY <1>3, <1>4, <1>7 DEF Gated
  <2>2. Told' = Told
    BY <1>5, <2>1 DEF Told
  <2>3. \A d \in DOMAIN calls' : calls'[d].told => d \in DOMAIN calls /\ calls'[d] = calls[d]
    BY <1>5, <2>1
  <2>4. /\ stream.count = Cardinality(Told)
        /\ trial.adapter = "kimi" => Cardinality(Ids(stream)) = stream.count
        /\ trial.adapter \in {"kimi", "cursor"} =>
              /\ stream.count <= trial.max
              /\ \A c \in DOMAIN calls :
                    calls[c].told => IF calls[c].tool = "meta" THEN trial.tools # {} ELSE calls[c].tool \in trial.tools
        /\ trial.adapter = "claude" =>
              \A c \in DOMAIN calls : calls[c].told => \E k \in DOMAIN stream.calls : stream.calls[k].tool = calls[c].tool
        /\ trial.adapter = "codex" => \A c \in DOMAIN calls : ~calls[c].told
    BY <1>2, <2>1 DEF CountInv
  <2>5. /\ stream'.count = Cardinality(Told')
        /\ trial'.adapter = "kimi" => Cardinality(Ids(stream')) = stream'.count
    BY <1>1, <2>1, <2>2, <2>4
  <2>6. trial'.adapter \in {"kimi", "cursor"} =>
              /\ stream'.count <= trial'.max
              /\ \A c \in DOMAIN calls' :
                    calls'[c].told => IF calls'[c].tool = "meta" THEN trial'.tools # {} ELSE calls'[c].tool \in trial'.tools
    BY <1>1, <2>1, <2>3, <2>4
  <2>7. trial'.adapter = "claude" =>
           \A c \in DOMAIN calls' : calls'[c].told => \E k \in DOMAIN stream'.calls : stream'.calls[k].tool = calls'[c].tool
    BY <1>1, <2>1, <2>3, <2>4
  <2>8. trial'.adapter = "codex" => \A c \in DOMAIN calls' : ~calls'[c].told
    BY <1>1, <2>3, <2>4
  <2> QED
    BY <1>1, <2>1, <2>5, <2>6, <2>7, <2>8 DEF CountInv
<1> QED
  BY <1>6, <1>7

\* AGY's client reports each result once, and a call that was denied it cannot report as one.
LEMMA ResultIsCounted ==
    ASSUME TrialType, CountInv, TellResult
    PROVE  CountInv'
<1> SUFFICES ASSUME Live' PROVE CountInv'
  BY DEF CountInv
<1>1. PICK c \in DOMAIN calls :
         /\ calls[c].told /\ calls[c].stage \in {"answered", "denied"}
         /\ Prints(CallLine(IF Gated /\ calls[c].stage = "denied" THEN "failed" ELSE "result", c))
         /\ calls' = [calls EXCEPT ![c].stage = "told"]
  BY DEF TellResult
<1> DEFINE kind == IF Gated /\ calls[c].stage = "denied" THEN "failed" ELSE "result"
           l == CallLine(kind, c)
<1>2. kind \in {"failed", "result"}
  OBVIOUS
<1>3. l \in LineRecord /\ l.kind = kind
  BY <1>2, ToolLine
<1>4. Prints(l)
  BY <1>1
<1> HIDE DEF l
<1>5. trial' = trial /\ pc' = pc
  BY DEF TellResult, Quiet, Still
<1>6. pc = "wait" /\ stream.fault = "none" /\ Taken(l) /\ Live
  BY <1>2, <1>3, <1>4, <1>5, LinesAreRead DEF Live
<1>7. calls \in Seq(CallRecord) /\ stream \in StreamRecord
  BY DEF TrialType
<1>8. /\ Len(calls') = Len(calls) /\ DOMAIN calls' = DOMAIN calls
      /\ \A d \in DOMAIN calls :
            /\ calls'[d].id = calls[d].id /\ calls'[d].tool = calls[d].tool /\ calls'[d].told = calls[d].told
            /\ calls'[d].stage = IF d = c THEN "told" ELSE calls[d].stage
  BY <1>1, <1>7, StageMoves DEF Stages
<1>9. /\ stream'.calls = stream.calls /\ stream'.count = stream.count
      /\ stream'.returned = IF l.kind = "result" /\ trial.adapter = "agy" THEN stream.returned + 1 ELSE stream.returned
  BY <1>2, <1>3, <1>6, <1>7, TakenCalls
<1>10. CASE trial.adapter # "agy"
  BY <1>5, <1>6, <1>8, <1>9, <1>10, CountKept
<1>11. CASE trial.adapter = "agy"
  <2>1. l.kind = "result"
    BY <1>2, <1>3, <1>6, <1>11 DEF Taken, Takes, AgyTakes
  <2>2. c \notin Returned /\ Returned' = Returned \cup {c} /\ Returned \subseteq DOMAIN calls
    BY <1>1, <1>8 DEF Returned
  <2>3. IsFiniteSet(Returned)
    BY <1>7, <2>2, CallSets
  <2>4. Cardinality(Returned') = Cardinality(Returned) + 1
    BY <2>2, <2>3, FS_AddElement
  <2>5. Len(stream.calls) = Len(calls) /\ (\A k \in DOMAIN calls : calls[k].told /\ stream.calls[k] = Named(calls[k]))
        /\ stream.returned = Cardinality(Returned)
    BY <1>6, <1>11 DEF CountInv
  <2>6. \A k \in DOMAIN calls : Named(calls'[k]) = Named(calls[k])
    BY <1>8 DEF Named
  <2>7. stream'.returned = Cardinality(Returned')
    BY <1>9, <1>11, <2>1, <2>4, <2>5
  <2> QED
    BY <1>5, <1>8, <1>9, <1>11, <2>5, <2>6, <2>7 DEF CountInv
<1> QED
  BY <1>10, <1>11

-----------------------------------------------------------------------------
\* Most steps of a call leave alone the one that is being served, and take none back.
LEMMA FetchKept ==
    ASSUME FetchInv, bridge \in BridgeRecord, calls' \in Seq(CallRecord), trial' = trial,
           bridge'.busy = bridge.busy, bridge'.upstream = bridge.upstream, bridge'.served = bridge.served,
           DOMAIN calls \subseteq DOMAIN calls',
           \A c \in DOMAIN calls :
              /\ calls'[c].tool = calls[c].tool
              /\ calls[c].stage \notin {"asked", "sent"} => calls'[c].stage \notin {"asked", "sent"}
              /\ c = bridge.busy => calls'[c].stage = calls[c].stage
    PROVE  FetchInv'
<1>1. Tried \subseteq Tried' /\ Tried' \subseteq DOMAIN calls'
  BY DEF Tried
<1>2. IsFiniteSet(Tried') /\ Cardinality(Tried') \in Nat
  BY <1>1, CallSets
<1>3. Cardinality(Tried) <= Cardinality(Tried') /\ Cardinality(Tried) \in Nat
  BY <1>1, <1>2, FS_Subset, FS_CardinalityType
<1>4. bridge.upstream \in Nat /\ bridge.upstream <= Cardinality(Tried)
  BY DEF FetchInv, BridgeRecord
<1>5. bridge'.upstream <= Cardinality(Tried')
  BY <1>2, <1>3, <1>4
<1> QED
  BY <1>5 DEF FetchInv

\* The bridge's account depends on the calls and the bridge alone.
LEMMA FetchSame ==
    ASSUME FetchInv, trial' = trial, calls' = calls, bridge' = bridge
    PROVE  FetchInv'
<1>1. Tried' = Tried
  BY DEF Tried
<1> QED
  BY <1>1 DEF FetchInv

\* What hooks and lookups do to the calls.
LEMMA StagesOnly ==
    ASSUME TrialType, FetchInv, Hook \/ Begin \/ End \/ Fail
    PROVE  /\ calls' \in Seq(CallRecord) /\ Len(calls') = Len(calls) /\ DOMAIN calls' = DOMAIN calls
           /\ \A c \in DOMAIN calls :
                 /\ calls'[c].id = calls[c].id /\ calls'[c].tool = calls[c].tool /\ calls'[c].told = calls[c].told
                 /\ calls'[c].stage = "told" <=> calls[c].stage = "told"
                 /\ calls[c].stage \notin {"asked", "sent"} => calls'[c].stage \notin {"asked", "sent"}
           /\ DOMAIN calls # {}
           /\ UNCHANGED <<trial, pc, world, seen, stream, result>>
<1>1. calls \in Seq(CallRecord)
  BY DEF TrialType
<1>2. UNCHANGED <<trial, pc, world, seen, stream, result>>
  BY DEF Hook, Begin, End, Fail
<1>3. \E c \in DOMAIN calls, s \in Stages :
         /\ calls' = [calls EXCEPT ![c].stage = s] \/ calls' = calls
         /\ calls[c].stage # "told" /\ s # "told"
         /\ calls[c].stage \notin {"asked", "sent"} => s \notin {"asked", "sent"}
  <2>1. CASE Hook
    <3>1. PICK c \in DOMAIN calls :
             /\ calls[c].stage = "asked"
             /\ \/ calls' = [calls EXCEPT ![c].stage = IF Decide(calls[c].tool) THEN "sent" ELSE "denied"]
                \/ calls' = [calls EXCEPT ![c].stage = "denied"]
      BY <2>1 DEF Hook
    <3>2. \E s \in {"sent", "denied"} : calls' = [calls EXCEPT ![c].stage = s]
      BY <3>1
    <3> QED
      BY <3>1, <3>2 DEF Stages
  <2>2. CASE Begin
    <3>1. PICK c \in DOMAIN calls :
             /\ calls[c].stage = "sent"
             /\ \/ calls' = [calls EXCEPT ![c].stage = IF Gated THEN "failed" ELSE "answered"]
                \/ calls' = calls
      BY <2>2 DEF Begin
    <3>2. \E s \in {"failed", "answered"} : calls' = [calls EXCEPT ![c].stage = s] \/ calls' = calls
      BY <3>1
    <3> QED
      BY <3>1, <3>2 DEF Stages
  <2>3. CASE End
    <3>1. bridge.busy # 0
      BY <2>3 DEF End
    <3>2. bridge.busy \in DOMAIN calls /\ calls[bridge.busy].stage = "sent"
      BY <3>1 DEF FetchInv
    <3>3. \E s \in {"failed", "answered"} : calls' = [calls EXCEPT ![bridge.busy].stage = s]
      BY <2>3 DEF End
    <3> QED
      BY <3>2, <3>3 DEF Stages
  <2>4. CASE Fail
    <3>1. PICK c \in DOMAIN calls : calls[c].stage = "failed" /\ calls' = [calls EXCEPT ![c].stage = "denied"]
      BY <2>4 DEF Fail
    <3> QED
      BY <3>1 DEF Stages
  <2> QED
    BY <2>1, <2>2, <2>3, <2>4
<1>4. PICK c \in DOMAIN calls, s \in Stages :
         /\ calls' = [calls EXCEPT ![c].stage = s] \/ calls' = calls
         /\ calls[c].stage # "told" /\ s # "told"
         /\ calls[c].stage \notin {"asked", "sent"} => s \notin {"asked", "sent"}
  BY <1>3
<1>5. CASE calls' = [calls EXCEPT ![c].stage = s]
  BY <1>1, <1>2, <1>4, <1>5, StageMoves
<1>6. CASE calls' = calls
  BY <1>1, <1>2, <1>6
<1> QED
  BY <1>4, <1>5, <1>6

\* A lookup that begins keeps the account of the bridge.
LEMMA BeginFetches ==
    ASSUME TrialType, FetchInv, Begin
    PROVE  FetchInv' /\ bridge' \in BridgeRecord
<1>1. PICK c \in DOMAIN calls :
         /\ calls[c].stage = "sent"
         /\ IF Rejects \/ calls[c].tool \notin trial.tools \/ bridge.count >= trial.max
            THEN /\ calls' = [calls EXCEPT ![c].stage = IF Gated THEN "failed" ELSE "answered"]
                 /\ UNCHANGED bridge
            ELSE /\ bridge' = [bridge EXCEPT !.busy = c, !.count = @ + 1, !.upstream = @ + 1]
                 /\ UNCHANGED calls
  BY DEF Begin
<1>2. bridge.busy = 0 /\ trial' = trial /\ bridge \in BridgeRecord /\ calls \in Seq(CallRecord)
  BY DEF Begin, TrialType
<1>3. 0 \notin DOMAIN calls
  BY <1>2
<1>4. CASE UNCHANGED bridge
  <2>1. /\ calls' \in Seq(CallRecord) /\ DOMAIN calls' = DOMAIN calls
        /\ \A d \in DOMAIN calls :
              /\ calls'[d].tool = calls[d].tool
              /\ calls[d].stage \notin {"asked", "sent"} => calls'[d].stage \notin {"asked", "sent"}
    BY StagesOnly
  <2> QED
    BY <1>2, <1>3, <1>4, <2>1, FetchKept
<1>5. CASE /\ bridge' = [bridge EXCEPT !.busy = c, !.count = @ + 1, !.upstream = @ + 1]
           /\ UNCHANGED calls /\ calls[c].tool \in trial.tools
  <2>1. /\ bridge'.busy = c /\ bridge'.upstream = bridge.upstream + 1 /\ bridge'.served = bridge.served
        /\ bridge' \in BridgeRecord
    <3>1. c \in Nat
      BY <1>2
    <3>2. bridge.count + 1 \in Nat /\ bridge.upstream + 1 \in Nat
      BY <1>2 DEF BridgeRecord
    <3>3. bridge'.busy = c /\ bridge'.upstream = bridge.upstream + 1 /\ bridge'.served = bridge.served
      BY <1>2, <1>5 DEF BridgeRecord
    <3>4. bridge' \in BridgeRecord
      BY <1>2, <1>5, <3>1, <3>2 DEF BridgeRecord
    <3> QED
      BY <3>3, <3>4
  <2>2. calls[c].tool = "ref"
    BY <1>5, TrialsAssumption DEF TrialType
  <2>3. c \notin Tried /\ Tried' = Tried \cup {c} /\ Tried \subseteq DOMAIN calls
    BY <1>1, <1>2, <1>3, <1>5, <2>1, <2>2 DEF Tried
  <2>4. IsFiniteSet(Tried) /\ Cardinality(Tried) \in Nat
    BY <1>2, <2>3, CallSets
  <2>5. Cardinality(Tried') = Cardinality(Tried) + 1
    BY <2>3, <2>4, FS_AddElement
  <2>6. bridge.upstream \in Nat /\ bridge.upstream <= Cardinality(Tried) /\ Len(bridge.served) <= bridge.upstream
        /\ Len(bridge.served) \in Nat
    BY <1>2 DEF FetchInv, BridgeRecord
  <2>7. bridge'.upstream <= Cardinality(Tried')
    BY <2>1, <2>4, <2>5, <2>6
  <2>8. Len(bridge'.served) + (IF bridge'.busy = 0 THEN 0 ELSE 1) <= bridge'.upstream
    <3>1. bridge'.busy # 0
      BY <1>3, <2>1
    <3>2. Len(bridge'.served) + 1 <= bridge'.upstream
      BY <2>1, <2>6
    <3> QED
      BY <3>1, <3>2
  <2>9. bridge'.busy # 0 => /\ bridge'.busy \in DOMAIN calls' /\ calls'[bridge'.busy].stage = "sent"
                            /\ calls'[bridge'.busy].tool \in trial'.tools
    BY <1>1, <1>2, <1>5, <2>1
  <2>10. \A k \in DOMAIN bridge'.served : bridge'.served[k].tool \in trial'.tools
    BY <1>2, <2>1 DEF FetchInv
  <2> QED
    BY <2>1, <2>7, <2>8, <2>9, <2>10 DEF FetchInv
<1> QED
  BY <1>1, <1>4, <1>5

\* So does a lookup that ends, whatever came of it.
LEMMA EndFetches ==
    ASSUME TrialType, FetchInv, End
    PROVE  FetchInv' /\ bridge' \in BridgeRecord
<1> DEFINE c == bridge.busy
<1>1. /\ c # 0 /\ c \in DOMAIN calls /\ calls[c].stage = "sent" /\ calls[c].tool \in trial.tools
      /\ trial' = trial /\ bridge \in BridgeRecord /\ calls \in Seq(CallRecord) /\ calls[c] \in CallRecord
  BY DEF End, FetchInv, TrialType
<1>2. /\ calls' \in Seq(CallRecord) /\ DOMAIN calls' = DOMAIN calls
      /\ \A d \in DOMAIN calls :
            /\ calls'[d].tool = calls[d].tool
            /\ calls[d].stage \notin {"asked", "sent"} => calls'[d].stage \notin {"asked", "sent"}
  BY StagesOnly
<1>3. calls'[c].stage \in {"answered", "failed"}
  <2>1. PICK s \in {"answered", "failed"} : calls' = [calls EXCEPT ![c].stage = s]
    BY DEF End
  <2>2. s \in Stages
    BY DEF Stages
  <2>3. [calls EXCEPT ![c].stage = s][c].stage = s
    BY <1>1 DEF CallRecord
  <2> QED
    BY <2>1, <2>3
<1>4. /\ bridge'.busy = 0 /\ bridge'.upstream = bridge.upstream /\ bridge' \in BridgeRecord
      /\ \/ bridge'.served = bridge.served
         \/ bridge'.served = Append(bridge.served, [id |-> calls[c].id, tool |-> calls[c].tool])
  <2>1. bridge.served \in Seq(NamedRecord)
    BY <1>1 DEF BridgeRecord
  <2>2. [id |-> calls[c].id, tool |-> calls[c].tool] \in NamedRecord
    BY <1>1 DEF CallRecord, NamedRecord
  <2>3. PICK served \in Seq(NamedRecord) :
           /\ \/ served = bridge.served
              \/ served = Append(bridge.served, [id |-> calls[c].id, tool |-> calls[c].tool])
           /\ bridge' = [bridge EXCEPT !.busy = 0, !.served = served]
    <3>1. CASE bridge' = [bridge EXCEPT !.busy = 0]
      <4>1. bridge' = [bridge EXCEPT !.busy = 0, !.served = bridge.served]
        BY <1>1, <3>1 DEF BridgeRecord
      <4> QED
        BY <2>1, <4>1
    <3>2. CASE bridge' = [bridge EXCEPT !.busy = 0, !.served =
                             IF Gated THEN Append(@, [id |-> calls[c].id, tool |-> calls[c].tool]) ELSE @]
      <4>1. CASE Gated
        <5> DEFINE r == [id |-> calls[c].id, tool |-> calls[c].tool]
        <5>1. bridge' = [bridge EXCEPT !.busy = 0, !.served = Append(bridge.served, r)]
          BY <3>2, <4>1
        <5>2. r \in NamedRecord
          BY <2>2
        <5> HIDE DEF r
        <5>3. Append(bridge.served, r) \in Seq(NamedRecord)
          BY <2>1, <5>2
        <5> QED
          BY <5>1, <5>3 DEF r
      <4>2. CASE ~Gated
        BY <2>1, <3>2, <4>2
      <4> QED
        BY <4>1, <4>2
    <3> QED
      BY <3>1, <3>2 DEF End
  <2> QED
    BY <1>1, <2>3 DEF BridgeRecord
<1>5. Tried \subseteq Tried' /\ Tried' \subseteq DOMAIN calls'
  BY <1>1, <1>2, <1>3, <1>4 DEF Tried
<1>6. IsFiniteSet(Tried') /\ Cardinality(Tried') \in Nat
  BY <1>2, <1>5, CallSets
<1>7. Cardinality(Tried) <= Cardinality(Tried') /\ Cardinality(Tried) \in Nat
  BY <1>5, <1>6, FS_Subset, FS_CardinalityType
<1>8. bridge.upstream \in Nat /\ bridge.upstream <= Cardinality(Tried) /\ Len(bridge.served) + 1 <= bridge.upstream
      /\ bridge.served \in Seq(NamedRecord)
  BY <1>1 DEF FetchInv, BridgeRecord
<1>9. bridge'.upstream <= Cardinality(Tried')
  BY <1>4, <1>6, <1>7, <1>8
<1>10. Len(bridge'.served) + (IF bridge'.busy = 0 THEN 0 ELSE 1) <= bridge'.upstream
  <2>1. Len(bridge'.served) <= Len(bridge.served) + 1
    BY <1>4, <1>8
  <2> QED
    BY <1>4, <1>8, <2>1 DEF BridgeRecord
<1>11. \A k \in DOMAIN bridge'.served : bridge'.served[k].tool \in trial'.tools
  <2>1. \A k \in DOMAIN bridge.served : bridge.served[k].tool \in trial.tools
    BY DEF FetchInv
  <2>2. CASE bridge'.served = bridge.served
    BY <1>1, <2>1, <2>2
  <2>3. CASE bridge'.served = Append(bridge.served, [id |-> calls[c].id, tool |-> calls[c].tool])
    <3> DEFINE r == [id |-> calls[c].id, tool |-> calls[c].tool]
    <3>1. r.tool \in trial.tools
      BY <1>1
    <3> HIDE DEF r
    <3>2. bridge'.served = Append(bridge.served, r)
      BY <2>3 DEF r
    <3>3. \A k \in DOMAIN bridge'.served : (k \in DOMAIN bridge.served /\ bridge'.served[k] = bridge.served[k])
                                           \/ bridge'.served[k] = r
      BY <1>8, <3>2
    <3> QED
      BY <1>1, <2>1, <3>1, <3>3
  <2> QED
    BY <1>4, <2>2, <2>3
<1> QED
  BY <1>4, <1>9, <1>10, <1>11 DEF FetchInv

-----------------------------------------------------------------------------
\* While the client runs nothing is asked of the end.
LEMMA WaitKeeps ==
    ASSUME StartInv, pc = "wait", pc' = "wait", cli'.state = "running", cli'.version = cli.version,
           UNCHANGED <<installed, seen>>
    PROVE  StartInv' /\ ExitInv'
BY DEF StartInv, ExitInv

\* What is due is kept while the client and the parser stay as they are.
LEMMA ReportSame ==
    ASSUME ReportInv, Live' => Live /\ UNCHANGED <<trial, cli, due, stream>>
    PROVE  ReportInv'
BY DEF ReportInv, Known, KnownModels, Underway

\* The account of the calls is kept while the calls and the parser stay as they are.
LEMMA CountSame ==
    ASSUME CountInv, trial' = trial, calls' = calls, Live' => Live /\ stream' = stream
    PROVE  CountInv'
BY CountKept

\* The types are kept by a step that keeps those of all it changes.
LEMMA TypeKept ==
    ASSUME TrialType, trial' = trial, pc' \in IF trial.adapter \in Streaming THEN NativePcs ELSE HttpPcs,
           calls' \in Seq(CallRecord), bridge' \in BridgeRecord, stream' \in StreamRecord,
           cli' \in ClientRecord, 1 \in cli'.sessions, cli'.session \in cli'.sessions, Model \in cli'.models,
           UNCHANGED <<installed, seen>>,
           \A c \in DOMAIN calls' : calls'[c].tool = "meta" => trial.adapter = "cursor",
           pc' \notin {"closing", "done"} => result' = Pending
    PROVE  TrialType'
BY DEF TrialType

\* What a client says of itself keeps the invariant.
LEMMA SpeaksKeeps ==
    ASSUME TrialType, NativeInv, Speaks
    PROVE  TrialType' /\ NativeInv'
<1>1. PICK l \in LineRecord : /\ Prints(l) /\ Spoken(l) /\ l.kind \notin {"call", "result"}
                              /\ \/ cli' = cli
                                 \/ l.kind = "retry" /\ cli' = [cli EXCEPT !.repeated = TRUE]
  BY SpeaksPlainly
<1>2. UNCHANGED <<trial, pc, installed, seen, calls, bridge, result>>
  BY SpeaksPlainly
<1>3. pc = "wait" /\ cli.state = "running" /\ stream' \in StreamRecord
  BY <1>1, LinesAreRead
<1>4. /\ cli' \in ClientRecord /\ cli'.sessions = cli.sessions /\ cli'.session = cli.session
      /\ cli'.models = cli.models /\ cli'.state = cli.state /\ cli'.version = cli.version
  <2>1. cli \in ClientRecord
    BY DEF TrialType
  <2>2. cli' = cli \/ cli' = [cli EXCEPT !.repeated = TRUE]
    BY <1>1
  <2> QED
    BY <2>1, <2>2 DEF ClientRecord
<1>5. TrialType'
  BY <1>2, <1>3, <1>4, TypeKept DEF TrialType
<1>6. StartInv' /\ ExitInv'
  BY <1>2, <1>3, <1>4, WaitKeeps DEF NativeInv
<1>7. FetchInv'
  BY <1>2, FetchSame DEF NativeInv
<1>8. ReportInv'
  BY <1>1, <1>2, LineReported DEF NativeInv
<1>9. CountInv'
  BY SpeaksOfNoCall DEF NativeInv
<1> QED
  BY <1>5, <1>6, <1>7, <1>8, <1>9 DEF NativeInv

\* So does a client that changes its session or its model,
LEMMA DriftKeeps ==
    ASSUME TrialType, NativeInv, Drift
    PROVE  TrialType' /\ NativeInv'
<1>1. /\ pc = "wait" /\ cli.state = "running" /\ stream.opened /\ (Gated => stream.turn)
      /\ UNCHANGED <<trial, pc, installed, seen, calls, bridge, result, stream>>
  BY DEF Drift, Running, Still
<1>2. cli \in ClientRecord /\ 1 \in cli.sessions /\ cli.session \in cli.sessions /\ Model \in cli.models
  BY DEF TrialType
<1>3. \/ /\ cli' = [cli EXCEPT !.session = 2, !.sessions = {1, 2}] /\ due' = due \cup {2}
      \/ /\ cli' = [cli EXCEPT !.model = Fallback, !.models = @ \cup {Fallback}] /\ due' = due \cup {Fallback}
  BY DEF Drift
<1>4. /\ cli' \in ClientRecord /\ 1 \in cli'.sessions /\ cli'.session \in cli'.sessions /\ Model \in cli'.models
      /\ cli'.state = cli.state /\ cli'.version = cli.version /\ cli'.repeated = cli.repeated
      /\ cli'.sessions \subseteq cli.sessions \cup due' /\ cli'.models \subseteq cli.models \cup due' /\ due \subseteq due'
  <2>1. CASE cli' = [cli EXCEPT !.session = 2, !.sessions = {1, 2}] /\ due' = due \cup {2}
    BY <1>2, <2>1 DEF ClientRecord
  <2>2. CASE cli' = [cli EXCEPT !.model = Fallback, !.models = @ \cup {Fallback}] /\ due' = due \cup {Fallback}
    <3>1. cli.models \cup {Fallback} \in SUBSET {Model, Fallback}
      BY <1>2 DEF ClientRecord
    <3>2. /\ cli'.models = cli.models \cup {Fallback} /\ cli'.sessions = cli.sessions /\ cli'.session = cli.session
          /\ cli'.state = cli.state /\ cli'.version = cli.version /\ cli'.repeated = cli.repeated
      BY <1>2, <2>2 DEF ClientRecord
    <3>3. cli' \in ClientRecord
      BY <1>2, <2>2, <3>1 DEF ClientRecord
    <3> QED
      BY <1>2, <2>2, <3>2, <3>3
  <2> QED
    BY <1>3, <2>1, <2>2
<1>5. TrialType'
  BY <1>1, <1>4, TypeKept DEF TrialType
<1>6. StartInv' /\ ExitInv'
  BY <1>1, <1>4, WaitKeeps DEF NativeInv
<1>7. FetchInv' /\ CountInv'
  BY <1>1, FetchSame, CountSame DEF NativeInv, Live
<1>8. ReportInv'
  <2>1. Underway /\ Underway' /\ Known' = Known /\ KnownModels' = KnownModels /\ (Live' => Live)
    BY <1>1 DEF Underway, Gated, Known, KnownModels, Live
  <2>2. Live => /\ cli.sessions \ Known \subseteq due
                /\ trial.adapter \in {"kimi", "claude"} => cli.models \ KnownModels \subseteq due
                /\ trial.adapter \in {"kimi", "codex", "agy"} => ~cli.repeated
                /\ trial.adapter = "kimi" /\ stream.opened => stream.version = cli.version
    BY <2>1 DEF NativeInv, ReportInv
  <2> QED
    BY <1>1, <1>4, <2>1, <2>2 DEF ReportInv
<1> QED
  BY <1>5, <1>6, <1>7, <1>8 DEF NativeInv

\* one that asks for a tool,
LEMMA AskToolKeeps ==
    ASSUME TrialType, NativeInv, AskTool
    PROVE  TrialType' /\ NativeInv'
<1>1. /\ pc = "wait" /\ cli.state = "running"
      /\ UNCHANGED <<trial, pc, installed, seen, cli, bridge, result>>
  BY DEF AskTool, Running, Quiet, Still
<1>2. PICK id \in Nat, tool \in {"ref", "shell"} \cup (IF trial.adapter = "cursor" THEN {"meta"} ELSE {}) :
         /\ calls' = Append(calls, NewCall(id, tool))
         /\ IF Gated THEN Prints([Line("call") EXCEPT !.id = id, !.tool = tool]) ELSE UNCHANGED <<due, stream>>
  <2>1. Len(calls) \in Nat
    BY DEF TrialType
  <2>2. (IF Gated THEN {Len(calls) + 1} ELSE 1..(Len(calls) + 1)) \subseteq Nat
    BY <2>1
  <2> QED
    BY <2>2 DEF AskTool
<1>3. tool \in Tools /\ (tool = "meta" => trial.adapter = "cursor")
  BY DEF Tools
<1>4. NewCall(id, tool) \in CallRecord /\ NewCall(id, tool).tool = tool
  BY <1>3 DEF NewCall, CallRecord, Gated
<1>5. calls \in Seq(CallRecord) /\ bridge \in BridgeRecord
  BY DEF TrialType
<1>6. /\ calls' \in Seq(CallRecord) /\ DOMAIN calls' = DOMAIN calls \cup {Len(calls) + 1}
      /\ \A d \in DOMAIN calls : calls'[d] = calls[d]
      /\ calls'[Len(calls) + 1] = NewCall(id, tool)
  BY <1>2, <1>4, <1>5, CallAdded
<1>7. stream' \in StreamRecord /\ ReportInv'
  <2>1. CASE Gated
    <3> DEFINE l == [Line("call") EXCEPT !.id = id, !.tool = tool]
    <3>1. l \in LineRecord /\ l.kind = "call" /\ l.tool = tool /\ Spoken(l)
      <4>1. cli \in ClientRecord
        BY DEF TrialType
      <4>2. /\ Line("call") \in LineRecord /\ Line("call").kind = "call"
            /\ Line("call").session = cli.session /\ Line("call").model = cli.model /\ Line("call").version = cli.version
        BY <4>1 DEF Line, LineRecord, ClientRecord
      <4>3. /\ l \in LineRecord /\ l.kind = "call" /\ l.tool = tool
            /\ l.session = cli.session /\ l.model = cli.model /\ l.version = cli.version
        BY <1>3, <4>2 DEF LineRecord
      <4> QED
        BY <4>3 DEF Spoken
    <3>2. Prints(l)
      BY <1>2, <2>1
    <3> HIDE DEF l
    <3> QED
      BY <1>1, <1>3, <3>1, <3>2, LinesAreRead, LineReported DEF NativeInv
  <2>2. CASE ~Gated
    <3>1. stream' = stream /\ due' = due
      BY <1>2, <2>2
    <3> QED
      BY <1>1, <3>1, ReportSame DEF TrialType, NativeInv, Live
  <2> QED
    BY <2>1, <2>2
<1>8. TrialType'
  <2>1. \A c \in DOMAIN calls' : calls'[c].tool = "meta" => trial.adapter = "cursor"
    BY <1>3, <1>4, <1>6 DEF TrialType
  <2> QED
    BY <1>1, <1>5, <1>6, <1>7, <2>1, TypeKept DEF TrialType
<1>9. StartInv' /\ ExitInv'
  BY <1>1, WaitKeeps DEF NativeInv
<1>10. FetchInv'
  BY <1>1, <1>5, <1>6, FetchKept DEF NativeInv
<1>11. CountInv'
  BY AskIsCounted DEF NativeInv
<1> QED
  BY <1>7, <1>8, <1>9, <1>10, <1>11 DEF NativeInv

\* one that tells of a call,
LEMMA TellKeeps ==
    ASSUME TrialType, NativeInv, Tell
    PROVE  TrialType' /\ NativeInv'
<1>1. PICK c \in DOMAIN calls : /\ ~calls[c].told /\ Prints(CallLine("call", c))
                                /\ calls' = [calls EXCEPT ![c].told = TRUE]
  BY DEF Tell
<1>2. UNCHANGED <<trial, pc, installed, seen, cli, bridge, result>>
  BY DEF Tell, Quiet, Still
<1> DEFINE l == CallLine("call", c)
<1>3. l \in LineRecord /\ l.tool \in Tools /\ Spoken(l) /\ l.kind = "call"
  BY ToolLine
<1>4. Prints(l)
  BY <1>1
<1> HIDE DEF l
<1>5. pc = "wait" /\ cli.state = "running" /\ stream' \in StreamRecord /\ stream.fault = "none"
  BY <1>3, <1>4, LinesAreRead
<1>6. calls \in Seq(CallRecord) /\ bridge \in BridgeRecord
  BY DEF TrialType
<1>7. /\ calls' \in Seq(CallRecord) /\ DOMAIN calls' = DOMAIN calls
      /\ \A d \in DOMAIN calls : calls'[d].tool = calls[d].tool /\ calls'[d].stage = calls[d].stage
  BY <1>1, <1>6, ToldMoves
<1>8. TrialType'
  <2>1. \A d \in DOMAIN calls' : calls'[d].tool = "meta" => trial.adapter = "cursor"
    BY <1>7 DEF TrialType
  <2> QED
    BY <1>2, <1>5, <1>6, <1>7, <2>1, TypeKept DEF TrialType
<1>9. StartInv' /\ ExitInv'
  BY <1>2, <1>5, WaitKeeps DEF NativeInv
<1>10. FetchInv'
  BY <1>2, <1>6, <1>7, FetchKept DEF NativeInv
<1>11. ReportInv'
  BY <1>2, <1>3, <1>4, LineReported DEF NativeInv
<1>12. CountInv'
  <2>1. CASE ~Gated
    BY <1>1, <1>2, <2>1, CallIsCounted DEF NativeInv
  <2>2. CASE Gated
    <3>1. Live /\ trial.adapter = "agy"
      BY <1>5, <2>2 DEF Live, Gated
    <3> QED
      BY <1>1, <3>1 DEF NativeInv, CountInv
  <2> QED
    BY <2>1, <2>2
<1> QED
  BY <1>8, <1>9, <1>10, <1>11, <1>12 DEF NativeInv

\* one that tells of a result,
LEMMA TellResultKeeps ==
    ASSUME TrialType, NativeInv, TellResult
    PROVE  TrialType' /\ NativeInv'
<1>1. PICK c \in DOMAIN calls :
         /\ calls[c].told /\ calls[c].stage \in {"answered", "denied"}
         /\ Prints(CallLine(IF Gated /\ calls[c].stage = "denied" THEN "failed" ELSE "result", c))
         /\ calls' = [calls EXCEPT ![c].stage = "told"]
  BY DEF TellResult
<1> DEFINE kind == IF Gated /\ calls[c].stage = "denied" THEN "failed" ELSE "result"
           l == CallLine(kind, c)
<1>2. kind \in {"failed", "result"}
  OBVIOUS
<1>3. l \in LineRecord /\ l.kind = kind /\ Spoken(l)
  BY <1>2, ToolLine
<1>4. Prints(l)
  BY <1>1
<1> HIDE DEF l
<1>5. UNCHANGED <<trial, pc, installed, seen, cli, bridge, result>>
  BY DEF TellResult, Quiet, Still
<1>6. pc = "wait" /\ cli.state = "running" /\ stream' \in StreamRecord
  BY <1>2, <1>3, <1>4, LinesAreRead
<1>7. calls \in Seq(CallRecord) /\ bridge \in BridgeRecord
  BY DEF TrialType
<1>8. /\ calls' \in Seq(CallRecord) /\ DOMAIN calls' = DOMAIN calls
      /\ \A d \in DOMAIN calls :
            /\ calls'[d].id = calls[d].id /\ calls'[d].tool = calls[d].tool /\ calls'[d].told = calls[d].told
            /\ calls'[d].stage = IF d = c THEN "told" ELSE calls[d].stage
  <2>1. "told" \in Stages
    BY DEF Stages
  <2> QED
    BY <1>1, <1>7, <2>1, StageMoves
<1>9. TrialType'
  <2>1. \A d \in DOMAIN calls' : calls'[d].tool = "meta" => trial.adapter = "cursor"
    BY <1>8 DEF TrialType
  <2> QED
    BY <1>5, <1>6, <1>7, <1>8, <2>1, TypeKept DEF TrialType
<1>10. StartInv' /\ ExitInv'
  BY <1>5, <1>6, WaitKeeps DEF NativeInv
<1>11. FetchInv'
  <2>1. c # bridge.busy
    <3>1. 0 \notin DOMAIN calls
      BY <1>7
    <3> QED
      BY <1>1, <3>1 DEF NativeInv, FetchInv
  <2> QED
    BY <1>5, <1>7, <1>8, <2>1, FetchKept DEF NativeInv
<1>12. ReportInv'
  BY <1>2, <1>3, <1>4, <1>5, LineReported DEF NativeInv
<1>13. CountInv'
  BY ResultIsCounted DEF NativeInv
<1> QED
  BY <1>9, <1>10, <1>11, <1>12, <1>13 DEF NativeInv

\* A parser's state that has been put away says nothing more.
LEMMA DiscardHides ==
    ASSUME Discard
    PROVE  stream' \in StreamRecord /\ stream'.fault # "none" /\ due' = {}
<1>1. NoLines \in StreamRecord
  BY DEF NoLines, StreamRecord
<1>2. PICK f \in {"undecodable", "rejected"} : stream' = [NoLines EXCEPT !.fault = f]
  BY DEF Discard
<1>3. stream' \in StreamRecord /\ stream'.fault = f
  BY <1>1, <1>2 DEF StreamRecord
<1> QED
  BY <1>2, <1>3 DEF Discard

\* and one that exits.
LEMMA ExitKeeps ==
    ASSUME TrialType, NativeInv, Exit
    PROVE  TrialType' /\ NativeInv'
<1>1. pc = "wait" /\ cli.state = "running" /\ UNCHANGED <<trial, pc, installed, seen, calls, bridge, result>>
  BY DEF Exit, Running
<1>2. PICK code \in {0, 1} :
         /\ code = 0 => stream.fault # "none" \/ (due = {} /\ \A c \in DOMAIN calls : calls[c].told)
         /\ cli' = [cli EXCEPT !.state = "gone", !.code = code]
         /\ IF code = 0 /\ stream.fault # "rejected" THEN UNCHANGED <<stream, due, hooks>> ELSE Discard
  BY DEF Exit
<1>3. /\ cli' \in ClientRecord /\ cli'.sessions = cli.sessions /\ cli'.session = cli.session
      /\ cli'.models = cli.models /\ cli'.model = cli.model /\ cli'.version = cli.version
      /\ cli'.repeated = cli.repeated /\ cli'.code = code
  <2>1. cli \in ClientRecord /\ code \in Nat
    BY DEF TrialType
  <2>2. cli' = [cli EXCEPT !.state = "gone", !.code = code]
    BY <1>2
  <2> QED
    BY <2>1, <2>2 DEF ClientRecord
<1>4. stream' \in StreamRecord /\ (Live' => Live /\ code = 0 /\ stream' = stream /\ due' = due)
  <2>1. CASE code = 0 /\ stream.fault # "rejected"
    BY <1>1, <1>2, <2>1 DEF TrialType, Live
  <2>2. CASE ~(code = 0 /\ stream.fault # "rejected")
    BY <1>2, <2>2, DiscardHides DEF Live
  <2> QED
    BY <2>1, <2>2
<1>5. TrialType'
  BY <1>1, <1>3, <1>4, TypeKept DEF TrialType
<1>6. StartInv'
  BY <1>1, <1>3 DEF NativeInv, StartInv
<1>7. FetchInv' /\ CountInv'
  BY <1>1, <1>4, FetchSame, CountSame DEF NativeInv
<1>8. ReportInv'
  <2> SUFFICES ASSUME Live' PROVE ReportInv'
    BY DEF ReportInv
  <2>1. Underway' = Underway /\ Known' = Known /\ KnownModels' = KnownModels
    BY <1>1, <1>4 DEF Underway, Known, KnownModels
  <2> QED
    BY <1>1, <1>3, <1>4, <2>1 DEF NativeInv, ReportInv
<1>9. ExitInv'
  BY <1>1, <1>2, <1>4 DEF ExitInv, Live
<1> QED
  BY <1>5, <1>6, <1>7, <1>8, <1>9 DEF NativeInv

\* Hooks and lookups change the stages of calls, and nothing a parser looks at.
LEMMA LookupsKeep ==
    ASSUME TrialType, NativeInv, Hook \/ Begin \/ End \/ Fail
    PROVE  TrialType' /\ NativeInv'
<1>1. /\ calls' \in Seq(CallRecord) /\ Len(calls') = Len(calls) /\ DOMAIN calls' = DOMAIN calls
      /\ \A c \in DOMAIN calls :
            /\ calls'[c].id = calls[c].id /\ calls'[c].tool = calls[c].tool /\ calls'[c].told = calls[c].told
            /\ calls'[c].stage = "told" <=> calls[c].stage = "told"
            /\ calls[c].stage \notin {"asked", "sent"} => calls'[c].stage \notin {"asked", "sent"}
      /\ DOMAIN calls # {}
      /\ UNCHANGED <<trial, pc, installed, cli, due, seen, stream, result>>
  BY StagesOnly DEF NativeInv, world
<1>2. FetchInv' /\ bridge' \in BridgeRecord
  <2>1. bridge \in BridgeRecord /\ calls \in Seq(CallRecord) /\ 0 \notin DOMAIN calls
    <3>1. bridge \in BridgeRecord /\ calls \in Seq(CallRecord)
      BY DEF TrialType
    <3> QED
      BY <3>1
  <2>2. CASE Hook
    <3>1. PICK c \in DOMAIN calls :
             /\ calls[c].stage = "asked"
             /\ \A d \in DOMAIN calls : d # c => calls'[d] = calls[d]
      <4>1. PICK c \in DOMAIN calls :
               /\ calls[c].stage = "asked"
               /\ \/ calls' = [calls EXCEPT ![c].stage = IF Decide(calls[c].tool) THEN "sent" ELSE "denied"]
                  \/ calls' = [calls EXCEPT ![c].stage = "denied"]
        BY <2>2 DEF Hook
      <4> QED
        BY <4>1
    <3>2. c # bridge.busy /\ bridge' = bridge
      BY <2>1, <2>2, <3>1 DEF Hook, NativeInv, FetchInv
    <3> QED
      BY <1>1, <2>1, <3>1, <3>2, FetchKept DEF NativeInv
  <2>3. CASE Begin
    BY <2>3, BeginFetches DEF NativeInv
  <2>4. CASE End
    BY <2>4, EndFetches DEF NativeInv
  <2>5. CASE Fail
    <3>1. PICK c \in DOMAIN calls : calls[c].stage = "failed" /\ calls' = [calls EXCEPT ![c].stage = "denied"]
      BY <2>5 DEF Fail
    <3>2. c # bridge.busy /\ \A d \in DOMAIN calls : d # c => calls'[d] = calls[d]
      BY <2>1, <3>1 DEF NativeInv, FetchInv
    <3>3. bridge' = [bridge EXCEPT !.error = TRUE]
      BY <2>5 DEF Fail
    <3>4. /\ bridge' \in BridgeRecord /\ bridge'.busy = bridge.busy /\ bridge'.upstream = bridge.upstream
          /\ bridge'.served = bridge.served
      BY <2>1, <3>3 DEF BridgeRecord
    <3> QED
      BY <1>1, <2>1, <3>2, <3>4, FetchKept DEF NativeInv
  <2> QED
    BY <2>2, <2>3, <2>4, <2>5
<1>3. TrialType'
  <2>1. \A d \in DOMAIN calls' : calls'[d].tool = "meta" => trial.adapter = "cursor"
    BY <1>1 DEF TrialType
  <2> QED
    BY <1>1, <1>2, <2>1, TypeKept DEF TrialType
<1>4. Live' <=> Live
  BY <1>1 DEF Live
<1>5. StartInv'
  <2>1. calls # <<>>
    BY <1>1
  <2> QED
    BY <1>1, <2>1 DEF NativeInv, StartInv
<1>6. ReportInv'
  BY <1>1, <1>4, ReportSame DEF NativeInv
<1>7. CountInv'
  BY <1>1, <1>4, CountKept DEF NativeInv
<1>8. ExitInv'
  BY <1>1, <1>4 DEF NativeInv, ExitInv
<1> QED
  BY <1>2, <1>3, <1>5, <1>6, <1>7, <1>8 DEF NativeInv

\* A bridge that is started again keeps it.
LEMMA RestartKeeps ==
    ASSUME TrialType, NativeInv, RestartProxy
    PROVE  TrialType' /\ NativeInv'
<1>1. /\ pc = "wait" /\ cli.state = "running"
      /\ UNCHANGED <<trial, pc, installed, seen, cli, due, calls, stream, result>>
  BY DEF RestartProxy, Running
<1>2. bridge \in BridgeRecord /\ bridge' = [bridge EXCEPT !.count = 0] /\ calls' \in Seq(CallRecord)
  BY <1>1 DEF RestartProxy, TrialType
<1>3. /\ bridge' \in BridgeRecord /\ bridge'.busy = bridge.busy /\ bridge'.upstream = bridge.upstream
      /\ bridge'.served = bridge.served
  BY <1>2 DEF BridgeRecord
<1>4. TrialType'
  BY <1>1, <1>3, TypeKept DEF TrialType
<1>5. StartInv' /\ ExitInv'
  BY <1>1, WaitKeeps DEF NativeInv
<1>6. FetchInv'
  BY <1>1, <1>2, <1>3, FetchKept DEF NativeInv
<1>7. ReportInv' /\ CountInv'
  BY <1>1, ReportSame, CountSame DEF NativeInv, Live
<1> QED
  BY <1>4, <1>5, <1>6, <1>7 DEF NativeInv

\* So does a new version of the CLI that is installed while the trial runs.
LEMMA UpgradeKeeps ==
    ASSUME TrialType, NativeInv, Upgrade
    PROVE  TrialType' /\ NativeInv'
<1>1. installed = 1 /\ installed' = 2 /\ UNCHANGED <<trial, pc, seen, cli, due, calls, bridge, stream, result>>
  BY DEF Upgrade
<1>2. cli.version \in Nat /\ seen.probe \in Nat
  BY DEF TrialType, ClientRecord
<1>3. TrialType'
  BY <1>1 DEF TrialType
<1>4. StartInv'
  BY <1>1, <1>2 DEF NativeInv, StartInv
<1>5. FetchInv' /\ ReportInv' /\ CountInv'
  BY <1>1, FetchSame, ReportSame, CountSame DEF NativeInv, Live
<1>6. ExitInv'
  BY <1>1 DEF NativeInv, ExitInv, Live
<1> QED
  BY <1>3, <1>4, <1>5, <1>6 DEF NativeInv

\* So do a process that lets go of the output, and a time that runs out.
LEMMA OutsideKeeps ==
    ASSUME TrialType, NativeInv, Leave \/ Expire
    PROVE  TrialType' /\ NativeInv'
<1>1. UNCHANGED <<trial, pc, installed, seen, cli, due, calls, bridge, stream, result>>
  BY DEF Leave, Expire
<1>2. TrialType'
  BY <1>1 DEF TrialType
<1>3. StartInv' /\ ExitInv'
  BY <1>1 DEF NativeInv, StartInv, ExitInv, Live
<1>4. FetchInv' /\ ReportInv' /\ CountInv'
  BY <1>1, FetchSame, ReportSame, CountSame DEF NativeInv, Live
<1> QED
  BY <1>2, <1>3, <1>4 DEF NativeInv

-----------------------------------------------------------------------------
\* With a verdict or an error the adapter is done with the client.
LEMMA Concluded ==
    ASSUME TrialType, NativeInv, NEW verdict, Conclude(verdict), trial.adapter \in Streaming
    PROVE  TrialType' /\ NativeInv'
<1>1. /\ pc' \in {"closing", "done"} /\ stream' = NoLines
      /\ UNCHANGED <<trial, installed, seen, cli, calls, bridge>>
  BY DEF Conclude
<1>2. NoLines \in StreamRecord
  BY DEF NoLines, StreamRecord
<1>3. TrialType'
  BY <1>1, <1>2, TypeKept DEF TrialType, NativePcs
<1>4. StartInv'
  BY <1>1 DEF StartInv
<1>5. FetchInv'
  BY <1>1, FetchSame DEF NativeInv
<1>6. ~Live'
  BY <1>1 DEF Live
<1>7. ReportInv' /\ CountInv'
  BY <1>6 DEF ReportInv, CountInv
<1>8. ExitInv'
  BY <1>1, <1>6 DEF ExitInv
<1> QED
  BY <1>3, <1>4, <1>5, <1>7, <1>8 DEF NativeInv

\* A client that was stopped leaves nothing to report.
LEMMA Silenced ==
    ASSUME TrialType, NativeInv, pc' \in {"drain", "done"}, trial.adapter \in Streaming,
           pc' = "drain" => stream'.fault # "none", stream' \in StreamRecord,
           cli' \in ClientRecord, cli'.sessions = cli.sessions, cli'.session = cli.session, cli'.models = cli.models,
           UNCHANGED <<trial, installed, seen, calls, bridge>>, pc' = "drain" => result' = Pending
    PROVE  TrialType' /\ NativeInv'
<1>1. TrialType'
  BY TypeKept DEF TrialType, NativePcs
<1>2. StartInv'
  BY DEF StartInv
<1>3. FetchInv'
  BY FetchSame DEF NativeInv
<1>4. ~Live'
  BY DEF Live
<1>5. ReportInv' /\ CountInv' /\ ExitInv'
  BY <1>4 DEF ReportInv, CountInv, ExitInv
<1> QED
  BY <1>1, <1>2, <1>3, <1>5 DEF NativeInv

\* A client that is killed keeps the sessions and models it had.
LEMMA KilledClient ==
    ASSUME cli \in ClientRecord, cli' \in {Killed, cli}
    PROVE  /\ cli' \in ClientRecord /\ cli'.sessions = cli.sessions /\ cli'.session = cli.session
           /\ cli'.models = cli.models
<1>1. PICK code \in Nat : cli' = [cli EXCEPT !.state = "gone", !.code = code] \/ cli' = cli
  BY DEF Killed, ClientRecord
<1> QED
  BY <1>1 DEF ClientRecord

\* Every step of the supervisor keeps the invariant.
LEMMA SupervisionKeeps ==
    ASSUME TrialType, NativeInv, Supervision, trial.adapter \in Streaming
    PROVE  TrialType' /\ NativeInv'
<1>1. CASE Preflight
  <2>1. /\ pc = "preflight" /\ pc' \in {"probe", "done"} /\ (pc' = "probe" => result' = result)
        /\ seen' \in [preflight : Nat, probe : Nat]
        /\ UNCHANGED <<trial, installed, cli, due, calls, bridge, stream>>
    BY <1>1 DEF Preflight, world, TrialType
  <2>2. TrialType'
    BY <2>1 DEF TrialType, NativePcs
  <2>3. StartInv'
    BY <2>1 DEF NativeInv, StartInv
  <2>4. ~Live'
    BY <2>1 DEF Live
  <2>5. ReportInv' /\ CountInv' /\ ExitInv'
    BY <2>1, <2>4 DEF ReportInv, CountInv, ExitInv
  <2>6. FetchInv'
    BY <2>1, FetchSame DEF NativeInv
  <2> QED
    BY <2>2, <2>3, <2>5, <2>6 DEF NativeInv
<1>2. CASE Probe
  <2>1. /\ pc = "probe" /\ pc' = "spawn" /\ seen' = [seen EXCEPT !.probe = installed]
        /\ UNCHANGED <<trial, installed, cli, due, calls, bridge, stream, result>>
    BY <1>2 DEF Probe, world
  <2>2. installed \in Nat /\ seen' \in [preflight : Nat, probe : Nat] /\ seen'.probe = installed
    BY <2>1 DEF TrialType
  <2>3. TrialType'
    BY <2>1, <2>2 DEF TrialType, NativePcs
  <2>4. StartInv'
    BY <2>1, <2>2 DEF NativeInv, StartInv
  <2>5. ~Live'
    BY <2>1 DEF Live
  <2>6. ReportInv' /\ CountInv' /\ ExitInv'
    BY <2>1, <2>5 DEF ReportInv, CountInv, ExitInv
  <2>7. FetchInv'
    BY <2>1, FetchSame DEF NativeInv
  <2> QED
    BY <2>3, <2>4, <2>6, <2>7 DEF NativeInv
<1>3. CASE Spawn
  <2>1. CASE \E verdict : Conclude(verdict)
    BY <2>1, Concluded
  <2>2. CASE ~\E verdict : Conclude(verdict)
    <3>1. /\ pc = "spawn" /\ pc' = "wait"
          /\ cli' = [cli EXCEPT !.state = "running", !.version = installed]
          /\ due' = IF trial.adapter = "kimi" THEN {1} ELSE {}
          /\ UNCHANGED <<trial, installed, seen, calls, bridge, stream, result>>
      BY <1>3, <2>2 DEF Spawn
    <3>2. /\ stream = NoLines /\ calls = <<>> /\ ~cli.repeated /\ cli.session = 1 /\ cli.sessions = {1}
          /\ cli.model = Model /\ cli.models = {Model} /\ seen.probe <= installed
      BY <3>1 DEF NativeInv, StartInv
    <3>3. /\ cli' \in ClientRecord /\ cli'.version = installed /\ cli'.state = "running"
          /\ cli'.sessions = cli.sessions /\ cli'.session = cli.session /\ cli'.models = cli.models
          /\ cli'.model = cli.model /\ cli'.repeated = cli.repeated
      <4>1. cli \in ClientRecord /\ installed \in Nat
        BY DEF TrialType
      <4> QED
        BY <3>1, <4>1 DEF ClientRecord
    <3>4. TrialType'
      BY <3>1, <3>3, TypeKept DEF TrialType, NativePcs
    <3>5. StartInv'
      BY <3>1, <3>2, <3>3 DEF StartInv, TrialType
    <3>6. FetchInv'
      BY <3>1, FetchSame DEF NativeInv
    <3>7. ReportInv'
      BY <3>1, <3>2, <3>3 DEF ReportInv, Underway, Known, KnownModels, NoLines
    <3>8. CountInv'
      <4>1. Told' = {} /\ Returned' = {} /\ Ids(stream') = {}
        BY <3>1, <3>2 DEF Told, Returned, Ids, NoLines
      <4>2. Cardinality({}) = 0
        BY FS_EmptySet
      <4>3. trial'.max \in Nat
        BY <3>1, TrialsAssumption DEF TrialType
      <4>4. stream'.count = 0 /\ stream'.returned = 0 /\ stream'.calls = <<>> /\ calls' = <<>>
        BY <3>1, <3>2 DEF NoLines
      <4>5. \A c \in DOMAIN calls' : FALSE
        BY <4>4
      <4> QED
        BY <4>1, <4>2, <4>3, <4>4, <4>5 DEF CountInv
    <3>9. ExitInv'
      BY <3>1, <3>3 DEF ExitInv
    <3> QED
      BY <3>4, <3>5, <3>6, <3>7, <3>8, <3>9 DEF NativeInv
  <2> QED
    BY <2>1, <2>2
<1>4. CASE Communicated
  <2>1. CASE Conclude(Escaped)
    BY <2>1, Concluded
  <2>2. CASE ~Conclude(Escaped)
    <3>1. /\ pc = "wait" /\ pc' = "judge" /\ cli.state = "gone" /\ stream.fault # "undecodable"
          /\ UNCHANGED <<trial, installed, seen, cli, due, calls, bridge, stream, result>>
      BY <1>4, <2>2 DEF Communicated, Drained, Undecodable, world
    <3>2. TrialType'
      BY <3>1, TypeKept DEF TrialType, NativePcs
    <3>3. StartInv'
      BY <3>1 DEF NativeInv, StartInv
    <3>4. Live' <=> Live
      BY <3>1 DEF Live
    <3>5. FetchInv' /\ ReportInv' /\ CountInv'
      BY <3>1, <3>4, FetchSame, ReportSame, CountSame DEF NativeInv
    <3>6. ExitInv'
      BY <3>1, <3>4 DEF NativeInv, ExitInv
    <3> QED
      BY <3>2, <3>3, <3>5, <3>6 DEF NativeInv
  <2> QED
    BY <2>1, <2>2
<1>5. CASE TimeoutExpired
  <2>1. /\ pc' = "drain" /\ cli' = Killed /\ Discard /\ pc = "wait"
        /\ UNCHANGED <<trial, installed, seen, calls, bridge, result>>
    BY <1>5 DEF TimeoutExpired
  <2>2. cli \in ClientRecord /\ result = Pending
    BY <2>1 DEF TrialType
  <2> QED
    BY <2>1, <2>2, KilledClient, DiscardHides, Silenced
<1>6. CASE CommunicatedAgain
  BY <1>6, Concluded DEF CommunicatedAgain
<1>7. CASE Terminated
  <2>1. /\ pc' = "done" /\ cli' \in {Killed, cli}
        /\ UNCHANGED <<trial, installed, seen, calls, bridge, stream>>
    BY <1>7 DEF Terminated
  <2>2. cli \in ClientRecord /\ stream \in StreamRecord
    BY DEF TrialType
  <2> QED
    BY <2>1, <2>2, KilledClient, Silenced
<1>8. CASE JudgeClient
  <2>1. \E verdict : Conclude(verdict)
    BY <1>8 DEF JudgeClient
  <2> QED
    BY <2>1, Concluded
<1>9. CASE CloseServer
  <2>1. pc' = "done" /\ UNCHANGED <<trial, installed, seen, cli, calls, bridge, stream>>
    BY <1>9 DEF CloseServer, world
  <2>2. cli \in ClientRecord /\ stream \in StreamRecord
    BY DEF TrialType
  <2> QED
    BY <2>1, <2>2, Silenced
<1> QED
  BY <1>1, <1>2, <1>3, <1>4, <1>5, <1>6, <1>7, <1>8, <1>9 DEF Supervision

\* A native trial keeps what its verdict rests on.
LEMMA NativeKeeps ==
    ASSUME TrialType, NativeInv, NativeNext, trial.adapter \in Streaming
    PROVE  TrialType' /\ NativeInv'
BY SpeaksKeeps, DriftKeeps, AskToolKeeps, TellKeeps, TellResultKeeps, ExitKeeps, LookupsKeep, RestartKeeps, UpgradeKeeps,
   OutsideKeeps, SupervisionKeeps DEF NativeNext, Client, Lookups, Speaks

-----------------------------------------------------------------------------
\* A function on an interval from one is a sequence.
LEMMA FunctionIsSeq ==
    ASSUME NEW S, NEW n \in Nat, NEW f \in [1..n -> S]
    PROVE  f \in Seq(S)
BY SeqDef

\* What a completion calls for becomes the calls of the trial, in its order.
LEMMA AskedCalls ==
    ASSUME body.calls \in Batch
    PROVE  /\ Asked \in Seq(CallRecord) /\ Len(Asked) = Len(body.calls) /\ DOMAIN Asked = DOMAIN body.calls
           /\ \A k \in DOMAIN Asked : /\ Asked[k].id = body.calls[k].id /\ Asked[k].tool = body.calls[k].tool
                                      /\ Asked[k].tool # "meta"
<1> DEFINE n == Len(body.calls)
<1>1. n \in Nat /\ DOMAIN body.calls = 1..n
  BY DEF Batch
<1>2. \A k \in 1..n : body.calls[k] \in [id : Nat, tool : {"ref", "shell"}]
  BY <1>1, ElementOfSeq DEF Batch
<1>3. Asked = [k \in 1..n |-> [id |-> body.calls[k].id, tool |-> body.calls[k].tool, stage |-> "asked", told |-> TRUE]]
  BY <1>1 DEF Asked
<1>4. \A k \in 1..n : [id |-> body.calls[k].id, tool |-> body.calls[k].tool, stage |-> "asked", told |-> TRUE] \in CallRecord
  BY <1>2 DEF CallRecord, Tools
<1>5. Asked \in [1..n -> CallRecord]
  BY <1>3, <1>4
<1>6. Asked \in Seq(CallRecord) /\ Len(Asked) = n
  BY <1>1, <1>5, SeqDef
<1>7. \A k \in 1..n : Asked[k].id = body.calls[k].id /\ Asked[k].tool = body.calls[k].tool
  BY <1>3
<1> QED
  BY <1>1, <1>2, <1>5, <1>6, <1>7

\* A step over HTTP is one of an HTTP adapter, and leaves the rest alone.
LEMMA HttpSteps ==
    ASSUME TrialType, HttpNext
    PROVE  trial.adapter \in Http /\ trial.adapter \notin Streaming
           /\ UNCHANGED <<trial, expired, installed, cli, due, seen, stream>>
<1>1. trial.adapter \in Http
  BY TrialsAssumption DEF HttpNext, HttpStep, Prepare, Complete, Inspect, Broker, NextRound, TrialType, NativePcs
<1>2. trial.adapter \notin Streaming
  BY <1>1 DEF Http, Streaming
<1> QED
  BY <1>1, <1>2 DEF HttpNext, world

\* Every step of an HTTP adapter keeps its invariant.
LEMMA HttpKeeps ==
    ASSUME TrialType, BrokerInv, HttpNext
    PROVE  TrialType' /\ BrokerInv'
<1>1. trial.adapter \in Http /\ trial.adapter \notin Streaming
      /\ UNCHANGED <<trial, expired, installed, cli, due, seen, stream>>
  BY HttpSteps
<1>2. calls \in Seq(CallRecord) /\ bridge \in BridgeRecord /\ pc \in HttpPcs /\ trial.max \in Nat
  BY <1>1, TrialsAssumption DEF TrialType
<1>3. /\ http \in [tools : Nat, next : Nat, responses : SUBSET Nat, first : Nat]
      /\ body.id \in Nat /\ body.calls \in Batch
      /\ bridge.upstream = http.tools /\ http.next = http.tools + 1 /\ http.tools <= trial.max
      /\ http.next <= Len(calls) + 1 /\ (pc \notin {"broker", "done"} => http.next = Len(calls) + 1)
      /\ \A c \in DOMAIN calls : c < http.next => calls[c].tool \in trial.tools
      /\ trial.adapter = "responses" => \A c, d \in DOMAIN calls : calls[c].id = calls[d].id => c = d
  BY DEF BrokerInv
<1>4. ASSUME pc' \in HttpPcs, calls' = calls, bridge' = bridge, pc' # "done" => result' = result, pc # "done"
      PROVE  TrialType'
  BY <1>1, <1>2, <1>4, TypeKept DEF TrialType, HttpPcs
<1>5. ASSUME calls' = calls, bridge' = bridge, http' = http,
             pc' \in {"broker", "done"} \/ http.next = Len(calls) + 1,
             body'.id \in Nat, body'.calls \in Batch
      PROVE  BrokerInv'
  BY <1>1, <1>3, <1>5 DEF BrokerInv
<1>6. Nothing.id \in Nat /\ Nothing.calls \in Batch
  BY DEF Nothing, Batch
<1>7. CASE Prepare
  <2>1. pc = "probe" /\ pc' \in {"http", "done"} /\ (pc' # "done" => result' = result)
        /\ UNCHANGED <<calls, bridge, http, body>>
    BY <1>7 DEF Prepare
  <2> QED
    BY <1>3, <1>4, <1>5, <2>1 DEF HttpPcs
<1>8. CASE Complete
  <2>1. pc = "http" /\ pc' \in {"http", "done"} /\ (pc' # "done" => result' = result)
        /\ UNCHANGED <<calls, bridge, http>>
    BY <1>8 DEF Complete
  <2>2. body'.id \in Nat /\ body'.calls \in Batch
    <3>1. CASE body' = body
      BY <1>3, <3>1
    <3>2. CASE body' \in [id : 1..(MaxCalls + 1), model : {Model, Fallback}, calls : Batches, answer : {"none", "good", "bad"}]
      <4>1. body'.id \in 1..(MaxCalls + 1) /\ body'.calls \in Batches
        BY <3>2
      <4>2. MaxCalls \in Nat /\ Len(calls) \in Nat
        BY <1>2, TrialAssumption
      <4>3. body'.id \in Nat
        BY <4>1, <4>2
      <4>4. PICK n \in 0..(MaxCalls - Len(calls)) : body'.calls \in [1..n -> [id : 0..MaxCalls, tool : {"ref", "shell"}]]
        BY <4>1 DEF Batches
      <4>5. n \in Nat /\ [id : 0..MaxCalls, tool : {"ref", "shell"}] \subseteq [id : Nat, tool : {"ref", "shell"}]
        BY <4>2
      <4>6. body'.calls \in [1..n -> [id : Nat, tool : {"ref", "shell"}]]
        BY <4>4, <4>5
      <4>7. body'.calls \in Seq([id : Nat, tool : {"ref", "shell"}])
        BY <4>5, <4>6, FunctionIsSeq
      <4> QED
        BY <4>3, <4>7 DEF Batch
    <3> QED
      BY <1>8, <3>1, <3>2 DEF Complete
  <2> QED
    BY <1>3, <1>4, <1>5, <2>1, <2>2 DEF HttpPcs
<1>9. CASE Inspect
  <2>1. pc = "http" /\ body' = Nothing
    BY <1>9 DEF Inspect
  <2>2. CASE \E verdict : Stopped(verdict)
    <3>1. pc' = "done" /\ UNCHANGED <<calls, bridge, http>>
      BY <2>2 DEF Stopped
    <3> QED
      BY <1>4, <1>5, <1>6, <2>1, <3>1 DEF HttpPcs
  <2>3. CASE ~\E verdict : Stopped(verdict)
    <3>1. /\ pc' = "broker" /\ calls' = calls \o Asked /\ UNCHANGED <<result, bridge>>
          /\ http' = [http EXCEPT !.responses = @ \union {body.id}, !.first = IF @ = 0 THEN body.id ELSE @]
          /\ trial.adapter # "chat" => ResponsesTakes
          /\ body.calls # <<>>
      BY <1>9, <2>3 DEF Inspect
    <3>2. /\ http'.tools = http.tools /\ http'.next = http.next
          /\ http' \in [tools : Nat, next : Nat, responses : SUBSET Nat, first : Nat]
      BY <1>3, <3>1
    <3>3. /\ Asked \in Seq(CallRecord) /\ Len(Asked) = Len(body.calls) /\ DOMAIN Asked = DOMAIN body.calls
          /\ \A k \in DOMAIN Asked : /\ Asked[k].id = body.calls[k].id /\ Asked[k].tool = body.calls[k].tool
                                     /\ Asked[k].tool # "meta"
      BY <1>3, AskedCalls
    <3>4. /\ calls' \in Seq(CallRecord) /\ Len(calls') = Len(calls) + Len(Asked)
          /\ \A c \in DOMAIN calls' : IF c <= Len(calls) THEN c \in DOMAIN calls /\ calls'[c] = calls[c]
                                        ELSE c - Len(calls) \in DOMAIN Asked /\ calls'[c] = Asked[c - Len(calls)]
      <4> DEFINE added == Asked
      <4>1. calls \in Seq(CallRecord) /\ added \in Seq(CallRecord) /\ calls' = calls \o added
        BY <1>2, <3>1, <3>3
      <4> HIDE DEF added
      <4>2. /\ calls' \in Seq(CallRecord) /\ Len(calls') = Len(calls) + Len(added)
            /\ \A c \in 1..Len(calls) + Len(added) : calls'[c] = IF c <= Len(calls) THEN calls[c] ELSE added[c - Len(calls)]
        BY <4>1, ConcatProperties
      <4>3. /\ DOMAIN calls' = 1..Len(calls) + Len(added) /\ DOMAIN calls = 1..Len(calls) /\ DOMAIN added = 1..Len(added)
            /\ Len(calls) \in Nat /\ Len(added) \in Nat
        BY <4>1, <4>2
      <4>4. ASSUME NEW c \in DOMAIN calls'
            PROVE  IF c <= Len(calls) THEN c \in DOMAIN calls /\ calls'[c] = calls[c]
                   ELSE c - Len(calls) \in DOMAIN added /\ calls'[c] = added[c - Len(calls)]
        BY <4>2, <4>3
      <4> QED
        BY <4>2, <4>4 DEF added
    <3>5. TrialType'
      <4>1. \A c \in DOMAIN calls' : calls'[c].tool = "meta" => trial.adapter = "cursor"
        BY <3>3, <3>4 DEF TrialType
      <4> QED
        BY <1>1, <1>2, <2>1, <3>1, <3>4, <4>1, TypeKept DEF TrialType, HttpPcs
    <3>6. \A c \in DOMAIN calls' : c < http'.next => calls'[c].tool \in trial'.tools
      BY <1>1, <1>2, <1>3, <2>1, <3>2, <3>4
    <3>7. http'.next <= Len(calls') + 1
      BY <1>2, <1>3, <3>2, <3>3, <3>4
    <3>8. ASSUME trial.adapter = "responses", NEW c \in DOMAIN calls', NEW d \in DOMAIN calls', calls'[c].id = calls'[d].id
          PROVE  c = d
      <4>1. \A k \in DOMAIN body.calls :
               /\ \A j \in 1..(k - 1) : body.calls[j].id # body.calls[k].id
               /\ \A e \in DOMAIN calls : calls[e].id # body.calls[k].id
        BY <3>1, <3>8 DEF ResponsesTakes
      <4>2. \A j, k \in DOMAIN body.calls : body.calls[j].id = body.calls[k].id => j = k
        <5>1. DOMAIN body.calls = 1..Len(body.calls) /\ Len(body.calls) \in Nat
          BY <1>3 DEF Batch
        <5> QED
          BY <4>1, <5>1
      <4>3. c \in Nat /\ d \in Nat /\ Len(calls) \in Nat
        BY <1>2, <3>4
      <4>4. CASE c <= Len(calls) /\ d <= Len(calls)
        BY <1>3, <3>4, <3>8, <4>4
      <4>5. CASE c <= Len(calls) /\ ~(d <= Len(calls))
        <5>1. c \in DOMAIN calls /\ calls'[c] = calls[c] /\ d - Len(calls) \in DOMAIN body.calls
              /\ calls'[d].id = body.calls[d - Len(calls)].id
          BY <3>3, <3>4, <4>5
        <5> QED
          BY <3>8, <4>1, <5>1
      <4>6. CASE ~(c <= Len(calls)) /\ d <= Len(calls)
        <5>1. d \in DOMAIN calls /\ calls'[d] = calls[d] /\ c - Len(calls) \in DOMAIN body.calls
              /\ calls'[c].id = body.calls[c - Len(calls)].id
          BY <3>3, <3>4, <4>6
        <5> QED
          BY <3>8, <4>1, <5>1
      <4>7. CASE ~(c <= Len(calls)) /\ ~(d <= Len(calls))
        <5>1. c - Len(calls) = d - Len(calls)
          <6>1. /\ c - Len(calls) \in DOMAIN body.calls /\ calls'[c].id = body.calls[c - Len(calls)].id
                /\ d - Len(calls) \in DOMAIN body.calls /\ calls'[d].id = body.calls[d - Len(calls)].id
            BY <3>3, <3>4, <4>7
          <6> QED
            BY <3>8, <4>2, <6>1
        <5> QED
          BY <4>3, <5>1
      <4> QED
        BY <4>4, <4>5, <4>6, <4>7
    <3>9. BrokerInv'
      BY <1>1, <1>3, <1>6, <2>1, <3>1, <3>2, <3>6, <3>7, <3>8 DEF BrokerInv
    <3> QED
      BY <3>5, <3>9
  <2> QED
    BY <2>2, <2>3
<1>10. CASE Broker
  <2>1. pc = "broker" /\ http.next <= Len(calls) /\ body' = body
    BY <1>10 DEF Broker
  <2>2. CASE \E verdict : Stopped(verdict)
    <3>1. pc' = "done" /\ UNCHANGED <<calls, bridge, http>>
      BY <2>2 DEF Stopped
    <3> QED
      BY <1>3, <1>4, <1>5, <2>1, <3>1 DEF HttpPcs
  <2>3. CASE ~\E verdict : Stopped(verdict)
    <3>1. /\ calls[http.next].tool \in trial.tools /\ ~(http.tools + 1 > trial.max)
          /\ bridge' = [bridge EXCEPT !.upstream = @ + 1]
          /\ http' = [http EXCEPT !.tools = @ + 1, !.next = @ + 1]
          /\ calls' = [calls EXCEPT ![http.next].stage = "answered"]
          /\ \/ UNCHANGED <<pc, result>>
             \/ pc' = "done"
      BY <1>10, <2>3 DEF Broker
    <3>2. http.next \in DOMAIN calls
      BY <1>2, <1>3, <2>1
    <3>3. /\ calls' \in Seq(CallRecord) /\ DOMAIN calls' = DOMAIN calls /\ Len(calls') = Len(calls)
          /\ \A c \in DOMAIN calls : calls'[c].tool = calls[c].tool /\ calls'[c].id = calls[c].id
      <4>1. "answered" \in Stages
        BY DEF Stages
      <4> QED
        BY <1>2, <3>1, <3>2, <4>1, StageMoves
    <3>4. /\ http'.tools = http.tools + 1 /\ http'.next = http.next + 1
          /\ http' \in [tools : Nat, next : Nat, responses : SUBSET Nat, first : Nat]
      <4>1. http.tools + 1 \in Nat /\ http.next + 1 \in Nat
        BY <1>3
      <4> QED
        BY <1>3, <3>1, <4>1
    <3>5. bridge' \in BridgeRecord /\ bridge'.upstream = bridge.upstream + 1
      <4>1. bridge.upstream + 1 \in Nat
        BY <1>2 DEF BridgeRecord
      <4> QED
        BY <1>2, <3>1, <4>1 DEF BridgeRecord
    <3>6. TrialType'
      <4>1. \A c \in DOMAIN calls' : calls'[c].tool = "meta" => trial.adapter = "cursor"
        BY <3>3 DEF TrialType
      <4> QED
        BY <1>1, <1>2, <2>1, <3>1, <3>3, <3>5, <4>1, TypeKept DEF TrialType, HttpPcs
    <3>7. \A c \in DOMAIN calls' : c < http'.next => calls'[c].tool \in trial'.tools
      <4> SUFFICES ASSUME NEW c \in DOMAIN calls', c < http'.next PROVE calls'[c].tool \in trial'.tools
        OBVIOUS
      <4>1. c \in Nat /\ (c < http.next \/ c = http.next)
        BY <1>2, <1>3, <3>3, <3>4
      <4> QED
        BY <1>1, <1>3, <3>1, <3>3, <4>1
    <3>8. http'.next <= Len(calls') + 1 /\ http'.tools <= trial'.max /\ http'.next = http'.tools + 1
          /\ bridge'.upstream = http'.tools
      BY <1>1, <1>2, <1>3, <2>1, <3>1, <3>3, <3>4, <3>5
    <3>9. trial'.adapter = "responses" => \A c, d \in DOMAIN calls' : calls'[c].id = calls'[d].id => c = d
      BY <1>1, <1>3, <3>3
    <3>10. pc' \in {"broker", "done"} /\ body'.id \in Nat /\ body'.calls \in Batch
      BY <1>3, <2>1, <3>1
    <3>11. BrokerInv'
      BY <3>4, <3>7, <3>8, <3>9, <3>10 DEF BrokerInv
    <3> QED
      BY <3>6, <3>11
  <2> QED
    BY <2>2, <2>3
<1>11. CASE NextRound
  <2>1. /\ pc = "broker" /\ http.next > Len(calls) /\ pc' \in {"http", "done"} /\ (pc' # "done" => result' = result)
        /\ UNCHANGED <<calls, bridge, http, body>>
    BY <1>11 DEF NextRound
  <2>2. http.next = Len(calls) + 1
    BY <1>2, <1>3, <2>1
  <2> QED
    BY <1>3, <1>4, <1>5, <2>1, <2>2 DEF HttpPcs
<1> QED
  BY <1>7, <1>8, <1>9, <1>10, <1>11 DEF HttpNext, HttpStep

-----------------------------------------------------------------------------
\* The verdict on a client rests on what its stream, its exit and its lookups have shown.
LEMMA JudgedClean ==
    ASSUME TrialType, NativeInv, trial.adapter \in Streaming, JudgeClient, result'.kind \in Accepted
    PROVE  AcceptInv'
<1>1. /\ pc = "judge" /\ cli.code = 0 /\ Accepts /\ result' = Verdict
      /\ UNCHANGED <<trial, calls, bridge, cli, installed, seen>>
  <2>1. Raised.kind \notin Accepted /\ Escaped.kind \notin Accepted
    BY DEF Raised, Escaped, Pending, Accepted
  <2>2. ~Conclude(Raised) /\ ~Conclude(Escaped)
    BY <2>1 DEF Conclude
  <2>3. pc = "judge" /\ cli.code = 0 /\ Accepts /\ Conclude(Verdict)
    BY <2>2 DEF JudgeClient
  <2> QED
    BY <2>3 DEF Conclude
<1>2. stream.fault = "none"
  <2>1. stream.fault \in {"none", "unreadable"}
    <3>1. stream.fault # "rejected"
      <4>1. Raised.kind \notin Accepted
        BY DEF Raised, Pending, Accepted
      <4> QED
        BY <4>1 DEF JudgeClient, Conclude
    <3> QED
      BY <1>1, <3>1 DEF TrialType, StreamRecord, NativeInv, ExitInv
  <2>2. stream.fault # "unreadable"
    <3>1. Raised.kind \notin Accepted /\ Escaped.kind \notin Accepted
      BY DEF Raised, Escaped, Pending, Accepted
    <3>2. ~Conclude(Raised) /\ ~Conclude(Escaped)
      BY <3>1 DEF Conclude
    <3> QED
      BY <3>2 DEF JudgeClient
  <2> QED
    BY <2>1, <2>2
<1>3. Live /\ cli.state = "gone" /\ due = {} /\ \A c \in DOMAIN calls : calls[c].told
  BY <1>1, <1>2 DEF Live, NativeInv, ExitInv
<1>4. /\ calls \in Seq(CallRecord) /\ bridge \in BridgeRecord /\ stream \in StreamRecord /\ cli \in ClientRecord
      /\ 1 \in cli.sessions /\ Model \in cli.models /\ trial.tools \subseteq {"ref"} /\ trial.max \in Nat
  BY TrialsAssumption DEF TrialType
<1>5. /\ result'.kind = Verdict.kind
      /\ result'.session = IF trial.adapter \in {"claude", "agy"} THEN stream.last ELSE stream.session
      /\ result'.tools = IF Gated THEN Len(bridge.served) ELSE stream.count
      /\ result'.version = seen.probe
  BY <1>1 DEF Verdict
<1>6. /\ UsedTools' = UsedTools /\ UsedTools = Told /\ UsedTools \subseteq DOMAIN calls /\ Tried \subseteq UsedTools
  BY <1>1, <1>3 DEF UsedTools, Told, Tried
<1>7. /\ Cardinality(UsedTools) \in Nat /\ Cardinality(Tried) \in Nat /\ Cardinality(Tried) <= Cardinality(UsedTools)
      /\ Cardinality(UsedTools) <= Len(calls)
  <2>1. IsFiniteSet(UsedTools) /\ Cardinality(UsedTools) \in Nat /\ Cardinality(UsedTools) <= Len(calls)
    BY <1>4, <1>6, CallSets
  <2> QED
    BY <1>6, <2>1, FS_Subset, FS_CardinalityType
<1>8. bridge.upstream \in Nat /\ bridge.upstream <= Cardinality(UsedTools)
  BY <1>4, <1>7 DEF NativeInv, FetchInv, BridgeRecord
<1>20. /\ trial.adapter = "kimi" => KimiAccepts(stream, seen.probe)
       /\ trial.adapter = "cursor" => CursorAccepts(stream)
       /\ trial.adapter = "claude" => ClaudeAccepts(stream, trial)
       /\ trial.adapter = "codex" => CodexAccepts(stream)
  <2>1. StreamAccepts
    BY <1>1 DEF Accepts
  <2>2. CASE trial.adapter = "kimi"
    BY <2>1, <2>2 DEF StreamAccepts, Gated
  <2>3. CASE trial.adapter = "cursor"
    BY <2>1, <2>3 DEF StreamAccepts, Gated
  <2>4. CASE trial.adapter = "claude"
    BY <2>1, <2>4 DEF StreamAccepts, Gated
  <2>5. CASE trial.adapter = "codex"
    BY <2>1, <2>5 DEF StreamAccepts, Gated
  <2> QED
    BY <2>2, <2>3, <2>4, <2>5
<1>9. Underway
  <2>2. trial.adapter = "agy" => stream.turn
    BY <1>1 DEF Accepts, Gated, AgyAccepts
  <2> QED
    BY <1>20, <2>2 DEF Underway, KimiAccepts, CursorAccepts, ClaudeAccepts, CodexAccepts, Streaming
<1>10. /\ cli.sessions \subseteq Known
       /\ trial.adapter \in {"kimi", "claude"} => cli.models \subseteq KnownModels
       /\ trial.adapter \in {"kimi", "codex", "agy"} => ~cli.repeated
       /\ trial.adapter = "kimi" /\ stream.opened => stream.version = cli.version
  BY <1>3, <1>9 DEF NativeInv, ReportInv
<1>11. cli.sessions = {result'.session}
  <2>1. Known \subseteq {result'.session}
    <3>1. CASE trial.adapter \in {"kimi", "cursor", "codex"}
      BY <1>5, <3>1 DEF Known
    <3>2. CASE trial.adapter = "claude"
      <4>1. Cardinality(stream.sessions) = 1 /\ stream.last \in stream.sessions
        BY <1>20, <3>2 DEF ClaudeAccepts
      <4>2. IsFiniteSet(stream.sessions)
        <5>1. stream.sessions \subseteq 1..2
          BY <1>4 DEF StreamRecord
        <5>2. IsFiniteSet(1..2)
          <6>1. 1 \in Int /\ 2 \in Int
            OBVIOUS
          <6> QED
            BY <6>1, FS_Interval
        <5> QED
          BY <5>1, <5>2, FS_Subset
      <4>3. PICK s : stream.sessions = {s}
        BY <4>1, <4>2, FS_Singleton
      <4> QED
        BY <1>5, <3>2, <4>1, <4>3 DEF Known
    <3>3. CASE trial.adapter = "agy"
      BY <1>1, <1>5, <3>3 DEF Accepts, Gated, AgyAccepts, Known
    <3> QED
      BY <3>1, <3>2, <3>3 DEF Streaming
  <2> QED
    BY <1>4, <1>10, <2>1
<1>12. trial.adapter \in {"kimi", "claude"} => cli.models = {Model}
  <2>1. trial.adapter \in {"kimi", "claude"} => KnownModels \subseteq {Model}
    BY <1>20 DEF ClaudeAccepts, KnownModels
  <2> QED
    BY <1>4, <1>10, <2>1
<1>13. trial.adapter \in {"kimi", "agy"} => cli.version = result'.version
  <2>1. CASE trial.adapter = "kimi"
    <3>1. stream.opened /\ stream.version = seen.probe
      BY <1>20, <2>1 DEF KimiAccepts
    <3> QED
      BY <1>5, <1>10, <2>1, <3>1
  <2>2. CASE trial.adapter = "agy"
    <3>1. installed = seen.probe
      BY <1>1, <2>2 DEF Accepts, Gated
    <3>2. seen.probe <= cli.version /\ cli.version <= installed /\ cli.version \in Nat /\ installed \in Nat
      BY <1>1 DEF NativeInv, StartInv, TrialType, ClientRecord
    <3> QED
      BY <1>5, <3>1, <3>2
  <2> QED
    BY <2>1, <2>2
<1>14. OrderlyClient'
  <2>1. cli' = cli /\ trial' = trial
    BY <1>1
  <2> QED
    BY <1>1, <1>10, <1>11, <1>12, <1>13, <2>1 DEF OrderlyClient
<1>15. trial.adapter # "cursor" => UsedTools = DOMAIN calls
  BY DEF TrialType, UsedTools
<1>16. CASE trial.adapter # "agy"
  <2>1. result'.tools = Cardinality(UsedTools)
    BY <1>3, <1>5, <1>6, <1>16 DEF NativeInv, CountInv, Gated
  <2>2. /\ \A c \in UsedTools : calls[c].tool \in trial.tools
        /\ trial.tools = {} => calls = <<>>
        /\ result'.tools <= trial.max
    <3>1. trial.adapter \in {"kimi", "cursor", "claude", "codex"}
      BY <1>16 DEF Streaming
    <3>2. CASE trial.adapter \in {"kimi", "cursor"}
      <4>1. /\ stream.count <= trial.max
            /\ \A c \in DOMAIN calls :
                  IF calls[c].tool = "meta" THEN trial.tools # {} ELSE calls[c].tool \in trial.tools
        BY <1>3, <3>2 DEF NativeInv, CountInv
      <4>2. trial.tools = {} => DOMAIN calls = {}
        BY <4>1
      <4>3. DOMAIN calls = {} => calls = <<>>
        BY <1>4
      <4> QED
        BY <1>5, <1>16, <4>1, <4>2, <4>3 DEF UsedTools, Gated
    <3>3. CASE trial.adapter = "claude"
      <4>1. \A k \in DOMAIN stream.calls : stream.calls[k].tool \in trial.tools
        BY <1>20, <3>3 DEF ClaudeAccepts
      <4>2. stream.count <= trial.max
        BY <1>20, <3>3 DEF ClaudeAccepts
      <4>3. \A c \in DOMAIN calls : calls[c].tool \in trial.tools
        BY <1>3, <3>3, <4>1 DEF NativeInv, CountInv
      <4>4. DOMAIN calls = {} => calls = <<>>
        BY <1>4
      <4> QED
        BY <1>5, <1>16, <4>2, <4>3, <4>4 DEF UsedTools, Gated
    <3>4. CASE trial.adapter = "codex"
      <4>1. DOMAIN calls = {}
        BY <1>3, <3>4 DEF NativeInv, CountInv
      <4>2. calls = <<>> /\ UsedTools = {}
        BY <1>4, <4>1 DEF UsedTools
      <4>3. Cardinality({}) = 0
        BY FS_EmptySet
      <4> QED
        BY <1>4, <2>1, <4>2, <4>3
    <3> QED
      BY <3>1, <3>2, <3>3, <3>4
  <2>3. trial.adapter # "responses"
    BY DEF Streaming
  <2> QED
    BY <1>1, <1>6, <1>8, <1>14, <1>16, <2>1, <2>2, <2>3 DEF AcceptInv, AcceptedTrialsAreClean
<1>17. CASE trial.adapter = "agy"
  <2>1. /\ stream.returned = Len(stream.calls) /\ Len(stream.calls) = Len(bridge.served)
        /\ Len(bridge.served) <= trial.max
        /\ \A k \in DOMAIN bridge.served : stream.calls[k] = bridge.served[k]
    BY <1>1, <1>17 DEF Accepts, Gated, AgyAccepts
  <2>2. /\ Len(stream.calls) = Len(calls) /\ \A k \in DOMAIN calls : stream.calls[k] = Named(calls[k])
        /\ stream.returned = Cardinality(Returned)
    BY <1>3, <1>17 DEF NativeInv, CountInv
  <2>3. bridge.served \in Seq(NamedRecord)
    BY <1>4 DEF BridgeRecord
  <2>4. /\ Len(bridge.served) + (IF bridge.busy = 0 THEN 0 ELSE 1) <= bridge.upstream
        /\ \A k \in DOMAIN bridge.served : bridge.served[k].tool \in trial.tools
    BY DEF NativeInv, FetchInv
  <2>5. bridge.upstream = Len(calls) /\ bridge.busy = 0
    <3>1. Len(calls) \in Nat /\ bridge.upstream <= Len(calls) /\ Len(bridge.served) = Len(calls)
      BY <1>4, <1>7, <1>8, <2>1, <2>2
    <3> QED
      BY <1>8, <2>4, <3>1
  <2>6. Cardinality(UsedTools) = Len(calls)
    <3>1. Len(calls) \in Nat
      BY <1>4
    <3> QED
      BY <1>7, <1>8, <2>5, <3>1
  <2>7. result'.tools = Len(calls)
    BY <1>5, <1>17, <2>1, <2>2 DEF Gated
  <2>8. \A c \in DOMAIN calls : calls[c].tool \in trial.tools
    <3> SUFFICES ASSUME NEW c \in DOMAIN calls PROVE calls[c].tool \in trial.tools
      OBVIOUS
    <3>1. c \in DOMAIN bridge.served
      <4>1. c \in 1..Len(calls) /\ Len(bridge.served) = Len(calls)
        BY <1>4, <2>1, <2>2
      <4> QED
        BY <2>3, <4>1
    <3>2. bridge.served[c] = Named(calls[c])
      BY <2>1, <2>2, <3>1
    <3>3. Named(calls[c]).tool = calls[c].tool
      BY DEF Named
    <3> QED
      BY <2>4, <3>1, <3>2, <3>3
  <2>9. trial.tools = {} => calls = <<>>
    <3>1. DOMAIN calls = {} => calls = <<>>
      BY <1>4
    <3> QED
      BY <2>8, <3>1
  <2>10. \A c \in DOMAIN calls : calls[c].stage = "told"
    <3>1. Returned \subseteq DOMAIN calls /\ Cardinality(Returned) = Len(calls)
      BY <2>1, <2>2 DEF Returned
    <3>2. Returned = DOMAIN calls
      BY <1>4, <3>1, CallSets
    <3> QED
      BY <3>2 DEF Returned
  <2>11. trial'.adapter # "responses" /\ result'.tools <= trial.max
    BY <1>1, <1>17, <2>1, <2>2, <2>7
  <2> QED
    BY <1>1, <1>6, <1>14, <2>5, <2>6, <2>7, <2>8, <2>9, <2>10, <2>11 DEF AcceptInv, AcceptedTrialsAreClean
<1> QED
  BY <1>16, <1>17

\* Over HTTP the adapter has made every call of the trial itself.
LEMMA InspectedClean ==
    ASSUME TrialType, BrokerInv, trial.adapter \in Http, HttpNext, result.kind \notin Accepted, result'.kind \in Accepted
    PROVE  AcceptInv'
<1>1. Inspect /\ pc = "http" /\ body.calls = <<>> /\ Stopped(HttpVerdict) /\ HttpVerdict.kind \in Accepted
  <2>1. Raised.kind \notin Accepted /\ result' # result
    BY DEF Raised, Pending, Accepted
  <2>2. ~Stopped(Raised)
    BY <2>1 DEF Stopped
  <2>3. Inspect
    BY <2>1, <2>2 DEF HttpNext, HttpStep, Prepare, Complete, Broker, NextRound
  <2>4. pc = "http" /\ body.calls = <<>> /\ Stopped(HttpVerdict)
    BY <2>1, <2>2, <2>3 DEF Inspect
  <2> QED
    BY <2>3, <2>4 DEF Stopped
<1>2. result' = HttpVerdict /\ UNCHANGED <<trial, calls, bridge, http>>
  BY <1>1 DEF Stopped, HttpNext
<1>3. result'.tools = http.tools
  <2>1. HttpVerdict # Raised
    BY <1>1 DEF Raised, Pending, Accepted
  <2> QED
    BY <1>2, <2>1 DEF HttpVerdict
<1>4. /\ calls \in Seq(CallRecord) /\ http.tools \in Nat /\ http.tools = Len(calls) /\ bridge.upstream = http.tools
      /\ http.tools <= trial.max
      /\ \A c \in DOMAIN calls : calls[c].tool \in trial.tools
      /\ trial.adapter = "responses" => \A c, d \in DOMAIN calls : calls[c].id = calls[d].id => c = d
  <2>1. calls \in Seq(CallRecord) /\ Len(calls) \in Nat /\ DOMAIN calls = 1..Len(calls)
    BY DEF TrialType
  <2>2. http.tools \in Nat /\ http.next = http.tools + 1 /\ http.next = Len(calls) + 1 /\ bridge.upstream = http.tools
        /\ http.tools <= trial.max
    BY <1>1 DEF BrokerInv
  <2>3. \A c \in DOMAIN calls : c < http.next
    BY <2>1, <2>2
  <2> QED
    BY <2>1, <2>2, <2>3 DEF BrokerInv
<1>5. UsedTools' = DOMAIN calls
  <2>1. trial.adapter # "cursor"
    BY DEF Http
  <2> QED
    BY <1>2, <2>1 DEF UsedTools, TrialType
<1>6. Cardinality(UsedTools') = Len(calls)
  <2>1. \A n \in Nat : Cardinality(1..n) = n
    BY FS_Interval
  <2>2. DOMAIN calls = 1..Len(calls) /\ Len(calls) \in Nat
    BY <1>4
  <2> QED
    BY <1>5, <2>1, <2>2
<1>7. trial.tools = {} => calls = <<>>
  <2>1. DOMAIN calls = {} => calls = <<>>
    BY <1>4
  <2> QED
    BY <1>4, <2>1
<1>8. trial'.adapter \notin Streaming /\ trial'.adapter # "agy"
  BY <1>2 DEF Http, Streaming
<1> QED
  BY <1>2, <1>3, <1>4, <1>5, <1>6, <1>7, <1>8 DEF AcceptInv, AcceptedTrialsAreClean

\* After the verdict the trial's account is closed: what its server has still to do changes nothing that was accepted.
LEMMA AcceptedStays ==
    ASSUME TrialInv, TrialNext, result.kind \in Accepted
    PROVE  AcceptInv'
<1>1. TrialType /\ AcceptedTrialsAreClean /\ (trial.adapter = "agy" => bridge.busy = 0)
  BY DEF TrialInv, AcceptInv
<1>2. pc \in {"closing", "done"}
  <2>1. Pending.kind \notin Accepted
    BY DEF Pending, Accepted
  <2> QED
    BY <1>1, <2>1 DEF TrialType
<1>3. trial.adapter = "agy" => \A c \in DOMAIN calls : calls[c].stage = "told"
  BY <1>1 DEF AcceptedTrialsAreClean
<1>4. Leave \/ Fail \/ CloseServer \/ (trial.adapter = "agy" /\ (Begin \/ End))
  BY <1>2 DEF TrialNext, NativeNext, Client, Lookups, Supervision, Expire, HttpNext, HttpStep, Prepare, Complete, Inspect,
              Broker, NextRound, Preflight, Probe, Spawn, Communicated, TimeoutExpired, CommunicatedAgain, Terminated,
              JudgeClient, Say, SayAnswer, SayHint, Repeat, Drift, AskTool, Tell, TellResult, Exit, RestartProxy, Upgrade,
              Hook, Finish, Prints, Running, Begin, End, Serving, Gated
<1>5. CASE Leave \/ CloseServer
  <2>1. UNCHANGED <<trial, cli, calls, bridge, result>>
    BY <1>5 DEF Leave, CloseServer, world
  <2>2. AcceptedTrialsAreClean'
    BY <1>1, <2>1 DEF AcceptedTrialsAreClean, UsedTools, OrderlyClient
  <2> QED
    BY <1>1, <2>1, <2>2 DEF AcceptInv
<1>6. CASE Fail
  <2>1. PICK c \in DOMAIN calls : calls[c].stage = "failed" /\ calls' = [calls EXCEPT ![c].stage = "denied"]
    BY <1>6 DEF Fail
  <2>2. trial.adapter # "agy"
    BY <1>3, <2>1
  <2>3. UNCHANGED <<trial, cli, result>> /\ bridge' = [bridge EXCEPT !.error = TRUE]
    BY <1>6 DEF Fail, world
  <2>4. bridge'.upstream = bridge.upstream
    BY <1>1, <2>3 DEF TrialType, BridgeRecord
  <2>5. /\ DOMAIN calls' = DOMAIN calls /\ (calls = <<>> => calls' = <<>>)
        /\ \A d \in DOMAIN calls : calls'[d].id = calls[d].id /\ calls'[d].tool = calls[d].tool
    <3>1. calls \in Seq(CallRecord) /\ "denied" \in Stages /\ calls # <<>>
      BY <1>1, <2>1 DEF TrialType, Stages
    <3> QED
      BY <2>1, <3>1, StageMoves
  <2>6. UsedTools' = UsedTools
    BY <2>5 DEF UsedTools
  <2>7. trial'.adapter \in Streaming => OrderlyClient'
    BY <1>1, <2>3 DEF AcceptedTrialsAreClean, OrderlyClient
  <2>8. AcceptedTrialsAreClean'
    BY <1>1, <2>2, <2>3, <2>4, <2>5, <2>6, <2>7 DEF AcceptedTrialsAreClean, UsedTools
  <2> QED
    BY <2>2, <2>3, <2>8 DEF AcceptInv
<1>7. CASE trial.adapter = "agy" /\ (Begin \/ End)
  BY <1>1, <1>3, <1>7 DEF Begin, End
<1> QED
  BY <1>4, <1>5, <1>6, <1>7

\* A step that accepts a trial is a verdict on a client or on a completion.
LEMMA Accepting ==
    ASSUME TrialInv, TrialNext, result.kind \notin Accepted, result'.kind \in Accepted
    PROVE  AcceptInv'
<1>1. TrialType /\ trial.adapter \in Streaming \cup Http
  BY TrialsAssumption DEF TrialInv, TrialType
<1>2. CASE HttpNext
  BY <1>1, <1>2, HttpSteps, InspectedClean DEF TrialInv
<1>3. CASE NativeNext
  <2>1. result' # result
    OBVIOUS
  <2>2. Raised.kind \notin Accepted /\ Escaped.kind \notin Accepted
    BY DEF Raised, Escaped, Pending, Accepted
  <2>3. ~Conclude(Raised) /\ ~Conclude(Escaped)
    BY <2>2 DEF Conclude
  <2>4. ~Speaks
    BY <1>1, <2>1, SpeaksPlainly
  <2>5. JudgeClient
    BY <1>3, <2>1, <2>2, <2>3, <2>4 DEF NativeNext, Client, Lookups, Supervision, Speaks, Expire, Preflight, Probe, Spawn,
       Communicated, TimeoutExpired, CommunicatedAgain, Terminated, CloseServer, Drift, AskTool, Tell, TellResult, Exit,
       Leave, RestartProxy, Upgrade, Hook, Begin, End, Fail, Quiet, Still
  <2>6. trial.adapter \in Streaming
    <3>1. pc = "judge"
      BY <2>5 DEF JudgeClient
    <3> QED
      BY <1>1, <3>1 DEF TrialType, HttpPcs
  <2> QED
    BY <1>1, <2>5, <2>6, JudgedClean DEF TrialInv
<1> QED
  BY <1>2, <1>3 DEF TrialNext

-----------------------------------------------------------------------------
\* A trial begins in order.
LEMMA TrialBegins ==
    ASSUME TrialInit
    PROVE  TrialInv
<1>1. /\ trial \in Trials /\ pc = "preflight" /\ installed = 1 /\ seen = [preflight |-> 0, probe |-> 0]
      /\ cli = [state |-> "unborn", code |-> 0, version |-> 0, session |-> 1, model |-> Model,
                sessions |-> {1}, models |-> {Model}, repeated |-> FALSE]
      /\ calls = <<>>
      /\ bridge = [count |-> 0, busy |-> 0, upstream |-> 0, served |-> <<>>, error |-> FALSE]
      /\ stream = NoLines /\ result = Pending
      /\ http = [tools |-> 0, next |-> 1, responses |-> {}, first |-> 0] /\ body = Nothing
  BY DEF TrialInit, NativeInit, HttpInit
<1>2. trial.max \in Nat /\ trial.adapter \in Streaming \cup Http
  BY <1>1, TrialsAssumption
<1>3. TrialType
  <2>1. cli \in ClientRecord /\ 1 \in cli.sessions /\ cli.session \in cli.sessions /\ Model \in cli.models
    BY <1>1 DEF ClientRecord
  <2>2. bridge \in BridgeRecord
    BY <1>1 DEF BridgeRecord
  <2>3. stream \in StreamRecord
    BY <1>1 DEF NoLines, StreamRecord
  <2>4. calls \in Seq(CallRecord) /\ DOMAIN calls = {}
    BY <1>1
  <2> QED
    BY <1>1, <1>2, <2>1, <2>2, <2>3, <2>4 DEF TrialType, NativePcs, HttpPcs
<1>4. AcceptInv
  BY <1>1 DEF AcceptInv, Pending, Accepted
<1>5. NativeInv
  <2>1. StartInv
    BY <1>1 DEF StartInv
  <2>2. FetchInv
    <3>1. Tried = {} /\ Cardinality({}) = 0
      BY <1>1, FS_EmptySet DEF Tried
    <3> QED
      BY <1>1, <3>1 DEF FetchInv
  <2>3. ~Live
    BY <1>1 DEF Live
  <2> QED
    BY <1>1, <2>1, <2>2, <2>3 DEF NativeInv, ReportInv, CountInv, ExitInv
<1>6. BrokerInv
  <2>1. body.id \in Nat /\ body.calls \in Batch
    BY <1>1 DEF Nothing, Batch
  <2>2. \A c \in DOMAIN calls : FALSE
    BY <1>1
  <2> QED
    BY <1>1, <1>2, <2>1, <2>2 DEF BrokerInv
<1> QED
  BY <1>3, <1>4, <1>5, <1>6 DEF TrialInv

\* What befalls a trial over HTTP that is no step of its adapter.
LEMMA AroundHttp ==
    ASSUME TrialType, BrokerInv, trial.adapter \in Http, NativeNext, UNCHANGED <<http, body>>
    PROVE  TrialType' /\ BrokerInv'
<1>1. pc \in HttpPcs /\ trial.adapter \notin Streaming /\ trial.adapter # "agy"
  BY DEF TrialType, Http, Streaming
<1>2. Preflight \/ Leave \/ Expire \/ Fail
  BY <1>1 DEF HttpPcs, NativeNext, Client, Lookups, Supervision, Probe, Spawn, Communicated, TimeoutExpired,
              CommunicatedAgain, Terminated, JudgeClient, CloseServer, Say, SayAnswer, SayHint, Repeat, Drift, AskTool, Tell,
              TellResult, Exit, RestartProxy, Upgrade, Hook, Finish, Prints, Running, Begin, End, Serving, Gated
<1>3. CASE Preflight \/ Leave \/ Expire
  <2>1. /\ pc' = pc \/ (pc = "preflight" /\ pc' \in {"probe", "done"})
        /\ pc' # "done" => result' = result
        /\ pc' = pc => result' = result
        /\ seen' \in [preflight : Nat, probe : Nat]
        /\ UNCHANGED <<trial, installed, cli, calls, bridge, stream>>
    BY <1>3 DEF Preflight, Leave, Expire, world, TrialType
  <2>2. TrialType'
    BY <1>1, <2>1 DEF TrialType, HttpPcs
  <2>3. BrokerInv'
    BY <2>1 DEF BrokerInv
  <2> QED
    BY <2>2, <2>3
<1>4. CASE Fail
  <2>1. PICK c \in DOMAIN calls : calls[c].stage = "failed" /\ calls' = [calls EXCEPT ![c].stage = "denied"]
    BY <1>4 DEF Fail
  <2>2. UNCHANGED <<trial, pc, seen, installed, cli, stream, result>> /\ bridge' = [bridge EXCEPT !.error = TRUE]
    BY <1>4 DEF Fail, world
  <2>3. bridge' \in BridgeRecord /\ bridge'.upstream = bridge.upstream
    <3>1. bridge \in BridgeRecord
      BY DEF TrialType
    <3> QED
      BY <2>2, <3>1 DEF BridgeRecord
  <2>4. /\ calls' \in Seq(CallRecord) /\ DOMAIN calls' = DOMAIN calls /\ Len(calls') = Len(calls)
        /\ \A d \in DOMAIN calls : calls'[d].id = calls[d].id /\ calls'[d].tool = calls[d].tool
    <3>1. calls \in Seq(CallRecord) /\ "denied" \in Stages
      BY DEF TrialType, Stages
    <3> QED
      BY <2>1, <3>1, StageMoves
  <2>5. TrialType'
    <3>1. \A d \in DOMAIN calls' : calls'[d].tool = "meta" => trial.adapter = "cursor"
      BY <2>4 DEF TrialType
    <3> QED
      BY <2>2, <2>3, <2>4, <3>1, TypeKept DEF TrialType
  <2>6. BrokerInv'
    BY <2>2, <2>3, <2>4 DEF BrokerInv
  <2> QED
    BY <2>5, <2>6
<1> QED
  BY <1>2, <1>3, <1>4

\* Every step of a trial keeps the invariant, whichever adapter runs it.
LEMMA TrialKeeps ==
    ASSUME TrialInv, [TrialNext]_trialVars
    PROVE  TrialInv'
<1>1. CASE TrialNext
  <2>1. TrialType /\ trial.adapter \in Streaming \cup Http /\ Streaming \cap Http = {}
    BY TrialsAssumption DEF TrialInv, TrialType, Streaming, Http
  <2>2. AcceptInv'
    <3>1. CASE result.kind \in Accepted
      BY <1>1, <3>1, AcceptedStays
    <3>2. CASE result.kind \notin Accepted /\ result'.kind \in Accepted
      BY <1>1, <3>2, Accepting
    <3>3. CASE result'.kind \notin Accepted
      BY <3>3 DEF AcceptInv
    <3> QED
      BY <3>1, <3>2, <3>3
  <2>3. trial' = trial
    <3>1. CASE HttpNext
      BY <2>1, <3>1, HttpSteps
    <3>2. CASE NativeNext
      BY <3>2 DEF NativeNext, Client, Lookups, Supervision, Expire, Preflight, Probe, Spawn, Conclude, Communicated,
         TimeoutExpired, CommunicatedAgain, Terminated, JudgeClient, CloseServer, Say, SayAnswer, SayHint, Repeat, Finish,
         Drift, AskTool, Tell, TellResult, Exit, Leave, RestartProxy, Upgrade, Hook, Begin, End, Fail, Quiet, Still
    <3> QED
      BY <1>1, <3>1, <3>2 DEF TrialNext
  <2>4. CASE trial.adapter \in Streaming
    <3>1. NativeNext
      BY <1>1, <2>1, <2>4, HttpSteps DEF TrialNext
    <3> QED
      BY <2>1, <2>2, <2>3, <2>4, <3>1, NativeKeeps DEF TrialInv
  <2>5. CASE trial.adapter \in Http
    <3>1. TrialType' /\ BrokerInv'
      BY <1>1, <2>1, <2>5, HttpKeeps, AroundHttp DEF TrialInv, TrialNext
    <3> QED
      BY <2>1, <2>2, <2>3, <2>5, <3>1 DEF TrialInv
  <2> QED
    BY <2>1, <2>4, <2>5
<1>2. CASE UNCHANGED trialVars
  <2>1. UNCHANGED <<trial, pc, installed, seen, cli, due, calls, bridge, stream, result, http, body>>
    BY <1>2 DEF trialVars, nativeVars
  <2>2. TrialType' <=> TrialType
    BY <2>1 DEF TrialType
  <2>3. AcceptInv' <=> AcceptInv
    <3>1. AcceptedTrialsAreClean' <=> AcceptedTrialsAreClean
      BY <2>1 DEF AcceptedTrialsAreClean, UsedTools, OrderlyClient
    <3> QED
      BY <2>1, <3>1 DEF AcceptInv
  <2>4. BrokerInv' <=> BrokerInv
    BY <2>1 DEF BrokerInv
  <2>5. NativeInv => NativeInv'
    <3> SUFFICES ASSUME NativeInv PROVE NativeInv'
      OBVIOUS
    <3>1. StartInv' /\ ExitInv'
      BY <2>1 DEF NativeInv, StartInv, ExitInv, Live
    <3>2. FetchInv' /\ ReportInv' /\ CountInv'
      BY <2>1, FetchSame, ReportSame, CountSame DEF NativeInv, Live
    <3> QED
      BY <3>1, <3>2 DEF NativeInv
  <2> QED
    BY <2>1, <2>2, <2>3, <2>4, <2>5 DEF TrialInv
<1> QED
  BY <1>1, <1>2

\* A trial stays in order until it is over.
LEMMA TrialSafe == TrialSpec => []TrialInv
<1>1. TrialInit => TrialInv
  BY TrialBegins
<1>2. TrialInv /\ [TrialNext]_trialVars => TrialInv'
  BY TrialKeeps
<1> QED
  BY <1>1, <1>2, PTL DEF TrialSpec

\* Whatever the client or the provider does, a trial that is recorded as the
\* model's own was run in order and counted to the last lookup.
THEOREM TrialsAreClean == TrialSpec => []AcceptedTrialsAreClean
<1>1. TrialInv => AcceptedTrialsAreClean
  BY DEF TrialInv, AcceptInv, AcceptedTrialsAreClean
<1> QED
  BY <1>1, TrialSafe, PTL

-----------------------------------------------------------------------------
(* The gateway of the OpenCode adapter. *)

USE GatewayAssumption

Locked == {"entered", "committed", "sent", "answering", "concluding", "resulting"}
Places == Locked \cup {"idle", "waiting", "raised"}
Calls == [Names -> Seq(Args)]

GatewayType ==
    /\ at \in [Handlers -> Places]
    /\ IsFiniteSet(requests)
    /\ committed \in Nat /\ observed \in Nat /\ sent \in Nat /\ usage \in Nat
    /\ delivered \in Nat /\ toolCalls \in Nat
    /\ pending \in Calls /\ asked \in Calls /\ made \in Calls

\* Whoever serves a POST has the lock.
ServeInv == \A h \in Handlers : at[h] \in Locked => lock = h

\* What has been accepted was committed, sent, observed, counted and delivered
\* at most once each, and in that order; a request that is under way is not
\* yet in the count it comes to next.
FlowInv ==
    /\ delivered <= usage /\ usage <= observed /\ observed <= sent /\ sent <= committed
    /\ committed <= Cardinality(requests)
    /\ \A h \in Handlers :
          /\ at[h] = "committed" => sent < committed
          /\ at[h] = "sent" => observed < sent
          /\ at[h] \in {"answering", "concluding"} => delivered < usage

\* Once a final answer has been told nothing is accepted, so what the adapter
\* has seen delivered stays everything that was accepted.
FinishInv ==
    /\ \A h \in Handlers : /\ at[h] = "concluding" => finished
                           /\ finished => at[h] \notin {"committed", "sent"}
    /\ told => finished
    /\ main \in {"answered", "checking", "verifying"} \/ outcome = "ok" => told
    /\ main \in {"checking", "verifying"} \/ outcome = "ok" => delivered = Cardinality(requests)
    /\ main = "closed" => \A h \in Handlers : at[h] = "idle"

GatewayInv == GatewayType /\ ServeInv /\ FlowInv /\ FinishInv

\* The pending calls are the end of what was asked for, and the calls made are
\* from before it, in their order.
Follows(m, q, p) ==
    /\ Len(m) + Len(p) <= Len(q)
    /\ \A i \in 1..Len(p) : p[i] = q[Len(q) - Len(p) + i]
    /\ \E place \in [1..Len(m) -> 1..Len(q) - Len(p)] :
          \A i \in 1..Len(m) : m[i] = q[place[i]] /\ \A j \in 1..i - 1 : place[j] < place[i]

LookupInv ==
    \A n \in Names : /\ Len(asked[n]) <= toolCalls /\ Len(asked[n]) <= MaxToolCalls
                     /\ Follows(made[n], asked[n], pending[n])

-----------------------------------------------------------------------------
\* A response has calls, and no tool is asked for more than all of them.
LEMMA ResponseCalls ==
    ASSUME NEW refs \in Responses
    PROVE  refs \in Calls /\ Count(refs) \in Nat /\ \A n \in Names : Len(refs[n]) <= Count(refs)
<1>1. refs \in [Names -> UNION {[1..k -> Args] : k \in 0..MaxParallel}]
  BY DEF Responses
<1>2. ASSUME NEW n \in Names PROVE refs[n] \in Seq(Args)
  <2>1. PICK k \in 0..MaxParallel : refs[n] \in [1..k -> Args]
    BY <1>1, <1>2
  <2> QED
    BY <2>1, GatewayAssumption
<1>3. refs \in Calls
  BY <1>1, <1>2 DEF Calls
<1>4. DEFINE f == [n \in Names |-> Len(refs[n])]
<1>5. f \in [Names -> Nat] /\ Count(refs) = Total(f)
  BY <1>3 DEF Calls, Count
<1>6. Total(f) \in Nat
  BY <1>5, UnitsFinite
<1>7. ASSUME NEW n \in Names PROVE f[n] <= Total(f)
  <2>1. [f EXCEPT ![n] = 0] \in [Names -> Nat]
    BY <1>5
  <2>2. Total([f EXCEPT ![n] = 0]) \in Nat
    BY <2>1, UnitsFinite
  <2>3. Total([f EXCEPT ![n] = 0]) = Total(f) - f[n] + 0
    BY <1>5, TotalUpdate
  <2>4. f[n] \in Nat
    BY <1>5
  <2> HIDE DEF f
  <2> QED
    BY <1>6, <2>2, <2>3, <2>4
<1> QED
  BY <1>3, <1>5, <1>6, <1>7

\* What is asked for goes to the end.
LEMMA AskFollows ==
    ASSUME NEW m \in Seq(Args), NEW q \in Seq(Args), NEW p \in Seq(Args), NEW r \in Seq(Args), Follows(m, q, p)
    PROVE  Follows(m, q \o r, p \o r)
<1>1. /\ q \o r \in Seq(Args) /\ Len(q \o r) = Len(q) + Len(r)
      /\ p \o r \in Seq(Args) /\ Len(p \o r) = Len(p) + Len(r)
  OBVIOUS
<1>2. /\ Len(m) \in Nat /\ Len(q) \in Nat /\ Len(p) \in Nat /\ Len(r) \in Nat /\ Len(m) + Len(p) <= Len(q)
  BY DEF Follows
<1>3. PICK place \in [1..Len(m) -> 1..Len(q) - Len(p)] :
         \A i \in 1..Len(m) : m[i] = q[place[i]] /\ \A j \in 1..i - 1 : place[j] < place[i]
  BY DEF Follows
<1>4. \A i \in 1..Len(q) : (q \o r)[i] = q[i]
  OBVIOUS
<1>5. ASSUME NEW i \in 1..Len(p \o r) PROVE (p \o r)[i] = (q \o r)[Len(q \o r) - Len(p \o r) + i]
  <2>1. CASE i <= Len(p)
    <3>1. (p \o r)[i] = p[i] /\ p[i] = q[Len(q) - Len(p) + i]
      BY <1>1, <1>2, <1>5, <2>1 DEF Follows
    <3>2. Len(q) - Len(p) + i \in 1..Len(q) /\ Len(q \o r) - Len(p \o r) + i = Len(q) - Len(p) + i
      BY <1>1, <1>2, <1>5, <2>1
    <3> QED
      BY <1>4, <3>1, <3>2
  <2>2. CASE i > Len(p)
    <3>1. (p \o r)[i] = r[i - Len(p)]
      BY <1>1, <1>2, <1>5, <2>2
    <3>2. Len(q \o r) - Len(p \o r) + i = Len(q) + (i - Len(p)) /\ i - Len(p) \in 1..Len(r)
      BY <1>1, <1>2, <1>5, <2>2
    <3>3. (q \o r)[Len(q) + (i - Len(p))] = r[i - Len(p)]
      BY <1>2, <3>2
    <3> QED
      BY <3>1, <3>2, <3>3
  <2> QED
    BY <1>1, <1>2, <2>1, <2>2
<1>6. Len(q \o r) - Len(p \o r) = Len(q) - Len(p) /\ Len(m) + Len(p \o r) <= Len(q \o r)
  BY <1>1, <1>2
<1>7. \A i \in 1..Len(m) : place[i] \in 1..Len(q)
  BY <1>2, <1>3
<1>8. \A i \in 1..Len(m) : m[i] = (q \o r)[place[i]] /\ \A j \in 1..i - 1 : place[j] < place[i]
  BY <1>3, <1>4, <1>7
<1> QED
  BY <1>3, <1>5, <1>6, <1>8 DEF Follows

\* The head of what is pending is forwarded, or not.
LEMMA LookupFollows ==
    ASSUME NEW m \in Seq(Args), NEW q \in Seq(Args), NEW p \in Seq(Args), p # <<>>, Follows(m, q, p)
    PROVE  /\ Tail(p) \in Seq(Args) /\ Head(p) \in Args /\ Append(m, Head(p)) \in Seq(Args)
           /\ Follows(m, q, Tail(p)) /\ Follows(Append(m, Head(p)), q, Tail(p))
<1> DEFINE k == Len(q) - Len(p) + 1
           l == Append(m, Head(p))
<1>1. /\ Len(p) \in Nat /\ Len(p) > 0 /\ Len(q) \in Nat /\ Len(m) \in Nat
      /\ Tail(p) \in Seq(Args) /\ Len(Tail(p)) = Len(p) - 1 /\ Head(p) = p[1] /\ Head(p) \in Args
      /\ \A i \in 1..Len(p) - 1 : Tail(p)[i] = p[i + 1]
  OBVIOUS
<1>2. Len(m) + Len(p) <= Len(q) /\ \A i \in 1..Len(p) : p[i] = q[Len(q) - Len(p) + i]
  BY DEF Follows
<1>3. k \in 1..Len(q) /\ Len(q) - Len(Tail(p)) = k /\ Head(p) = q[k]
  BY <1>1, <1>2
<1>4. ASSUME NEW i \in 1..Len(Tail(p)) PROVE Tail(p)[i] = q[Len(q) - Len(Tail(p)) + i]
  <2>1. i + 1 \in 1..Len(p) /\ Tail(p)[i] = p[i + 1]
    BY <1>1, <1>4
  <2>2. p[i + 1] = q[Len(q) - Len(p) + (i + 1)]
    BY <1>2, <2>1
  <2>3. Len(q) - Len(Tail(p)) + i = Len(q) - Len(p) + (i + 1)
    BY <1>1, <1>4
  <2> QED
    BY <2>1, <2>2, <2>3
<1>5. PICK place \in [1..Len(m) -> 1..Len(q) - Len(p)] :
         \A i \in 1..Len(m) : m[i] = q[place[i]] /\ \A j \in 1..i - 1 : place[j] < place[i]
  BY DEF Follows
<1>6. place \in [1..Len(m) -> 1..k] /\ \A i \in 1..Len(m) : place[i] < k
  <2>1. \A j \in 1..Len(q) - Len(p) : j \in 1..k /\ j < k
    BY <1>1
  <2>2. \A i \in 1..Len(m) : place[i] \in 1..Len(q) - Len(p)
    BY <1>5
  <2> HIDE DEF k
  <2> QED
    BY <1>5, <2>1, <2>2
<1>7. Follows(m, q, Tail(p))
  <2>1. Len(m) + Len(Tail(p)) <= Len(q) /\ Len(q) - Len(Tail(p)) = k
    BY <1>1, <1>2, <1>3
  <2> HIDE DEF k
  <2> QED
    BY <1>4, <1>5, <1>6, <2>1 DEF Follows
<1>8. l \in Seq(Args) /\ Len(l) = Len(m) + 1 /\ l[Len(m) + 1] = Head(p) /\ \A i \in 1..Len(m) : l[i] = m[i]
  BY <1>1
<1>9. Follows(l, q, Tail(p))
  <2> DEFINE next == [i \in 1..Len(l) |-> IF i \in 1..Len(m) THEN place[i] ELSE k]
  <2>1. next \in [1..Len(l) -> 1..k]
    BY <1>1, <1>3, <1>6
  <2>2. ASSUME NEW i \in 1..Len(l) PROVE l[i] = q[next[i]] /\ \A j \in 1..i - 1 : next[j] < next[i]
    <3>1. CASE i \in 1..Len(m)
      <4>1. next[i] = place[i] /\ \A j \in 1..i - 1 : next[j] = place[j]
        BY <1>1, <1>8, <3>1
      <4> QED
        BY <1>5, <1>8, <3>1, <4>1
    <3>2. CASE i \notin 1..Len(m)
      <4>1. i = Len(m) + 1 /\ next[i] = k
        BY <1>1, <1>8, <2>2, <3>2
      <4>2. \A j \in 1..i - 1 : next[j] = place[j] /\ place[j] < k
        BY <1>1, <1>6, <1>8, <4>1
      <4> QED
        BY <1>3, <1>8, <4>1, <4>2
    <3> QED
      BY <3>1, <3>2
  <2>3. Len(l) + Len(Tail(p)) <= Len(q) /\ Len(q) - Len(Tail(p)) = k
    BY <1>1, <1>2, <1>3, <1>8
  <2> HIDE DEF next, l, k
  <2> QED
    BY <1>4, <2>1, <2>2, <2>3 DEF Follows
<1> QED
  BY <1>1, <1>7, <1>8, <1>9

-----------------------------------------------------------------------------
LEMMA GatewayBegins == Init => GatewayInv /\ LookupInv
<1> SUFFICES ASSUME Init PROVE GatewayInv /\ LookupInv
  OBVIOUS
<1>1. <<>> \in Seq(Args) /\ Len(<<>>) = 0
  OBVIOUS
<1>2. IsFiniteSet(requests) /\ Cardinality(requests) = 0
  BY FS_EmptySet DEF Init
<1>3. GatewayType
  BY <1>1, <1>2 DEF Init, GatewayType, Places, Calls
<1>4. ServeInv /\ FlowInv /\ FinishInv
  BY <1>2 DEF Init, ServeInv, FlowInv, FinishInv, Locked
<1>5. LookupInv
  <2> SUFFICES ASSUME NEW n \in Names
               PROVE  Len(asked[n]) <= toolCalls /\ Len(asked[n]) <= MaxToolCalls /\ Follows(made[n], asked[n], pending[n])
    BY DEF LookupInv
  <2>1. asked[n] = <<>> /\ made[n] = <<>> /\ pending[n] = <<>> /\ toolCalls = 0
    BY DEF Init
  <2>2. Follows(<<>>, <<>>, <<>>)
    <3> DEFINE nowhere == [i \in 1..0 |-> 0]
    <3>1. nowhere \in [1..Len(<<>>) -> 1..Len(<<>>) - Len(<<>>)]
      BY <1>1
    <3>2. \A i \in 1..Len(<<>>) : FALSE
      BY <1>1
    <3>3. Len(<<>>) + Len(<<>>) <= Len(<<>>)
      BY <1>1
    <3> HIDE DEF nowhere
    <3> QED
      BY <3>1, <3>2, <3>3 DEF Follows
  <2> QED
    BY <2>1, <2>2
<1> QED
  BY <1>3, <1>4, <1>5 DEF GatewayInv

\* Steps of a thread that count nothing: it moves, takes the lock or gives it up.
LEMMA ThreadMoves ==
    ASSUME GatewayInv, NEW h \in Handlers, NEW place \in Places, Goto(h, place),
           UNCHANGED <<requests, committed, observed, sent, usage, finished, delivered, told, toolCalls, adapter>>,
           pending' \in Calls, asked' = asked, made' \in Calls,
           main # "closed" \/ place = "idle",
           place \in Locked => lock' = h,
           \A g \in Handlers \ {h} : lock = g => lock' = g,
           place \notin {"committed", "sent", "answering", "concluding"}
    PROVE  GatewayInv'
<1>1. at'[h] = place /\ \A g \in Handlers : g # h => at'[g] = at[g]
  BY DEF GatewayInv, GatewayType, Goto
<1>2. GatewayType'
  BY DEF GatewayInv, GatewayType, Goto
<1>3. ServeInv'
  BY <1>1 DEF GatewayInv, ServeInv
<1>4. FlowInv'
  BY <1>1 DEF GatewayInv, FlowInv
<1>5. FinishInv'
  BY <1>1 DEF GatewayInv, FinishInv, adapter
<1> QED
  BY <1>2, <1>3, <1>4, <1>5 DEF GatewayInv

\* The steps on the way in and out, and those that fail.
LEMMA ServeMoves ==
    ASSUME GatewayInv, NEW h \in Handlers,
           Connect(h) \/ Enter(h) \/ Pass(h) \/ Retain(h) \/ Refuse(h) \/ \E n \in Names, a \in Args : Lookup(h, n, a)
    PROVE  GatewayInv'
<1> USE DEF gate, budget, history, client, Places, Locked
<1>0. /\ at[h] \in Locked => lock = h
      /\ main = "closed" => at[h] = "idle"
      /\ pending \in Calls /\ made \in Calls
  BY DEF GatewayInv, ServeInv, FinishInv, GatewayType
<1>1. CASE Connect(h)
  BY <1>0, <1>1, ThreadMoves DEF Connect
<1>2. CASE Enter(h)
  <2>1. main # "closed" /\ lock = None /\ UNCHANGED <<requests, committed, observed, sent, usage, finished, delivered, told, toolCalls, adapter, pending, asked, made>>
    BY <1>0, <1>2 DEF Enter
  <2>2. CASE Goto(h, "raised") /\ lock' = lock
    BY <1>0, <2>1, <2>2, ThreadMoves
  <2>3. CASE Goto(h, "entered") /\ lock' = h
    BY <1>0, <2>1, <2>3, ThreadMoves
  <2> QED
    BY <1>2, <2>2, <2>3 DEF Enter
<1>3. CASE Pass(h)
  <2>1. \A g \in Handlers \ {h} : lock # g
    BY <1>0, <1>3 DEF Pass
  <2> QED
    BY <1>0, <1>3, <2>1, ThreadMoves DEF Pass
<1>4. CASE Retain(h)
  BY <1>0, <1>4, ThreadMoves DEF Retain
<1>5. CASE Refuse(h)
  BY <1>0, <1>5, ThreadMoves DEF Refuse, Raise
<1>6. ASSUME NEW n \in Names, NEW a \in Args, Lookup(h, n, a) PROVE GatewayInv'
  <2>1. /\ at[h] = "entered" /\ pending[n] # <<>> /\ pending' = [pending EXCEPT ![n] = Tail(@)]
        /\ UNCHANGED <<requests, committed, observed, sent, usage, finished, delivered, told, toolCalls, adapter, asked>>
        /\ made' = made \/ made' = [made EXCEPT ![n] = Append(@, a)]
        /\ (Goto(h, "resulting") /\ lock' = lock) \/ (Goto(h, "raised") /\ lock' = None)
    BY <1>6 DEF Lookup, Requested, Raise
  <2>2. Tail(pending[n]) \in Seq(Args) /\ Append(made[n], a) \in Seq(Args)
    BY <1>0, <2>1 DEF Calls
  <2>3. pending' \in Calls /\ made' \in Calls
    BY <1>0, <2>1, <2>2 DEF Calls
  <2> QED
    BY <1>0, <2>1, <2>3, ThreadMoves
<1> QED
  BY <1>1, <1>2, <1>3, <1>4, <1>5, <1>6

\* A request comes to its next count, or fails before it.
LEMMA ServeCounts ==
    ASSUME GatewayInv, NEW h \in Handlers,
           \/ \E b \in Bodies : Accept(h, b)
           \/ Send(h) \/ Reject(h)
           \/ \E refs \in Responses, count \in 1..MaxParallel : RejectCalls(h, refs, count)
           \/ \E refs \in Responses, terminal \in BOOLEAN : Judge(h, refs, terminal)
           \/ Deliver(h)
    PROVE  GatewayInv'
<1> USE DEF gate, budget, history, client
<1>0. /\ at[h] \in Locked => lock = h
      /\ at \in [Handlers -> Places] /\ IsFiniteSet(requests) /\ Cardinality(requests) \in Nat
      /\ GatewayType /\ ServeInv /\ FlowInv /\ FinishInv
  BY FS_CardinalityType DEF GatewayInv, ServeInv, GatewayType
<1>1. at[h] \in Locked => \A g \in Handlers : g # h => at[g] \notin Locked
  BY <1>0 DEF ServeInv
<1>2. ASSUME NEW place \in Places, Goto(h, place)
      PROVE  at' \in [Handlers -> Places] /\ at'[h] = place /\ \A g \in Handlers : g # h => at'[g] = at[g]
  BY <1>0, <1>2 DEF Goto
<1>3. ASSUME NEW place \in Places, Goto(h, place), at[h] \in Locked, (place \in Locked /\ lock' = lock) \/ (place = "raised" \/ place = "idle")
      PROVE  ServeInv'
  BY <1>0, <1>1, <1>2, <1>3 DEF ServeInv, Locked
<1>4. at[h] \in Locked => main # "closed"
  BY <1>0 DEF FinishInv, Locked
<1>5. ASSUME NEW b \in Bodies, Accept(h, b) PROVE GatewayInv'
  <2>1. /\ at[h] = "entered" /\ ~finished /\ b \notin requests /\ requests' = requests \cup {b}
        /\ UNCHANGED <<observed, sent, usage, finished, delivered, told, toolCalls, adapter, pending, asked, made>>
        /\ \/ committed = observed /\ committed' = committed + 1 /\ Goto(h, "committed") /\ lock' = lock
           \/ committed' = committed /\ Goto(h, "raised")
    BY <1>5 DEF Accept, Acceptable, Raise
  <2>2. IsFiniteSet(requests') /\ Cardinality(requests') = Cardinality(requests) + 1
    BY <1>0, <2>1, FS_AddElement
  <2>3. GatewayType'
    BY <1>0, <1>2, <2>1, <2>2 DEF GatewayType, Places, Locked
  <2>4. ServeInv'
    BY <1>3, <2>1 DEF Places, Locked
  <2>5. FlowInv'
    BY <1>0, <1>1, <1>2, <2>1, <2>2 DEF FlowInv, GatewayType, Places, Locked
  <2>6. FinishInv'
    BY <1>0, <1>2, <1>4, <2>1 DEF FinishInv, adapter, Places, Locked
  <2> QED
    BY <2>3, <2>4, <2>5, <2>6 DEF GatewayInv
<1>6. CASE Send(h)
  <2>1. /\ at[h] = "committed"
        /\ UNCHANGED <<requests, committed, observed, usage, finished, delivered, told, toolCalls, adapter, pending, asked, made>>
        /\ \/ sent' = sent + 1 /\ Goto(h, "sent") /\ lock' = lock
           \/ sent' = sent /\ Goto(h, "raised")
    BY <1>6 DEF Send, Raise
  <2>2. GatewayType'
    BY <1>0, <1>2, <2>1 DEF GatewayType, Places, Locked
  <2>3. ServeInv'
    BY <1>3, <2>1 DEF Places, Locked
  <2>4. FlowInv'
    BY <1>0, <1>1, <1>2, <2>1 DEF FlowInv, GatewayType, Places, Locked
  <2>5. FinishInv'
    BY <1>0, <1>2, <1>4, <2>1 DEF FinishInv, adapter, Places, Locked
  <2> QED
    BY <2>2, <2>3, <2>4, <2>5 DEF GatewayInv
<1>7. CASE Reject(h)
  <2>1. /\ at[h] = "sent" /\ Goto(h, "raised")
        /\ UNCHANGED <<requests, committed, sent, finished, delivered, told, toolCalls, adapter, pending, asked, made>>
        /\ \/ observed' = observed /\ usage' = usage
           \/ observed' = observed + 1 /\ (usage' = usage \/ usage' = usage + 1)
    BY <1>7 DEF Reject, Raise
  <2>2. GatewayType'
    BY <1>0, <1>2, <2>1 DEF GatewayType, Places, Locked
  <2>3. ServeInv'
    BY <1>3, <2>1 DEF Places, Locked
  <2>4. FlowInv'
    BY <1>0, <1>1, <1>2, <2>1 DEF FlowInv, GatewayType, Places, Locked
  <2>5. FinishInv'
    BY <1>0, <1>2, <1>4, <2>1 DEF FinishInv, adapter, Places, Locked
  <2> QED
    BY <2>2, <2>3, <2>4, <2>5 DEF GatewayInv
<1>8. ASSUME NEW refs \in Responses, Ask(refs) PROVE pending' \in Calls /\ asked' \in Calls
  <2>1. \A n \in Names : pending[n] \o refs[n] \in Seq(Args) /\ asked[n] \o refs[n] \in Seq(Args)
    BY <1>0, ResponseCalls DEF GatewayType, Calls
  <2> QED
    BY <1>8, <2>1 DEF Ask, Calls
<1>9. ASSUME NEW refs \in Responses, NEW count \in 1..MaxParallel, RejectCalls(h, refs, count) PROVE GatewayInv'
  <2>1. /\ at[h] = "sent" /\ Goto(h, "raised") /\ Ask(refs)
        /\ observed' = observed + 1 /\ usage' = usage + 1 /\ toolCalls' = toolCalls + count
        /\ UNCHANGED <<requests, committed, sent, finished, delivered, told, adapter, made>>
    BY <1>9 DEF RejectCalls, Raise
  <2>2. GatewayType'
    BY <1>0, <1>2, <1>8, <2>1 DEF GatewayType, Places, Locked
  <2>3. ServeInv'
    BY <1>3, <2>1 DEF Places, Locked
  <2>4. FlowInv'
    BY <1>0, <1>1, <1>2, <2>1 DEF FlowInv, GatewayType, Places, Locked
  <2>5. FinishInv'
    BY <1>0, <1>2, <1>4, <2>1 DEF FinishInv, adapter, Places, Locked
  <2> QED
    BY <2>2, <2>3, <2>4, <2>5 DEF GatewayInv
<1>10. ASSUME NEW refs \in Responses, NEW terminal \in BOOLEAN, Judge(h, refs, terminal) PROVE GatewayInv'
  <2>1. /\ at[h] = "sent" /\ Ask(refs) /\ (terminal => Count(refs) = 0)
        /\ observed' = observed + 1 /\ usage' = usage + 1 /\ toolCalls' = toolCalls + Count(refs)
        /\ finished' = (Count(refs) = 0) /\ lock' = lock
        /\ IF terminal THEN Goto(h, "concluding") ELSE Goto(h, "answering")
        /\ UNCHANGED <<requests, committed, sent, delivered, told, adapter, made>>
    BY <1>10 DEF Judge
  <2>2. ~finished /\ ~told
    BY <1>0, <2>1 DEF FinishInv
  <2>3. GatewayType'
    BY <1>0, <1>2, <1>8, <2>1, ResponseCalls DEF GatewayType, Places, Locked
  <2>4. ServeInv'
    BY <1>3, <2>1 DEF Places, Locked
  <2>5. FlowInv'
    BY <1>0, <1>1, <1>2, <2>1 DEF FlowInv, GatewayType, Places, Locked
  <2>6. FinishInv'
    BY <1>0, <1>1, <1>2, <1>4, <2>1, <2>2 DEF FinishInv, adapter, Places, Locked
  <2> QED
    BY <2>3, <2>4, <2>5, <2>6 DEF GatewayInv
<1>11. CASE Deliver(h)
  <2>1. /\ at[h] \in {"answering", "concluding", "resulting"}
        /\ Goto(h, "idle") \/ Goto(h, "raised")
        /\ UNCHANGED <<requests, committed, observed, sent, usage, finished, toolCalls, adapter, pending, asked, made>>
        /\ \/ delivered' = delivered /\ told' = told
           \/ at[h] # "resulting" /\ delivered' = delivered + 1 /\ told' = (told \/ at[h] = "concluding")
    BY <1>11 DEF Deliver, Raise
  <2>2. GatewayType'
    BY <1>0, <1>2, <2>1 DEF GatewayType, Places, Locked
  <2>3. ServeInv'
    BY <1>3, <2>1 DEF Places, Locked
  <2>4. FlowInv'
    BY <1>0, <1>1, <1>2, <2>1 DEF FlowInv, GatewayType, Places, Locked
  <2>5. delivered' # delivered => delivered # Cardinality(requests)
    BY <1>0, <2>1 DEF FlowInv, GatewayType
  <2>6. at'[h] \in {"idle", "raised"} /\ \A g \in Handlers : g # h => at'[g] = at[g]
    BY <1>2, <2>1 DEF Places
  <2>7. /\ at[h] = "concluding" => finished
        /\ told => finished
        /\ main # "closed"
    BY <1>0, <1>4, <2>1 DEF FinishInv, Locked
  <2>9. (told => told') /\ (told' => told \/ at[h] = "concluding")
    <3>1. CASE told' = told
      BY <3>1, Zenon
    <3>2. CASE told' = (told \/ at[h] = "concluding")
      BY <3>2, Zenon
    <3> QED
      BY <2>1, <3>1, <3>2
  <2>8. FinishInv'
    BY <1>0, <2>1, <2>5, <2>6, <2>7, <2>9 DEF FinishInv, adapter
  <2> QED
    BY <2>2, <2>3, <2>4, <2>8 DEF GatewayInv
<1> QED
  BY <1>5, <1>6, <1>7, <1>9, <1>10, <1>11

\* The adapter reads; it changes nothing of the gate.
LEMMA AdapterMoves ==
    ASSUME GatewayInv, Answer \/ Adapter PROVE GatewayInv'
<1> USE DEF gate, budget, history, client
<1>1. /\ UNCHANGED <<at, lock, gate, budget, history, client>>
  BY DEF Answer, Adapter, Collect, CheckError, Verify, GiveUp, Shutdown, Join, Stay
<1>2. GatewayType' /\ ServeInv' /\ FlowInv'
  BY <1>1 DEF GatewayInv, GatewayType, ServeInv, FlowInv
<1>3. FinishInv'
  BY <1>1 DEF GatewayInv, FinishInv, Answer, Adapter, Collect, CheckError, Verify, GiveUp, Shutdown, Join, Close
<1> QED
  BY <1>2, <1>3 DEF GatewayInv

LEMMA GatewayStep == GatewayInv /\ [Next]_vars => GatewayInv'
<1> SUFFICES ASSUME GatewayInv, [Next]_vars PROVE GatewayInv'
  OBVIOUS
<1>1. ASSUME NEW h \in Handlers, Connect(h) \/ Serve(h) PROVE GatewayInv'
  BY <1>1, ServeMoves, ServeCounts DEF Serve
<1>2. CASE Answer \/ Adapter
  BY <1>2, AdapterMoves
<1>3. CASE UNCHANGED vars
  BY <1>3 DEF vars, gate, budget, history, client, adapter, GatewayInv, GatewayType, ServeInv, FlowInv, FinishInv
<1> QED
  BY <1>1, <1>2, <1>3 DEF Next

\* A trial that succeeds has accounted for every request its provider got, with
\* any number of connections served while the adapter reads without the lock.
THEOREM SuccessAccounts == Spec => []SuccessIsAccounted
<1>1. GatewayInv => SuccessIsAccounted
  <2> SUFFICES ASSUME GatewayInv, outcome = "ok"
               PROVE  sent = committed /\ sent = observed /\ sent = usage /\ sent = delivered /\ finished
    BY DEF SuccessIsAccounted
  <2>1. Cardinality(requests) \in Nat
    BY FS_CardinalityType DEF GatewayInv, GatewayType
  <2> QED
    BY <2>1 DEF GatewayInv, GatewayType, FlowInv, FinishInv
<1> QED
  BY <1>1, GatewayBegins, GatewayStep, PTL DEF Spec

\* Once the adapter is back no thread changes what was accounted for.
THEOREM AccountingClosesLast == Spec => ClosedIsQuiet
<1>1. GatewayInv /\ [Next]_vars => [main = "closed" => UNCHANGED <<budget, gate>>]_vars
  <2> SUFFICES ASSUME GatewayInv, Next, main = "closed" PROVE UNCHANGED <<budget, gate>>
    BY DEF vars
  <2>1. \A h \in Handlers : at[h] = "idle"
    BY DEF GatewayInv, FinishInv
  <2>2. ASSUME NEW h \in Handlers PROVE ~Connect(h) /\ ~Serve(h)
    BY <2>1 DEF Connect, Serve, Enter, Pass, Retain, Refuse, Accept, Send, Reject, RejectCalls, Judge, Lookup, Deliver
  <2>3. CASE Answer \/ Adapter
    BY <2>3 DEF Answer, Adapter, Collect, CheckError, Verify, GiveUp, Shutdown, Join, Stay
  <2> QED
    BY <2>2, <2>3 DEF Next
<1> QED
  BY <1>1, GatewayBegins, GatewayStep, PTL DEF Spec, ClosedIsQuiet

-----------------------------------------------------------------------------
\* Two sequences together stay within what bounds each.
LEMMA LengthAdds ==
    ASSUME NEW q \in Seq(Args), NEW r \in Seq(Args), NEW count \in Nat, NEW bound \in Nat, NEW limit \in Nat,
           Len(q) <= bound, Len(r) <= count, bound + count <= limit
    PROVE  Len(q \o r) <= limit
<1>1. Len(q \o r) = Len(q) + Len(r) /\ Len(q) \in Nat /\ Len(r) \in Nat
  OBVIOUS
<1> QED
  BY <1>1

\* A response adds to what was asked for no more than the config allows.
LEMMA AskKeepsLookups ==
    ASSUME GatewayType, LookupInv, NEW refs \in Responses, Ask(refs), made' = made,
           toolCalls' \in Nat, toolCalls + Count(refs) <= toolCalls',
           Count(refs) = 0 \/ toolCalls + Count(refs) <= MaxToolCalls
    PROVE  LookupInv'
<1> SUFFICES ASSUME NEW n \in Names
             PROVE  /\ Len(asked'[n]) <= toolCalls' /\ Len(asked'[n]) <= MaxToolCalls
                    /\ Follows(made'[n], asked'[n], pending'[n])
  BY DEF LookupInv
<1>1. /\ made[n] \in Seq(Args) /\ asked[n] \in Seq(Args) /\ pending[n] \in Seq(Args) /\ refs[n] \in Seq(Args)
      /\ Count(refs) \in Nat /\ Len(refs[n]) <= Count(refs) /\ toolCalls \in Nat
  BY ResponseCalls DEF GatewayType, Calls
<1>2. asked'[n] = asked[n] \o refs[n] /\ pending'[n] = pending[n] \o refs[n] /\ made'[n] = made[n]
  BY DEF Ask
<1>3. Len(asked[n]) <= toolCalls /\ Len(asked[n]) <= MaxToolCalls /\ Follows(made[n], asked[n], pending[n])
  BY DEF LookupInv
<1>4. Follows(made'[n], asked'[n], pending'[n])
  BY <1>1, <1>2, <1>3, AskFollows
<1>5. MaxToolCalls \in Nat
  BY DEF GatewayAssumption
<1>6. Len(asked'[n]) <= toolCalls'
  BY <1>1, <1>2, <1>3, LengthAdds
<1>7. Len(asked'[n]) <= MaxToolCalls
  <2>1. CASE toolCalls + Count(refs) <= MaxToolCalls
    BY <1>1, <1>2, <1>3, <1>5, <2>1, LengthAdds
  <2>2. CASE Count(refs) = 0
    <3>1. Len(refs[n]) <= 0 /\ MaxToolCalls + 0 <= MaxToolCalls
      BY <1>1, <1>5, <2>2
    <3> QED
      BY <1>1, <1>2, <1>3, <1>5, <3>1, LengthAdds
  <2> QED
    BY <2>1, <2>2
<1> QED
  BY <1>4, <1>6, <1>7

LEMMA LookupStep == GatewayInv /\ LookupInv /\ [Next]_vars => LookupInv'
<1> SUFFICES ASSUME GatewayType, LookupInv, [Next]_vars PROVE LookupInv'
  BY DEF GatewayInv
<1> USE DEF gate, budget, history, client
<1>1. CASE UNCHANGED <<toolCalls, asked, pending, made>>
  BY <1>1 DEF LookupInv
<1>2. ASSUME NEW h \in Handlers, NEW refs \in Responses, NEW count \in 1..MaxParallel, RejectCalls(h, refs, count)
      PROVE  LookupInv'
  <2>1. /\ Ask(refs) /\ made' = made /\ toolCalls' = toolCalls + count /\ Count(refs) < count
        /\ toolCalls + count > MaxToolCalls => Count(refs) = 0
    BY <1>2 DEF RejectCalls
  <2>2. toolCalls \in Nat /\ Count(refs) \in Nat
    BY ResponseCalls DEF GatewayType
  <2>3. /\ toolCalls' \in Nat /\ toolCalls + Count(refs) <= toolCalls'
        /\ Count(refs) = 0 \/ toolCalls + Count(refs) <= MaxToolCalls
    BY <2>1, <2>2
  <2> QED
    BY <2>1, <2>3, AskKeepsLookups
<1>3. ASSUME NEW h \in Handlers, NEW refs \in Responses, NEW terminal \in BOOLEAN, Judge(h, refs, terminal)
      PROVE  LookupInv'
  <2>1. /\ Ask(refs) /\ made' = made /\ toolCalls' = toolCalls + Count(refs)
        /\ toolCalls + Count(refs) <= MaxToolCalls
    BY <1>3 DEF Judge
  <2>2. toolCalls \in Nat /\ Count(refs) \in Nat
    BY ResponseCalls DEF GatewayType
  <2>3. toolCalls' \in Nat /\ toolCalls + Count(refs) <= toolCalls'
    BY <2>1, <2>2
  <2> QED
    BY <2>1, <2>3, AskKeepsLookups
<1>4. ASSUME NEW h \in Handlers, NEW n \in Names, NEW a \in Args, Lookup(h, n, a) PROVE LookupInv'
  <2>1. /\ pending[n] # <<>> /\ Head(pending[n]) = a /\ pending' = [pending EXCEPT ![n] = Tail(@)]
        /\ UNCHANGED <<toolCalls, asked>>
        /\ made' = made \/ made' = [made EXCEPT ![n] = Append(@, a)]
    BY <1>4 DEF Lookup, Requested
  <2> SUFFICES ASSUME NEW m \in Names
               PROVE  /\ Len(asked'[m]) <= toolCalls' /\ Len(asked'[m]) <= MaxToolCalls
                      /\ Follows(made'[m], asked'[m], pending'[m])
    BY DEF LookupInv
  <2>2. /\ Len(asked[m]) <= toolCalls /\ Len(asked[m]) <= MaxToolCalls /\ Follows(made[m], asked[m], pending[m])
        /\ made[m] \in Seq(Args) /\ asked[m] \in Seq(Args) /\ pending[m] \in Seq(Args)
    BY DEF LookupInv, GatewayType, Calls
  <2>3. CASE m # n
    <3>1. made'[m] = made[m] /\ pending'[m] = pending[m]
      BY <2>1, <2>3 DEF GatewayType, Calls
    <3> QED
      BY <2>1, <2>2, <3>1
  <2>4. CASE m = n
    <3>1. pending'[m] = Tail(pending[m]) /\ (made'[m] = made[m] \/ made'[m] = Append(made[m], Head(pending[m])))
      BY <2>1, <2>4 DEF GatewayType, Calls
    <3>2. pending[m] # <<>>
      BY <2>1, <2>4
    <3>3. Follows(made[m], asked[m], Tail(pending[m])) /\ Follows(Append(made[m], Head(pending[m])), asked[m], Tail(pending[m]))
      BY <2>2, <3>2, LookupFollows
    <3> QED
      BY <2>1, <2>2, <3>1, <3>3
  <2> QED
    BY <2>3, <2>4
<1>5. CASE UNCHANGED vars
  BY <1>1, <1>5 DEF vars
<1>6. CASE Answer \/ Adapter
  BY <1>1, <1>6 DEF Answer, Adapter, Collect, CheckError, Verify, GiveUp, Shutdown, Join, Stay
<1>7. ASSUME NEW h \in Handlers, Connect(h) \/ Serve(h) PROVE LookupInv'
  <2>1. CASE Connect(h) \/ Enter(h) \/ Pass(h) \/ Retain(h) \/ Refuse(h) \/ Send(h) \/ Reject(h) \/ Deliver(h)
    BY <1>1, <2>1 DEF Connect, Enter, Pass, Retain, Refuse, Send, Reject, Deliver
  <2>2. ASSUME NEW b \in Bodies, Accept(h, b) PROVE LookupInv'
    BY <1>1, <2>2 DEF Accept
  <2> QED
    BY <1>2, <1>3, <1>4, <1>7, <2>1, <2>2 DEF Serve
<1> QED
  BY <1>5, <1>6, <1>7 DEF Next

\* Calls that were made before the pending ones are calls that were asked for.
LEMMA FollowsInOrder ==
    ASSUME NEW m \in Seq(Args), NEW q \in Seq(Args), NEW p \in Seq(Args), Follows(m, q, p)
    PROVE  InOrder(m, q) /\ Len(m) <= Len(q)
<1>1. /\ Len(m) \in Nat /\ Len(q) \in Nat /\ Len(p) \in Nat
      /\ DOMAIN m = 1..Len(m) /\ DOMAIN q = 1..Len(q) /\ Len(m) + Len(p) <= Len(q)
  BY DEF Follows
<1>2. \A k \in 1..Len(q) - Len(p) : k \in 1..Len(q)
  BY <1>1
<1>3. PICK place \in [1..Len(m) -> 1..Len(q) - Len(p)] :
         \A i \in 1..Len(m) : m[i] = q[place[i]] /\ \A j \in 1..i - 1 : place[j] < place[i]
  BY DEF Follows
<1>4. place \in [1..Len(m) -> 1..Len(q)]
  BY <1>2, <1>3
<1>5. InOrder(m, q)
  BY <1>1, <1>3, <1>4 DEF InOrder
<1>6. Len(m) <= Len(q)
  BY <1>1
<1> QED
  BY <1>5, <1>6

\* The reference server sees what the provider asked for, in its order, at most
\* once, and no more of it than the config allows, whatever the CLI posts.
THEOREM LookupsFollowTheProvider == Spec => []LookupsAsAsked
<1>1. GatewayInv /\ LookupInv => LookupsAsAsked
  <2> SUFFICES ASSUME GatewayType, LookupInv, NEW n \in Names
               PROVE  InOrder(made[n], asked[n]) /\ Len(made[n]) <= MaxToolCalls
    BY DEF GatewayInv, LookupsAsAsked
  <2>1. made[n] \in Seq(Args) /\ asked[n] \in Seq(Args) /\ pending[n] \in Seq(Args)
    BY DEF GatewayType, Calls
  <2>2. Len(asked[n]) <= MaxToolCalls /\ Follows(made[n], asked[n], pending[n])
    BY DEF LookupInv
  <2>3. InOrder(made[n], asked[n]) /\ Len(made[n]) <= Len(asked[n])
    BY <2>1, <2>2, FollowsInOrder
  <2>4. Len(made[n]) \in Nat /\ Len(asked[n]) \in Nat /\ MaxToolCalls \in Nat
    BY <2>1 DEF GatewayAssumption
  <2> QED
    BY <2>2, <2>3, <2>4
<1> QED
  BY <1>1, GatewayBegins, GatewayStep, LookupStep, PTL DEF Spec
=============================================================================
