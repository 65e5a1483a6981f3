------------------------------ MODULE ExamPackets ------------------------------
(***************************************************************************)
(* Exams, the gold-free packets and the keys made of them, and the scoring *)
(* of runs: core.py, the packets of gec.py, the extraction of a response   *)
(* in adapters.py and the GEC scoring inputs of gec_scoring.py.            *)
(*                                                                         *)
(* The opaque identifiers q0001, q0002, ... are positions.  A digest of a  *)
(* document is the document.  Texts are names of what they say.            *)
(***************************************************************************)
EXTENDS NoValue, SequencesExt

\* JSON values of a response.
Null == [type |-> "null"]
Text(v) == [type |-> "text", value |-> v]
Object(f) == [type |-> "object", value |-> f]

Sum(s) == SumFunction(s)

-----------------------------------------------------------------------------
\* item: kind, text, options, rows; of an exam also id and correct.
PacketItem(item) == [kind |-> item.kind, text |-> item.text, options |-> item.options, rows |-> item.rows]

ValidPacketItem(item) ==
    /\ item.kind = "single" => item.rows = {}
    /\ item.kind = "matching" => item.rows # {}
    /\ item.kind # "sentence" => item.options # {}
    /\ item.options \cap item.rows = {}

ValidPacket(packet) == packet # <<>> /\ \A i \in DOMAIN packet : ValidPacketItem(packet[i])

ValidAnswer(item, answer) ==
    CASE item.kind = "single" -> answer \in item.options
      [] item.kind = "matching" -> answer \in Injection(item.rows, item.options)
      [] OTHER -> TRUE

ItemPoints(item) == IF item.kind = "matching" THEN Cardinality(item.rows) ELSE 1
MaxPoints(packet) == Sum([i \in DOMAIN packet |-> ItemPoints(packet[i])])

\* scoring: official, policy, threshold, items, points.
ValidScoring(scoring, packet) ==
    /\ scoring.items = Len(packet) /\ scoring.points = MaxPoints(packet)
    /\ scoring.threshold # None => scoring.threshold <= scoring.points

ValidExam(exam) ==
    /\ exam.items # <<>>
    /\ \A i, j \in DOMAIN exam.items : i # j => exam.items[i].id # exam.items[j].id
    /\ \A i \in DOMAIN exam.items :
          ValidPacketItem(PacketItem(exam.items[i])) /\ ValidAnswer(exam.items[i], exam.items[i].correct)
    /\ ValidScoring(exam.scoring, exam.items)

PrepareExam(exam) ==
    LET packet == [i \in DOMAIN exam.items |-> PacketItem(exam.items[i])] IN
    [packet |-> packet,
     key |-> [packet |-> packet, scoring |-> exam.scoring,
              answers |-> [i \in DOMAIN packet |-> exam.items[i].correct]]]

\* blocks: heading, text, reference (the annotations of a sentence).
Content(blocks) == SelectSeq(blocks, LAMBDA block : ~block.heading)

PrepareGec(blocks) ==
    LET content == Content(blocks)
        packet == [i \in DOMAIN content |->
                      [kind |-> "sentence", text |-> content[i].text, options |-> {}, rows |-> {}]] IN
    [packet |-> packet,
     key |-> [packet |-> packet, source |-> blocks,
              answers |-> [i \in DOMAIN content |-> content[i].reference]]]

BoundKey(packet, key) ==
    /\ ValidPacket(packet) /\ key.packet = packet
    /\ DOMAIN key.answers = DOMAIN packet
    /\ \A i \in DOMAIN packet : ValidAnswer(packet[i], key.answers[i])

ValidKey(packet, key) == BoundKey(packet, key) /\ ValidScoring(key.scoring, packet)

-----------------------------------------------------------------------------
\* _extract_responses: one answer of the right kind for every item, or null.
ValidResponse(item, answer) ==
    \/ answer = Null
    \/ item.kind = "sentence" /\ answer.type = "text"
    \/ item.kind = "single" /\ answer.type = "text" /\ answer.value \in item.options
    \/ item.kind = "matching" /\ answer.type = "object" /\ answer.value \in [item.rows -> item.options]

Extractable(packet, responses) ==
    /\ DOMAIN responses = DOMAIN packet
    /\ \A i \in DOMAIN packet : ValidResponse(packet[i], responses[i])

\* run: packet, condition, status, comparison, responses.
ValidRun(packet, run) ==
    /\ run.packet = packet /\ run.status \in {"ok", "failed"}
    /\ DOMAIN run.responses \subseteq DOMAIN packet

NoPoints == [points |-> 0, correct |-> FALSE, missing |-> FALSE, invalid |-> FALSE]
Earned(item, points) == [NoPoints EXCEPT !.points = points, !.correct = points = ItemPoints(item)]

ScoreItem(item, gold, response) ==
    CASE response = Null -> [NoPoints EXCEPT !.missing = TRUE]
      [] item.kind = "single" /\ response.type = "text" /\ response.value \in item.options ->
            Earned(item, IF response.value = gold THEN 1 ELSE 0)
      [] /\ item.kind = "matching" /\ response.type = "object"
         /\ DOMAIN response.value \subseteq item.rows /\ Range(response.value) \subseteq item.options ->
            Earned(item, Cardinality({r \in DOMAIN response.value : response.value[r] = gold[r]}))
      [] OTHER -> [NoPoints EXCEPT !.invalid = TRUE]

ItemScores(packet, key, run) ==
    [i \in DOMAIN packet |->
        ScoreItem(packet[i], key.answers[i], IF i \in DOMAIN run.responses THEN run.responses[i] ELSE Null)]

Passed(scoring, points) ==
    IF ~scoring.official THEN None
    ELSE scoring.policy /\ scoring.threshold # None /\ points >= scoring.threshold

ScoreRun(packet, key, run) ==
    IF run.status = "failed"
    THEN [status |-> "failed", points |-> None, passed |-> None, items |-> <<>>]
    ELSE LET items == ItemScores(packet, key, run)
             points == Sum([i \in DOMAIN items |-> items[i].points])
         IN [status |-> "ok", points |-> points, passed |-> Passed(key.scoring, points), items |-> items]

Comparable(packet, control, treatment) ==
    /\ ValidRun(packet, control) /\ ValidRun(packet, treatment)
    /\ control.condition = "closed-book" /\ treatment.condition = "sources"
    /\ control.status = "ok" /\ treatment.status = "ok"
    /\ control.comparison = treatment.comparison

CompareRuns(packet, key, control, treatment) ==
    LET before == ScoreRun(packet, key, control)
        after == ScoreRun(packet, key, treatment)
        Where(Test(_, _)) == Cardinality({i \in DOMAIN packet : Test(after.items[i].points, before.items[i].points)})
    IN [delta |-> after.points - before.points, wins |-> Where(>), losses |-> Where(<), ties |-> Where(=)]

-----------------------------------------------------------------------------
\* scoring_inputs: the corrections that are there, line by line, and all references.
ScoringInputs(packet, key, run) ==
    LET answered == SelectSeq([i \in DOMAIN packet |-> i], LAMBDA i : run.responses[i] # Null) IN
    [corrections |-> [k \in DOMAIN answered |-> run.responses[answered[k]].value],
     references |-> key.answers, missing |-> Len(packet) - Len(answered)]

\* The scorer container compares line by line.
Metric(inputs) ==
    Cardinality({k \in DOMAIN inputs.corrections : inputs.corrections[k] = inputs.references[k]})

\* score_gec_attempt: only complete responses reach the container, which may fail.
ScoreGec(packet, key, run, works) ==
    LET inputs == ScoringInputs(packet, key, run) IN
    IF run.status = "ok" /\ inputs.missing = 0 /\ works THEN Metric(inputs) ELSE None
=============================================================================
