------------------------------- MODULE HttpTrial -------------------------------
(***************************************************************************)
(* One trial over HTTP: run_chat_http and run_responses_http.  There is no *)
(* client; the adapter itself asks the provider, checks each completion    *)
(* and brokers the tools it calls for, until a completion calls for none.  *)
(* What the request budget does with each round is in RequestBudget.       *)
(***************************************************************************)
EXTENDS NativeTrial

VARIABLES
    http, \* tool_calls, the next call to broker, seen_response_ids and the first of them
    body  \* the completion being looked at: [id, model, calls, answer]

Http == {"chat", "responses"}

Nothing == [id |-> 0, model |-> Model, calls |-> <<>>, answer |-> "none"]
HttpInit == http = [tools |-> 0, next |-> 1, responses |-> {}, first |-> 0] /\ body = Nothing

Stopped(verdict) == pc' = "done" /\ result' = verdict /\ UNCHANGED <<calls, bridge, http>>

\* the endpoint's name is in the environment, and the configured tools are listed by the server
Prepare ==
    /\ pc = "probe" /\ trial.adapter \in Http
    /\ pc' = "http" \/ pc' = "done"
    /\ result' = IF pc' = "done" THEN Raised ELSE result
    /\ UNCHANGED <<calls, bridge, http, body>>

(***************************************************************************)
(* The provider (external): any completion, or none in time.               *)
(***************************************************************************)
Batches == UNION {[1..n -> [id : 0..MaxCalls, tool : {"ref", "shell"}]] : n \in 0..(MaxCalls - Len(calls))}

Complete ==
    /\ pc = "http" /\ body = Nothing
    /\ \/ /\ body' \in [id : 1..(MaxCalls + 1), model : {Model, Fallback}, calls : Batches,
                        answer : {"none", "good", "bad"}]
          /\ body' # Nothing /\ UNCHANGED <<pc, result>>
       \/ pc' = "done" /\ result' = Raised /\ body' = body
    /\ UNCHANGED <<calls, bridge, http>>

(***************************************************************************)
(* What each adapter makes of a completion before it brokers anything.     *)
(* The chat adapter looks at names and identifiers one call at a time, the *)
(* Responses adapter at the whole batch.                                   *)
(***************************************************************************)
Asked == [k \in DOMAIN body.calls |-> [id |-> body.calls[k].id, tool |-> body.calls[k].tool, stage |-> "asked", told |-> TRUE]]

ChatTakes == body.model = Model /\ (body.calls # <<>> => trial.tools # {})

ResponsesTakes ==
    /\ body.model = Model /\ body.id \notin http.responses
    /\ body.calls = <<>> \/ body.answer = "none"
    /\ body.calls # <<>> =>
        /\ trial.tools # {} /\ http.tools + Len(body.calls) <= trial.max
        /\ \A k \in DOMAIN body.calls :
              /\ body.calls[k].id # 0
              /\ \A j \in 1..(k - 1) : body.calls[j].id # body.calls[k].id
              /\ \A c \in DOMAIN calls : calls[c].id # body.calls[k].id

HttpVerdict ==
    IF body.answer # "good" THEN Raised
    ELSE [kind |-> "answered", session |-> IF http.first = 0 THEN body.id ELSE http.first,
          tools |-> http.tools, version |-> 0]

Inspect ==
    /\ pc = "http" /\ body # Nothing
    /\ body' = Nothing
    /\ IF ~(IF trial.adapter = "chat" THEN ChatTakes ELSE ResponsesTakes) THEN Stopped(Raised)
       ELSE IF body.calls = <<>> THEN Stopped(HttpVerdict)
       ELSE /\ pc' = "broker" /\ calls' = calls \o Asked
            /\ http' = [http EXCEPT !.responses = @ \union {body.id}, !.first = IF @ = 0 THEN body.id ELSE @]
            /\ UNCHANGED <<result, bridge>>

\* one iteration of the loop over the calls: the chat adapter counts before it looks at the
\* name, and looks at the identifier only when the lookup was made
Broker ==
    /\ pc = "broker" /\ http.next <= Len(calls)
    /\ LET c == calls[http.next]
           counted == [http EXCEPT !.tools = @ + 1, !.next = @ + 1]
       IN
       IF c.tool \notin trial.tools \/ expired \/ http.tools + 1 > trial.max
       THEN Stopped(Raised)
       ELSE /\ bridge' = [bridge EXCEPT !.upstream = @ + 1]
            /\ http' = counted
            /\ calls' = [calls EXCEPT ![http.next].stage = "answered"]
            /\ \/ c.id # 0 /\ UNCHANGED <<pc, result>>
               \/ pc' = "done" /\ result' = Raised
    /\ UNCHANGED body

NextRound ==
    /\ pc = "broker" /\ http.next > Len(calls)
    /\ IF expired THEN pc' = "done" /\ result' = Raised ELSE pc' = "http" /\ UNCHANGED result
    /\ UNCHANGED <<calls, bridge, http, body>>

HttpStep == Prepare \/ Complete \/ Inspect \/ Broker \/ NextRound
HttpNext == HttpStep /\ UNCHANGED <<trial, expired, world, seen, hooks, stream>>
=============================================================================
