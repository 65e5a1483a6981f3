--------------------------- MODULE MCSealedExperiment ---------------------------
(***************************************************************************)
(* Small experiments for SealedExperiment.  Those that are scored have two *)
(* conditions and may fail; those that are observed have one.              *)
(***************************************************************************)
EXTENDS SealedExperiment

CONSTANTS o1, o2, o3, r1, r2 \* options and rows

Single == [id |-> 1, kind |-> "single", text |-> "one", options |-> {o1, o2}, rows |-> {}, correct |-> o2]
Matching == [id |-> 2, kind |-> "matching", text |-> "two", options |-> {o1, o2, o3}, rows |-> {r1, r2},
             correct |-> (r1 :> o1 @@ r2 :> o3)]
Exam == [items |-> <<Single, Matching>>,
         scoring |-> [official |-> TRUE, policy |-> TRUE, threshold |-> 2, items |-> 2, points |-> 3]]

Sentence(text) == [heading |-> FALSE, text |-> text, reference |-> text]
Heading(text) == [heading |-> TRUE, text |-> text, reference |-> None]
Blocks == <<Heading("A"), Sentence("s1"), Heading("B"), Sentence("s2"), Sentence("s3")>>

Limits == [timeout |-> 1, output |-> 1, tools |-> 1]
Mcq == [id |-> 1, kind |-> "nmt", exam |-> Exam, blocks |-> None, limits |-> Limits,
        denominator |-> [items |-> 2, points |-> 3, matching |-> 1]]
Gec == [id |-> 2, kind |-> "gec", exam |-> <<>>, blocks |-> Blocks, limits |-> Limits,
        denominator |-> [sentences |-> 3, documents |-> 2]]

McqAnswers ==
    {[one |-> Text(o2), two |-> Object(r1 :> o1 @@ r2 :> o3)], [one |-> Text(o1), two |-> Object(r1 :> o1 @@ r2 :> o1)],
     [one |-> Null, two |-> Object(r1 :> o3 @@ r2 :> o1)], [one |-> Text(o2), two |-> Null]}
GecAnswers ==
    {[s1 |-> Text("s1"), s2 |-> Text("s2"), s3 |-> Text("wrong")], [s1 |-> Null, s2 |-> Text("s2"), s3 |-> Text("wrong")],
     [s1 |-> Text("s2"), s2 |-> Text("s1"), s3 |-> Text("s3")]}
Conditions == {"closed-book", "sources"}

Route(kind, rate, conditions) ==
    [id |-> 1, kind |-> kind, inputRate |-> rate, outputRate |-> rate, toolRate |-> rate, mechanism |-> kind # "verified_subscription",
     maxInput |-> 3, maxOutput |-> 3, maxRounds |-> 1, conditions |-> conditions]

Plain(suite, route, says) ==
    [protocol |-> "protocol", suites |-> <<suite>>, routes |-> <<route>>, repeats |-> 2, cap |-> 0, policy |-> None,
     spent |-> 0, credit |-> 0, controller |-> FALSE, auths |-> <<[version |-> 1, allowPaid |-> FALSE, ceiling |-> 0]>>,
     observed |-> FALSE, faults |-> 2, says |-> says]

Scored ==
    {Plain(Mcq, Route("verified_subscription", 0, Conditions), says) : says \in [Conditions -> McqAnswers]}
    \cup {Plain(Gec, Route("verified_subscription", 0, Conditions), says) : says \in [Conditions -> GecAnswers]}

\* One question, asked twice: each reservation of a paid route is 3, and both together 6.
Short == [Mcq EXCEPT !.exam = [items |-> <<Single>>, scoring |-> [Exam.scoring EXCEPT !.items = 1, !.points = 1, !.threshold = 1]],
                     !.denominator = [items |-> 1, points |-> 1, matching |-> 0]]
Observed(kind, limits, cap, policy, credit, ceiling) ==
    LET route == Route(kind, IF kind = "verified_subscription" THEN 0 ELSE 1, {"sources"}) IN
    [Plain([Short EXCEPT !.limits = limits], route, [x \in Conditions |-> CHOOSE y \in McqAnswers : TRUE])
        EXCEPT !.cap = cap, !.policy = policy, !.controller = route.mechanism, !.credit = credit,
               !.observed = TRUE, !.faults = 0,
               !.auths = <<[version |-> IF policy = None THEN 1 ELSE 2, allowPaid |-> TRUE, ceiling |-> ceiling]>>]

\* A route has one lookup and output for three requests of length 1 or one of length 2.
Bounds(tools, output) == [Limits EXCEPT !.tools = tools, !.output = output]
Watched ==
    {Observed(kind, Bounds(tools, output), cap, policy, 0, 6) :
        kind \in {"metered", "verified_subscription"}, tools \in {0, 1, 2}, output \in {1, 2}, cap \in {3, 6}, policy \in {None, 6}}
    \cup {Observed("existing_credit", Bounds(1, 1), 6, policy, credit, ceiling) :
        policy \in {None, 6}, credit \in {2, 4, 6}, ceiling \in {3, 6}}

MCExperiments == Scored \cup Watched
=============================================================================
