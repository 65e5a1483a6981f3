----------------------------- MODULE ExecutionPlans -----------------------------
(***************************************************************************)
(* The frozen experiment and its execution plan: benchmark_manifest.py,    *)
(* and the conditions validate_research_runtime of scheduling.py puts on   *)
(* everything a run is given.                                              *)
(*                                                                         *)
(* An experiment is what an operator proposes: protocol, suites, routes,   *)
(* repeats, cap, policy (None, or the cap a shared ledger is to enforce),  *)
(* and, for its execution, controller and auths.                           *)
(***************************************************************************)
EXTENDS AdmissionClaims, SegmentPlans

\* suite: id, kind, exam (or <<>>), blocks (or None), denominator, limits.
Prepared(suite) == IF suite.kind = "gec" THEN PrepareGec(suite.blocks) ELSE PrepareExam(suite.exam)
SuitePacket(suite) == Prepared(suite).packet
SuiteKey(suite) == Prepared(suite).key
SegmentPlan(suite, protocol) == DerivePlan(SuitePacket(suite), suite, protocol)

\* What an operator can prepare and derive_segment_plan accepts.
ValidSource(suite, protocol) ==
    /\ suite.kind # "gec" => ValidExam(suite.exam)
    /\ suite.kind = "gec" => Content(suite.blocks) # <<>> /\ ValidMembership(suite.blocks, SuitePacket(suite))
    /\ DenominatorFits(suite.denominator, SuitePacket(suite), suite.kind, suite.blocks)
    /\ PlanOfPacket(SegmentPlan(suite, protocol), SuitePacket(suite), protocol, suite.blocks)

\* _normalise_segment_plan: what the manifest checks of a plan it does not own.
NormalSegmentPlan(plan, suite) ==
    LET ids == FlattenSeq([s \in DOMAIN plan.segments |-> plan.segments[s].ids]) IN
    /\ plan.kind = suite.kind /\ plan.segments # <<>>
    /\ \A s \in DOMAIN plan.segments : plan.segments[s].ids # <<>>
    /\ IsInjective(ids)

NormalSuite(suite, protocol) ==
    /\ suite.limits.timeout > 0 /\ suite.limits.output > 0 /\ suite.limits.tools >= 0
    /\ NormalSegmentPlan(SegmentPlan(suite, protocol), suite)

NormalRoute(route) ==
    /\ route.conditions # {} /\ route.conditions \subseteq {"closed-book", "sources"}
    /\ route.maxInput > 0 /\ route.maxOutput > 0 /\ RatesFit(route)
    /\ route.kind \in {"metered", "existing_credit"} => route.mechanism

CapacityWithAnswer(route, limits) == \* mutant: the round of the answer is taken for one more lookup
    /\ route.maxRounds + 1 >= limits.tools
    /\ route.maxOutput >= limits.output * (IF "sources" \in route.conditions THEN limits.tools + 1 ELSE 1)
RouteCapacity(route, limits) ==
    /\ route.maxRounds >= limits.tools
    /\ route.maxOutput >= limits.output * (IF "sources" \in route.conditions THEN limits.tools + 1 ELSE 1)

NormalInputs(experiment) ==
    /\ experiment.suites # <<>> /\ experiment.routes # <<>> /\ experiment.repeats > 0
    /\ \A s \in DOMAIN experiment.suites : NormalSuite(experiment.suites[s], experiment.protocol)
    /\ \A r \in DOMAIN experiment.routes : NormalRoute(experiment.routes[r])
    /\ IsInjective([s \in DOMAIN experiment.suites |-> experiment.suites[s].id])
    /\ IsInjective([r \in DOMAIN experiment.routes |-> experiment.routes[r].id])
    /\ \A r \in DOMAIN experiment.routes, s \in DOMAIN experiment.suites :
          RouteCapacity(experiment.routes[r], experiment.suites[s].limits)

Sequential(experiment) == experiment.policy # None
PolicyFits(experiment) == Sequential(experiment) => experiment.policy = experiment.cap

-----------------------------------------------------------------------------
ById(s) == SortSeq(s, LAMBDA a, b : a.id < b.id)

\* _condition_order alternates, so that neither condition always goes first.
ConditionOrder(route, repeat) ==
    SelectSeq(IF repeat % 2 = 1 THEN <<"closed-book", "sources">> ELSE <<"sources", "closed-book">>,
              LAMBDA condition : condition \in route.conditions)

Cell(suite, route, repeat, condition, segments) ==
    [suite |-> suite, route |-> route, repeat |-> repeat, condition |-> condition,
     segments |-> segments, reserved |-> Reservation(route)]

\* _build_execution_plan, by suite, route, repeat and condition.
Cells(experiment) ==
    LET suites == ById(experiment.suites)
        routes == ById(experiment.routes)
        OfRepeat(suite, route, repeat) ==
            LET order == ConditionOrder(route, repeat)
                count == Len(SegmentPlan(suite, experiment.protocol).segments) IN
            [c \in DOMAIN order |-> Cell(suite, route, repeat, order[c], count)]
        OfRoute(suite, route) == FlattenSeq([p \in 1..experiment.repeats |-> OfRepeat(suite, route, p)])
        OfSuite(suite) == FlattenSeq([r \in DOMAIN routes |-> OfRoute(suite, routes[r])])
    IN FlattenSeq([s \in DOMAIN suites |-> OfSuite(suites[s])])

\* The cells of a route.
Own(cells, route) == SelectSeq(cells, LAMBDA cell : cell.route.id = route.id)

ReservationTotal(cells) == Sum([c \in DOMAIN cells |-> cells[c].reserved * cells[c].segments])

\* build_experiment_manifest and build_execution_plan succeed.
Plannable(experiment) ==
    /\ \A s \in DOMAIN experiment.suites : ValidSource(experiment.suites[s], experiment.protocol)
    /\ NormalInputs(experiment) /\ PolicyFits(experiment)
    /\ ~Sequential(experiment) => ReservationTotal(Cells(experiment)) <= experiment.cap

\* validate_research_runtime, of inputs that are the frozen ones.
RuntimeAccepts(experiment, cells) ==
    /\ \A r \in DOMAIN experiment.routes :
          LET route == experiment.routes[r] IN
          /\ route.mechanism => experiment.controller
          /\ Prepares(experiment.auths[r], ReservationTotal(Own(cells, route)), Reservation(route), Sequential(experiment))
    /\ Sequential(experiment) => experiment.controller
    /\ \A s \in DOMAIN experiment.suites :
          LET suite == experiment.suites[s] IN
          PlanOfPacket(SegmentPlan(suite, experiment.protocol), SuitePacket(suite), experiment.protocol, None)
=============================================================================
