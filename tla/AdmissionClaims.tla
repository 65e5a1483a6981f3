---------------------------- MODULE AdmissionClaims ----------------------------
(***************************************************************************)
(* The arithmetic and the authorization rules of admission.py and of the   *)
(* routes of benchmark_manifest.py: what a probe may claim about a route,  *)
(* what an operator has authorized, and what a saved receipt must say.     *)
(*                                                                         *)
(* A digest is represented by what it binds: a stable state is the frozen  *)
(* one or another.  Currency, schema strings and types are left out.       *)
(***************************************************************************)
EXTENDS Integers

CONSTANTS
    PerUnit, \* _MILLION_TOKENS: the tokens a rate is quoted for
    Never    \* a null credit balance or a null expiry

ASSUME ClaimsAssumption == PerUnit \in Nat \ {0} /\ Never \notin Int

CeilRateCost(rate, tokens) == (rate * tokens + PerUnit - 1) \div PerUnit

\* route: kind, inputRate, outputRate, toolRate, maxInput, maxOutput, maxRounds, conditions
TokenCost(route) == CeilRateCost(route.inputRate, route.maxInput) + CeilRateCost(route.outputRate, route.maxOutput)

Reservation(route) ==
    IF route.kind # "metered" THEN 0 ELSE TokenCost(route) + route.maxRounds * route.toolRate

RatesFit(route) ==
    LET free == route.inputRate = 0 /\ route.outputRate = 0 /\ route.toolRate = 0
    IN /\ route.kind = "metered" => ~free
       /\ route.kind = "verified_subscription" => free

\* build_admission_request: bounds of one segment under one condition.
Request(route, limits, condition, bytes, nonce, at) ==
    [nonce |-> nonce, at |-> at, condition |-> condition, bytes |-> bytes,
     input |-> route.maxInput, output |-> limits.output,
     tools |-> IF condition = "sources" THEN limits.tools ELSE 0, timeout |-> limits.timeout]

ExpectedCharge(route, request) == TokenCost(route) + route.toolRate * request.tools

-----------------------------------------------------------------------------
Bound(claims, request, clock, maxAge) ==
    /\ claims.nonce = request.nonce
    /\ request.at <= claims.observed /\ claims.observed <= clock
    /\ clock - request.at <= maxAge

SubscriptionLive(claims, request, route) ==
    /\ route.kind = "verified_subscription"
    /\ claims.status = "active" /\ ~claims.paidFallback
    /\ request.at <= claims.statusAt /\ claims.statusAt <= claims.observed

Entitled(claims, request, route, clock) ==
    /\ claims.live => SubscriptionLive(claims, request, route)
    /\ IF claims.validUntil = Never THEN claims.live ELSE claims.validUntil > clock
    /\ claims.eligible

ChargeMatches(claims, request, route) ==
    /\ claims.charge >= ExpectedCharge(route, request)
    /\ CASE route.kind = "metered" -> claims.incremental = claims.charge /\ claims.credit = Never
         [] route.kind = "existing_credit" ->
                claims.incremental = 0 /\ claims.credit # Never /\ claims.credit >= claims.charge
         [] OTHER -> claims.incremental = 0 /\ claims.credit = Never

\* authorization: version 1 or 2, allowPaid, ceiling.
Authorizes(auth, amount) == (amount > 0 => auth.allowPaid) /\ amount <= auth.ceiling

Capable(claims, request) ==
    /\ claims.healthy
    /\ request.bytes > 0 => claims.required > 0
    /\ claims.required <= claims.context /\ claims.required <= request.input
    /\ claims.maxOutput >= request.output /\ claims.maxTools >= request.tools
    /\ claims.timeout >= request.timeout

\* validate_admission_result, in the order of the code; only the verdict is seen.
ValidClaims(claims, request, route, clock, maxAge, reserved, remaining, auth) ==
    /\ Bound(claims, request, clock, maxAge)
    /\ claims.state = "frozen"
    /\ ChargeMatches(claims, request, route)
    /\ Entitled(claims, request, route, clock)
    /\ claims.incremental <= reserved /\ claims.incremental <= remaining
    /\ Authorizes(auth, claims.incremental)
    /\ Capable(claims, request)

Receipt(claims, request, execution) ==
    [nonce |-> request.nonce, state |-> claims.state, execution |-> execution,
     incremental |-> claims.incremental, credit |-> claims.credit]

\* verify_admission_evidence, of a completed attempt with this receipt.
VerifiedReceipt(receipt, execution, route, reserved) ==
    /\ receipt.execution = execution /\ receipt.state = "frozen"
    /\ receipt.incremental <= reserved
    /\ route.kind = "existing_credit" <=> receipt.credit # Never

\* CommandAdmissionController.prepare: the whole schedule of a route against
\* its authorization; version 2 authorizes one segment at a time.
Prepares(auth, total, largest, sequential) ==
    /\ total > 0 => auth.allowPaid
    /\ auth.version = 2 => sequential
    /\ (IF auth.version = 1 THEN total ELSE largest) <= auth.ceiling

-----------------------------------------------------------------------------
\* What a truthful probe of a healthy route says at a time.
Truthful(route, request, credit, at) ==
    LET charge == ExpectedCharge(route, request) IN
    [nonce |-> request.nonce, observed |-> at, statusAt |-> at, state |-> "frozen",
     live |-> route.kind = "verified_subscription", status |-> "active", paidFallback |-> FALSE,
     validUntil |-> IF route.kind = "verified_subscription" THEN Never ELSE at + 100, eligible |-> TRUE,
     charge |-> charge, incremental |-> IF route.kind = "metered" THEN charge ELSE 0,
     credit |-> IF route.kind = "existing_credit" THEN credit ELSE Never,
     healthy |-> TRUE, required |-> 1, context |-> route.maxInput,
     maxOutput |-> request.output, maxTools |-> request.tools, timeout |-> request.timeout]
=============================================================================
