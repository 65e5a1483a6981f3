---------------------------- MODULE AdmissionProbe ----------------------------
(***************************************************************************)
(* invoke_validated_admission of admission.py: the command of              *)
(* AdmissionCommand runs between the evidence of its request and the       *)
(* verdict on its claims.  Time starts with the request.                   *)
(***************************************************************************)
EXTENDS AdmissionCommand, AdmissionClaims

CONSTANTS
    Deals,      \* a segment under a route: route, limits, condition, reserved, remaining, auth, credit
    Distortions \* what may be wrong with a claim: pairs of a field and a value

ASSUME ProbeAssumption == \A d \in Deals :
    /\ d.reserved \in Nat /\ d.remaining \in Nat /\ d.credit \in Int /\ d.limits.tools \in Nat
    /\ {d.route.inputRate, d.route.outputRate, d.route.toolRate, d.route.maxInput, d.route.maxOutput} \subseteq Nat

\* Amounts are integers, and a nonce nobody has read cannot be guessed.
ASSUME DistortionAssumption == \A d \in Distortions :
    /\ d[1] = "nonce" => d[2] # "this"
    /\ d[1] \in {"charge", "incremental"} => d[2] \in Int
    /\ d[1] = "credit" => d[2] \in Int \cup {Never}

VARIABLES
    deal,    \* the segment
    attempt, \* evidence: "none", "requested", "processed", "completed", "failed", "interrupted"
    receipt  \* the result of the attempt

vars == <<commandVars, deal, attempt, receipt>>

MaxAge == Timeout + 1 \* ceil(timeout_seconds) + 1

request == Request(deal.route, deal.limits, deal.condition, 1, "this", 0)

\* The segment is drawn when it first matters, at the end of the process.
Init == CommandInit /\ deal = None /\ attempt = "none" /\ receipt = None

\* command_identity_sha256 reads every declared file before anything is recorded.
Identify ==
    /\ pc = "idle"
    /\ IF \A f \in Files : disk[f] = "declared"
       THEN attempt' = "requested" /\ pc' = "shape"
       ELSE pc' = "raised" /\ UNCHANGED attempt
    /\ UNCHANGED <<files, processes, threads, now, returned, terminal, result, deal, receipt>>

RecordProcess ==
    /\ pc = "done" /\ attempt = "requested"
    /\ IF result.status = "success"
       THEN attempt' = "processed" /\ deal' \in Deals
       ELSE attempt' = "failed" /\ UNCHANGED deal
    /\ UNCHANGED <<commandVars, receipt>>

\* A command that has not read the request cannot know its nonce; one claim
\* may be distorted.
Claimed ==
    LET truth == [Truthful(deal.route, request, deal.credit, 0) EXCEPT !.nonce = IF asked THEN "this" ELSE "other"]
    IN {truth} \cup {[truth EXCEPT ![d[1]] = d[2]] : d \in Distortions}

Accept(claims) ==
    ValidClaims(claims, request, deal.route, now, MaxAge, deal.reserved, deal.remaining, deal.auth)

Judge ==
    /\ attempt = "processed"
    /\ \E claims \in Claimed :
          IF result.stdout > 0 /\ Accept(claims)
          THEN attempt' = "completed" /\ receipt' = Receipt(claims, request, "execution")
          ELSE attempt' = "failed" /\ UNCHANGED receipt
    /\ UNCHANGED <<commandVars, deal>>

\* A resume finalizes what an exception left open (scheduling.py).
Recover ==
    /\ pc = "raised" /\ attempt = "requested"
    /\ attempt' = "interrupted"
    /\ UNCHANGED <<commandVars, deal, receipt>>

Next ==
    \/ Identify \/ RecordProcess \/ Judge \/ Recover
    \/ CommandNext /\ UNCHANGED <<deal, attempt, receipt>>

Spec == Init /\ [][Next]_vars

\* The caller, its threads and the clock run; the processes promise nothing.
FairSpec ==
    /\ Spec
    /\ WF_vars(CommandMain /\ UNCHANGED <<deal, attempt, receipt>>)
    /\ WF_vars(CommandThreads /\ UNCHANGED <<deal, attempt, receipt>>)
    /\ WF_vars(Tick /\ UNCHANGED <<deal, attempt, receipt>>)
    /\ WF_vars(Identify) /\ WF_vars(RecordProcess) /\ WF_vars(Judge) /\ WF_vars(Recover)

-----------------------------------------------------------------------------
\* A completed attempt has run the frozen bytes of every declared file, by a
\* child that has read this request and exited with 0; its receipt is accepted
\* by the verification of a resume, costs nothing new unless the route is
\* metered, and a credit in it covers the frozen arithmetic.
ApprovalIsEarned ==
    attempt = "completed" =>
        /\ \A f \in Files : snapshot[f] = "declared"
        /\ asked /\ code = 0 /\ now <= MaxAge
        /\ VerifiedReceipt(receipt, "execution", deal.route, deal.reserved)
        /\ deal.route.kind # "metered" => receipt.incremental = 0
        /\ deal.route.kind = "metered" => receipt.incremental \in ExpectedCharge(deal.route, request)..deal.remaining
        /\ deal.route.kind = "existing_credit" => receipt.credit >= ExpectedCharge(deal.route, request)

\* Every probe ends with a verdict, or with an exception, whatever its
\* processes do: they may hang, fork, flood or keep the pipes open.
Returns == <>(attempt \in {"completed", "failed", "interrupted"} \/ (attempt = "none" /\ pc = "raised"))
=============================================================================
