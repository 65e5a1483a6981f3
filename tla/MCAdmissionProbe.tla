--------------------------- MODULE MCAdmissionProbe ---------------------------
(***************************************************************************)
(* A small instance of AdmissionProbe: one route of each kind, with rates  *)
(* per four tokens that round up.                                          *)
(***************************************************************************)
EXTENDS AdmissionProbe

Metered ==
    [kind |-> "metered", inputRate |-> 3, outputRate |-> 2, toolRate |-> 1,
     maxInput |-> 3, maxOutput |-> 2, maxRounds |-> 2, conditions |-> {"closed-book", "sources"}]
Credit == [Metered EXCEPT !.kind = "existing_credit"]
Subscription == [Metered EXCEPT !.kind = "verified_subscription", !.inputRate = 0, !.outputRate = 0, !.toolRate = 0]

Limits == [output |-> 1, tools |-> 1, timeout |-> 1]
Deal(route, version) ==
    [route |-> route, limits |-> Limits, condition |-> "sources", credit |-> 6,
     reserved |-> Reservation(route), remaining |-> Reservation(route),
     auth |-> [version |-> version, allowPaid |-> route.kind = "metered", ceiling |-> Reservation(route)]]

MCDeals == {Deal(Metered, 1), Deal(Credit, 1), Deal(Subscription, 2)}

MCMaxChunks == [out |-> 2, err |-> 0]

MCDescendants == {<<TRUE, TRUE>>, <<TRUE, FALSE>>, <<FALSE, TRUE>>}

MCDistortions ==
    {<<"nonce", "other">>, <<"observed", -1>>, <<"observed", 5>>, <<"state", "drifted">>,
     <<"charge", 1>>, <<"charge", 7>>, <<"incremental", 1>>, <<"incremental", 7>>,
     <<"credit", Never>>, <<"credit", 2>>, <<"paidFallback", TRUE>>, <<"validUntil", 0>>,
     <<"statusAt", -1>>, <<"required", 0>>, <<"required", 9>>, <<"maxTools", 0>>}
=============================================================================
