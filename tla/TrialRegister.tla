---------------------------- MODULE TrialRegister ----------------------------
(***************************************************************************)
(* What a schedule promises of its trials, whatever dies and however often *)
(* it is resumed: a trial is opened once, called at most once while it is  *)
(* open, and closed once, with a verdict that speaks of an answer only if  *)
(* it was called; the trials it waits for have been passed before it is    *)
(* opened; and what is published is verdicts, none before those of the     *)
(* trials it waits for, and for good.  No invocations, files, locks,       *)
(* positions or receipts of anything else here.                            *)
(***************************************************************************)
EXTENDS Naturals

CONSTANTS
    Trials, Verdicts, None,
    Waits,   \* the trials each trial waits for
    Passing, \* verdicts that let the trials go on that wait
    Uncalled \* verdicts a trial may get without a call

VARIABLES opened, calls, verdict, published

registerVars == <<opened, calls, verdict, published>>

Nothing == [t \in Trials |-> None]

Init == opened = {} /\ calls = [t \in Trials |-> 0] /\ verdict = Nothing /\ published = Nothing

Open(t) ==
    /\ t \notin opened
    /\ \A u \in Waits[t] : verdict[u] \in Passing
    /\ opened' = opened \cup {t}
    /\ UNCHANGED <<calls, verdict, published>>

Running(t) == t \in opened /\ verdict[t] = None

Call(t) ==
    /\ Running(t) /\ calls[t] = 0
    /\ calls' = [calls EXCEPT ![t] = 1]
    /\ UNCHANGED <<opened, verdict, published>>

Close(t, v) ==
    /\ Running(t)
    /\ calls[t] = 0 => v \in Uncalled
    /\ verdict' = [verdict EXCEPT ![t] = v]
    /\ UNCHANGED <<opened, calls, published>>

Publish(T) ==
    /\ \A t \in T : /\ verdict[t] # None /\ published[t] = None
                    /\ \A u \in Waits[t] : u \in T \/ published[u] # None
    /\ published' = [t \in Trials |-> IF t \in T THEN verdict[t] ELSE published[t]]
    /\ UNCHANGED <<opened, calls, verdict>>

Next ==
    \/ \E t \in Trials : Open(t) \/ Call(t) \/ \E v \in Verdicts : Close(t, v)
    \/ \E T \in SUBSET Trials : Publish(T)

Spec == Init /\ [][Next]_registerVars
=============================================================================
