------------------------------ MODULE AttemptLog ------------------------------
(***************************************************************************)
(* What the evidence store promises of one attempt: its events are only    *)
(* ever appended to, at most one verdict is ever given, and the verdict    *)
(* seals the log.  No files, locks, temporaries or recoveries here.        *)
(***************************************************************************)
EXTENDS Naturals, Sequences

CONSTANTS Kinds, Statuses, None

VARIABLES events, verdict

logVars == <<events, verdict>>

Init == events = <<>> /\ verdict = None

Start == events = <<>> /\ events' = <<"attempt_started">> /\ UNCHANGED verdict

Record(kind) ==
    /\ events # <<>>
    /\ verdict = None
    /\ events[Len(events)] # "attempt_interrupted"
    /\ events' = Append(events, kind)
    /\ UNCHANGED verdict

\* The verdict counts the events it seals.
Seal(status) ==
    /\ events # <<>>
    /\ verdict = None
    /\ verdict' = [status |-> status, count |-> Len(events)]
    /\ UNCHANGED events

Next == Start \/ (\E kind \in Kinds : Record(kind)) \/ (\E s \in Statuses : Seal(s))

Spec == Init /\ [][Next]_logVars
=============================================================================
