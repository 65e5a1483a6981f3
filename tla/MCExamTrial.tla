------------------------------ MODULE MCExamTrial ------------------------------
(***************************************************************************)
(* Every adapter with one or two tools allowed and two asked for, and      *)
(* without tools all but AGY, whose hook then allows nothing but the end.  *)
(***************************************************************************)
EXTENDS ExamTrial

Trial(adapter, tools, max) == [adapter |-> adapter, tools |-> tools, max |-> max]

MCTrials ==
    {Trial(a, {"ref"}, max) : a \in {"kimi", "cursor", "claude", "chat", "responses"}, max \in 1..2}
    \union {Trial("agy", {"ref"}, 2)}
    \union {Trial(a, {}, 1) : a \in (Streaming \ {"agy"}) \union Http}
=============================================================================
