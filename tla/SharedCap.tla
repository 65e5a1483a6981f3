------------------------------ MODULE SharedCap ------------------------------
(***************************************************************************)
(* What the shared ledger promises to the people who authorized the cap,   *)
(* without rows, transactions, executors or crashes: one cap is bound once *)
(* and forever; an allotment is made only if the whole of what is held     *)
(* stays within the cap; and what an allotment holds changes at most once, *)
(* downwards, when it is closed.                                           *)
(***************************************************************************)
EXTENDS Naturals, FiniteSets, UnitSums

CONSTANTS Ids, Caps, None

VARIABLES cap,   \* the bound cap, None before the first use
          held,  \* what each allotment holds of the cap
          open,  \* allotments that may still be closed
          closed

capVars == <<cap, held, open, closed>>

\* A ledger taken over from an earlier use may already hold part of its cap.
Init ==
    /\ cap \in Caps \cup {None}
    /\ held \in [Ids -> Nat]
    /\ open \in SUBSET Ids
    /\ closed \in SUBSET Ids
    /\ open \cap closed = {}
    /\ cap = None => open \cup closed = {}
    /\ \A i \in Ids \ (open \cup closed) : held[i] = 0
    /\ cap # None => Total(held) <= cap

Bind == cap = None /\ cap' \in Caps /\ UNCHANGED <<held, open, closed>>

Allot(i) ==
    /\ cap # None
    /\ i \notin open \cup closed
    /\ open' = open \cup {i}
    /\ held' = [held EXCEPT ![i] = held'[i]]
    /\ held'[i] \in Nat
    /\ Total(held') <= cap
    /\ UNCHANGED <<cap, closed>>

Close(i) ==
    /\ i \in open
    /\ open' = open \ {i}
    /\ closed' = closed \cup {i}
    /\ held' = [held EXCEPT ![i] = held'[i]]
    /\ held'[i] \in 0..held[i]
    /\ UNCHANGED cap

Next == Bind \/ \E i \in Ids : Allot(i) \/ Close(i)

Spec == Init /\ [][Next]_capVars
=============================================================================
