------------------------------ MODULE SlotPool ------------------------------
(***************************************************************************)
(* What the concurrency limiter promises to the rest of the API: a pool of *)
(* Capacity slots, each held from the moment a job is admitted until its   *)
(* worker is really over.  A job beyond the capacity never gets a slot.    *)
(***************************************************************************)
EXTENDS Naturals, FiniteSets

CONSTANTS Jobs,      \* the jobs that may ask for a slot
          Capacity   \* how many may hold one at once

VARIABLE holders     \* the jobs that hold a slot

Init == holders = {}

Take(j) == /\ j \notin holders
           /\ Cardinality(holders) < Capacity
           /\ holders' = holders \cup {j}

Give(j) == /\ j \in holders
           /\ holders' = holders \ {j}

Next == \E j \in Jobs : Take(j) \/ Give(j)

Spec == Init /\ [][Next]_holders
=============================================================================
