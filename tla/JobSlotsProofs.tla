--------------------------- MODULE JobSlotsProofs ---------------------------
(***************************************************************************)
(* For every set of requests and every configured limit: the counter of    *)
(* the limiter is the number of slots in use, it never exceeds the limit,  *)
(* and the limiter implements the abstract pool of slots.                  *)
(***************************************************************************)
EXTENDS JobSlots, FiniteSetTheorems, TLAPS

\* The inductive invariant: the counter alone says nothing of the workers,
\* and the bound on the workers alone is not preserved by Admit.
Accounting == TypeOK /\ CountIsHolders /\ count <= Limit

USE RequestsFinite, MaxConcurrentJobsInt

LEMMA LimitPositive == Limit \in Nat /\ Limit >= 1
  BY DEF Limit

LEMMA HoldersFinite ==
  IsFiniteSet(Holders) /\ Cardinality(Holders) \in Nat
<1>1. Holders \subseteq Requests
  BY DEF Holders
<1>2. QED
  BY <1>1, FS_Subset, FS_CardinalityType

\* What a step does to the set of slots in use.
LEMMA HoldersStep ==
  ASSUME TypeOK, NEW r \in Requests
  PROVE  /\ Admit(r) => r \notin Holders /\ Holders' = Holders \cup {r}
         /\ Release(r) => r \in Holders /\ Holders' = Holders \ {r}
         /\ WorkerEnds(r) => Holders' = Holders
         /\ RefuseWhenFull(r) \/ Answer(r) \/ Timeout(r) => Holders' = Holders
<1>1. Admit(r) => r \notin Holders /\ Holders' = Holders \cup {r}
  BY DEF TypeOK, Admit, MayCall, Holders, WorkerStates
<1>2. Release(r) => r \in Holders /\ Holders' = Holders \ {r}
  BY DEF TypeOK, Release, Holders, WorkerStates
<1>3. WorkerEnds(r) => Holders' = Holders
  BY DEF TypeOK, WorkerEnds, Holders, WorkerStates
<1>4. RefuseWhenFull(r) \/ Answer(r) \/ Timeout(r) => Holders' = Holders
  BY DEF RefuseWhenFull, Answer, Timeout, Holders
<1>5. QED
  BY <1>1, <1>2, <1>3, <1>4

LEMMA AccountingInit == Init => Accounting
<1> SUFFICES ASSUME Init PROVE Accounting
  OBVIOUS
<1>1. TypeOK
  BY DEF Init, TypeOK, HandlerStates, WorkerStates
<1>2. Holders = {}
  BY DEF Init, Holders
<1>3. QED
  BY <1>1, <1>2, FS_EmptySet, LimitPositive DEF Init, Accounting, CountIsHolders

LEMMA AccountingStep == Accounting /\ [Next]_vars => Accounting'
<1> SUFFICES ASSUME Accounting, [Next]_vars PROVE Accounting'
  OBVIOUS
<1> USE DEF Accounting, CountIsHolders
<1>1. CASE UNCHANGED vars
  BY <1>1 DEF vars, TypeOK, Holders
<1>2. ASSUME NEW r \in Requests, Admit(r) PROVE Accounting'
  <2>1. TypeOK'
    BY <1>2 DEF Admit, TypeOK, HandlerStates, WorkerStates
  <2>2. Cardinality(Holders') = Cardinality(Holders) + 1
    BY <1>2, HoldersStep, HoldersFinite, FS_AddElement
  <2>3. QED
    BY <1>2, <2>1, <2>2, LimitPositive DEF Admit, AtCapacity, TypeOK
<1>3. ASSUME NEW r \in Requests, Release(r) PROVE Accounting'
  <2>1. Cardinality(Holders') = Cardinality(Holders) - 1 /\ count > 0
    <3>1. Cardinality(Holders') = Cardinality(Holders) - 1
      BY <1>3, HoldersStep, HoldersFinite, FS_RemoveElement
    <3>2. Holders # {}
      BY <1>3, HoldersStep
    <3>3. QED
      BY <3>1, <3>2, HoldersFinite, FS_EmptySet DEF TypeOK
  <2>2. TypeOK'
    BY <1>3, <2>1 DEF Release, TypeOK, WorkerStates
  <2>3. QED
    BY <1>3, <2>1, <2>2, LimitPositive DEF Release, TypeOK
<1>4. ASSUME NEW r \in Requests, WorkerEnds(r) PROVE Accounting'
  <2>1. TypeOK'
    BY <1>4 DEF WorkerEnds, TypeOK, WorkerStates
  <2>2. QED
    BY <1>4, <2>1, HoldersStep, LimitPositive DEF WorkerEnds
<1>5. ASSUME NEW r \in Requests, RefuseWhenFull(r) \/ Answer(r) \/ Timeout(r)
      PROVE  Accounting'
  <2>1. TypeOK'
    BY <1>5 DEF RefuseWhenFull, Answer, Timeout, TypeOK, HandlerStates, Answers
  <2>2. count' = count
    BY <1>5 DEF RefuseWhenFull, Answer, Timeout
  <2>3. QED
    BY <1>5, <2>1, <2>2, HoldersStep, LimitPositive
<1>6. QED
  BY <1>1, <1>2, <1>3, <1>4, <1>5 DEF Next

(***************************************************************************)
(* Type correctness: the counter never goes negative, so the clamp in      *)
(* release() never hides a double release.                                 *)
(***************************************************************************)
THEOREM TypeCorrect == Spec => []TypeOK
<1>1. Accounting => TypeOK
  BY DEF Accounting
<1>2. QED
  BY AccountingInit, AccountingStep, <1>1, PTL DEF Spec

(***************************************************************************)
(* The counter is the number of slots in use, in every interleaving of     *)
(* timeouts, results and releases.                                         *)
(***************************************************************************)
THEOREM CounterIsExact == Spec => []CountIsHolders
<1>1. Accounting => CountIsHolders
  BY DEF Accounting
<1>2. QED
  BY AccountingInit, AccountingStep, <1>1, PTL DEF Spec

(***************************************************************************)
(* No more Core threads than the limit run at once, phantom ones included. *)
(***************************************************************************)
THEOREM WorkersBounded == Spec => []BoundedWorkers
<1>1. Accounting => BoundedWorkers
  <2> SUFFICES ASSUME Accounting PROVE BoundedWorkers
    OBVIOUS
  <2>1. Running \subseteq Holders
    BY DEF Running, Holders
  <2>2. Cardinality(Running) <= Cardinality(Holders) /\ Cardinality(Running) \in Nat
    BY <2>1, HoldersFinite, FS_Subset, FS_CardinalityType
  <2>3. QED
    BY <2>2, HoldersFinite, LimitPositive
    DEF Accounting, CountIsHolders, BoundedWorkers
<1>2. QED
  BY AccountingInit, AccountingStep, <1>1, PTL DEF Spec

\* The set of slots in use changes as the abstract pool allows.
LEMMA PoolStep == Accounting /\ [Next]_vars => [Pool!Next]_Holders
<1> SUFFICES ASSUME Accounting, [Next]_vars PROVE [Pool!Next]_Holders
  OBVIOUS
<1> USE DEF Accounting, CountIsHolders
<1>1. CASE UNCHANGED vars
  BY <1>1 DEF vars, Holders
<1>2. ASSUME NEW r \in Requests, Admit(r) PROVE Pool!Take(r)
  <2>1. Pool!Cardinality(Holders) = Cardinality(Holders)
    BY DEF Pool!Cardinality, Cardinality
  <2>2. r \notin Holders /\ Holders' = Holders \cup {r}
    BY <1>2, HoldersStep
  <2>3. Cardinality(Holders) < Limit
    BY <1>2, LimitPositive DEF Admit, AtCapacity, TypeOK
  <2>4. QED
    BY <2>1, <2>2, <2>3 DEF Pool!Take
<1>3. ASSUME NEW r \in Requests, Release(r) PROVE Pool!Give(r)
  BY <1>3, HoldersStep DEF Pool!Give
<1>4. ASSUME NEW r \in Requests,
             WorkerEnds(r) \/ RefuseWhenFull(r) \/ Answer(r) \/ Timeout(r)
      PROVE  Holders' = Holders
  BY <1>4, HoldersStep
<1>5. QED
  BY <1>1, <1>2, <1>3, <1>4 DEF Next, Pool!Next

(***************************************************************************)
(* The counter, the lock and the done callback implement the slot pool.    *)
(***************************************************************************)
THEOREM ImplementsPool == Spec => PoolSpec
<1>1. Init => Pool!Init
  BY DEF Init, Pool!Init, Holders
<1>2. QED
  BY AccountingInit, AccountingStep, <1>1, PoolStep, PTL
  DEF Spec, PoolSpec, Pool!Spec

(***************************************************************************)
(* A 429 is only ever answered while every slot is in use.                 *)
(***************************************************************************)
THEOREM RefusalIsHonest == Spec => RefusedOnlyWhenFull
<1> DEFINE A == \A r \in Requests : handler'[r] = "refused" /\ handler[r] # "refused"
                                      => Cardinality(Holders) = Limit
<1>1. Accounting /\ [Next]_vars => [A]_vars
  <2> SUFFICES ASSUME Accounting, Next, NEW r \in Requests,
                      handler'[r] = "refused", handler[r] # "refused"
               PROVE  Cardinality(Holders) = Limit
    OBVIOUS
  <2>1. PICK q \in Requests : RefuseWhenFull(q) \/ Admit(q) \/ WorkerEnds(q)
                              \/ Answer(q) \/ Timeout(q) \/ Release(q)
    BY DEF Next
  <2>2. RefuseWhenFull(q)
    BY <2>1 DEF Accounting, TypeOK, Admit, WorkerEnds, Answer, Timeout, Release
  <2>3. QED
    BY <2>2, LimitPositive, HoldersFinite
    DEF RefuseWhenFull, AtCapacity, Accounting, CountIsHolders, TypeOK
<1>2. QED
  BY AccountingInit, AccountingStep, <1>1, PTL DEF Spec, RefusedOnlyWhenFull
=============================================================================
