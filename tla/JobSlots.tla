------------------------------ MODULE JobSlots ------------------------------
(***************************************************************************)
(* Bounded concurrent Core work of the API: ConcurrencyLimiter             *)
(* (api/concurrency.py) as used by run_with_timeout (api/routes/_shared.py).*)
(*                                                                         *)
(* A request that is admitted has two lives.  Its handler, a coroutine,    *)
(* waits for the result and gives up after processing_timeout_seconds.  Its *)
(* worker, a thread that cannot be killed, runs to its end whatever the    *)
(* handler did; its done callback then schedules limiter.release() as a    *)
(* separate task of the event loop.  The limiter keeps a bare counter, so  *)
(* nothing but this protocol ties the counter to the workers.              *)
(*                                                                         *)
(* try_acquire and release never suspend while they hold the asyncio lock, *)
(* so each is one step.                                                    *)
(***************************************************************************)
EXTENDS Integers, FiniteSets

CONSTANTS Requests,           \* concurrent callers of run_with_timeout
          MaxConcurrentJobs   \* settings.max_concurrent_jobs, as configured

ASSUME RequestsFinite == IsFiniteSet(Requests)
ASSUME MaxConcurrentJobsInt == MaxConcurrentJobs \in Int

VARIABLES count,     \* ConcurrencyLimiter._count
          handler,   \* what each request's coroutine is doing, or answered
          worker     \* each request's worker thread and its slot

vars == <<count, handler, worker>>

Answers == {"answered", "timed_out", "refused"}
HandlerStates == {"idle", "waiting"} \cup Answers
\* "finished": the thread is over and the release task is scheduled, not run.
WorkerStates == {"none", "running", "finished"}

\* The counter never goes negative, and each request's handler and worker
\* are in a state of their own protocol.
TypeOK == /\ count \in Nat
          /\ handler \in [Requests -> HandlerStates]
          /\ worker \in [Requests -> WorkerStates]

-----------------------------------------------------------------------------
\* ConcurrencyLimiter.__init__: a configured limit below one means one.
Limit == IF MaxConcurrentJobs < 1 THEN 1 ELSE MaxConcurrentJobs

Running == {r \in Requests : worker[r] = "running"}
Holders == {r \in Requests : worker[r] # "none"}

Init == /\ count = 0
        /\ handler = [r \in Requests |-> "idle"]
        /\ worker = [r \in Requests |-> "none"]

\* A caller may come back once its last request was answered and its worker
\* is gone; a client that retries while its first worker still runs is
\* another member of Requests.
MayCall(r) == handler[r] # "waiting" /\ worker[r] = "none"

AtCapacityOffByOne == count > Limit
AtCapacity == count >= Limit

\* try_acquire returned False: 429, never queued.
RefuseWhenFull(r) == /\ MayCall(r)
                     /\ AtCapacity
                     /\ handler' = [handler EXCEPT ![r] = "refused"]
                     /\ UNCHANGED <<count, worker>>

\* try_acquire returned True; the thread is started with no await in between.
Admit(r) == /\ MayCall(r)
            /\ ~AtCapacity
            /\ count' = count + 1
            /\ handler' = [handler EXCEPT ![r] = "waiting"]
            /\ worker' = [worker EXCEPT ![r] = "running"]

\* func returned or raised; _release scheduled limiter.release().
WorkerEnds(r) == /\ worker[r] = "running"
                 /\ worker' = [worker EXCEPT ![r] = "finished"]
                 /\ UNCHANGED <<count, handler>>

\* shield(task) is done, so wait_for hands its result or error to the handler.
Answer(r) == /\ handler[r] = "waiting"
             /\ worker[r] # "running"
             /\ handler' = [handler EXCEPT ![r] = "answered"]
             /\ UNCHANGED <<count, worker>>

TimeoutFreesSlot(r) == /\ handler[r] = "waiting"
                       /\ handler' = [handler EXCEPT ![r] = "timed_out"]
                       /\ count' = count - 1
                       /\ UNCHANGED worker

\* wait_for gives up: 504.  The shielded task, its thread and its slot stay.
\* The timer may also win over a task that is already done.
Timeout(r) == /\ handler[r] = "waiting"
              /\ handler' = [handler EXCEPT ![r] = "timed_out"]
              /\ UNCHANGED <<count, worker>>

ReleaseOnlyIfAwaited(r) == /\ worker[r] = "finished"
                           /\ worker' = [worker EXCEPT ![r] = "none"]
                           /\ count' = IF count > 0 /\ handler[r] # "timed_out"
                                       THEN count - 1 ELSE count
                           /\ UNCHANGED handler

\* The scheduled limiter.release(): the counter is clamped at zero.
Release(r) == /\ worker[r] = "finished"
              /\ worker' = [worker EXCEPT ![r] = "none"]
              /\ count' = IF count > 0 THEN count - 1 ELSE 0
              /\ UNCHANGED handler

Next == \E r \in Requests : \/ RefuseWhenFull(r) \/ Admit(r) \/ WorkerEnds(r)
                            \/ Answer(r) \/ Timeout(r) \/ Release(r)

(***************************************************************************)
(* The event loop runs scheduled tasks and timers (Answer, Timeout,        *)
(* Release); a worker ends because Core work is a bounded number of OCR    *)
(* calls.  Nothing forces a client to call.                                *)
(***************************************************************************)
Fairness == \A r \in Requests : /\ WF_vars(Answer(r) \/ Timeout(r))
                                /\ WF_vars(WorkerEnds(r))
                                /\ WF_vars(Release(r))

Spec == Init /\ [][Next]_vars /\ Fairness

-----------------------------------------------------------------------------
(***************************************************************************)
(* The counter is exactly the number of workers whose slot was not given   *)
(* back, whichever of timeout, result and release came first.              *)
(***************************************************************************)
CountIsHolders == count = Cardinality(Holders)

(***************************************************************************)
(* concurrency.py: "a flood of timeout-inducing requests can occupy at     *)
(* most max_concurrent_jobs phantom workers, never more".                  *)
(***************************************************************************)
BoundedWorkers == Cardinality(Running) <= Limit

(***************************************************************************)
(* A caller is refused (429) only when every slot is held by a worker that *)
(* has not given it back: timeouts and retries never use up capacity.      *)
(***************************************************************************)
RefusedOnlyWhenFull ==
  [][\A r \in Requests :
        handler'[r] = "refused" /\ handler[r] # "refused"
          => Cardinality(Holders) = Limit]_vars

(***************************************************************************)
(* Capacity lost to phantom workers always comes back: the pool is never   *)
(* full forever.                                                           *)
(***************************************************************************)
CapacityReturns == []<>(count < Limit)

\* What holds a slot, as the abstract pool sees it.
Pool == INSTANCE SlotPool WITH Jobs <- Requests, Capacity <- Limit,
                               holders <- Holders

\* The limiter implements the abstract pool: a slot is taken only below the
\* capacity and given back exactly once, whatever became of the request.
PoolSpec == Pool!Spec
=============================================================================
