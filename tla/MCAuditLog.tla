----------------------------- MODULE MCAuditLog -----------------------------
(* Two threads and an auditor.  With an operator's key: many events and    *)
(* retention, or fewer with a failure and a restart; without: every        *)
(* process, and every racing construction, draws a key of its own.         *)
EXTENDS AuditLog, TLC

MCDeployments ==
  {[keyed |-> TRUE, events |-> 5, faults |-> 0, restarts |-> 0, cleanups |-> 1],
   [keyed |-> TRUE, events |-> 4, faults |-> 1, restarts |-> 1, cleanups |-> 1],
   [keyed |-> FALSE, events |-> 3, faults |-> 1, restarts |-> 1, cleanups |-> 1]}

ThreadsAlike == Permutations(Threads)
=============================================================================
