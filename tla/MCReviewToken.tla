--------------------------- MODULE MCReviewToken ---------------------------
(* One token submitted twice: enough for a replay racing the first use, on  *)
(* one instance or two, with retries of lost Redis calls and a restart.    *)
EXTENDS ReviewToken, TLC

CONSTANTS a, b

\* One instance with a generated or a configured secret, or two with Redis.
MCDeployments ==
  {[shared |-> FALSE, explicit |-> FALSE, nodes |-> {a}],
   [shared |-> FALSE, explicit |-> TRUE, nodes |-> {a}],
   [shared |-> TRUE, explicit |-> TRUE, nodes |-> {a, b}]}

\* Submissions differ only in what they do.
SubmissionsAlike == Permutations(Submissions)
=============================================================================
