----------------------------- MODULE MCSessions -----------------------------
(* Two calls overlap, on two sessions in memory, where the store holds one *)
(* and the second login evicts the first, or on one session in Redis.      *)
EXTENDS Sessions, TLC

CONSTANTS i1, i2

MCDeployments == {[shared |-> FALSE, ids |-> {i1, i2}], [shared |-> TRUE, ids |-> {i1}]}
RedisOnly == {[shared |-> TRUE, ids |-> {i1}]}

CallsAlike == Permutations(Calls)
=============================================================================
