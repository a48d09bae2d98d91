------------------------------ MODULE MCLogin ------------------------------
(* Two logins and two callbacks in two browsers; a memory store of one     *)
(* transaction, and Redis with keys that outlive the transactions, as      *)
(* shipped, or do not.                                                     *)
EXTENDS Login, TLC

MCConfigs == [shared : BOOLEAN, ttl : {1}] \cup {[shared |-> TRUE, ttl |-> 3]}

Alike == Permutations(Logins) \cup Permutations(Calls) \cup Permutations(Browsers)
=============================================================================
