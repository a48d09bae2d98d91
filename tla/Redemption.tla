----------------------------- MODULE Redemption -----------------------------
(***************************************************************************)
(* What the issuer of review tokens promises to the review endpoint: a     *)
(* token is redeemed at most once, only after it was issued, and only by   *)
(* the identity it was issued to.  A token issued to Nobody is anybody's.  *)
(***************************************************************************)
CONSTANTS Tokens,
          Uses,      \* the attempts to redeem one
          Callers,   \* the identities, Nobody among them
          Nobody

VARIABLES issued,    \* [token, owner], of each token that was issued
          redeemed   \* [token, use, who], of each use that was accepted

vars == <<issued, redeemed>>

Init == issued = {} /\ redeemed = {}

Issue(t, owner) ==
  /\ \A i \in issued : i.token # t
  /\ issued' = issued \cup {[token |-> t, owner |-> owner]}
  /\ UNCHANGED redeemed

Redeem(t, u, who) ==
  /\ \E i \in issued : i.token = t /\ i.owner \in {Nobody, who}
  /\ \A r \in redeemed : r.token # t /\ r.use # u
  /\ redeemed' = redeemed \cup {[token |-> t, use |-> u, who |-> who]}
  /\ UNCHANGED issued

Next == \E t \in Tokens, who \in Callers :
          Issue(t, who) \/ \E u \in Uses : Redeem(t, u, who)

Spec == Init /\ [][Next]_vars
=============================================================================
