----------------------------- MODULE MCJobSlots -----------------------------
(* Four callers compete for two slots, so two can be phantom workers of    *)
(* requests already answered 504 while two more are refused.               *)
EXTENDS JobSlots
=============================================================================
