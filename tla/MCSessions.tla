----------------------------- MODULE MCSessions -----------------------------
(* Sessions on a small instance.                                           *)
EXTENDS Sessions, TLC

RequestSymmetry == Permutations(Requests) \cup Permutations(Users)
=============================================================================
