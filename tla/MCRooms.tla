------------------------------- MODULE MCRooms -------------------------------
(* Rooms on a small instance.                                              *)
EXTENDS Rooms, TLC

Symmetry == Permutations(Requests) \cup Permutations(Users) \cup Permutations(Rooms)
==============================================================================
