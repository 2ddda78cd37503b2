---------------------------- MODULE MCCafeRoom ----------------------------
(***************************************************************************)
(* Model-checking instance of CafeRoom.  Sockets are interchangeable, and  *)
(* so are players as long as all or none of them may be deleted.           *)
(***************************************************************************)
EXTENDS CafeRoom, TLC

Symmetry == Permutations(Conns) \cup Permutations(Players)
====
