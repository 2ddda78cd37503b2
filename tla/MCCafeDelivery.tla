--------------------------- MODULE MCCafeDelivery ---------------------------
(***************************************************************************)
(* Model-checking instance of CafeDelivery: sockets and players are        *)
(* interchangeable.                                                        *)
(***************************************************************************)
EXTENDS CafeDelivery, TLC

Symmetry == Permutations(Sockets) \cup Permutations(Players)
====
