------------------------------- MODULE MCSync -------------------------------
(* Instance of Sync: one account, two browsers with two requests at a time. *)
EXTENDS Sync, TLC

CONSTANTS op1, op2

MCItemsOf == op1 :> <<[item |-> "draft", at |-> 0], [item |-> "theme", at |-> 1]>>
          @@ op2 :> <<[item |-> "draft", at |-> 2], [item |-> "theme", at |-> 2]>>
Symmetry == Permutations(Requests) \cup Permutations(Browsers)
=============================================================================
