---------------------------- MODULE MCAttachments ----------------------------
(***************************************************************************)
(* Model-checking instance of Attachments: images of one unit each, and    *)
(* interchangeable keys, owners of one kind, messages and replicas.        *)
(***************************************************************************)
EXTENDS Attachments, TLC

UnitSize == [k \in Keys |-> 1]

Symmetry == Permutations(Keys) \cup Permutations(Guests) \cup Permutations(Accounts)
                \cup Permutations(Messages) \cup Permutations(Replicas)
=============================================================================
