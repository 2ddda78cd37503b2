----------------------------- MODULE MCCafeHub ------------------------------
(* Instance of CafeHub: an account with two sessions and a guest, at two addresses. *)
EXTENDS CafeHub, TLC

CONSTANTS a1, a2, g, i1, i2, c1, c2, h1, h2, pin, hat

MCIpOf == [s \in Sessions |-> IF s = g THEN i2 ELSE i1]
MCRequired == [x \in Items |-> IF x = hat THEN 1 ELSE 0]
MCSymmetry == Permutations({a1, a2}) \cup Permutations({c1, c2}) \cup Permutations({h1, h2})
=============================================================================
