---------------------------- MODULE MCDailyQuota ----------------------------
(***************************************************************************)
(* Small instances of DailyQuota.  Requests, sessions and accounts are     *)
(* interchangeable: no operation orders them.                              *)
(***************************************************************************)
EXTENDS DailyQuota, TLC

Symmetry == Permutations(Requests) \cup Permutations(Sessions) \cup Permutations(Users)
=============================================================================
