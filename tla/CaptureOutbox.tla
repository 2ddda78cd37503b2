---------------------------- MODULE CaptureOutbox ----------------------------
(***************************************************************************)
(* What automatic memory promises about one chat turn, whatever becomes of *)
(* the workers: a turn is queued once, captured at most once or given up,  *)
(* and once its owner has withdrawn it (by clearing the messages, deleting *)
(* the chat or resetting the learned context) nothing is ever learned from *)
(* it.                                                                     *)
(***************************************************************************)
CONSTANT Turns

VARIABLES
    turn,      \* what has become of each turn
    evidence   \* the turns that some memory rests on

TypeOK ==
    /\ turn \in [Turns -> {"none", "queued", "captured", "dead", "dropped"}]
    /\ evidence \subseteq Turns

Init == turn = [t \in Turns |-> "none"] /\ evidence = {}

\* A stored turn queues its capture.
Queue(t) ==
    /\ turn[t] = "none"
    /\ turn' = [turn EXCEPT ![t] = "queued"]
    /\ UNCHANGED evidence

\* The one step that may learn from t; a correction forgets what it replaces.
Capture(t) ==
    /\ turn[t] = "queued"
    /\ turn' = [turn EXCEPT ![t] = "captured"]
    /\ evidence' \subseteq evidence \cup {t}

GiveUp(t) ==
    /\ turn[t] = "queued"
    /\ turn' = [turn EXCEPT ![t] = "dead"]
    /\ UNCHANGED evidence

\* The owner withdraws the turns of S.
Drop(S) ==
    /\ \A t \in S : turn[t] # "none"
    /\ turn' = [t \in Turns |-> IF t \in S THEN "dropped" ELSE turn[t]]
    /\ evidence' = evidence \ S

Next ==
    \/ \E t \in Turns : Queue(t) \/ Capture(t) \/ GiveUp(t)
    \/ \E S \in SUBSET Turns : Drop(S)

Spec == Init /\ [][Next]_<<turn, evidence>>
=============================================================================
