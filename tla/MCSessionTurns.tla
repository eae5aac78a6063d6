-------------------------- MODULE MCSessionTurns --------------------------
(***************************************************************************)
(* SessionTurns for TLC: the executors are interchangeable, and so are the *)
(* stop requests, in the runs that check no liveness.                      *)
(***************************************************************************)
EXTENDS SessionTurns, TLC

TurnSymmetry == Permutations(Pods) \cup Permutations(Requests)
=============================================================================
