--------------------------- MODULE MCDirectGateway ---------------------------
(***************************************************************************)
(* Instances of DirectGateway for TLC: all messages in one conversation,   *)
(* where a job races with its successor, with commands and with crashes.   *)
(***************************************************************************)
EXTENDS DirectGateway, TLC

CONSTANT c1

OneThread == [r \in Requests |-> c1]
OneThreadSymmetry == Permutations(Requests) \cup Permutations(Interactions)
=============================================================================
