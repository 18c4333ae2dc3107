-------------------------- MODULE MCGatewayLiveness --------------------------
(***************************************************************************)
(* DirectGateway for the liveness run: two conversations that share one    *)
(* slot, the first with two messages.                                      *)
(***************************************************************************)
EXTENDS DirectGateway

CONSTANTS c1, c2, r1, r2, r3

TwoThreads == [r \in Requests |-> IF r = r3 THEN c2 ELSE c1]
=============================================================================
