-------------------------- MODULE MCDirectApprovals --------------------------
(***************************************************************************)
(* An instance of DirectApprovals for TLC: two requests, calls of the same *)
(* tool; one of them may be of an unknown kind.                            *)
(***************************************************************************)
EXTENDS DirectApprovals, TLC

CONSTANTS a, b, tool

KindsOfEach == (a :> {tool}) @@ (b :> {tool, "unknown"})
OnePage    == [r \in Rpcs |-> 1]
=============================================================================
