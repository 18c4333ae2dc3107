--------------------------- MODULE MCCodexTransport ---------------------------
(***************************************************************************)
(* A run's child for TLC: launch, the start of the turn, one poll and one  *)
(* reply.                                                                  *)
(***************************************************************************)
EXTENDS CodexTransport
=============================================================================
