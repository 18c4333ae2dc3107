---------------------------- MODULE MCDirectStore ----------------------------
(***************************************************************************)
(* Instances of DirectStore for TLC.  A message is posted in a fixed       *)
(* conversation; requests of one conversation are interchangeable (their   *)
(* order is in sequence), and so are interaction ids.                      *)
(***************************************************************************)
EXTENDS DirectStore, TLC

CONSTANTS r1, r2, r3, c1, c2

\* One busy conversation beside a second one that competes for the capacity.
TwoThreads == [r \in Requests |-> IF r = r3 THEN c2 ELSE c1]
TwoThreadsSymmetry == Permutations({r1, r2})

\* One conversation, where controls race with its own executions.
OneThread == [r \in Requests |-> c1]
OneThreadSymmetry == Permutations(Requests) \cup Permutations(Interactions)
=============================================================================
