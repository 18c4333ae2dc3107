------------------------------ MODULE TurnLedger ------------------------------
(***************************************************************************)
(* What the Direct store promises about one Discord message: it is sent to *)
(* Codex at most once.  After the send boundary a message is in flight,    *)
(* then settled by a confirmed result; when the result is not known it is  *)
(* uncertain, and it stays so until it is confirmed after all or the user  *)
(* gives it up.  It never waits again.  While an execution is in flight or *)
(* uncertain it occupies its conversation and one of Capacity places.      *)
(***************************************************************************)
EXTENDS Naturals, FiniteSets

CONSTANTS Requests, Conversations, ThreadOf, Capacity

VARIABLE phase

Phases == {"unseen", "waiting", "withdrawn", "inFlight", "uncertain",
           "abandoned", "settled"}

In(p) == {r \in Requests : phase[r] = p}

Occupying == In("inFlight") \cup In("uncertain")

\* The requests of S, all of phase p, move to phase q.
Move(S, p, q) ==
    /\ S \subseteq In(p)
    /\ phase' = [r \in Requests |-> IF r \in S THEN q ELSE phase[r]]

Init == phase = [r \in Requests |-> "unseen"]

Take(r) == Move({r}, "unseen", "waiting")

Withdraw(S) == Move(S, "waiting", "withdrawn")

Dispatch(r) ==
    /\ \A s \in Occupying : ThreadOf[s] # ThreadOf[r]
    /\ Cardinality(Occupying) < Capacity
    /\ Move({r}, "waiting", "inFlight")

LoseTrack(S) == Move(S, "inFlight", "uncertain")

\* A late confirmation is accepted even for an execution given up before.
Settle(r) == \E p \in {"inFlight", "uncertain", "abandoned"} :
                Move({r}, p, "settled")

\* Giving up an execution may withdraw what waits behind it.
Abandon(r, S) ==
    /\ r \in In("uncertain")
    /\ S \subseteq In("waiting")
    /\ \A s \in S : ThreadOf[s] = ThreadOf[r]
    /\ phase' = [s \in Requests |-> IF s = r THEN "abandoned"
                                    ELSE IF s \in S THEN "withdrawn"
                                    ELSE phase[s]]

Next ==
    \/ \E r \in In("unseen") : Take(r)
    \/ \E r \in In("waiting") : Dispatch(r)
    \/ \E r \in Requests \ In("settled") : Settle(r)
    \/ \E S \in SUBSET In("waiting") :
          \/ Withdraw(S)
          \/ \E r \in In("uncertain") : Abandon(r, S)
    \/ \E S \in SUBSET In("inFlight") : LoseTrack(S)

Spec == Init /\ [][Next]_phase
=============================================================================
