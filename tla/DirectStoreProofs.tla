-------------------------- MODULE DirectStoreProofs --------------------------
(***************************************************************************)
(* Proofs about the Direct store, for any messages, conversations,         *)
(* interactions, capacity and queue limits.                                *)
(***************************************************************************)
EXTENDS DirectStore, FiniteSetTheorems, TLAPS

-----------------------------------------------------------------------------
(***************************************************************************)
(* Type correctness.                                                       *)
(***************************************************************************)

LEMMA TypeInit == Init => TypeOK
  <1>1. NoOperation \in Operation
    BY DEF NoOperation, Operation
  <1>2. NoOffer \in Offer
    BY DEF NoOffer, Offer
  <1> QED
    BY <1>1, <1>2 DEF Init, TypeOK, AdmissionStatus, RequestState, SendState,
       HoldState, Continuation, CodexThread

LEMMA RejectType ==
    ASSUME TypeOK, NEW S, Reject(S)
    PROVE  admission' \in [Requests -> AdmissionStatus]
  BY DEF TypeOK, Reject, AdmissionStatus

LEMMA RecordOperationType ==
    ASSUME TypeOK, NEW i \in Interactions, NEW op \in Operation,
           RecordOperation(i, op)
    PROVE  operation' \in [Interactions -> Operation]
  BY DEF TypeOK, RecordOperation

LEMMA QueriesFinite ==
    /\ IsFiniteSet(Waiting)
    /\ \A c \in Conversations : IsFiniteSet(WaitingIn(c))
    /\ \A c \in Conversations : IsFiniteSet(QueuedIn(c))
    /\ \A c \in Conversations : Cardinality(QueuedIn(c)) \in Nat
    /\ IsFiniteSet(Held)
  BY RequestsFinite, FS_Subset, FS_CardinalityType
     DEF Waiting, WaitingIn, QueuedIn, PostedIn, Held

LEMMA TypeStep == TypeOK /\ [Next]_vars => TypeOK'
  <1> SUFFICES ASSUME TypeOK, [Next]_vars
               PROVE  TypeOK'
    OBVIOUS
  <1> USE ThreadOfType
  <1>1. ASSUME NEW r \in Requests, Reserve(r)
        PROVE  TypeOK'
    BY <1>1 DEF TypeOK, Reserve, AdmissionStatus, requestVars, dispatchVars,
       pauseVars, conversationVars
  <1>2. ASSUME NEW r \in Requests, Finalize(r)
        PROVE  TypeOK'
    BY <1>2 DEF TypeOK, Finalize, AdmissionStatus, RequestState,
       dispatchVars, pauseVars, conversationVars
  <1>3. ASSUME NEW r \in Requests, RejectAdmission(r)
        PROVE  TypeOK'
    BY <1>3, RejectType DEF TypeOK, RejectAdmission, requestVars,
       dispatchVars, pauseVars, conversationVars
  <1>4. ASSUME NEW S \in SUBSET Requests, Sweep(S)
        PROVE  TypeOK'
    BY <1>4, RejectType DEF TypeOK, Sweep, requestVars, dispatchVars,
       pauseVars, conversationVars
  <1>5. ASSUME NEW r \in Requests, PrepareDirect(r)
        PROVE  TypeOK'
    BY <1>5 DEF TypeOK, PrepareDirect, SendState, admissionVars, requestVars,
       pauseVars, conversationVars
  <1>6. ASSUME NEW r \in Requests, BeginDirectSend(r)
        PROVE  TypeOK'
    BY <1>6 DEF TypeOK, BeginDirectSend, Sendable, SendState, RequestState, Active,
       HoldState, Continuation, admissionVars, pauseVars
  <1>7. ASSUME NEW r \in Requests, NEW t \in ReportedThread(r),
               RecordDirectThread(r, t)
        PROVE  TypeOK'
    BY <1>7 DEF TypeOK, RecordDirectThread, BindThread, ReportedThread,
       CodexThread, admissionVars, requestVars, pauseVars
  <1>8. ASSUME NEW r \in Requests, NEW t \in ReportedThread(r),
               AcknowledgeDirectTurn(r, t)
        PROVE  TypeOK'
    BY <1>8 DEF TypeOK, AcknowledgeDirectTurn, BindThread, ReportedThread,
       CodexThread, SendState, RequestState, Active, admissionVars, pauseVars
  <1>9. ASSUME NEW r \in Requests, RequireApproval(r) \/ ResolveApproval(r)
        PROVE  TypeOK'
    BY <1>9 DEF TypeOK, RequireApproval, ResolveApproval, RequestState,
       Active, admissionVars, dispatchVars, pauseVars, conversationVars
  <1>10. ASSUME NEW r \in Requests, MarkDirectUnknown(r)
         PROVE  TypeOK'
    BY <1>10 DEF TypeOK, MarkDirectUnknown, RequestState, SendState,
       admissionVars, pauseVars, conversationVars
  <1>11. ASSUME NEW r \in Requests, NEW status \in Terminal,
                FinishDirect(r, status)
         PROVE  TypeOK'
    BY <1>11 DEF TypeOK, FinishDirect, RequestState, SendState, HoldState,
       Continuation, admissionVars, pauseVars
  <1>12. ASSUME NEW r \in Requests, FailDirectBeforeSend(r)
         PROVE  TypeOK'
    BY <1>12 DEF TypeOK, FailDirectBeforeSend, RequestState, Terminal,
       admissionVars, dispatchVars, pauseVars, conversationVars
  <1>13. ASSUME NEW r \in Requests, AbandonDirectUnknown(r)
         PROVE  TypeOK'
    BY <1>13 DEF TypeOK, AbandonDirectUnknown, GiveUp, HoldState,
       Continuation, CodexThread, admissionVars, requestVars, dispatchVars,
       pauseVars
  <1>14. ASSUME NEW i \in Interactions, NEW c \in Conversations,
               ReadRecoveryOffer(i, c)
         PROVE  TypeOK'
    <2>1. PICK r \in PostedIn(c) :
            offer' = [offer EXCEPT ![i] =
                [request       |-> r,
                 waiting       |-> Cardinality(QueuedIn(c)),
                 pauseRevision |-> pauseRevision[c],
                 nextSequence  |-> nextSequence[c],
                 shown         |-> QueuedIn(c),
                 stopsSeen     |-> stops[c]]]
      BY <1>14 DEF ReadRecoveryOffer
    <2>2. offer' \in [Interactions -> Offer]
      BY <2>1, QueriesFinite DEF TypeOK, Offer, PostedIn, QueuedIn
    <2> QED
      BY <1>14, <2>2 DEF TypeOK, ReadRecoveryOffer, admissionVars,
         requestVars, dispatchVars, pauseVars, conversationVars
  <1>15. ASSUME NEW i \in Interactions, ApplyResume(i)
         PROVE  TypeOK'
    <2> DEFINE c == operation[i].thread
    <2>0. operation[i] \in Operation
      BY DEF TypeOK
    <2>1. operation' \in [Interactions -> Operation]
      <3>1. \E v \in {"APPLIED", "SUPERSEDED"} :
               operation' = [operation EXCEPT ![i].state = v]
        BY <1>15 DEF ApplyResume
      <3>2. PICK v \in {"APPLIED", "SUPERSEDED"} :
               operation' = [operation EXCEPT ![i] =
                                [operation[i] EXCEPT !.state = v]]
        BY <3>1
      <3>3. [operation[i] EXCEPT !.state = v] \in Operation
        BY <2>0 DEF Operation
      <3> QED
        BY <3>2, <3>3 DEF TypeOK
    <2>2. /\ paused' \in [Conversations -> BOOLEAN]
          /\ pauseRevision' \in [Conversations -> Nat]
      <3>1. \/ /\ paused' = [paused EXCEPT ![c] = FALSE]
               /\ pauseRevision' = [pauseRevision EXCEPT ![c] = @ + 1]
            \/ UNCHANGED <<paused, pauseRevision>>
        BY <1>15 DEF ApplyResume
      <3>2. CASE UNCHANGED <<paused, pauseRevision>>
        BY <3>2 DEF TypeOK
      <3>3. CASE /\ paused' = [paused EXCEPT ![c] = FALSE]
                 /\ pauseRevision' = [pauseRevision EXCEPT ![c] = @ + 1]
        <4> HIDE DEF c
        <4>1. paused' \in [Conversations -> BOOLEAN]
          BY <3>3 DEF TypeOK
        <4>2. pauseRevision' \in [Conversations -> Nat]
          <5>1. CASE c \in Conversations
            BY <3>3, <5>1 DEF TypeOK
          <5>2. CASE c \notin Conversations
            <6>1. pauseRevision' = pauseRevision
              BY <3>3, <5>2 DEF TypeOK
            <6> QED
              BY <6>1 DEF TypeOK
          <5> QED
            BY <5>1, <5>2
        <4> QED
          BY <4>1, <4>2
      <3> QED
        BY <3>1, <3>2, <3>3
    <2> QED
      BY <1>15, <2>1, <2>2 DEF TypeOK, ApplyResume, admissionVars,
         requestVars, dispatchVars, conversationVars
  <1>16. ASSUME NEW i \in Interactions, NEW c \in Conversations,
                CancelLatest(i, c)
         PROVE  TypeOK'
    <2> DEFINE op(t) == [NoOperation EXCEPT !.kind = "cancel", !.thread = c,
                                            !.target = t, !.state = "APPLIED"]
    <2>1. \A t \in Requests \cup {None} : op(t) \in Operation
      BY DEF NoOperation, Operation
    <2>2. CASE \E r \in Latest(WaitingIn(c)) :
                  /\ Reject({r})
                  /\ state' = IF admission[r] = "ACCEPTED"
                              THEN [state EXCEPT ![r] = "CANCELLED"] ELSE state
                  /\ UNCHANGED stopRequested
                  /\ RecordOperation(i, op(r))
      <3>1. PICK r \in Latest(WaitingIn(c)) :
                  /\ Reject({r})
                  /\ state' = IF admission[r] = "ACCEPTED"
                              THEN [state EXCEPT ![r] = "CANCELLED"] ELSE state
                  /\ UNCHANGED stopRequested
                  /\ RecordOperation(i, op(r))
        BY <2>2
      <3>2. r \in Requests
        BY DEF Latest, WaitingIn, PostedIn
      <3>3. operation' \in [Interactions -> Operation]
        BY <2>1, <3>1, <3>2, RecordOperationType
      <3>4. state' \in [Requests -> RequestState]
        BY <3>1, <3>2 DEF TypeOK, RequestState, Terminal
      <3> QED
        BY <1>16, <3>1, <3>3, <3>4, RejectType DEF TypeOK, CancelLatest,
           dispatchVars, pauseVars, conversationVars
    <2>3. CASE \E t \in OrNull(Latest(HeldIn(c))) :
                  /\ stopRequested' =
                        [r \in Requests |-> stopRequested[r] \/ r = t]
                  /\ UNCHANGED <<admission, state>>
                  /\ RecordOperation(i, op(t))
      <3>1. PICK t \in OrNull(Latest(HeldIn(c))) :
                  /\ stopRequested' =
                        [r \in Requests |-> stopRequested[r] \/ r = t]
                  /\ UNCHANGED <<admission, state>>
                  /\ RecordOperation(i, op(t))
        BY <2>3
      <3>2. t \in Requests \cup {None}
        BY DEF OrNull, Latest, HeldIn, PostedIn
      <3>3. operation' \in [Interactions -> Operation]
        BY <2>1, <3>1, <3>2, RecordOperationType
      <3>4. stopRequested' \in [Requests -> BOOLEAN]
        BY <3>1 DEF TypeOK
      <3> QED
        BY <1>16, <3>1, <3>3, <3>4 DEF TypeOK, CancelLatest, dispatchVars,
           pauseVars, conversationVars
    <2> HIDE DEF op
    <2> QED
      BY <1>16, <2>2, <2>3 DEF CancelLatest, op
  <1>17. ASSUME NEW i \in Interactions, NEW c \in Conversations, Stop(i, c)
         PROVE  TypeOK'
    <2>1. [NoOperation EXCEPT !.kind = "stop", !.thread = c,
                              !.state = "APPLIED"] \in Operation
      BY DEF NoOperation, Operation
    <2>2. operation' \in [Interactions -> Operation]
      BY <1>17, <2>1, RecordOperationType DEF Stop
    <2>3. stopRequested' \in [Requests -> BOOLEAN]
      BY <1>17 DEF TypeOK, Stop
    <2> QED
      BY <1>17, <2>2, <2>3 DEF TypeOK, Stop, admissionVars, dispatchVars,
         conversationVars
  <1>18. ASSUME NEW i \in Interactions, NEW c \in Conversations,
                ReserveResume(i, c)
         PROVE  TypeOK'
    <2>1. [NoOperation EXCEPT !.kind = "resume", !.thread = c,
              !.expected = pauseRevision[c],
              !.stopsSeen = stops[c]] \in Operation
      BY DEF NoOperation, Operation, TypeOK
    <2>2. operation' \in [Interactions -> Operation]
      BY <1>18, <2>1, RecordOperationType DEF ReserveResume
    <2> QED
      BY <1>18, <2>2 DEF TypeOK, ReserveResume, admissionVars, requestVars,
         dispatchVars, pauseVars, conversationVars
  <1>19. ASSUME NEW i \in Interactions, NEW c \in Conversations,
                RecoverDirectUnknown(i, c)
         PROVE  TypeOK'
    <2>1. offer[i].request \in Requests \cup {None}
      BY DEF TypeOK, Offer
    <2>2. [NoOperation EXCEPT !.kind = "direct_recover", !.thread = c,
              !.target = offer[i].request, !.state = "APPLIED"] \in Operation
      BY <2>1 DEF NoOperation, Operation
    <2>3. operation' \in [Interactions -> Operation]
      BY <1>19, <2>2, RecordOperationType DEF RecoverDirectUnknown
    <2>4. state' \in [Requests -> RequestState]
      BY <1>19 DEF TypeOK, RecoverDirectUnknown, RequestState, Terminal
    <2>5. /\ hold' \in [Requests -> HoldState]
          /\ codexThread' \in [Conversations -> CodexThread]
          /\ continuation' \in [Conversations -> Continuation]
      <3>1. PICK r \in PostedIn(c) : GiveUp(r)
        BY <1>19 DEF RecoverDirectUnknown
      <3>2. r \in Requests
        BY DEF PostedIn
      <3> QED
        BY <3>1, <3>2 DEF TypeOK, GiveUp, HoldState, CodexThread,
           Continuation
    <2>6. /\ paused' \in [Conversations -> BOOLEAN]
          /\ pauseRevision' \in [Conversations -> Nat]
      BY <1>19 DEF TypeOK, RecoverDirectUnknown
    <2>7. UNCHANGED <<admissionVars, stopRequested, dispatchVars, stops,
                      offer>>
      BY <1>19 DEF RecoverDirectUnknown
    <2> QED
      BY <2>3, <2>4, <2>5, <2>6, <2>7 DEF TypeOK, admissionVars,
         dispatchVars
  <1>20. ASSUME StartupRecover
         PROVE  TypeOK'
    <2>1. operation' \in [Interactions -> Operation]
      BY <1>20 DEF TypeOK, StartupRecover, Operation
    <2> QED
      BY <1>20, <2>1, RejectType DEF TypeOK, StartupRecover, requestVars,
         dispatchVars, pauseVars, conversationVars
  <1>21. ASSUME FenceDirectAfterRestart
         PROVE  TypeOK'
    BY <1>21 DEF TypeOK, FenceDirectAfterRestart, RequestState, SendState,
       admissionVars, pauseVars, conversationVars
  <1>22. CASE UNCHANGED vars
    BY <1>22 DEF TypeOK, vars, admissionVars, requestVars, dispatchVars,
       pauseVars, conversationVars
  <1> QED
    BY <1>1, <1>2, <1>3, <1>4, <1>5, <1>6, <1>7, <1>8, <1>9, <1>10, <1>11,
       <1>12, <1>13, <1>14, <1>15, <1>16, <1>17, <1>18, <1>19, <1>20, <1>21,
       <1>22 DEF Next

\* Every column keeps its domain, whatever the instance.
THEOREM TypeCorrect == Spec => []TypeOK
  BY TypeInit, TypeStep, PTL DEF Spec

-----------------------------------------------------------------------------
(***************************************************************************)
(* The records of one request agree.  The invariant is inductive beside    *)
(* TypeOK: a transaction's own guard decides every column it leaves alone. *)
(***************************************************************************)

LEMMA RecordsInit == Init => RecordsAgree
  BY DEF Init, RecordsAgree, Terminal

\* A message leaves validation without touching any accepted one.
LEMMA RejectKeepsAccepted ==
    ASSUME NEW S, Reject(S), NEW r \in Requests
    PROVE  admission'[r] = "ACCEPTED" <=> admission[r] = "ACCEPTED"
  BY DEF Reject

LEMMA RecordsStep == TypeOK /\ RecordsAgree /\ [Next]_vars => RecordsAgree'
  <1> SUFFICES ASSUME TypeOK, RecordsAgree, [Next]_vars
               PROVE  RecordsAgree'
    OBVIOUS
  <1> USE ThreadOfType
  <1>1. ASSUME NEW r \in Requests, Reserve(r)
        PROVE  RecordsAgree'
    BY <1>1 DEF TypeOK, RecordsAgree, Reserve, requestVars, dispatchVars,
       Terminal
  <1>2. ASSUME NEW r \in Requests, Finalize(r)
        PROVE  RecordsAgree'
    BY <1>2 DEF TypeOK, RecordsAgree, Finalize, dispatchVars, Terminal
  <1>3. ASSUME NEW S, Reject(S),
               UNCHANGED <<state, sendState, turn, hold>>
        PROVE  RecordsAgree'
    BY <1>3, RejectKeepsAccepted DEF RecordsAgree
  <1>4. ASSUME UNCHANGED <<admission, state, sendState, turn, hold>>
        PROVE  RecordsAgree'
    BY <1>4 DEF RecordsAgree
  <1>5. ASSUME NEW r \in Requests, PrepareDirect(r)
        PROVE  RecordsAgree'
    BY <1>5 DEF TypeOK, RecordsAgree, PrepareDirect, admissionVars,
       requestVars, Terminal
  <1>6. ASSUME NEW r \in Requests, BeginDirectSend(r)
        PROVE  RecordsAgree'
    BY <1>6 DEF TypeOK, RecordsAgree, BeginDirectSend, Sendable, admissionVars, Terminal
  <1>7. ASSUME NEW r \in Requests, NEW t \in ReportedThread(r),
               AcknowledgeDirectTurn(r, t)
        PROVE  RecordsAgree'
    BY <1>7 DEF TypeOK, RecordsAgree, AcknowledgeDirectTurn, BindThread,
       admissionVars, Terminal
  <1>8. ASSUME NEW r \in Requests, RequireApproval(r) \/ ResolveApproval(r)
        PROVE  RecordsAgree'
    BY <1>8 DEF TypeOK, RecordsAgree, RequireApproval, ResolveApproval,
       admissionVars, dispatchVars, Terminal
  <1>9. ASSUME NEW r \in Requests, MarkDirectUnknown(r)
        PROVE  RecordsAgree'
    BY <1>9 DEF TypeOK, RecordsAgree, MarkDirectUnknown, admissionVars,
       Active, Terminal
  <1>10. ASSUME NEW r \in Requests, NEW status \in Terminal,
                FinishDirect(r, status)
         PROVE  RecordsAgree'
    BY <1>10 DEF TypeOK, RecordsAgree, FinishDirect, admissionVars, Terminal
  <1>11. ASSUME NEW r \in Requests, FailDirectBeforeSend(r)
         PROVE  RecordsAgree'
    BY <1>11 DEF TypeOK, RecordsAgree, FailDirectBeforeSend, admissionVars,
       dispatchVars, Terminal
  <1>12. ASSUME NEW r \in Requests, AbandonDirectUnknown(r)
         PROVE  RecordsAgree'
    BY <1>12 DEF TypeOK, RecordsAgree, AbandonDirectUnknown, GiveUp,
       Uncertain, admissionVars, requestVars, dispatchVars, Terminal
  <1>13. ASSUME NEW i \in Interactions, NEW c \in Conversations,
                CancelLatest(i, c)
         PROVE  RecordsAgree'
    <2>1. CASE \E r \in Latest(WaitingIn(c)) :
                  /\ Reject({r})
                  /\ state' = IF admission[r] = "ACCEPTED"
                              THEN [state EXCEPT ![r] = "CANCELLED"] ELSE state
      <3>1. PICK r \in Latest(WaitingIn(c)) :
                  /\ Reject({r})
                  /\ state' = IF admission[r] = "ACCEPTED"
                              THEN [state EXCEPT ![r] = "CANCELLED"] ELSE state
        BY <2>1
      <3>2. /\ r \in Requests
            /\ admission[r] = "ACCEPTED" => state[r] = "QUEUED"
        BY DEF Latest, WaitingIn, Waiting
      <3>3. UNCHANGED <<sendState, turn, hold>>
        BY <1>13 DEF CancelLatest, dispatchVars
      <3> QED
        BY <3>1, <3>2, <3>3, RejectKeepsAccepted
           DEF TypeOK, RecordsAgree, Terminal
    <2>2. CASE UNCHANGED <<admission, state>>
      BY <1>4, <1>13, <2>2 DEF CancelLatest, dispatchVars
    <2> QED
      BY <1>13, <2>1, <2>2 DEF CancelLatest
  <1>14. ASSUME NEW i \in Interactions, NEW c \in Conversations,
                RecoverDirectUnknown(i, c)
         PROVE  RecordsAgree'
    <2>1. PICK r \in PostedIn(c) : GiveUp(r)
      BY <1>14 DEF RecoverDirectUnknown
    <2>2. state' = [q \in Requests |->
                       IF q \in QueuedIn(c) THEN "CANCELLED" ELSE state[q]]
      BY <1>14 DEF RecoverDirectUnknown
    <2>3. UNCHANGED <<admission, sendState, turn>>
      BY <1>14 DEF RecoverDirectUnknown, admissionVars, dispatchVars
    <2>4. \A q \in QueuedIn(c) : q \in Requests /\ state[q] = "QUEUED"
      BY DEF QueuedIn, PostedIn
    <2> QED
      BY <2>1, <2>2, <2>3, <2>4 DEF TypeOK, RecordsAgree, GiveUp, Uncertain,
         PostedIn, Terminal
  <1>15. ASSUME FenceDirectAfterRestart
         PROVE  RecordsAgree'
    <2> DEFINE open == {r \in Requests : sendState[r] \in {"SENDING", "ACKED"}}
    <2>1. \A r \in Requests : r \in open =>
             state[r] \in {"SENDING", "RUNNING", "APPROVAL_REQUIRED"}
      BY DEF TypeOK, RecordsAgree, RequestState, Active, Terminal
    <2>2. \A r \in Requests :
             /\ r \in open => state'[r] = "UNKNOWN" /\ sendState'[r] = "UNKNOWN"
             /\ r \notin open => state'[r] = state[r]
                                 /\ sendState'[r] = sendState[r]
      BY <1>15, <2>1 DEF FenceDirectAfterRestart, Terminal
    <2>3. UNCHANGED <<admission, turn, hold>>
      BY <1>15 DEF FenceDirectAfterRestart, admissionVars
    <2>4. \A r \in Requests : r \in open =>
             admission[r] = "ACCEPTED" /\ hold[r] = "HELD"
      BY <2>1 DEF RecordsAgree
    <2> HIDE DEF open
    <2> QED
      BY <2>2, <2>3, <2>4 DEF RecordsAgree, Terminal
  <1>16. CASE UNCHANGED vars
    BY <1>4, <1>16 DEF vars, admissionVars, requestVars, dispatchVars
  <1>17. ASSUME NEW r \in Requests, RejectAdmission(r)
         PROVE  RecordsAgree'
    BY <1>3, <1>17 DEF RejectAdmission, requestVars, dispatchVars
  <1>18. ASSUME NEW S \in SUBSET Requests, Sweep(S)
         PROVE  RecordsAgree'
    BY <1>3, <1>18 DEF Sweep, requestVars, dispatchVars
  <1>19. ASSUME StartupRecover
         PROVE  RecordsAgree'
    BY <1>3, <1>19 DEF StartupRecover, requestVars, dispatchVars
  <1>20. ASSUME NEW r \in Requests, NEW t \in ReportedThread(r),
                RecordDirectThread(r, t)
         PROVE  RecordsAgree'
    BY <1>4, <1>20 DEF RecordDirectThread, admissionVars, requestVars
  <1>21. ASSUME NEW i \in Interactions, NEW c \in Conversations,
               ReadRecoveryOffer(i, c)
         PROVE  RecordsAgree'
    BY <1>4, <1>21 DEF ReadRecoveryOffer, admissionVars, requestVars,
       dispatchVars
  <1>22. ASSUME NEW i \in Interactions,
                \/ ApplyResume(i)
                \/ \E c \in Conversations : Stop(i, c) \/ ReserveResume(i, c)
         PROVE  RecordsAgree'
    BY <1>4, <1>22 DEF ApplyResume, Stop, ReserveResume, admissionVars,
       requestVars, dispatchVars
  <1> QED
    BY <1>1, <1>2, <1>5, <1>6, <1>7, <1>8, <1>9, <1>10, <1>11, <1>12, <1>13,
       <1>14, <1>15, <1>16, <1>17, <1>18, <1>19, <1>20, <1>21, <1>22 DEF Next

\* The states, send states and holds of one request never contradict each
\* other.
THEOREM RecordsAlwaysAgree == Spec => []RecordsAgree
  <1>1. TypeOK /\ RecordsAgree /\ [Next]_vars => (TypeOK /\ RecordsAgree)'
    BY TypeStep, RecordsStep
  <1> QED
    BY TypeInit, RecordsInit, <1>1, PTL DEF Spec

-----------------------------------------------------------------------------
(***************************************************************************)
(* What a step can do to the queue and the holds.  Only Reserve lengthens  *)
(* the queue and only BeginDirectSend takes a hold; every other            *)
(* transaction is quiet.                                                   *)
(***************************************************************************)

Started(r) == sendState[r] \notin {"NONE", "PREPARED"}

Quiet ==
    /\ Waiting' \subseteq Waiting
    /\ Held' \subseteq Held
    /\ UNCHANGED <<sequence, nextSequence>>
    /\ \A r \in Requests : admission[r] = "NONE" <=> admission'[r] = "NONE"
    /\ \A r \in Requests : Started(r)' => Started(r)
    /\ \A c \in Conversations :
          continuation'[c] = "VERIFYING" =>
             continuation[c] = "VERIFYING" /\ HeldIn(c)' = HeldIn(c)

LEMMA NoQueueNoHoldIsQuiet ==
    ASSUME UNCHANGED <<admission, sequence, nextSequence, state, hold,
                       continuation>>,
           \A r \in Requests : Started(r)' => Started(r)
    PROVE  Quiet
  BY DEF Quiet, Waiting, Held, HeldIn

LEMMA RejectIsQuiet ==
    ASSUME NEW S, Reject(S),
           UNCHANGED <<sequence, nextSequence, state, sendState, hold,
                       continuation>>
    PROVE  Quiet
  BY DEF Quiet, Reject, Waiting, Held, HeldIn, Started

LEMMA QuietSteps ==
    TypeOK /\ RecordsAgree /\ [Next]_vars =>
        \/ \E r \in Requests : Reserve(r)
        \/ \E r \in Requests : BeginDirectSend(r)
        \/ Quiet
  <1> SUFFICES ASSUME TypeOK, RecordsAgree, [Next]_vars,
                      ~ \E r \in Requests : Reserve(r) \/ BeginDirectSend(r)
               PROVE  Quiet
    OBVIOUS
  <1> USE ThreadOfType
  <1>1. ASSUME NEW r \in Requests, Finalize(r)
        PROVE  Quiet
    BY <1>1 DEF TypeOK, Finalize, dispatchVars, conversationVars, Quiet,
       Waiting, Held, HeldIn, Started
  <1>2. ASSUME NEW r \in Requests, RejectAdmission(r)
        PROVE  Quiet
    BY <1>2, RejectIsQuiet DEF RejectAdmission, requestVars, dispatchVars,
       conversationVars
  <1>3. ASSUME NEW S \in SUBSET Requests, Sweep(S)
        PROVE  Quiet
    BY <1>3, RejectIsQuiet DEF Sweep, requestVars, dispatchVars,
       conversationVars
  <1>4. ASSUME NEW r \in Requests, PrepareDirect(r)
        PROVE  Quiet
    <2>1. \A q \in Requests : Started(q)' => Started(q)
      BY <1>4 DEF TypeOK, PrepareDirect, Started
    <2> QED
      BY <1>4, <2>1, NoQueueNoHoldIsQuiet DEF PrepareDirect, admissionVars,
         requestVars, conversationVars
  <1>5. ASSUME NEW r \in Requests, NEW t \in ReportedThread(r),
               RecordDirectThread(r, t)
        PROVE  Quiet
    BY <1>5, NoQueueNoHoldIsQuiet DEF RecordDirectThread, admissionVars,
       requestVars, Started
  <1>6. ASSUME NEW r \in Requests, NEW t \in ReportedThread(r),
               AcknowledgeDirectTurn(r, t)
        PROVE  Quiet
    BY <1>6 DEF TypeOK, AcknowledgeDirectTurn, BindThread, admissionVars,
       Quiet, Waiting, Held, HeldIn, Started
  <1>7. ASSUME NEW r \in Requests, RequireApproval(r) \/ ResolveApproval(r)
        PROVE  Quiet
    BY <1>7 DEF TypeOK, RequireApproval, ResolveApproval, admissionVars,
       dispatchVars, conversationVars, Quiet, Waiting, Held, HeldIn, Started
  <1>8. ASSUME NEW r \in Requests, MarkDirectUnknown(r)
        PROVE  Quiet
    BY <1>8 DEF TypeOK, RecordsAgree, MarkDirectUnknown, Active,
       admissionVars, conversationVars, Quiet, Waiting, Held, HeldIn, Started
  <1>9. ASSUME NEW r \in Requests, NEW status \in Terminal,
               FinishDirect(r, status)
        PROVE  Quiet
    <2>1. Waiting' \subseteq Waiting /\ Held' \subseteq Held
      BY <1>9 DEF TypeOK, FinishDirect, Terminal, admissionVars, Waiting, Held
    <2>2. \A q \in Requests : Started(q)' => Started(q)
      BY <1>9 DEF TypeOK, FinishDirect, Started
    <2>3. ASSUME NEW c \in Conversations, continuation'[c] = "VERIFYING"
          PROVE  continuation[c] = "VERIFYING" /\ HeldIn(c)' = HeldIn(c)
      <3>1. ThreadOf[r] # c
        BY <1>9, <2>3 DEF TypeOK, FinishDirect
      <3>2. continuation[c] = "VERIFYING"
        BY <1>9, <2>3, <3>1 DEF TypeOK, FinishDirect
      <3>3. HeldIn(c)' = HeldIn(c)
        BY <1>9, <3>1 DEF TypeOK, FinishDirect, HeldIn, Held, PostedIn
      <3> QED
        BY <3>2, <3>3
    <2> QED
      BY <1>9, <2>1, <2>2, <2>3 DEF FinishDirect, admissionVars, Quiet
  <1>10. ASSUME NEW r \in Requests, FailDirectBeforeSend(r)
         PROVE  Quiet
    BY <1>10 DEF TypeOK, FailDirectBeforeSend, admissionVars, dispatchVars,
       conversationVars, Quiet, Waiting, Held, HeldIn, Started
  <1>11. ASSUME NEW r \in Requests, GiveUp(r),
                Waiting' \subseteq Waiting,
                UNCHANGED <<admission, sequence, nextSequence, sendState>>
         PROVE  Quiet
    <2>1. Held' \subseteq Held
      BY <1>11 DEF TypeOK, GiveUp, Held
    <2>2. ASSUME NEW c \in Conversations, continuation'[c] = "VERIFYING"
          PROVE  continuation[c] = "VERIFYING" /\ HeldIn(c)' = HeldIn(c)
      <3>1. ThreadOf[r] # c
        BY <1>11, <2>2 DEF TypeOK, GiveUp
      <3> QED
        BY <1>11, <2>2, <3>1 DEF TypeOK, GiveUp, HeldIn, Held, PostedIn
    <2> QED
      BY <1>11, <2>1, <2>2 DEF Quiet, Started
  <1>12. ASSUME NEW r \in Requests, AbandonDirectUnknown(r)
         PROVE  Quiet
    BY <1>11, <1>12 DEF AbandonDirectUnknown, admissionVars, requestVars,
       dispatchVars, Waiting
  <1>13. ASSUME NEW i \in Interactions, NEW c \in Conversations,
               ReadRecoveryOffer(i, c)
         PROVE  Quiet
    BY <1>13, NoQueueNoHoldIsQuiet DEF ReadRecoveryOffer, admissionVars,
       requestVars, dispatchVars, conversationVars, Started
  <1>14. ASSUME NEW i \in Interactions,
                \/ ApplyResume(i)
                \/ \E c \in Conversations : Stop(i, c) \/ ReserveResume(i, c)
         PROVE  Quiet
    BY <1>14, NoQueueNoHoldIsQuiet DEF ApplyResume, Stop, ReserveResume,
       admissionVars, requestVars, dispatchVars, conversationVars, Started
  <1>15. ASSUME NEW i \in Interactions, NEW c \in Conversations,
                CancelLatest(i, c)
         PROVE  Quiet
    <2>1. CASE \E r \in Latest(WaitingIn(c)) :
                  /\ Reject({r})
                  /\ state' = IF admission[r] = "ACCEPTED"
                              THEN [state EXCEPT ![r] = "CANCELLED"] ELSE state
      <3>1. PICK r \in Latest(WaitingIn(c)) :
                  /\ Reject({r})
                  /\ state' = IF admission[r] = "ACCEPTED"
                              THEN [state EXCEPT ![r] = "CANCELLED"] ELSE state
        BY <2>1
      <3>2. Waiting' \subseteq Waiting
        BY <3>1 DEF TypeOK, Reject, Waiting
      <3>3. UNCHANGED <<sequence, nextSequence, sendState, hold, continuation>>
        BY <1>15 DEF CancelLatest, dispatchVars, conversationVars
      <3> QED
        BY <3>1, <3>2, <3>3 DEF Reject, Quiet, Held, HeldIn, Started
    <2>2. CASE UNCHANGED <<admission, state>>
      BY <1>15, <2>2, NoQueueNoHoldIsQuiet DEF CancelLatest, dispatchVars,
         conversationVars, Started
    <2> QED
      BY <1>15, <2>1, <2>2 DEF CancelLatest
  <1>16. ASSUME NEW i \in Interactions, NEW c \in Conversations,
                RecoverDirectUnknown(i, c)
         PROVE  Quiet
    <2>1. PICK r \in PostedIn(c) : GiveUp(r)
      BY <1>16 DEF RecoverDirectUnknown
    <2>2. Waiting' \subseteq Waiting
      BY <1>16 DEF RecoverDirectUnknown, admissionVars, Waiting
    <2> QED
      BY <1>11, <1>16, <2>1, <2>2 DEF RecoverDirectUnknown, admissionVars,
         dispatchVars, PostedIn
  <1>17. ASSUME StartupRecover
         PROVE  Quiet
    BY <1>17, RejectIsQuiet DEF StartupRecover, requestVars, dispatchVars,
       conversationVars
  <1>18. ASSUME FenceDirectAfterRestart
         PROVE  Quiet
    <2>1. Waiting' \subseteq Waiting
      BY <1>18 DEF TypeOK, RecordsAgree, FenceDirectAfterRestart,
         admissionVars, Waiting
    <2>2. \A q \in Requests : Started(q)' => Started(q)
      BY <1>18 DEF FenceDirectAfterRestart, Started
    <2> QED
      BY <1>18, <2>1, <2>2 DEF FenceDirectAfterRestart, admissionVars,
         conversationVars, Quiet, Held, HeldIn
  <1>19. CASE UNCHANGED vars
    BY <1>19, NoQueueNoHoldIsQuiet DEF vars, admissionVars, requestVars,
       dispatchVars, conversationVars, Started
  <1> QED
    BY <1>1, <1>2, <1>3, <1>4, <1>5, <1>6, <1>7, <1>8, <1>9, <1>10, <1>12,
       <1>13, <1>14, <1>15, <1>16, <1>17, <1>18, <1>19 DEF Next

-----------------------------------------------------------------------------
(***************************************************************************)
(* Order, exclusion and bounds.                                            *)
(***************************************************************************)

\* next_sequence is the last place given out in a conversation.
SequenceIssued ==
    \A r \in Requests :
        admission[r] # "NONE" => sequence[r] <= nextSequence[ThreadOf[r]]

DispatchInv == /\ TypeOK
               /\ RecordsAgree
               /\ SequenceIssued
               /\ NoOvertaking
               /\ OneHoldPerConversation
               /\ CapacityRespected
               /\ VerdictPending
               /\ QueueBounded

LEMMA DispatchInit == Init => DispatchInv
  <1> SUFFICES ASSUME Init
               PROVE  DispatchInv
    OBVIOUS
  <1>1. Held = {} /\ Waiting = {} /\ \A c \in Conversations : WaitingIn(c) = {}
    BY DEF Init, Held, Waiting, WaitingIn
  <1>2. Cardinality({}) = 0
    BY FS_EmptySet
  <1>3. CapacityRespected /\ QueueBounded
    BY <1>1, <1>2, LimitsType DEF CapacityRespected, QueueBounded
  <1>4. SequenceIssued /\ NoOvertaking
    BY DEF Init, SequenceIssued, NoOvertaking
  <1>5. OneHoldPerConversation /\ VerdictPending
    BY <1>1 DEF Init, OneHoldPerConversation, VerdictPending
  <1> QED
    BY <1>3, <1>4, <1>5, TypeInit, RecordsInit DEF DispatchInv

LEMMA SmallerIsNoLarger ==
    ASSUME NEW S, IsFiniteSet(S), NEW T, T \subseteq S, NEW n \in Nat,
           Cardinality(S) <= n
    PROVE  Cardinality(T) <= n
  BY FS_Subset, FS_CardinalityType

LEMMA OneMore ==
    ASSUME NEW S, IsFiniteSet(S), NEW x, x \notin S, NEW n \in Nat,
           Cardinality(S) < n
    PROVE  Cardinality(S \cup {x}) <= n
  BY FS_AddElement, FS_CardinalityType

LEMMA QuietKeepsDispatchInv ==
    ASSUME DispatchInv, TypeOK', RecordsAgree', Quiet
    PROVE  DispatchInv'
  <1>1. SequenceIssued'
    BY DEF DispatchInv, SequenceIssued, Quiet
  <1>2. NoOvertaking'
    BY DEF DispatchInv, NoOvertaking, Quiet, Started, Earlier, PostedIn
  <1>3. OneHoldPerConversation'
    BY DEF DispatchInv, OneHoldPerConversation, Quiet
  <1>4. CapacityRespected'
    BY QueriesFinite, SmallerIsNoLarger, LimitsType
       DEF DispatchInv, CapacityRespected, Quiet
  <1>5. VerdictPending'
    BY DEF DispatchInv, VerdictPending, Quiet
  <1>6. QueueBounded'
    <2>1. Cardinality(Waiting)' <= QueueGlobal
      BY QueriesFinite, SmallerIsNoLarger, LimitsType
         DEF DispatchInv, QueueBounded, Quiet
    <2>2. ASSUME NEW c \in Conversations
          PROVE  Cardinality(WaitingIn(c))' <= QueueConversation
      <3>1. WaitingIn(c)' \subseteq WaitingIn(c)
        BY DEF Quiet, WaitingIn, PostedIn
      <3> QED
        BY <3>1, QueriesFinite, SmallerIsNoLarger, LimitsType
           DEF DispatchInv, QueueBounded
    <2> QED
      BY <2>1, <2>2 DEF QueueBounded
  <1> QED
    BY <1>1, <1>2, <1>3, <1>4, <1>5, <1>6 DEF DispatchInv

LEMMA ReserveKeepsDispatchInv ==
    ASSUME DispatchInv, TypeOK', RecordsAgree', NEW r \in Requests, Reserve(r)
    PROVE  DispatchInv'
  <1> DEFINE c == ThreadOf[r]
  <1> USE ThreadOfType
  <1>1. c \in Conversations /\ nextSequence[c] \in Nat /\ r \in PostedIn(c)
    BY DEF DispatchInv, TypeOK, PostedIn
  <1>2. r \notin Waiting /\ Waiting' = Waiting \cup {r}
    BY DEF DispatchInv, TypeOK, RecordsAgree, Reserve, requestVars, Waiting
  <1>3. UNCHANGED <<state, sendState, hold, continuation>>
    BY DEF Reserve, requestVars, dispatchVars, conversationVars
  <1>4. SequenceIssued'
    BY DEF DispatchInv, TypeOK, SequenceIssued, Reserve
  <1>5. NoOvertaking'
    <2> SUFFICES ASSUME NEW s \in Requests, Started(s)',
                        NEW q \in Earlier(s)'
                 PROVE  q \notin Waiting'
      BY DEF NoOvertaking, Started
    <2>1. Started(s) /\ admission[s] # "NONE" /\ s # r
      BY <1>3 DEF DispatchInv, TypeOK, RecordsAgree, Started, Reserve,
         RequestState, Active, Terminal
    <2>2. sequence'[s] = sequence[s] /\ sequence[s] \in Nat
      BY <2>1 DEF DispatchInv, TypeOK, Reserve
    <2>3. q \in Requests /\ ThreadOf[q] = ThreadOf[s]
          /\ sequence'[q] < sequence[s]
      BY <2>2 DEF Earlier, PostedIn
    <2>4. q # r
      <3> SUFFICES ASSUME q = r
                   PROVE  FALSE
        OBVIOUS
      <3>1. sequence'[r] = nextSequence[c] + 1
        BY DEF DispatchInv, TypeOK, Reserve
      <3>2. sequence[s] <= nextSequence[c]
        BY <2>1, <2>3 DEF DispatchInv, SequenceIssued
      <3> QED
        BY <1>1, <2>2, <2>3, <3>1, <3>2
    <2>5. sequence'[q] = sequence[q]
      BY <2>3, <2>4 DEF DispatchInv, TypeOK, Reserve
    <2>6. q \in Earlier(s)
      BY <2>3, <2>5 DEF Earlier, PostedIn
    <2> QED
      BY <1>2, <2>1, <2>4, <2>6 DEF DispatchInv, NoOvertaking, Started
  <1>6. OneHoldPerConversation' /\ CapacityRespected' /\ VerdictPending'
    BY <1>3 DEF DispatchInv, OneHoldPerConversation, CapacityRespected,
       VerdictPending, Held, HeldIn, PostedIn
  <1>7. QueueBounded'
    <2>1. Cardinality(Waiting)' <= QueueGlobal
      BY <1>2, QueriesFinite, OneMore, LimitsType DEF Reserve
    <2>2. ASSUME NEW d \in Conversations
          PROVE  Cardinality(WaitingIn(d))' <= QueueConversation
      <3>1. CASE d = c
        <4>1. r \notin WaitingIn(c) /\ WaitingIn(c)' = WaitingIn(c) \cup {r}
          BY <1>1, <1>2 DEF WaitingIn, PostedIn
        <4> QED
          BY <1>1, <3>1, <4>1, QueriesFinite, OneMore, LimitsType DEF Reserve
      <3>2. CASE d # c
        <4>1. WaitingIn(d)' = WaitingIn(d)
          BY <1>2, <3>2 DEF WaitingIn, PostedIn
        <4> QED
          BY <4>1 DEF DispatchInv, QueueBounded
      <3> QED
        BY <3>1, <3>2
    <2> QED
      BY <2>1, <2>2 DEF QueueBounded
  <1> QED
    BY <1>4, <1>5, <1>6, <1>7 DEF DispatchInv

LEMMA BeginKeepsDispatchInv ==
    ASSUME DispatchInv, TypeOK', RecordsAgree', NEW r \in Requests,
           BeginDirectSend(r)
    PROVE  DispatchInv'
  <1> DEFINE c == ThreadOf[r]
  <1> USE ThreadOfType
  <1>1. c \in Conversations /\ r \in PostedIn(c)
    BY DEF PostedIn
  <1>2. HeldIn(c) = {} /\ Cardinality(Held) < Capacity
    BY DEF BeginDirectSend, Sendable, Dispatchable
  <1>3. r \notin Held /\ Held' = Held \cup {r}
    BY <1>1, <1>2 DEF DispatchInv, TypeOK, BeginDirectSend, Sendable, Held, HeldIn
  <1>4. UNCHANGED <<admission, sequence, nextSequence>>
    BY DEF BeginDirectSend, Sendable, admissionVars
  <1>5. Waiting' \subseteq Waiting
    BY <1>4 DEF DispatchInv, TypeOK, BeginDirectSend, Sendable, Waiting
  <1>6. SequenceIssued'
    BY <1>4 DEF DispatchInv, SequenceIssued
  <1>7. NoOvertaking'
    <2> SUFFICES ASSUME NEW s \in Requests, Started(s)'
                 PROVE  (Earlier(s) \cap Waiting)' = {}
      BY DEF NoOvertaking, Started
    <2>1. Earlier(s)' = Earlier(s)
      BY <1>4 DEF Earlier, PostedIn
    <2>2. Earlier(s) \cap Waiting = {}
      <3>1. CASE s = r
        BY <3>1 DEF BeginDirectSend, Sendable
      <3>2. CASE s # r
        <4>1. Started(s)
          BY <3>2 DEF DispatchInv, TypeOK, BeginDirectSend, Sendable, Started
        <4> QED
          BY <4>1 DEF DispatchInv, NoOvertaking, Started
      <3> QED
        BY <3>1, <3>2
    <2> QED
      BY <1>5, <2>1, <2>2
  <1>8. OneHoldPerConversation'
    BY <1>2, <1>3 DEF DispatchInv, OneHoldPerConversation, HeldIn, Held,
       PostedIn
  <1>9. CapacityRespected'
    BY <1>2, <1>3, QueriesFinite, OneMore, LimitsType DEF CapacityRespected
  <1>10. VerdictPending'
    <2> SUFFICES ASSUME NEW d \in Conversations,
                        continuation'[d] = "VERIFYING"
                 PROVE  HeldIn(d)' # {}
      BY DEF VerdictPending
    <2>1. CASE d = c
      BY <1>1, <1>3, <2>1 DEF HeldIn, PostedIn
    <2>2. CASE d # c
      <3>1. continuation[d] = "VERIFYING"
        BY <2>2 DEF DispatchInv, TypeOK, BeginDirectSend, Sendable
      <3>2. HeldIn(d) # {} /\ HeldIn(d) \subseteq HeldIn(d)'
        BY <1>3, <3>1 DEF DispatchInv, VerdictPending, HeldIn, PostedIn
      <3> QED
        BY <3>2
    <2> QED
      BY <2>1, <2>2
  <1>11. QueueBounded'
    <2>1. Cardinality(Waiting)' <= QueueGlobal
      BY <1>5, QueriesFinite, SmallerIsNoLarger, LimitsType
         DEF DispatchInv, QueueBounded
    <2>2. ASSUME NEW d \in Conversations
          PROVE  Cardinality(WaitingIn(d))' <= QueueConversation
      <3>1. WaitingIn(d)' \subseteq WaitingIn(d)
        BY <1>5 DEF WaitingIn, PostedIn
      <3> QED
        BY <3>1, QueriesFinite, SmallerIsNoLarger, LimitsType
           DEF DispatchInv, QueueBounded
    <2> QED
      BY <2>1, <2>2 DEF QueueBounded
  <1> QED
    BY <1>6, <1>7, <1>8, <1>9, <1>10, <1>11 DEF DispatchInv

LEMMA DispatchStep == DispatchInv /\ [Next]_vars => DispatchInv'
  <1> SUFFICES ASSUME DispatchInv, [Next]_vars
               PROVE  DispatchInv'
    OBVIOUS
  <1>1. TypeOK' /\ RecordsAgree'
    BY TypeStep, RecordsStep DEF DispatchInv
  <1> QED
    BY <1>1, QuietSteps, QuietKeepsDispatchInv, ReserveKeepsDispatchInv,
       BeginKeepsDispatchInv DEF DispatchInv

LEMMA DispatchInvariant == Spec => []DispatchInv
  BY DispatchInit, DispatchStep, PTL DEF Spec

\* Messages of a conversation cross the send boundary in posting order.
THEOREM OrderKept == Spec => []NoOvertaking
  <1>1. DispatchInv => NoOvertaking
    BY DEF DispatchInv
  <1> QED
    BY DispatchInvariant, <1>1, PTL

\* A conversation never has two open executions, and one that waits for a
\* verdict has the execution that owes it.
THEOREM ConversationsSound == Spec => []ConversationsAgree
  <1>1. DispatchInv => ConversationsAgree
    BY DEF DispatchInv, ConversationsAgree
  <1> QED
    BY DispatchInvariant, <1>1, PTL

\* There are never more open executions than Capacity, and the queue limits are
\* never exceeded.
THEOREM LimitsKept == Spec => []LimitsHeld
  <1>1. DispatchInv => LimitsHeld
    BY DEF DispatchInv, LimitsHeld
  <1> QED
    BY DispatchInvariant, <1>1, PTL

-----------------------------------------------------------------------------
\* The send boundary is not crossed backwards.
LEMMA StartedStable ==
    ASSUME TypeOK, RecordsAgree, [Next]_vars, NEW q \in Requests, Started(q)
    PROVE  Started(q)'
  <1> USE DEF Started, TypeOK
  <1>1. CASE UNCHANGED sendState
    BY <1>1
  <1>2. ASSUME NEW r \in Requests,
               \/ PrepareDirect(r) \/ BeginDirectSend(r) \/ MarkDirectUnknown(r)
               \/ \E t \in ReportedThread(r) : AcknowledgeDirectTurn(r, t)
               \/ \E status \in Terminal : FinishDirect(r, status)
        PROVE  Started(q)'
    BY <1>2 DEF PrepareDirect, BeginDirectSend, MarkDirectUnknown,
       AcknowledgeDirectTurn, FinishDirect
  <1>3. ASSUME NEW r \in Requests,
               \/ Reserve(r) \/ Finalize(r) \/ RejectAdmission(r)
               \/ \E t \in ReportedThread(r) : RecordDirectThread(r, t)
               \/ RequireApproval(r) \/ ResolveApproval(r)
               \/ FailDirectBeforeSend(r) \/ AbandonDirectUnknown(r)
        PROVE  UNCHANGED sendState
    BY <1>3 DEF Reserve, Finalize, RejectAdmission, RecordDirectThread,
       RequireApproval, ResolveApproval, FailDirectBeforeSend,
       AbandonDirectUnknown, dispatchVars
  <1>4. ASSUME \/ \E S \in SUBSET Requests : Sweep(S)
               \/ \E i \in Interactions : ApplyResume(i)
               \/ \E i \in Interactions, c \in Conversations :
                     \/ CancelLatest(i, c) \/ Stop(i, c) \/ ReserveResume(i, c)
                     \/ ReadRecoveryOffer(i, c) \/ RecoverDirectUnknown(i, c)
               \/ StartupRecover \/ UNCHANGED vars
        PROVE  UNCHANGED sendState
    BY <1>4 DEF Sweep, ApplyResume, CancelLatest, Stop, ReserveResume,
       ReadRecoveryOffer, RecoverDirectUnknown, StartupRecover, dispatchVars,
       vars
  <1>5. CASE FenceDirectAfterRestart
    BY <1>5 DEF FenceDirectAfterRestart
  <1> QED
    BY <1>1, <1>2, <1>3, <1>4, <1>5 DEF Next

-----------------------------------------------------------------------------
(***************************************************************************)
(* Proofs about the controls of the Direct store: /stop against /resume    *)
(* and against recovery, and what a recovery may withdraw.                 *)
(***************************************************************************)
\* Which transactions write the pause, the operations and the offers.

PauseKept     == UNCHANGED <<paused, pauseRevision, stops>>
OperationKept == UNCHANGED operation
OfferKept     == UNCHANGED offer

\* The transactions that are neither a control nor a recovery.
Plain ==
    \/ \E r \in Requests :
          \/ Reserve(r)
          \/ Finalize(r)
          \/ RejectAdmission(r)
          \/ PrepareDirect(r)
          \/ BeginDirectSend(r)
          \/ \E t \in ReportedThread(r) : RecordDirectThread(r, t)
          \/ \E t \in ReportedThread(r) : AcknowledgeDirectTurn(r, t)
          \/ RequireApproval(r)
          \/ ResolveApproval(r)
          \/ MarkDirectUnknown(r)
          \/ \E status \in Terminal : FinishDirect(r, status)
          \/ FailDirectBeforeSend(r)
          \/ AbandonDirectUnknown(r)
    \/ \E S \in SUBSET Requests : Sweep(S)
    \/ FenceDirectAfterRestart
    \/ UNCHANGED vars

LEMMA PlainKeepsControls ==
    Plain => PauseKept /\ OperationKept /\ OfferKept
  <1> SUFFICES ASSUME Plain
               PROVE  UNCHANGED <<pauseVars, operation, offer>>
    BY DEF PauseKept, OperationKept, OfferKept, pauseVars
  <1>1. CASE \E r \in Requests : Reserve(r) \/ Finalize(r)
                                 \/ RejectAdmission(r) \/ PrepareDirect(r)
                                 \/ BeginDirectSend(r)
    BY <1>1 DEF Reserve, Finalize, RejectAdmission, PrepareDirect,
       BeginDirectSend, Sendable
  <1>2. CASE \E r \in Requests : \E t \in ReportedThread(r) :
                RecordDirectThread(r, t) \/ AcknowledgeDirectTurn(r, t)
    BY <1>2 DEF RecordDirectThread, AcknowledgeDirectTurn
  <1>3. CASE \E r \in Requests : RequireApproval(r) \/ ResolveApproval(r)
                                 \/ MarkDirectUnknown(r)
                                 \/ FailDirectBeforeSend(r)
                                 \/ AbandonDirectUnknown(r)
    BY <1>3 DEF RequireApproval, ResolveApproval, MarkDirectUnknown,
       FailDirectBeforeSend, AbandonDirectUnknown
  <1>4. CASE \E r \in Requests : \E status \in Terminal :
                FinishDirect(r, status)
    BY <1>4 DEF FinishDirect
  <1>5. CASE \E S \in SUBSET Requests : Sweep(S)
    BY <1>5 DEF Sweep
  <1>6. CASE FenceDirectAfterRestart
    BY <1>6 DEF FenceDirectAfterRestart
  <1>7. CASE UNCHANGED vars
    BY <1>7 DEF vars
  <1> QED
    BY <1>1, <1>2, <1>3, <1>4, <1>5, <1>6, <1>7 DEF Plain

LEMMA StepKinds ==
    [Next]_vars =>
        \/ Plain
        \/ StartupRecover
        \/ \E i \in Interactions :
              \/ ApplyResume(i)
              \/ \E c \in Conversations :
                    \/ CancelLatest(i, c) \/ Stop(i, c)
                    \/ ReserveResume(i, c) \/ ReadRecoveryOffer(i, c)
                    \/ RecoverDirectUnknown(i, c)
  BY DEF Next, Plain

-----------------------------------------------------------------------------
(***************************************************************************)
(* A resume or an offer that still carries the current pause_revision was  *)
(* made after the last /stop.                                              *)
(***************************************************************************)

ResumeFresh ==
    \A i \in Interactions :
        operation[i].kind = "resume" /\ operation[i].state = "VALIDATING" =>
            LET c == operation[i].thread IN
            /\ c \in Conversations
            /\ operation[i].expected <= pauseRevision[c]
            /\ operation[i].expected = pauseRevision[c] =>
                  operation[i].stopsSeen = stops[c]

OfferFresh ==
    \A i \in Interactions :
        offer[i].request # None =>
            LET c == ThreadOf[offer[i].request] IN
            /\ offer[i].pauseRevision <= pauseRevision[c]
            /\ offer[i].pauseRevision = pauseRevision[c] =>
                  offer[i].stopsSeen = stops[c]

FreshInv == TypeOK /\ ResumeFresh /\ OfferFresh

LEMMA FreshInit == Init => FreshInv
  <1> SUFFICES ASSUME Init
               PROVE  ResumeFresh /\ OfferFresh
    BY TypeInit DEF FreshInv
  <1> QED
    BY DEF Init, ResumeFresh, OfferFresh, NoOperation, NoOffer

LEMMA FreshStep == FreshInv /\ [Next]_vars => FreshInv'
  <1> SUFFICES ASSUME FreshInv, [Next]_vars
               PROVE  ResumeFresh' /\ OfferFresh'
    BY TypeStep DEF FreshInv
  <1>0. TypeOK
    BY DEF FreshInv
  <1>1. CASE PauseKept /\ OperationKept /\ OfferKept
    BY <1>1 DEF FreshInv, ResumeFresh, OfferFresh, PauseKept, OperationKept,
       OfferKept
  <1>2. CASE StartupRecover
    <2>1. PauseKept /\ OfferKept
      BY <1>2 DEF StartupRecover, PauseKept, OfferKept, pauseVars
    <2>2. \A i \in Interactions :
             operation'[i].kind = "resume"
             /\ operation'[i].state = "VALIDATING" =>
                operation'[i] = operation[i]
      <3> SUFFICES ASSUME NEW i \in Interactions,
                          operation'[i].state = "VALIDATING"
                   PROVE  operation'[i] = operation[i]
        OBVIOUS
      <3>1. operation[i] \in Operation
        BY <1>0 DEF TypeOK
      <3>2. CASE operation[i].kind = "resume"
                 /\ operation[i].state = "VALIDATING"
        <4>1. operation'[i] = [operation[i] EXCEPT !.state = "SUPERSEDED"]
          BY <1>2, <3>2 DEF StartupRecover
        <4> QED
          BY <3>1, <4>1 DEF Operation
      <3>3. CASE ~ (operation[i].kind = "resume"
                    /\ operation[i].state = "VALIDATING")
        BY <1>2, <3>3 DEF StartupRecover
      <3> QED
        BY <3>2, <3>3
    <2> QED
      BY <2>1, <2>2 DEF FreshInv, ResumeFresh, OfferFresh, PauseKept,
         OfferKept
  <1>3. ASSUME NEW i \in Interactions, NEW c \in Conversations,
               ReadRecoveryOffer(i, c)
        PROVE  ResumeFresh' /\ OfferFresh'
    <2>1. PauseKept /\ OperationKept
      BY <1>3 DEF ReadRecoveryOffer, PauseKept, OperationKept, pauseVars
    <2>2. /\ ThreadOf[offer'[i].request] = c
          /\ offer'[i].pauseRevision = pauseRevision[c]
          /\ offer'[i].stopsSeen = stops[c]
          /\ \A j \in Interactions : j # i => offer'[j] = offer[j]
      BY <1>0, <1>3 DEF ReadRecoveryOffer, TypeOK, PostedIn
    <2> QED
      BY <1>0, <2>1, <2>2 DEF FreshInv, ResumeFresh, OfferFresh, PauseKept,
         OperationKept, TypeOK
  <1>4. ASSUME NEW i \in Interactions, NEW c \in Conversations,
               CancelLatest(i, c)
        PROVE  ResumeFresh' /\ OfferFresh'
    <2>1. PauseKept /\ OfferKept
      BY <1>4 DEF CancelLatest, PauseKept, OfferKept, pauseVars
    <2>2. PICK t : operation' = [operation EXCEPT ![i] =
                      [NoOperation EXCEPT !.kind = "cancel", !.thread = c,
                          !.target = t, !.state = "APPLIED"]]
      BY <1>4 DEF CancelLatest, RecordOperation
    <2>3. /\ operation'[i].kind = "cancel"
          /\ \A j \in Interactions : j # i => operation'[j] = operation[j]
      BY <1>0, <2>2 DEF TypeOK, NoOperation
    <2> QED
      BY <2>1, <2>3 DEF FreshInv, ResumeFresh, OfferFresh, PauseKept,
         OfferKept
  <1>5. ASSUME NEW i \in Interactions, NEW c \in Conversations, Stop(i, c)
        PROVE  ResumeFresh' /\ OfferFresh'
    <2>1. /\ operation'[i].kind = "stop"
          /\ \A j \in Interactions : j # i => operation'[j] = operation[j]
      BY <1>0, <1>5 DEF Stop, RecordOperation, TypeOK, NoOperation
    <2>2. /\ pauseRevision'[c] = pauseRevision[c] + 1
          /\ \A d \in Conversations : d # c =>
                pauseRevision'[d] = pauseRevision[d] /\ stops'[d] = stops[d]
      BY <1>0, <1>5 DEF Stop, TypeOK
    <2>3. OfferKept
      BY <1>5 DEF Stop, OfferKept
    <2>4. \A d \in Conversations : pauseRevision[d] \in Nat
      BY <1>0 DEF TypeOK
    <2>5. /\ \A j \in Interactions : operation[j].expected \in Nat
          /\ \A j \in Interactions :
                /\ offer[j].pauseRevision \in Nat
                /\ offer[j].request # None => offer[j].request \in Requests
      BY <1>0 DEF TypeOK, Operation, Offer
    <2>6. ResumeFresh'
      BY <2>1, <2>2, <2>4, <2>5 DEF FreshInv, ResumeFresh
    <2>7. OfferFresh'
      BY <2>2, <2>3, <2>4, <2>5, ThreadOfType DEF FreshInv, OfferFresh, OfferKept
    <2> QED
      BY <2>6, <2>7
  <1>6. ASSUME NEW i \in Interactions, NEW c \in Conversations,
               ReserveResume(i, c)
        PROVE  ResumeFresh' /\ OfferFresh'
    <2>1. PauseKept /\ OfferKept
      BY <1>6 DEF ReserveResume, PauseKept, OfferKept, pauseVars
    <2>2. /\ operation'[i].thread = c
          /\ operation'[i].expected = pauseRevision[c]
          /\ operation'[i].stopsSeen = stops[c]
          /\ \A j \in Interactions : j # i => operation'[j] = operation[j]
      BY <1>0, <1>6 DEF ReserveResume, RecordOperation, TypeOK, NoOperation
    <2> QED
      BY <1>0, <2>1, <2>2 DEF FreshInv, ResumeFresh, OfferFresh, PauseKept,
         OfferKept, TypeOK
  <1>7. ASSUME NEW i \in Interactions, ApplyResume(i)
        PROVE  ResumeFresh' /\ OfferFresh'
    <2> DEFINE c == operation[i].thread
    <2>1. c \in Conversations
      BY <1>7 DEF FreshInv, ResumeFresh, ApplyResume
    <2>2. /\ operation'[i].state # "VALIDATING"
          /\ \A j \in Interactions : j # i => operation'[j] = operation[j]
      <3>1. PICK v \in {"APPLIED", "SUPERSEDED"} :
               operation' = [operation EXCEPT ![i] =
                                [operation[i] EXCEPT !.state = v]]
        BY <1>7 DEF ApplyResume
      <3>2. operation[i] \in Operation
        BY <1>0 DEF TypeOK
      <3>3. operation'[i] = [operation[i] EXCEPT !.state = v]
        BY <1>0, <3>1 DEF TypeOK
      <3>4. operation'[i].state = v
        BY <3>2, <3>3 DEF Operation
      <3> QED
        BY <1>0, <3>1, <3>4 DEF TypeOK
    <2>3. UNCHANGED <<stops, offer>>
      BY <1>7 DEF ApplyResume
    <2>4. \/ UNCHANGED pauseRevision
          \/ /\ pauseRevision'[c] = pauseRevision[c] + 1
             /\ \A d \in Conversations : d # c =>
                   pauseRevision'[d] = pauseRevision[d]
      BY <1>0, <1>7, <2>1 DEF ApplyResume, TypeOK
    <2>5. \A d \in Conversations : pauseRevision[d] \in Nat
      BY <1>0 DEF TypeOK
    <2>6. /\ \A j \in Interactions : operation[j].expected \in Nat
          /\ \A j \in Interactions :
                /\ offer[j].pauseRevision \in Nat
                /\ offer[j].request # None => offer[j].request \in Requests
      BY <1>0 DEF TypeOK, Operation, Offer
    <2> HIDE DEF c
    <2>7. ResumeFresh'
      BY <2>1, <2>2, <2>3, <2>4, <2>5, <2>6 DEF FreshInv, ResumeFresh
    <2>8. OfferFresh'
      BY <2>1, <2>3, <2>4, <2>5, <2>6, ThreadOfType DEF FreshInv, OfferFresh
    <2> QED
      BY <2>7, <2>8
  <1>8. ASSUME NEW i \in Interactions, NEW c \in Conversations,
               RecoverDirectUnknown(i, c)
        PROVE  ResumeFresh' /\ OfferFresh'
    <2>1. /\ operation'[i].kind = "direct_recover"
          /\ \A j \in Interactions : j # i => operation'[j] = operation[j]
      BY <1>0, <1>8 DEF RecoverDirectUnknown, RecordOperation, TypeOK,
         NoOperation
    <2>2. /\ pauseRevision'[c] = pauseRevision[c] + 1
          /\ \A d \in Conversations : d # c =>
                pauseRevision'[d] = pauseRevision[d]
      BY <1>0, <1>8 DEF RecoverDirectUnknown, TypeOK
    <2>3. UNCHANGED <<stops, offer>>
      BY <1>8 DEF RecoverDirectUnknown
    <2>4. \A d \in Conversations : pauseRevision[d] \in Nat
      BY <1>0 DEF TypeOK
    <2>5. /\ \A j \in Interactions : operation[j].expected \in Nat
          /\ \A j \in Interactions :
                /\ offer[j].pauseRevision \in Nat
                /\ offer[j].request # None => offer[j].request \in Requests
      BY <1>0 DEF TypeOK, Operation, Offer
    <2>6. ResumeFresh'
      BY <2>1, <2>2, <2>3, <2>4, <2>5 DEF FreshInv, ResumeFresh
    <2>7. OfferFresh'
      BY <2>2, <2>3, <2>4, <2>5, ThreadOfType DEF FreshInv, OfferFresh
    <2> QED
      BY <2>6, <2>7
  <1> QED
    BY StepKinds, PlainKeepsControls, <1>1, <1>2, <1>3, <1>4, <1>5, <1>6,
       <1>7, <1>8

-----------------------------------------------------------------------------
\* The step behind a lifted pause, and behind a recorded recovery.

LEMMA PauseLifted ==
    ASSUME TypeOK, [Next]_vars, NEW c \in Conversations,
           paused[c], ~paused'[c]
    PROVE  \E i \in Interactions :
              \/ /\ ApplyResume(i) /\ operation[i].thread = c
                 /\ pauseRevision[c] = operation[i].expected
                 /\ operation' = [operation EXCEPT ![i].state = "APPLIED"]
              \/ RecoverDirectUnknown(i, c)
  <1>1. ~ PauseKept
    BY DEF PauseKept
  <1>2. /\ ~ StartupRecover
        /\ ~ \E i \in Interactions : \E d \in Conversations :
                CancelLatest(i, d) \/ ReserveResume(i, d)
                \/ ReadRecoveryOffer(i, d)
    BY <1>1 DEF PauseKept, pauseVars, StartupRecover, ReadRecoveryOffer,
       CancelLatest, ReserveResume
  <1>3. ~ \E i \in Interactions : \E d \in Conversations : Stop(i, d)
    BY DEF Stop, TypeOK
  <1>4. \E i \in Interactions :
           ApplyResume(i) \/ \E d \in Conversations : RecoverDirectUnknown(i, d)
    <2>1. ~ Plain
      BY <1>1, PlainKeepsControls
    <2>2. \E i \in Interactions :
              \/ ApplyResume(i)
              \/ \E d \in Conversations :
                    \/ CancelLatest(i, d) \/ Stop(i, d)
                    \/ ReserveResume(i, d) \/ ReadRecoveryOffer(i, d)
                    \/ RecoverDirectUnknown(i, d)
      BY <1>2, <2>1, StepKinds
    <2> QED
      BY <1>2, <1>3, <2>2
  <1>5. PICK i \in Interactions :
           ApplyResume(i) \/ \E d \in Conversations : RecoverDirectUnknown(i, d)
    BY <1>4
  <1>6. CASE ApplyResume(i)
    <2> DEFINE d == operation[i].thread
    <2>1. paused' = [paused EXCEPT ![d] = FALSE]
          /\ pauseRevision[d] = operation[i].expected
          /\ operation' = [operation EXCEPT ![i].state = "APPLIED"]
      BY <1>6 DEF ApplyResume
    <2> HIDE DEF d
    <2>2. d = c
      BY <2>1 DEF TypeOK
    <2> QED
      BY <1>6, <2>1, <2>2 DEF d
  <1>7. CASE \E d \in Conversations : RecoverDirectUnknown(i, d)
    <2>1. PICK d \in Conversations : RecoverDirectUnknown(i, d)
      BY <1>7
    <2>2. paused' = [paused EXCEPT ![d] = FALSE]
      BY <2>1 DEF RecoverDirectUnknown
    <2>3. d = c
      BY <2>2 DEF TypeOK
    <2> QED
      BY <2>1, <2>3
  <1> QED
    BY <1>5, <1>6, <1>7

LEMMA RecoverApplies ==
    ASSUME TypeOK, NEW i \in Interactions, NEW c \in Conversations,
           RecoverDirectUnknown(i, c)
    PROVE  Applied(i) /\ operation'[i].kind = "direct_recover"
           /\ operation'[i].thread = c
  BY DEF TypeOK, RecoverDirectUnknown, RecordOperation, NoOperation, Applied

LEMMA StopWinsStep ==
    ASSUME FreshInv, [Next]_vars, NEW c \in Conversations,
           paused[c], ~paused'[c]
    PROVE  \E i \in Interactions :
              /\ Applied(i)
              /\ operation'[i].thread = c
              /\ \/ /\ operation'[i].kind = "resume"
                    /\ operation[i].stopsSeen = stops[c]
                 \/ /\ operation'[i].kind = "direct_recover"
                    /\ offer[i].stopsSeen = stops[c]
  <1>0. TypeOK
    BY DEF FreshInv
  <1>1. PICK i \in Interactions :
              \/ /\ ApplyResume(i) /\ operation[i].thread = c
                 /\ pauseRevision[c] = operation[i].expected
                 /\ operation' = [operation EXCEPT ![i].state = "APPLIED"]
              \/ RecoverDirectUnknown(i, c)
    BY <1>0, PauseLifted
  <1>2. CASE /\ ApplyResume(i) /\ operation[i].thread = c
             /\ pauseRevision[c] = operation[i].expected
             /\ operation' = [operation EXCEPT ![i].state = "APPLIED"]
    <2>1. operation[i] \in Operation /\ operation[i].kind = "resume"
          /\ operation[i].state = "VALIDATING"
      BY <1>0, <1>2 DEF TypeOK, ApplyResume
    <2>2. operation'[i] = [operation[i] EXCEPT !.state = "APPLIED"]
      BY <1>0, <1>2 DEF TypeOK
    <2>3. /\ operation'[i].state = "APPLIED" /\ operation'[i].kind = "resume"
          /\ operation'[i].thread = c
      BY <1>2, <2>1, <2>2 DEF Operation
    <2>4. operation[i].stopsSeen = stops[c]
      BY <1>2, <2>1 DEF FreshInv, ResumeFresh
    <2> QED
      BY <2>1, <2>3, <2>4 DEF Applied
  <1>3. CASE RecoverDirectUnknown(i, c)
    <2>1. /\ offer[i].request # None /\ ThreadOf[offer[i].request] = c
          /\ pauseRevision[c] = offer[i].pauseRevision
      BY <1>3, NoneIsNull DEF RecoverDirectUnknown, PostedIn
    <2>2. offer[i].stopsSeen = stops[c]
      BY <2>1 DEF FreshInv, OfferFresh
    <2> QED
      BY <1>0, <1>3, <2>2, RecoverApplies
  <1> QED
    BY <1>1, <1>2, <1>3

\* No resume and no recovery lifts a /stop it had not seen.
THEOREM StopAlwaysWins == Spec => StopWins
  <1>1. FreshInv /\ [Next]_vars =>
           [\A c \in Conversations :
              paused[c] /\ ~paused'[c] =>
                 \E i \in Interactions :
                    /\ Applied(i)
                    /\ operation'[i].thread = c
                    /\ \/ /\ operation'[i].kind = "resume"
                          /\ operation[i].stopsSeen = stops[c]
                       \/ /\ operation'[i].kind = "direct_recover"
                          /\ offer[i].stopsSeen = stops[c]]_vars
    BY StopWinsStep
  <1> QED
    BY FreshInit, FreshStep, <1>1, PTL DEF Spec, StopWins

-----------------------------------------------------------------------------
(***************************************************************************)
(* An offer whose next_sequence is still current lists every message that  *)
(* waits now: messages may leave the queue after the offer was read, but   *)
(* none can join it.                                                       *)
(***************************************************************************)

OfferCurrent ==
    \A i \in Interactions :
        offer[i].request # None =>
            LET c == ThreadOf[offer[i].request] IN
            /\ offer[i].waiting = Cardinality(offer[i].shown)
            /\ offer[i].nextSequence <= nextSequence[c]
            /\ offer[i].nextSequence = nextSequence[c] =>
                  WaitingIn(c) \subseteq offer[i].shown

OfferInv == TypeOK /\ RecordsAgree /\ OfferCurrent

\* With nothing in validation, what waits is what is queued.
LEMMA IdleQueue ==
    ASSUME RecordsAgree, NEW c \in Conversations, ~Busy(c)
    PROVE  WaitingIn(c) = QueuedIn(c)
  BY DEF RecordsAgree, Busy, WaitingIn, Waiting, QueuedIn, PostedIn

LEMMA OfferInit == Init => OfferInv
  <1> SUFFICES ASSUME Init
               PROVE  OfferCurrent
    BY TypeInit, RecordsInit DEF OfferInv
  <1> QED
    BY DEF Init, OfferCurrent, NoOffer

LEMMA OfferStep == OfferInv /\ [Next]_vars => OfferInv'
  <1> SUFFICES ASSUME OfferInv, [Next]_vars
               PROVE  OfferCurrent'
    BY TypeStep, RecordsStep DEF OfferInv
  <1>0. TypeOK /\ RecordsAgree /\ OfferCurrent
    BY DEF OfferInv
  <1>1. ASSUME NEW i \in Interactions, NEW c \in Conversations,
               ReadRecoveryOffer(i, c)
        PROVE  OfferCurrent'
    <2>1. /\ ThreadOf[offer'[i].request] = c
          /\ offer'[i].shown = QueuedIn(c)
          /\ offer'[i].waiting = Cardinality(QueuedIn(c))
          /\ offer'[i].nextSequence = nextSequence[c]
          /\ \A j \in Interactions : j # i => offer'[j] = offer[j]
      BY <1>0, <1>1 DEF ReadRecoveryOffer, TypeOK, PostedIn
    <2>2. WaitingIn(c) = QueuedIn(c)
      BY <1>0, <1>1, IdleQueue DEF ReadRecoveryOffer
    <2>3. UNCHANGED <<nextSequence, admission, state>>
      BY <1>1 DEF ReadRecoveryOffer, admissionVars, requestVars
    <2>4. \A d \in Conversations : WaitingIn(d)' = WaitingIn(d)
      BY <2>3 DEF WaitingIn, Waiting, PostedIn
    <2>5. \A d \in Conversations : nextSequence[d] \in Nat
      BY <1>0 DEF TypeOK
    <2>6. \A j \in Interactions :
             offer[j].request # None => ThreadOf[offer[j].request] \in Conversations
      BY <1>0, ThreadOfType DEF TypeOK, Offer
    <2> QED
      BY <1>0, <2>1, <2>2, <2>3, <2>4, <2>5, <2>6 DEF OfferCurrent
  <1>2. ASSUME ~ \E i \in Interactions : \E c \in Conversations :
                   ReadRecoveryOffer(i, c)
        PROVE  UNCHANGED offer
    <2>1. CASE Plain
      BY <2>1, PlainKeepsControls DEF OfferKept
    <2>2. CASE StartupRecover
      BY <2>2 DEF StartupRecover
    <2>3. CASE \E i \in Interactions :
                  \/ ApplyResume(i)
                  \/ \E c \in Conversations :
                        \/ CancelLatest(i, c) \/ Stop(i, c)
                        \/ ReserveResume(i, c) \/ RecoverDirectUnknown(i, c)
      BY <2>3 DEF ApplyResume, CancelLatest, Stop, ReserveResume,
         RecoverDirectUnknown
    <2> QED
      BY <1>2, <2>1, <2>2, <2>3, StepKinds
  <1>3. ASSUME UNCHANGED <<offer, nextSequence>>, Waiting' \subseteq Waiting
        PROVE  OfferCurrent'
    <2>1. \A c \in Conversations : WaitingIn(c)' \subseteq WaitingIn(c)
      BY <1>3 DEF WaitingIn, PostedIn
    <2>2. \A j \in Interactions :
             offer[j].request # None => ThreadOf[offer[j].request] \in Conversations
      BY <1>0, ThreadOfType DEF TypeOK, Offer
    <2> QED
      BY <1>0, <1>3, <2>1, <2>2 DEF OfferCurrent
  <1>4. ASSUME UNCHANGED offer, NEW r \in Requests, Reserve(r)
        PROVE  OfferCurrent'
    <2> DEFINE c == ThreadOf[r]
    <2>1. /\ c \in Conversations
          /\ nextSequence'[c] = nextSequence[c] + 1
          /\ \A d \in Conversations : d # c =>
                nextSequence'[d] = nextSequence[d]
      BY <1>0, <1>4, ThreadOfType DEF Reserve, TypeOK
    <2>2. Waiting' \subseteq Waiting \cup {r}
      BY <1>0, <1>4 DEF Reserve, TypeOK, requestVars, Waiting
    <2>3. \A d \in Conversations : d # c => WaitingIn(d)' \subseteq WaitingIn(d)
      BY <2>2 DEF WaitingIn, PostedIn
    <2>4. /\ \A d \in Conversations : nextSequence[d] \in Nat
          /\ \A j \in Interactions :
                /\ offer[j].nextSequence \in Nat
                /\ offer[j].request # None => offer[j].request \in Requests
      BY <1>0 DEF TypeOK, Offer
    <2> HIDE DEF c
    <2> QED
      BY <1>0, <1>4, <2>1, <2>3, <2>4, ThreadOfType DEF OfferCurrent
  <1>5. ASSUME UNCHANGED offer, NEW r \in Requests, BeginDirectSend(r)
        PROVE  OfferCurrent'
    <2>1. Waiting' \subseteq Waiting /\ UNCHANGED nextSequence
      BY <1>0, <1>5 DEF BeginDirectSend, Sendable, TypeOK, admissionVars, Waiting
    <2> QED
      BY <1>3, <1>5, <2>1
  <1>6. CASE UNCHANGED offer /\ Quiet
    BY <1>3, <1>6 DEF Quiet
  <1> QED
    BY <1>0, <1>1, <1>2, <1>4, <1>5, <1>6, QuietSteps

LEMMA RecoveryStep ==
    ASSUME OfferInv, [Next]_vars, NEW i \in Interactions, Applied(i),
           operation'[i].kind = "direct_recover"
    PROVE  \E c \in Conversations :
              RecoverDirectUnknown(i, c) /\ operation'[i].thread = c
  <1>0. TypeOK
    BY DEF OfferInv
  <1>1. ~ OperationKept
    BY DEF Applied, OperationKept
  <1>2. ~ Plain /\ ~ (\E j \in Interactions : \E c \in Conversations :
                        ReadRecoveryOffer(j, c))
    BY <1>1, PlainKeepsControls DEF ReadRecoveryOffer, OperationKept
  <1>3. ~ StartupRecover
    <2> SUFFICES ASSUME StartupRecover
                 PROVE  FALSE
      OBVIOUS
    <2>1. operation[i] \in Operation
      BY <1>0 DEF TypeOK
    <2>2. \/ operation'[i] = operation[i]
          \/ operation'[i] = [operation[i] EXCEPT !.state = "SUPERSEDED"]
      BY DEF StartupRecover
    <2> QED
      BY <2>1, <2>2 DEF Applied, Operation
  <1>4. PICK j \in Interactions :
              \/ ApplyResume(j)
              \/ \E c \in Conversations :
                    \/ CancelLatest(j, c) \/ Stop(j, c)
                    \/ ReserveResume(j, c) \/ RecoverDirectUnknown(j, c)
    BY <1>2, <1>3, StepKinds
  <1>5. ASSUME NEW op, operation' = [operation EXCEPT ![j] = op]
        PROVE  i = j /\ op.kind = "direct_recover"
    BY <1>0, <1>5 DEF TypeOK, Applied
  <1>6. ~ ApplyResume(j)
    <2> SUFFICES ASSUME ApplyResume(j)
                 PROVE  FALSE
      OBVIOUS
    <2>1. PICK v \in {"APPLIED", "SUPERSEDED"} :
             operation' = [operation EXCEPT ![j] =
                              [operation[j] EXCEPT !.state = v]]
      BY DEF ApplyResume
    <2>2. operation[j] \in Operation /\ operation[j].kind = "resume"
      BY <1>0 DEF TypeOK, ApplyResume
    <2>3. [operation[j] EXCEPT !.state = v].kind = "resume"
      BY <2>2 DEF Operation
    <2>4. [operation[j] EXCEPT !.state = v].kind = "direct_recover"
      BY ONLY <1>5, <2>1, <2>3
    <2> QED
      BY <2>3, <2>4
  <1>7. ASSUME NEW c \in Conversations,
               CancelLatest(j, c) \/ Stop(j, c) \/ ReserveResume(j, c)
        PROVE  FALSE
    <2>1. CASE CancelLatest(j, c)
      <3>1. PICK t : operation' = [operation EXCEPT ![j] =
                        [NoOperation EXCEPT !.kind = "cancel", !.thread = c,
                            !.target = t, !.state = "APPLIED"]]
        BY <2>1 DEF CancelLatest, RecordOperation
      <3> DEFINE op == [NoOperation EXCEPT !.kind = "cancel", !.thread = c,
                            !.target = t, !.state = "APPLIED"]
      <3>2. op.kind = "cancel"
        BY DEF NoOperation
      <3> HIDE DEF op
      <3>3. operation' = [operation EXCEPT ![j] = op]
        BY <3>1 DEF op
      <3> QED
        BY <1>5, <3>2, <3>3
    <2>2. CASE Stop(j, c)
      BY <1>5, <2>2 DEF Stop, RecordOperation, NoOperation
    <2>3. CASE ReserveResume(j, c)
      BY <1>5, <2>3 DEF ReserveResume, RecordOperation, NoOperation
    <2> QED
      BY <1>7, <2>1, <2>2, <2>3
  <1>8. PICK c \in Conversations : RecoverDirectUnknown(j, c)
    BY <1>4, <1>6, <1>7
  <1>9. i = j
    BY <1>5, <1>8 DEF RecoverDirectUnknown, RecordOperation
  <1> QED
    BY <1>0, <1>8, <1>9, RecoverApplies

LEMMA RecoveryWithdrawsShown ==
    ASSUME OfferInv, NEW i \in Interactions, NEW c \in Conversations,
           RecoverDirectUnknown(i, c)
    PROVE  /\ {r \in PostedIn(c) : state[r] = "QUEUED"
                                   /\ state'[r] = "CANCELLED"} = offer[i].shown
           /\ WaitingIn(c) = offer[i].shown
  <1>0. TypeOK /\ RecordsAgree /\ OfferCurrent
    BY DEF OfferInv
  <1>1. offer[i].request # None /\ ThreadOf[offer[i].request] = c
    BY NoneIsNull DEF RecoverDirectUnknown, PostedIn
  <1>2. WaitingIn(c) = QueuedIn(c)
    BY <1>0, IdleQueue DEF RecoverDirectUnknown
  <1>3. QueuedIn(c) \subseteq offer[i].shown
        /\ Cardinality(QueuedIn(c)) = Cardinality(offer[i].shown)
    BY <1>0, <1>1, <1>2 DEF OfferCurrent, RecoverDirectUnknown
  <1>4. IsFiniteSet(offer[i].shown)
    BY <1>0, RequestsFinite, FS_Subset DEF TypeOK, Offer
  <1>5. QueuedIn(c) = offer[i].shown
    BY <1>3, <1>4, FS_Subset
  <1>6. {r \in PostedIn(c) : state[r] = "QUEUED" /\ state'[r] = "CANCELLED"}
           = QueuedIn(c)
    BY DEF RecoverDirectUnknown, QueuedIn, PostedIn
  <1> QED
    BY <1>2, <1>5, <1>6

\* A recovery withdraws exactly the messages its offer had counted.
THEOREM RecoveryNeverSurprises == Spec => RecoveryAsShown
  <1>1. OfferInv /\ [Next]_vars =>
           [\A i \in Interactions :
              Applied(i) /\ operation'[i].kind = "direct_recover" =>
                 LET c == operation'[i].thread IN
                 /\ {r \in PostedIn(c) :
                       state[r] = "QUEUED"
                       /\ state'[r] = "CANCELLED"} = offer[i].shown
                 /\ WaitingIn(c) = offer[i].shown]_vars
    BY RecoveryStep, RecoveryWithdrawsShown
  <1> QED
    BY OfferInit, OfferStep, <1>1, PTL DEF Spec, RecoveryAsShown

-----------------------------------------------------------------------------
(***************************************************************************)
(* The Direct store implements TurnLedger: under Phase every transaction   *)
(* is a step of the ledger, or changes nothing there.                      *)
(***************************************************************************)
\* Phase as a function of the columns it depends on.
PhaseOf(h, s, a) ==
    CASE h = "HELD" /\ s \in Active -> "inFlight"
      [] h = "HELD" /\ s \notin Active -> "uncertain"
      [] h = "RELEASED" /\ s = "UNKNOWN" -> "abandoned"
      [] h = "RELEASED" /\ s # "UNKNOWN" -> "settled"
      [] h = "NONE" /\ a = "NONE" -> "unseen"
      [] /\ h = "NONE"
         /\ \/ a = "VALIDATING"
            \/ a = "ACCEPTED" /\ s = "QUEUED" -> "waiting"
      [] OTHER -> "withdrawn"

LEMMA PhaseIs ==
    ASSUME NEW r \in Requests
    PROVE  /\ Phase(r) = PhaseOf(hold[r], state[r], admission[r])
           /\ Phase(r)' = PhaseOf(hold'[r], state'[r], admission'[r])
  BY DEF Phase, PhaseOf, Waiting

\* The cases, one by one.
LEMMA PhaseCases ==
    ASSUME NEW h \in HoldState, NEW s, NEW a
    PROVE  /\ h = "HELD" /\ s \in Active => PhaseOf(h, s, a) = "inFlight"
           /\ h = "HELD" /\ s \notin Active => PhaseOf(h, s, a) = "uncertain"
           /\ h = "RELEASED" /\ s = "UNKNOWN" => PhaseOf(h, s, a) = "abandoned"
           /\ h = "RELEASED" /\ s # "UNKNOWN" => PhaseOf(h, s, a) = "settled"
           /\ h = "NONE" /\ a = "NONE" => PhaseOf(h, s, a) = "unseen"
           /\ h = "NONE" /\ a = "VALIDATING" => PhaseOf(h, s, a) = "waiting"
           /\ h = "NONE" /\ a = "ACCEPTED" /\ s = "QUEUED"
                 => PhaseOf(h, s, a) = "waiting"
           /\ h = "NONE" /\ a = "ACCEPTED" /\ s # "QUEUED"
                 => PhaseOf(h, s, a) = "withdrawn"
           /\ h = "NONE" /\ a = "REJECTED" => PhaseOf(h, s, a) = "withdrawn"
  BY DEF PhaseOf, HoldState

ledgerPhase == [r \in Requests |-> Phase(r)]

\* What a step has to show to be a move of the ledger, or none.
LEMMA IsMove ==
    ASSUME NEW S \in SUBSET Requests, NEW p, NEW t,
           \A q \in S : Phase(q) = p /\ Phase(q)' = t,
           \A q \in Requests \ S : Phase(q)' = Phase(q)
    PROVE  Ledger!Move(S, p, t)
  BY DEF Ledger!Move, Ledger!In

LEMMA IsMoveOfOne ==
    ASSUME NEW r \in Requests, NEW p, NEW t, Phase(r) = p, Phase(r)' = t,
           \A q \in Requests \ {r} : Phase(q)' = Phase(q)
    PROVE  Ledger!Move({r}, p, t)
  <1>1. {r} \in SUBSET Requests
    OBVIOUS
  <1>2. \A q \in {r} : Phase(q) = p /\ Phase(q)' = t
    OBVIOUS
  <1> QED
    BY <1>1, <1>2, IsMove

LEMMA IsStutter ==
    ASSUME \A q \in Requests : Phase(q)' = Phase(q)
    PROVE  UNCHANGED ledgerPhase
  BY DEF ledgerPhase

\* Rows that keep their columns keep their phase.
LEMMA SameRow ==
    ASSUME NEW q \in Requests, hold'[q] = hold[q], state'[q] = state[q],
           admission'[q] = admission[q]
    PROVE  Phase(q)' = Phase(q)
  BY PhaseIs

\* An execution is open in the ledger exactly while its hold is.
LEMMA OccupyingIsHeld ==
    ASSUME TypeOK
    PROVE  Ledger!Occupying = Held
  <1>1. ASSUME NEW r \in Requests
        PROVE  hold[r] = "HELD" <=> Phase(r) \in {"inFlight", "uncertain"}
    BY PhaseIs DEF PhaseOf, TypeOK, HoldState
  <1> QED
    BY <1>1 DEF Ledger!Occupying, Ledger!In, Held

\* The ledger counts with the same operator.
LEMMA SameCardinality ==
    ASSUME NEW S
    PROVE  Ledger!Cardinality(S) = Cardinality(S)
  BY Zenon DEF Ledger!Cardinality, Cardinality

LEMMA LedgerInit == Init => Ledger!Init
  <1> SUFFICES ASSUME Init PROVE Ledger!Init
    OBVIOUS
  <1>1. ASSUME NEW r \in Requests
        PROVE  Phase(r) = "unseen"
    BY PhaseIs, PhaseCases DEF Init, HoldState
  <1> QED
    BY <1>1 DEF Ledger!Init

LedgerStep == Ledger!Next \/ UNCHANGED ledgerPhase

-----------------------------------------------------------------------------
LedgerInv == TypeOK /\ RecordsAgree /\ OneHoldPerConversation

\* A message in validation, or queued, waits.
LEMMA WaitingPhase ==
    ASSUME LedgerInv, NEW q \in Requests,
           admission[q] = "VALIDATING" \/ state[q] = "QUEUED"
    PROVE  Phase(q) = "waiting"
  BY PhaseIs, PhaseCases DEF LedgerInv, TypeOK, RecordsAgree, HoldState

LEMMA IsWithdraw ==
    ASSUME NEW S \in SUBSET Requests,
           \A q \in S : Phase(q) = "waiting" /\ Phase(q)' = "withdrawn",
           \A q \in Requests \ S : Phase(q)' = Phase(q)
    PROVE  LedgerStep
  <1>1. S \in SUBSET Ledger!In("waiting")
    BY DEF Ledger!In
  <1>2. Ledger!Withdraw(S)
    BY IsMove DEF Ledger!Withdraw
  <1> QED
    BY <1>1, <1>2 DEF LedgerStep, Ledger!Next

LEMMA IsWithdrawOfOne ==
    ASSUME NEW r \in Requests, Phase(r) = "waiting", Phase(r)' = "withdrawn",
           \A q \in Requests \ {r} : Phase(q)' = Phase(q)
    PROVE  LedgerStep
  <1>1. {r} \in SUBSET Requests
    OBVIOUS
  <1>2. \A q \in {r} : Phase(q) = "waiting" /\ Phase(q)' = "withdrawn"
    OBVIOUS
  <1> QED
    BY <1>1, <1>2, IsWithdraw

\* Rejected messages are withdrawn.
LEMMA RejectWithdraws ==
    ASSUME LedgerInv, NEW S \in SUBSET Requests, Reject(S),
           UNCHANGED <<hold, state>>
    PROVE  LedgerStep
  <1> DEFINE V == {q \in S : admission[q] = "VALIDATING"}
  <1>1. ASSUME NEW q \in V
        PROVE  Phase(q) = "waiting" /\ Phase(q)' = "withdrawn"
    <2>1. hold[q] = "NONE" /\ admission'[q] = "REJECTED"
      BY DEF Reject, LedgerInv, RecordsAgree, TypeOK, RequestState
    <2> QED
      BY <2>1, WaitingPhase, PhaseIs, PhaseCases DEF HoldState
  <1>2. ASSUME NEW q \in Requests \ V
        PROVE  Phase(q)' = Phase(q)
    BY SameRow DEF Reject, LedgerInv, TypeOK
  <1> QED
    BY <1>1, <1>2, IsWithdraw

LEMMA AdmissionIsLedger ==
    ASSUME LedgerInv, NEW r \in Requests,
           \/ Reserve(r) \/ Finalize(r) \/ RejectAdmission(r)
           \/ FailDirectBeforeSend(r)
           \/ \E S \in SUBSET Requests : Sweep(S)
    PROVE  LedgerStep
  <1> USE DEF LedgerInv, TypeOK, requestVars
  <1>1. CASE Reserve(r)
    <2>1. ASSUME NEW q \in Requests, q # r
          PROVE  Phase(q)' = Phase(q)
      BY <1>1, <2>1, SameRow DEF Reserve
    <2>2. Phase(r) = "unseen" /\ Phase(r)' = "waiting"
      BY <1>1, PhaseIs, PhaseCases DEF Reserve, RecordsAgree, HoldState
    <2>3. Ledger!Take(r) /\ r \in Ledger!In("unseen")
      BY <2>1, <2>2, IsMoveOfOne DEF Ledger!Take, Ledger!In
    <2> QED
      BY <2>3 DEF LedgerStep, Ledger!Next
  <1>2. CASE Finalize(r)
    <2>1. ASSUME NEW q \in Requests, q # r
          PROVE  Phase(q)' = Phase(q)
      BY <1>2, <2>1, SameRow DEF Finalize
    <2>2. hold[r] = "NONE" /\ hold'[r] = "NONE"
      BY <1>2 DEF Finalize, RecordsAgree
    <2>3. Phase(r) = "waiting" /\ Phase(r)' = "waiting"
      BY <1>2, <2>2, PhaseIs, PhaseCases DEF Finalize, HoldState
    <2> QED
      BY <2>1, <2>3, IsStutter DEF LedgerStep
  <1>3. CASE RejectAdmission(r)
    BY <1>3, RejectWithdraws DEF RejectAdmission
  <1>4. CASE FailDirectBeforeSend(r)
    <2>1. ASSUME NEW q \in Requests, q # r
          PROVE  Phase(q)' = Phase(q)
      BY <1>4, <2>1, SameRow DEF FailDirectBeforeSend, admissionVars
    <2>2. hold'[r] = "NONE" /\ admission'[r] = "ACCEPTED"
          /\ state'[r] = "FAILED"
      BY <1>4 DEF FailDirectBeforeSend, admissionVars, RecordsAgree
    <2>3. Phase(r) = "waiting" /\ Phase(r)' = "withdrawn"
      BY <1>4, <2>2, WaitingPhase, PhaseIs, PhaseCases
         DEF FailDirectBeforeSend, HoldState
    <2> QED
      BY <2>1, <2>3, IsWithdrawOfOne
  <1>5. CASE \E S \in SUBSET Requests : Sweep(S)
    BY <1>5, RejectWithdraws DEF Sweep
  <1> QED
    BY <1>1, <1>2, <1>3, <1>4, <1>5

LEMMA DispatchIsLedger ==
    ASSUME LedgerInv, NEW r \in Requests,
           \/ PrepareDirect(r) \/ BeginDirectSend(r)
           \/ \E t \in ReportedThread(r) : RecordDirectThread(r, t)
           \/ \E t \in ReportedThread(r) : AcknowledgeDirectTurn(r, t)
           \/ RequireApproval(r) \/ ResolveApproval(r)
    PROVE  LedgerStep
  <1> USE DEF LedgerInv, TypeOK, requestVars, admissionVars
  <1>1. CASE PrepareDirect(r)
    BY <1>1, SameRow, IsStutter DEF PrepareDirect, LedgerStep
  <1>2. CASE BeginDirectSend(r)
    <2>1. ASSUME NEW q \in Requests, q # r
          PROVE  Phase(q)' = Phase(q)
      BY <1>2, <2>1, SameRow DEF BeginDirectSend
    <2>2. Phase(r) = "waiting"
      BY <1>2, WaitingPhase DEF BeginDirectSend, Sendable
    <2>3. hold'[r] = "HELD" /\ state'[r] \in Active
      BY <1>2 DEF BeginDirectSend, Active
    <2>4. Phase(r)' = "inFlight"
      BY <2>3, PhaseIs, PhaseCases DEF HoldState
    <2>5. \A s \in Held : ThreadOf[s] # ThreadOf[r]
      BY <1>2 DEF BeginDirectSend, Sendable, Dispatchable, HeldIn, Held,
         PostedIn
    <2>6. Cardinality(Held) < Capacity
      BY <1>2 DEF BeginDirectSend, Sendable, Dispatchable
    <2>7. Ledger!Move({r}, "waiting", "inFlight")
      BY <2>1, <2>2, <2>4, IsMoveOfOne
    <2>8. Ledger!Occupying = Held
      BY OccupyingIsHeld
    <2>9. Ledger!Dispatch(r)
      BY <2>5, <2>6, <2>7, <2>8, SameCardinality DEF Ledger!Dispatch
    <2>10. r \in Ledger!In("waiting")
      BY <2>2 DEF Ledger!In
    <2> QED
      BY <2>9, <2>10 DEF LedgerStep, Ledger!Next
  <1>3. CASE \E t \in ReportedThread(r) : RecordDirectThread(r, t)
    BY <1>3, SameRow, IsStutter DEF RecordDirectThread, LedgerStep
  <1>4. CASE \/ \E t \in ReportedThread(r) : AcknowledgeDirectTurn(r, t)
             \/ RequireApproval(r) \/ ResolveApproval(r)
    <2>1. /\ hold' = hold /\ admission' = admission
          /\ \A q \in Requests \ {r} : state'[q] = state[q]
          /\ state[r] \in Active /\ state'[r] \in Active
      BY <1>4 DEF AcknowledgeDirectTurn, RequireApproval, ResolveApproval,
         Active
    <2>2. ASSUME NEW q \in Requests, q # r
          PROVE  Phase(q)' = Phase(q)
      BY <2>1, <2>2, SameRow
    <2>3. Phase(r) = "inFlight" /\ Phase(r)' = "inFlight"
      BY <2>1, PhaseIs, PhaseCases DEF HoldState, RecordsAgree, Active
    <2> QED
      BY <2>2, <2>3, IsStutter DEF LedgerStep
  <1> QED
    BY <1>1, <1>2, <1>3, <1>4

LEMMA OutcomeIsLedger ==
    ASSUME LedgerInv, NEW r \in Requests,
           \/ MarkDirectUnknown(r)
           \/ \E status \in Terminal : FinishDirect(r, status)
    PROVE  LedgerStep
  <1> USE DEF LedgerInv, TypeOK, admissionVars
  <1>1. ASSUME NEW q \in Requests, q # r
        PROVE  Phase(q)' = Phase(q)
    BY <1>1, SameRow DEF MarkDirectUnknown, FinishDirect
  <1>2. CASE MarkDirectUnknown(r)
    <2>1. hold'[r] = hold[r] /\ state'[r] = "UNKNOWN"
      BY <1>2 DEF MarkDirectUnknown
    <2>2. CASE state[r] \in Active
      <3>1. Phase(r) = "inFlight" /\ Phase(r)' = "uncertain"
        BY <2>1, <2>2, PhaseIs, PhaseCases DEF HoldState, RecordsAgree, Active
      <3>2. {r} \in SUBSET Ledger!In("inFlight")
        BY <3>1 DEF Ledger!In
      <3>3. Ledger!LoseTrack({r})
        BY <1>1, <3>1, IsMoveOfOne DEF Ledger!LoseTrack
      <3> QED
        BY <3>2, <3>3 DEF LedgerStep, Ledger!Next
    <2>3. CASE state[r] = "UNKNOWN"
      <3>1. Phase(r)' = Phase(r)
        BY <1>2, <2>1, <2>3, SameRow DEF MarkDirectUnknown
      <3> QED
        BY <1>1, <3>1, IsStutter DEF LedgerStep
    <2> QED
      BY <1>2, <2>2, <2>3 DEF MarkDirectUnknown
  <1>3. CASE \E status \in Terminal : FinishDirect(r, status)
    <2>1. /\ state'[r] \in Terminal
          /\ hold'[r] = IF hold[r] = "HELD" THEN "RELEASED" ELSE hold[r]
          /\ state[r] \in {"RUNNING", "APPROVAL_REQUIRED", "UNKNOWN"}
      BY <1>3 DEF FinishDirect
    <2>2. hold[r] \in {"HELD", "RELEASED"}
          /\ (hold[r] = "RELEASED" => state[r] = "UNKNOWN")
      BY <2>1 DEF RecordsAgree
    <2>3. Phase(r) \in {"inFlight", "uncertain", "abandoned"}
      BY <2>1, <2>2, PhaseIs, PhaseCases DEF HoldState, Active
    <2>4. hold'[r] = "RELEASED"
      BY <2>1, <2>2
    <2>5. Phase(r)' = "settled"
      BY <2>1, <2>4, PhaseIs, PhaseCases DEF HoldState, Terminal
    <2>6. Ledger!Move({r}, Phase(r), "settled")
      BY <1>1, <2>5, IsMoveOfOne
    <2>7. Ledger!Settle(r) /\ r \in Requests \ Ledger!In("settled")
      BY <2>3, <2>6 DEF Ledger!Settle, Ledger!In
    <2> QED
      BY <2>7 DEF LedgerStep, Ledger!Next
  <1> QED
    BY <1>2, <1>3

\* Giving up an uncertain execution, and withdrawing what waits behind it.
LEMMA GiveUpAbandons ==
    ASSUME LedgerInv, NEW r \in Requests, GiveUp(r), NEW S \in SUBSET Requests,
           UNCHANGED admission,
           \A q \in S : state[q] = "QUEUED" /\ ThreadOf[q] = ThreadOf[r],
           \A q \in Requests :
              state'[q] = IF q \in S THEN "CANCELLED" ELSE state[q]
    PROVE  LedgerStep
  <1> USE DEF LedgerInv, TypeOK
  <1>1. /\ state[r] = "UNKNOWN" /\ hold[r] = "HELD" /\ r \notin S
        /\ hold' = [hold EXCEPT ![r] = "RELEASED"]
    BY DEF GiveUp, Uncertain
  <1>2. Phase(r) = "uncertain" /\ Phase(r)' = "abandoned"
    BY <1>1, PhaseIs, PhaseCases DEF HoldState, Active
  <1>3. ASSUME NEW q \in S
        PROVE  Phase(q) = "waiting" /\ Phase(q)' = "withdrawn"
    <2>1. /\ hold[q] = "NONE" /\ admission[q] = "ACCEPTED"
          /\ hold'[q] = "NONE" /\ state'[q] = "CANCELLED"
      BY <1>1 DEF RecordsAgree
    <2> QED
      BY <2>1, WaitingPhase, PhaseIs, PhaseCases DEF HoldState
  <1>4. ASSUME NEW q \in Requests, q # r, q \notin S
        PROVE  Phase(q)' = Phase(q)
    BY <1>1, <1>4, SameRow
  <1>5. S \in SUBSET Ledger!In("waiting") /\ r \in Ledger!In("uncertain")
    BY <1>2, <1>3 DEF Ledger!In
  <1>6. ledgerPhase' = [s \in Requests |->
                          IF s = r THEN "abandoned"
                          ELSE IF s \in S THEN "withdrawn"
                          ELSE ledgerPhase[s]]
    BY <1>2, <1>3, <1>4 DEF ledgerPhase
  <1>7. Ledger!Abandon(r, S)
    BY <1>5, <1>6 DEF Ledger!Abandon, ledgerPhase
  <1> QED
    BY <1>5, <1>7 DEF LedgerStep, Ledger!Next

LEMMA ControlIsLedger ==
    ASSUME LedgerInv, NEW i \in Interactions, NEW c \in Conversations,
           \/ CancelLatest(i, c) \/ RecoverDirectUnknown(i, c)
    PROVE  LedgerStep
  <1> USE DEF LedgerInv, TypeOK, admissionVars
  <1>1. CASE CancelLatest(i, c)
    <2>1. hold' = hold
      BY <1>1 DEF CancelLatest
    <2>2. CASE UNCHANGED <<admission, state>>
      BY <2>1, <2>2, SameRow, IsStutter DEF LedgerStep
    <2>3. ASSUME NEW r \in Latest(WaitingIn(c)), Reject({r}),
                 state' = IF admission[r] = "ACCEPTED"
                          THEN [state EXCEPT ![r] = "CANCELLED"] ELSE state
          PROVE  LedgerStep
      <3>1. /\ r \in Requests
            /\ \/ admission[r] = "VALIDATING"
               \/ admission[r] = "ACCEPTED" /\ state[r] = "QUEUED"
        BY DEF Latest, WaitingIn, Waiting
      <3>2. CASE admission[r] = "VALIDATING"
        BY <2>1, <2>3, <3>1, <3>2, RejectWithdraws
      <3>3. CASE admission[r] = "ACCEPTED" /\ state[r] = "QUEUED"
        <4>1. /\ admission'[r] = "ACCEPTED" /\ state'[r] = "CANCELLED"
              /\ hold[r] = "NONE"
          BY <2>3, <3>1, <3>3 DEF Reject, RecordsAgree
        <4>2. Phase(r) = "waiting" /\ Phase(r)' = "withdrawn"
          BY <2>1, <3>1, <3>3, <4>1, WaitingPhase, PhaseIs, PhaseCases
             DEF HoldState
        <4>3. ASSUME NEW q \in Requests, q # r
              PROVE  Phase(q)' = Phase(q)
          BY <2>1, <2>3, <3>1, <3>3, <4>3, SameRow DEF Reject
        <4> QED
          BY <3>1, <4>2, <4>3, IsWithdrawOfOne
      <3> QED
        BY <3>1, <3>2, <3>3
    <2> QED
      BY <1>1, <2>2, <2>3 DEF CancelLatest
  <1>2. CASE RecoverDirectUnknown(i, c)
    <2>1. PICK r \in PostedIn(c) : GiveUp(r)
      BY <1>2 DEF RecoverDirectUnknown
    <2>2. r \in Requests /\ ThreadOf[r] = c
      BY DEF PostedIn
    <2>3. /\ UNCHANGED admission
          /\ \A q \in Requests :
                state'[q] = IF q \in QueuedIn(c) THEN "CANCELLED" ELSE state[q]
      BY <1>2 DEF RecoverDirectUnknown
    <2>4. /\ QueuedIn(c) \in SUBSET Requests
          /\ \A q \in QueuedIn(c) :
                state[q] = "QUEUED" /\ ThreadOf[q] = ThreadOf[r]
      BY <2>2 DEF QueuedIn, PostedIn
    <2> QED
      BY <2>1, <2>2, <2>3, <2>4, GiveUpAbandons
  <1> QED
    BY <1>1, <1>2

LEMMA FenceIsLedger ==
    ASSUME LedgerInv, FenceDirectAfterRestart
    PROVE  LedgerStep
  <1> USE DEF LedgerInv, TypeOK, admissionVars
  <1> DEFINE open == {r \in Requests : sendState[r] \in {"SENDING", "ACKED"}}
  <1>1. ASSUME NEW q \in open
        PROVE  Phase(q) = "inFlight" /\ Phase(q)' = "uncertain"
    <2>1. state[q] \in Active /\ hold[q] = "HELD"
      BY DEF RecordsAgree, RequestState, Active, Terminal
    <2>2. state'[q] = "UNKNOWN" /\ hold'[q] = "HELD"
      BY <2>1 DEF FenceDirectAfterRestart, Active, Terminal
    <2> QED
      BY <2>1, <2>2, PhaseIs, PhaseCases DEF HoldState, Active
  <1>2. ASSUME NEW q \in Requests \ open
        PROVE  Phase(q)' = Phase(q)
    BY SameRow DEF FenceDirectAfterRestart
  <1>3. open \in SUBSET Ledger!In("inFlight")
    BY <1>1 DEF Ledger!In
  <1> HIDE DEF open
  <1>4. open \in SUBSET Requests
    BY DEF open
  <1>5. Ledger!LoseTrack(open)
    BY <1>1, <1>2, <1>4, IsMove DEF Ledger!LoseTrack
  <1> QED
    BY <1>3, <1>5 DEF LedgerStep, Ledger!Next

LEMMA StoreStepIsLedgerStep ==
    ASSUME LedgerInv, [Next]_vars
    PROVE  LedgerStep
  <1>1. ASSUME NEW r \in Requests, AbandonDirectUnknown(r)
        PROVE  LedgerStep
    <2>1. /\ GiveUp(r) /\ UNCHANGED admission
          /\ \A q \in Requests :
                state'[q] = IF q \in {} THEN "CANCELLED" ELSE state[q]
      BY <1>1 DEF AbandonDirectUnknown, admissionVars, requestVars
    <2>2. {} \in SUBSET Requests
      OBVIOUS
    <2>3. \A q \in {} : state[q] = "QUEUED" /\ ThreadOf[q] = ThreadOf[r]
      OBVIOUS
    <2> QED
      BY <2>1, <2>2, <2>3, GiveUpAbandons
  <1>2. ASSUME \/ \E i \in Interactions : ApplyResume(i)
               \/ \E i \in Interactions, c \in Conversations :
                     \/ Stop(i, c) \/ ReserveResume(i, c)
                     \/ ReadRecoveryOffer(i, c)
               \/ UNCHANGED vars
        PROVE  LedgerStep
    <2>1. UNCHANGED <<hold, state, admission>>
      BY <1>2 DEF ApplyResume, Stop, ReserveResume, ReadRecoveryOffer, vars,
         admissionVars, requestVars
    <2> QED
      BY <2>1, SameRow, IsStutter DEF LedgerStep
  <1>3. CASE StartupRecover
    BY <1>3, RejectWithdraws DEF StartupRecover, requestVars
  <1>4. ASSUME NEW S \in SUBSET Requests, Sweep(S)
        PROVE  LedgerStep
    BY <1>4, RejectWithdraws DEF Sweep, requestVars
  <1> QED
    BY <1>1, <1>2, <1>3, <1>4, AdmissionIsLedger, DispatchIsLedger,
       OutcomeIsLedger, ControlIsLedger, FenceIsLedger DEF Next

-----------------------------------------------------------------------------
\* Every transaction of the store, called in any order, is a step of the
\* ledger: a message is executed at most once, never waits again once it was
\* sent, and is never executed again once its outcome is uncertain.
THEOREM StoreImplementsLedger == Spec => ImplementsLedger
  <1>1. DispatchInv => LedgerInv
    BY DEF DispatchInv, LedgerInv
  <1>2. DispatchInv /\ [Next]_vars => [Ledger!Next]_ledgerPhase
    BY <1>1, StoreStepIsLedgerStep DEF LedgerStep
  <1> QED
    BY <1>2, LedgerInit, DispatchInvariant, PTL
       DEF Spec, ImplementsLedger, Ledger!Spec, ledgerPhase

-----------------------------------------------------------------------------
(***************************************************************************)
(* Codex threads: conversations share none, and what is given up is never  *)
(* spoken to again.  The argument is about order: an open execution is the *)
(* newest one that was sent in its conversation, a thread is at most as    *)
(* new as the executions in it, so a thread started now is not one that an *)
(* execution given up before has used.                                     *)
(***************************************************************************)
\* No two messages of a conversation have the same place.
PlacesDiffer ==
    \A r, s \in Requests :
        /\ ThreadOf[r] = ThreadOf[s] /\ r # s
        /\ admission[r] # "NONE" /\ admission[s] # "NONE"
        => sequence[r] # sequence[s]

\* An open execution is the newest one of its conversation.
HeldIsNewest ==
    \A s \in Held, r \in Requests :
        ThreadOf[r] = ThreadOf[s] /\ Started(r) /\ r # s =>
            sequence[r] < sequence[s]

\* A thread t, in which r runs, was started in the conversation of r by an
\* execution no newer than r.
UsedIn(t, r) == /\ Started(t) /\ Started(r)
                /\ ThreadOf[t] = ThreadOf[r]
                /\ sequence[t] <= sequence[r]

ThreadsUsed ==
    \A r \in Requests :
        dispatchThread[r] # None => UsedIn(dispatchThread[r], r)

ThreadsBound ==
    \A c \in Conversations :
        codexThread[c] # None =>
            Started(codexThread[c]) /\ ThreadOf[codexThread[c]] = c

GivenUp(r) == state[r] = "UNKNOWN" /\ hold[r] = "RELEASED"

\* The thread of an execution that was given up is not bound any more.
GivenUpUnbound ==
    \A r \in Requests :
        GivenUp(r) /\ dispatchThread[r] # None =>
            codexThread[ThreadOf[r]] # dispatchThread[r]

ContextInv == /\ DispatchInv
              /\ PlacesDiffer
              /\ HeldIsNewest
              /\ ThreadsUsed
              /\ ThreadsBound
              /\ GivenUpUnbound
              /\ FreshContextAfterGiveUp

LEMMA ContextInit == Init => ContextInv
  <1> SUFFICES ASSUME Init PROVE ContextInv
    OBVIOUS
  <1>1. DispatchInv
    BY DispatchInit
  <1>2. Held = {}
    BY DEF Init, Held
  <1> QED
    BY <1>1, <1>2 DEF Init, ContextInv, PlacesDiffer, HeldIsNewest,
       ThreadsUsed, ThreadsBound, GivenUpUnbound, FreshContextAfterGiveUp,
       GivenUp

-----------------------------------------------------------------------------
\* What a step can do to the threads and to what was given up.
ThreadsKept == /\ UNCHANGED <<dispatchThread, codexThread>>
               /\ \A q \in Requests : GivenUp(q)' => GivenUp(q)

BindStep(r, t) == /\ BindThread(r, t)
                  /\ \A q \in Requests : GivenUp(q)' => GivenUp(q)

GiveUpStep(r) == /\ GiveUp(r)
                 /\ UNCHANGED dispatchThread
                 /\ \A q \in Requests : q # r /\ GivenUp(q)' => GivenUp(q)

LEMMA ContextSteps ==
    ASSUME TypeOK, RecordsAgree, [Next]_vars
    PROVE  \/ ThreadsKept
           \/ \E r \in Requests : \E t \in ReportedThread(r) : BindStep(r, t)
           \/ \E r \in Requests : GiveUpStep(r)
  <1> USE DEF TypeOK, GivenUp, ThreadsKept, dispatchVars, conversationVars
  <1>1. ASSUME NEW r \in Requests,
               \/ Reserve(r) \/ Finalize(r) \/ RejectAdmission(r)
               \/ PrepareDirect(r) \/ BeginDirectSend(r)
               \/ RequireApproval(r) \/ ResolveApproval(r)
               \/ FailDirectBeforeSend(r)
        PROVE  ThreadsKept
    BY <1>1 DEF Reserve, Finalize, RejectAdmission, PrepareDirect,
       BeginDirectSend, RequireApproval, ResolveApproval,
       FailDirectBeforeSend, requestVars
  <1>2. ASSUME NEW r \in Requests, NEW t \in ReportedThread(r),
               RecordDirectThread(r, t) \/ AcknowledgeDirectTurn(r, t)
        PROVE  BindStep(r, t)
    BY <1>2 DEF RecordDirectThread, AcknowledgeDirectTurn, BindStep,
       requestVars
  <1>3. ASSUME NEW r \in Requests, MarkDirectUnknown(r)
        PROVE  ThreadsKept
    BY <1>3 DEF MarkDirectUnknown, RecordsAgree, Active
  <1>4. ASSUME NEW r \in Requests, NEW status \in Terminal,
               FinishDirect(r, status)
        PROVE  ThreadsKept
    BY <1>4 DEF FinishDirect, Terminal
  <1>5. ASSUME NEW r \in Requests, AbandonDirectUnknown(r)
        PROVE  GiveUpStep(r)
    BY <1>5 DEF AbandonDirectUnknown, GiveUp, GiveUpStep, requestVars
  <1>6. ASSUME \/ \E S \in SUBSET Requests : Sweep(S)
               \/ \E i \in Interactions : ApplyResume(i)
               \/ \E i \in Interactions, c \in Conversations :
                     \/ Stop(i, c) \/ ReserveResume(i, c)
                     \/ ReadRecoveryOffer(i, c)
               \/ StartupRecover \/ UNCHANGED vars
        PROVE  ThreadsKept
    BY <1>6 DEF Sweep, ApplyResume, Stop, ReserveResume, ReadRecoveryOffer,
       StartupRecover, requestVars, vars
  <1>7. ASSUME NEW i \in Interactions, NEW c \in Conversations,
               CancelLatest(i, c)
        PROVE  ThreadsKept
    BY <1>7 DEF CancelLatest
  <1>8. ASSUME NEW i \in Interactions, NEW c \in Conversations,
               RecoverDirectUnknown(i, c)
        PROVE  \E r \in Requests : GiveUpStep(r)
    <2>1. PICK r \in PostedIn(c) : GiveUp(r)
      BY <1>8 DEF RecoverDirectUnknown
    <2>2. r \in Requests
      BY DEF PostedIn
    <2>3. GiveUpStep(r)
      BY <1>8, <2>1, <2>2 DEF RecoverDirectUnknown, GiveUp, GiveUpStep
    <2> QED
      BY <2>2, <2>3
  <1>9. ASSUME FenceDirectAfterRestart
        PROVE  ThreadsKept
    BY <1>9 DEF FenceDirectAfterRestart, RecordsAgree, RequestState, Active,
       Terminal
  <1> QED
    BY <1>1, <1>2, <1>3, <1>4, <1>5, <1>6, <1>7, <1>8, <1>9 DEF Next

\* What was sent has a place, and keeps it.
LEMMA StartedKeepsPlace ==
    ASSUME TypeOK, RecordsAgree, [Next]_vars, NEW q \in Requests, Started(q)
    PROVE  /\ Started(q)'
           /\ admission[q] # "NONE"
           /\ sequence'[q] = sequence[q]
  <1>1. admission[q] # "NONE"
    BY DEF TypeOK, RecordsAgree, Started, RequestState, Active, Terminal
  <1>2. sequence'[q] = sequence[q]
    BY <1>1, QuietSteps DEF Reserve, BeginDirectSend, Quiet, TypeOK,
       admissionVars
  <1> QED
    BY <1>1, <1>2, StartedStable

LEMMA PlacesDifferStep ==
    ASSUME ContextInv, [Next]_vars
    PROVE  PlacesDiffer'
  <1> USE ThreadOfType DEF ContextInv, DispatchInv, PlacesDiffer, TypeOK
  <1>1. ASSUME NEW r \in Requests, Reserve(r)
        PROVE  PlacesDiffer'
    <2>1. ASSUME NEW q \in Requests, q # r
          PROVE  sequence'[q] = sequence[q] /\ admission'[q] = admission[q]
      BY <1>1, <2>1 DEF Reserve
    <2>2. sequence'[r] = nextSequence[ThreadOf[r]] + 1
      BY <1>1 DEF Reserve
    <2>3. ASSUME NEW q \in Requests, q # r, ThreadOf[q] = ThreadOf[r],
                 admission[q] # "NONE"
          PROVE  sequence'[q] # sequence'[r]
      <3>1. sequence[q] <= nextSequence[ThreadOf[r]]
        BY <2>3 DEF SequenceIssued
      <3>2. sequence[q] \in Nat /\ nextSequence[ThreadOf[r]] \in Nat
        OBVIOUS
      <3> QED
        BY <2>1, <2>2, <2>3, <3>1, <3>2
    <2> QED
      BY <2>1, <2>3
  <1>2. ASSUME NEW r \in Requests, BeginDirectSend(r)
        PROVE  PlacesDiffer'
    BY <1>2 DEF BeginDirectSend, admissionVars
  <1>3. CASE Quiet
    BY <1>3 DEF Quiet
  <1> QED
    BY <1>1, <1>2, <1>3, QuietSteps

LEMMA HeldIsNewestStep ==
    ASSUME ContextInv, [Next]_vars
    PROVE  HeldIsNewest'
  <1> USE ThreadOfType DEF ContextInv, DispatchInv, HeldIsNewest
  <1>1. ASSUME NEW r \in Requests, Reserve(r)
        PROVE  HeldIsNewest'
    <2>1. Held' = Held /\ \A q \in Requests : Started(q)' <=> Started(q)
      BY <1>1 DEF Reserve, Held, Started, dispatchVars
    <2>2. \A q \in Held : Started(q) /\ q \in Requests
      BY DEF Held, Started, RecordsAgree, TypeOK, RequestState, Active,
         Terminal
    <2> QED
      BY <2>1, <2>2, StartedKeepsPlace
  <1>2. ASSUME NEW s \in Requests, BeginDirectSend(s)
        PROVE  HeldIsNewest'
    <2>1. /\ sequence' = sequence
          /\ \A q \in Held' : q = s \/ q \in Held
          /\ \A q \in Requests : Started(q)' => q = s \/ Started(q)
          /\ s \in Requests /\ s \in Waiting
          /\ admission[s] # "NONE"
      BY <1>2 DEF BeginDirectSend, Sendable, Held, Started, TypeOK,
         admissionVars, RecordsAgree, Waiting
    <2>2. ASSUME NEW q \in Requests, Started(q), ThreadOf[q] = ThreadOf[s],
                 q # s
          PROVE  sequence[q] < sequence[s]
      <3>1. s \notin Earlier(q)
        BY <2>1, <2>2 DEF NoOvertaking, Started
      <3>2. ~(sequence[s] < sequence[q])
        BY <2>2, <3>1 DEF Earlier, PostedIn
      <3>3. sequence[s] # sequence[q]
        BY <2>1, <2>2, StartedKeepsPlace DEF PlacesDiffer
      <3> QED
        BY <3>2, <3>3 DEF TypeOK
    <2>3. \A q \in Held : ThreadOf[q] # ThreadOf[s]
      BY <1>2 DEF BeginDirectSend, Sendable, Dispatchable, HeldIn, Held,
         PostedIn
    <2> QED
      BY <2>1, <2>2, <2>3 DEF Held
  <1>3. CASE Quiet
    BY <1>3 DEF Quiet
  <1> QED
    BY <1>1, <1>2, <1>3, QuietSteps

\* A thread that is bound to a conversation may be used by its open execution.
LEMMA ReportedUsed ==
    ASSUME ContextInv, NEW r \in Requests, NEW t \in ReportedThread(r),
           BindThread(r, t)
    PROVE  t \in Requests /\ UsedIn(t, r) /\ r \in Held
  <1> USE ThreadOfType DEF ContextInv, DispatchInv
  <1>1. r \in Held /\ Started(r)
    BY DEF BindThread, Held, Started, RecordsAgree, TypeOK, RequestState,
       Active, Terminal
  <1>2. CASE t = r
    BY <1>1, <1>2 DEF UsedIn, TypeOK
  <1>3. CASE t # r
    <2>1. t = codexThread[ThreadOf[r]] /\ t # None /\ t \in Requests
      BY <1>3 DEF ReportedThread, TypeOK, CodexThread
    <2>2. Started(t) /\ ThreadOf[t] = ThreadOf[r]
      BY <2>1 DEF ThreadsBound
    <2>3. sequence[t] < sequence[r]
      BY <1>1, <1>3, <2>1, <2>2 DEF HeldIsNewest
    <2> QED
      BY <1>1, <2>1, <2>2, <2>3 DEF UsedIn, TypeOK
  <1> QED
    BY <1>2, <1>3

LEMMA UsedStable ==
    ASSUME TypeOK, RecordsAgree, [Next]_vars, NEW r \in Requests,
           NEW t \in Requests, UsedIn(t, r)
    PROVE  UsedIn(t, r)'
  BY StartedKeepsPlace DEF UsedIn

LEMMA ThreadsUsedStep ==
    ASSUME ContextInv, [Next]_vars
    PROVE  ThreadsUsed' /\ ThreadsBound'
  <1> USE ThreadOfType, NoneIsNull
      DEF ContextInv, DispatchInv, ThreadsUsed, ThreadsBound
  <1>1. /\ \A r, t \in Requests : dispatchThread[r] = t => UsedIn(t, r)'
        /\ \A c \in Conversations, t \in Requests :
              codexThread[c] = t => Started(t)' /\ ThreadOf[t] = c
    BY UsedStable, StartedKeepsPlace
  <1>0. /\ \A r \in Requests : dispatchThread[r] \in CodexThread
        /\ \A c \in Conversations : codexThread[c] \in CodexThread
    BY DEF TypeOK
  <1> USE <1>0 DEF CodexThread
  <1>2. CASE ThreadsKept
    BY <1>1, <1>2 DEF ThreadsKept
  <1>3. ASSUME NEW r \in Requests, NEW t \in ReportedThread(r), BindStep(r, t)
        PROVE  ThreadsUsed' /\ ThreadsBound'
    <2>1. t \in Requests /\ UsedIn(t, r)' /\ Started(t)'
      BY <1>3, ReportedUsed, UsedStable DEF BindStep, UsedIn
    <2>2. /\ dispatchThread' = [dispatchThread EXCEPT ![r] = t]
          /\ codexThread' = [codexThread EXCEPT ![ThreadOf[r]] = t]
          /\ ThreadOf[t] = ThreadOf[r]
      BY <1>3, ReportedUsed DEF BindStep, BindThread, UsedIn
    <2>3. ThreadsUsed'
      BY <1>1, <2>1, <2>2 DEF TypeOK
    <2>4. ThreadsBound'
      BY <1>1, <2>1, <2>2 DEF TypeOK
    <2> QED
      BY <2>3, <2>4
  <1>4. ASSUME NEW r \in Requests, GiveUpStep(r)
        PROVE  ThreadsUsed' /\ ThreadsBound'
    <2>1. /\ dispatchThread' = dispatchThread
          /\ codexThread' = [codexThread EXCEPT ![ThreadOf[r]] = None]
      BY <1>4 DEF GiveUpStep, GiveUp
    <2> QED
      BY <1>1, <2>1 DEF TypeOK
  <1> QED
    BY <1>2, <1>3, <1>4, ContextSteps

LEMMA GivenUpStep ==
    ASSUME ContextInv, [Next]_vars
    PROVE  GivenUpUnbound' /\ FreshContextAfterGiveUp'
  <1> USE ThreadOfType DEF ContextInv, DispatchInv
  <1>0. ASSUME NEW r \in Requests, GivenUp(r)
        PROVE  Started(r) /\ sequence'[r] = sequence[r]
    BY <1>0, StartedKeepsPlace DEF GivenUp, RecordsAgree, Started
  <1>1. ASSUME NEW s \in Requests, dispatchThread[s] # None
        PROVE  /\ Started(s) /\ sequence'[s] = sequence[s]
               /\ dispatchThread[s] \in Requests
    BY <1>1, StartedKeepsPlace DEF ThreadsUsed, UsedIn, TypeOK, CodexThread
  <1>2. CASE ThreadsKept
    <2>1. GivenUpUnbound'
      BY <1>2 DEF ThreadsKept, GivenUpUnbound
    <2>2. FreshContextAfterGiveUp'
      BY <1>0, <1>1, <1>2 DEF ThreadsKept, GivenUp, FreshContextAfterGiveUp
    <2> QED
      BY <2>1, <2>2
  <1>3. ASSUME NEW s \in Requests, NEW t \in ReportedThread(s), BindStep(s, t)
        PROVE  GivenUpUnbound' /\ FreshContextAfterGiveUp'
    <2>1. /\ dispatchThread' = [dispatchThread EXCEPT ![s] = t]
          /\ codexThread' = [codexThread EXCEPT ![ThreadOf[s]] = t]
          /\ sendState[s] = "SENDING"
      BY <1>3 DEF BindStep, BindThread
    <2>2. t \in Requests /\ UsedIn(t, s) /\ s \in Held
      BY <1>3, ReportedUsed DEF BindStep
    <2>3. ASSUME NEW r \in Requests, GivenUp(r)', ThreadOf[r] = ThreadOf[s]
          PROVE  /\ r # s /\ GivenUp(r)
                 /\ dispatchThread'[r] = dispatchThread[r]
                 /\ dispatchThread[r] # t
      <3>1. GivenUp(r) /\ r # s
        BY <1>3, <2>2, <2>3 DEF BindStep, GivenUp, Held
      <3>2. dispatchThread'[r] = dispatchThread[r]
        BY <2>1, <3>1 DEF TypeOK
      <3>3. SUFFICES ASSUME dispatchThread[r] = t
                     PROVE  FALSE
        BY <3>1, <3>2
      <3>4. t # None
        BY <2>2, NoneIsNull
      <3>5. t # codexThread[ThreadOf[s]]
        BY <2>3, <3>1, <3>3, <3>4 DEF GivenUpUnbound
      <3>6. t = s
        BY <3>5 DEF ReportedThread
      <3>7. sequence[s] <= sequence[r]
        BY <3>3, <3>4, <3>6 DEF ThreadsUsed, UsedIn
      <3>8. sequence[r] < sequence[s]
        BY <1>0, <2>2, <2>3, <3>1 DEF HeldIsNewest
      <3> QED
        BY <3>7, <3>8 DEF TypeOK
    <2>4. GivenUpUnbound'
      <3> SUFFICES ASSUME NEW r \in Requests, GivenUp(r)',
                          dispatchThread'[r] # None
                   PROVE  codexThread'[ThreadOf[r]] # dispatchThread'[r]
        BY DEF GivenUpUnbound
      <3>1. CASE ThreadOf[r] = ThreadOf[s]
        BY <2>1, <2>3, <3>1 DEF TypeOK
      <3>2. CASE ThreadOf[r] # ThreadOf[s]
        <4>1. GivenUp(r) /\ r # s
          BY <1>3, <3>2 DEF BindStep
        <4> QED
          BY <2>1, <3>2, <4>1 DEF GivenUpUnbound, TypeOK
      <3> QED
        BY <3>1, <3>2
    <2>5. FreshContextAfterGiveUp'
      <3> SUFFICES ASSUME NEW r \in Requests, NEW q \in Requests, GivenUp(r)',
                          ThreadOf[q] = ThreadOf[r],
                          sequence'[r] < sequence'[q],
                          dispatchThread'[q] # None
                   PROVE  dispatchThread'[q] # dispatchThread'[r]
        BY DEF FreshContextAfterGiveUp, GivenUp
      <3>1. CASE q = s
        <4>1. dispatchThread'[q] = t
          BY <2>1, <3>1 DEF TypeOK
        <4> QED
          BY <2>3, <3>1, <4>1
      <3>2. CASE q # s
        <4>1. GivenUp(r) /\ dispatchThread'[q] = dispatchThread[q]
          BY <1>3, <2>1, <3>2 DEF BindStep, TypeOK
        <4>2. dispatchThread'[r] = dispatchThread[r]
          BY <1>3, <2>1, <2>2, <4>1 DEF TypeOK, GivenUp, Held
        <4>3. sequence[r] < sequence[q]
          BY <1>0, <1>1, <4>1
        <4> QED
          BY <4>1, <4>2, <4>3 DEF FreshContextAfterGiveUp, GivenUp
      <3> QED
        BY <3>1, <3>2
    <2> QED
      BY <2>4, <2>5
  <1>4. ASSUME NEW p \in Requests, GiveUpStep(p)
        PROVE  GivenUpUnbound' /\ FreshContextAfterGiveUp'
    <2>1. /\ dispatchThread' = dispatchThread
          /\ codexThread' = [codexThread EXCEPT ![ThreadOf[p]] = None]
          /\ p \in Held /\ Started(p)
      BY <1>4 DEF GiveUpStep, GiveUp, Uncertain, Held, Started
    <2>2. GivenUpUnbound'
      BY <1>4, <2>1 DEF GiveUpStep, GivenUpUnbound, TypeOK
    <2>3. FreshContextAfterGiveUp'
      <3> SUFFICES ASSUME NEW r \in Requests, NEW q \in Requests, GivenUp(r)',
                          ThreadOf[q] = ThreadOf[r],
                          sequence'[r] < sequence'[q],
                          dispatchThread[q] # None
                   PROVE  dispatchThread[q] # dispatchThread[r]
        BY <2>1 DEF FreshContextAfterGiveUp, GivenUp
      <3>1. CASE r = p
        <4>1. Started(q) /\ sequence[r] < sequence[q]
          BY <1>1, <2>1, <3>1, StartedKeepsPlace
        <4>2. r # q
          BY <4>1 DEF TypeOK
        <4>3. sequence[q] < sequence[r]
          BY <2>1, <3>1, <4>1, <4>2 DEF HeldIsNewest
        <4> QED
          BY <4>1, <4>3 DEF TypeOK
      <3>2. CASE r # p
        <4>1. GivenUp(r)
          BY <1>4, <3>2 DEF GiveUpStep
        <4>2. sequence[r] < sequence[q]
          BY <1>0, <1>1, <4>1
        <4> QED
          BY <4>1, <4>2 DEF FreshContextAfterGiveUp, GivenUp
      <3> QED
        BY <3>1, <3>2
    <2> QED
      BY <2>2, <2>3
  <1> QED
    BY <1>2, <1>3, <1>4, ContextSteps

LEMMA ContextStep == ContextInv /\ [Next]_vars => ContextInv'
  BY DispatchStep, PlacesDifferStep, HeldIsNewestStep, ThreadsUsedStep,
     GivenUpStep DEF ContextInv

LEMMA ContextInvariant == Spec => []ContextInv
  BY ContextInit, ContextStep, PTL DEF Spec

-----------------------------------------------------------------------------
\* No two conversations ever run in the same Codex thread, and after an
\* uncertain execution was given up, no later message of the conversation runs
\* in the Codex thread it has used.
THEOREM ContextsKept == Spec => []ContextKept
  <1>1. ContextInv => ContextNotShared
    BY DEF ContextInv, ThreadsUsed, UsedIn, ContextNotShared
  <1>2. ContextInv => FreshContextAfterGiveUp
    BY DEF ContextInv
  <1> QED
    BY <1>1, <1>2, ContextInvariant, PTL DEF ContextKept
=============================================================================
