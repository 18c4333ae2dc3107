------------------------- MODULE DirectGatewayProofs -------------------------
(***************************************************************************)
(* Proofs about the running Gateway, for any number of messages,           *)
(* conversations, commands, crashes and failed store calls: it is a caller *)
(* of the store as DirectStore allows it, a turn that runs holds its       *)
(* conversation, no message is handed to Codex twice, no interrupt reaches *)
(* an execution no control was aimed at, a recovery button does no more    *)
(* than its card said, and after one lost store call whatever is in flight *)
(* still has someone who settles it.                                       *)
(***************************************************************************)
EXTENDS DirectGateway, DirectStoreProofs

gateway == <<vars, gatewayVars>>

-----------------------------------------------------------------------------
(***************************************************************************)
(* Refinement of the store.  A command in flight names its conversation.   *)
(***************************************************************************)

CommandsAddressed ==
    /\ cmd \in [Interactions -> Command]
    /\ \A i \in Interactions :
          cmd[i] = NoCommand \/ cmd[i].thread \in Conversations

LEMMA CommandInit == GatewayInit => CommandsAddressed
  BY DEF GatewayInit, CommandsAddressed, NoCommand, Command

LEMMA AskedAddressed ==
    ASSUME CommandsAddressed, NEW i \in Interactions, NEW c \in Conversations,
           NEW k \in {"stop", "cancel", "resume", "recover"},
           NEW a \in Requests \cup {None},
           NEW s \in {"asked", "reserved", "backup"}, Asked(i, k, c, a, s)
    PROVE  CommandsAddressed'
  <1> DEFINE new == [kind |-> k, thread |-> c, actor |-> a, step |-> s]
  <1>1. new \in Command /\ new.thread = c
    BY DEF Command
  <1>2. cmd' = [cmd EXCEPT ![i] = new]
    BY DEF Asked
  <1> HIDE DEF new
  <1> QED
    BY <1>1, <1>2 DEF CommandsAddressed, NoCommand

\* A command that moves on keeps its conversation.
LEMMA StepAddressed ==
    ASSUME CommandsAddressed, NEW i \in Interactions, cmd[i].step # "none",
           NEW s \in {"late", "done"}, cmd' = [cmd EXCEPT ![i].step = s]
    PROVE  CommandsAddressed'
  <1> DEFINE new == [cmd[i] EXCEPT !.step = s]
  <1>1. cmd[i] \in Command /\ cmd[i].thread \in Conversations
    BY DEF CommandsAddressed, NoCommand
  <1>2. new \in Command /\ new.thread \in Conversations
    BY <1>1 DEF Command
  <1>3. cmd' = [cmd EXCEPT ![i] = new]
    OBVIOUS
  <1> HIDE DEF new
  <1> QED
    BY <1>2, <1>3 DEF CommandsAddressed, NoCommand

LEMMA CommandStep ==
    ASSUME CommandsAddressed, active \in [Conversations -> Requests \cup {None}],
           [GatewayNext]_gateway
    PROVE  CommandsAddressed'
  <1>1. CASE UNCHANGED cmd
    BY <1>1 DEF CommandsAddressed
  <1>2. ASSUME NEW i \in Interactions,
               \/ ActorControls(i) \/ StoreControls(i) \/ ControlTimesOut(i)
               \/ ResumeApplies(i) \/ BackupTaken(i)
        PROVE  CommandsAddressed'
    <2>1. /\ cmd[i].step # "none"
          /\ \E s \in {"late", "done"} : cmd' = [cmd EXCEPT ![i].step = s]
      BY <1>2 DEF ActorControls, StoreControls, ControlTimesOut,
         ResumeApplies, BackupTaken, Answered
    <2> QED
      BY <2>1, StepAddressed
  <1>3. ASSUME NEW i \in Interactions, NEW c \in Conversations,
               \/ ControlArrives(i, c) \/ ResumeArrives(i, c)
               \/ PressButton(i, c)
        PROVE  CommandsAddressed'
    <2>1. active[c] \in Requests \cup {None}
      OBVIOUS
    <2>2. \E k \in {"stop", "cancel", "resume", "recover"},
             a \in Requests \cup {None},
             s \in {"asked", "reserved", "backup"} : Asked(i, k, c, a, s)
      BY <1>3, <2>1 DEF ControlArrives, ResumeArrives, PressButton
    <2> QED
      BY <2>2, AskedAddressed
  <1>4. CASE Crash
    <2>1. cmd' = [i \in Interactions |->
                    IF cmd[i].kind = "none" THEN cmd[i]
                    ELSE [cmd[i] EXCEPT !.step = "done"]]
      BY <1>4 DEF Crash
    <2>2. ASSUME NEW i \in Interactions
          PROVE  /\ cmd'[i] \in Command
                 /\ cmd'[i] = NoCommand \/ cmd'[i].thread \in Conversations
      <3>1. CASE cmd[i].kind = "none"
        BY <2>1, <3>1 DEF CommandsAddressed
      <3>2. CASE cmd[i].kind # "none"
        <4>1. cmd[i] \in Command /\ cmd[i].thread \in Conversations
          BY <3>2 DEF CommandsAddressed, NoCommand
        <4>2. cmd'[i] = [cmd[i] EXCEPT !.step = "done"]
          BY <2>1, <3>2
        <4> QED
          BY <4>1, <4>2 DEF Command
      <3> QED
        BY <3>1, <3>2
    <2> QED
      BY <2>1, <2>2 DEF CommandsAddressed
  <1>5. ASSUME NEW r \in Requests,
               JobNext(r) \/ CodexNext(r) \/ OperatorAbandons(r)
        PROVE  UNCHANGED cmd
    BY <1>5 DEF JobNext, CodexNext, OperatorAbandons, Schedule, InputChanged,
       StartFails, Prepare, SendBegins, SendRefused, SendBeginFails,
       BoundaryFenced, DriveFails, TurnRequested, TurnAccepted, SendFails,
       ActorStarts, ActorNotStarted, ApprovalAsked, RuntimeLost, ActorFails,
       TurnConfirmed, DeliveryEnds, Unregister, JobSettles, DropFenced,
       TurnStarts, TurnEnds, gatewayVars, commandVars
  <1>6. ASSUME \/ Admission \/ BootRecovers \/ BootFences
               \/ \E c \in Conversations : ShowCard(c)
               \/ UNCHANGED gateway
        PROVE  UNCHANGED cmd
    BY <1>6 DEF Admission, BootRecovers, BootFences, ShowCard, gateway,
       gatewayVars, commandVars
  <1> QED
    BY <1>1, <1>2, <1>3, <1>4, <1>5, <1>6 DEF GatewayNext, CommandNext

\* The thread the child works in is one the caller may report.
LEMMA ChildReported ==
    ASSUME NEW r \in Requests
    PROVE  ChildThread(r) \in ReportedThread(r)
  BY DEF ChildThread, ReportedThread

\* A control in flight is a transaction of the store.
LEMMA ControlIsNext ==
    ASSUME CommandsAddressed, NEW i \in Interactions, Control(i)
    PROVE  Next
  <1>1. cmd[i].thread \in Conversations
    BY DEF Control, CommandsAddressed, NoCommand
  <1> QED
    BY <1>1 DEF Control, Next

LEMMA StoreStep ==
    ASSUME CommandsAddressed, [GatewayNext]_gateway
    PROVE  [Next]_vars
  <1>1. CASE Admission
    BY <1>1 DEF Admission, Next
  <1>2. ASSUME NEW r \in Requests, JobNext(r)
        PROVE  [Next]_vars
    <2>1. CASE \/ Schedule(r) \/ StartFails(r) \/ SendRefused(r)
               \/ ActorStarts(r) \/ ActorNotStarted(r) \/ ActorFails(r)
               \/ DeliveryEnds(r) \/ Unregister(r)
      BY <2>1 DEF Schedule, StartFails, SendRefused, ActorStarts,
         ActorNotStarted, ActorFails, DeliveryEnds, Unregister
    <2>2. CASE \/ InputChanged(r) \/ Prepare(r) \/ SendBegins(r)
               \/ SendBeginFails(r) \/ BoundaryFenced(r) \/ DriveFails(r)
      BY <2>2 DEF InputChanged, Prepare, SendBegins, SendBeginFails,
         BoundaryFenced, DriveFails, Next, vars
    <2>3. CASE TurnRequested(r) \/ TurnAccepted(r)
      BY <2>3, ChildReported DEF TurnRequested, TurnAccepted, Next
    <2>4. CASE \/ SendFails(r) \/ ApprovalAsked(r) \/ RuntimeLost(r)
               \/ TurnConfirmed(r) \/ JobSettles(r) \/ DropFenced(r)
      BY <2>4 DEF SendFails, ApprovalAsked, RuntimeLost, TurnConfirmed,
         JobSettles, DropFenced, MarkIfActive, Next
    <2> QED
      BY <1>2, <2>1, <2>2, <2>3, <2>4 DEF JobNext
  <1>3. ASSUME NEW r \in Requests, CodexNext(r) \/ OperatorAbandons(r)
        PROVE  [Next]_vars
    BY <1>3 DEF CodexNext, TurnStarts, TurnEnds, OperatorAbandons, Next
  <1>4. CASE CommandNext
    <2>1. ASSUME NEW c \in Conversations, ShowCard(c)
          PROVE  [Next]_vars
      BY <2>1 DEF ShowCard
    <2>2. ASSUME NEW i \in Interactions, ActorControls(i) \/ StoreControls(i)
          PROVE  [Next]_vars
      BY <2>2, ControlIsNext DEF ActorControls, StoreControls
    <2>3. ASSUME NEW i \in Interactions, ControlTimesOut(i) \/ ResumeApplies(i)
          PROVE  [Next]_vars
      BY <2>3 DEF ControlTimesOut, ResumeApplies, Next
    <2>4. ASSUME NEW i \in Interactions, BackupTaken(i)
          PROVE  [Next]_vars
      <3>1. cmd[i].thread \in Conversations
        BY <2>4 DEF BackupTaken, CommandsAddressed, NoCommand
      <3> QED
        BY <2>4, <3>1 DEF BackupTaken, Next
    <2>5. ASSUME NEW i \in Interactions, NEW c \in Conversations,
                 \/ ControlArrives(i, c) \/ ResumeArrives(i, c)
                 \/ PressButton(i, c)
          PROVE  [Next]_vars
      BY <2>5 DEF ControlArrives, ResumeArrives, PressButton, Next
    <2> QED
      BY <1>4, <2>1, <2>2, <2>3, <2>4, <2>5 DEF CommandNext
  <1>5. CASE Crash \/ BootRecovers \/ BootFences
    BY <1>5 DEF Crash, BootRecovers, BootFences, Next
  <1>6. CASE UNCHANGED gateway
    BY <1>6 DEF gateway
  <1> QED
    BY <1>1, <1>2, <1>3, <1>4, <1>5, <1>6 DEF GatewayNext

LEMMA StoreInit == GatewayInit => Init
  BY DEF GatewayInit

-----------------------------------------------------------------------------
(***************************************************************************)
(* Type correctness.                                                       *)
(***************************************************************************)

LEMMA GatewayTypeInit == GatewayInit => GatewayTypeOK
  <1>1. NoCard \in Card
    BY DEF NoCard, Card
  <1>2. GatewayInit => cmd \in [Interactions -> Command]
    BY CommandInit DEF CommandsAddressed
  <1> QED
    BY <1>1, <1>2, TypeInit, BoundsType DEF GatewayInit, GatewayTypeOK,
       JobStep, CodexTurn

\* The daemon's own variables, without the commands and the cards.
DaemonTypeOK ==
    /\ boot \in {"down", "recovered", "up"}
    /\ job \in [Requests -> JobStep]
    /\ active \in [Conversations -> Requests \cup {None}]
    /\ codexTurn \in [Requests -> CodexTurn]
    /\ dropped \subseteq Requests
    /\ interrupted \subseteq Requests
    /\ faults \in 0 .. MaxFaults
    /\ crashes \in 0 .. MaxCrashes
    /\ boot # "up" => /\ \A r \in Requests : job[r] = "none"
                      /\ \A c \in Conversations : active[c] = None
                      /\ dropped = {}

LEMMA JobTypeStep ==
    ASSUME DaemonTypeOK, NEW r \in Requests, JobNext(r) \/ CodexNext(r)
    PROVE  DaemonTypeOK'
  <1> USE ThreadOfType, BoundsType DEF DaemonTypeOK, JobStep, Leased,
          CodexTurn, Goes, commandVars, boundVars
  <1>1. CASE \/ Schedule(r) \/ InputChanged(r) \/ StartFails(r) \/ Prepare(r)
             \/ SendBegins(r) \/ SendRefused(r) \/ DeliveryEnds(r)
    BY <1>1 DEF Schedule, InputChanged, StartFails, Prepare, SendBegins,
       SendRefused, DeliveryEnds
  <1>2. CASE SendBeginFails(r) \/ BoundaryFenced(r) \/ DriveFails(r)
    BY <1>2 DEF SendBeginFails, BoundaryFenced, DriveFails, StoreFault
  <1>3. CASE TurnRequested(r) \/ TurnStarts(r) \/ TurnEnds(r)
    BY <1>3 DEF TurnRequested, TurnStarts, TurnEnds
  <1>4. CASE TurnAccepted(r)
    BY <1>4 DEF TurnAccepted, StoreFault
  <1>5. CASE SendFails(r)
    BY <1>5 DEF SendFails, StoreFault, Cut
  <1>6. CASE ActorStarts(r) \/ Unregister(r)
    BY <1>6 DEF ActorStarts, Unregister
  <1>7. CASE ActorNotStarted(r)
    BY <1>7 DEF ActorNotStarted, StoreFault, Cut
  <1>8. CASE ApprovalAsked(r)
    BY <1>8 DEF ApprovalAsked, gatewayVars, jobVars
  <1>9. CASE RuntimeLost(r) \/ ActorFails(r)
    BY <1>9 DEF RuntimeLost, ActorFails, Cut
  <1>10. CASE TurnConfirmed(r)
    BY <1>10 DEF TurnConfirmed, StoreFault
  <1>11. CASE JobSettles(r) \/ DropFenced(r)
    BY <1>11 DEF JobSettles, DropFenced, StoreFault
  <1> QED
    BY <1>1, <1>2, <1>3, <1>4, <1>5, <1>6, <1>7, <1>8, <1>9, <1>10, <1>11
       DEF JobNext, CodexNext

LEMMA DaemonTypeStep ==
    ASSUME DaemonTypeOK, [GatewayNext]_gateway
    PROVE  DaemonTypeOK'
  <1> USE DEF DaemonTypeOK, jobVars, commandVars, boundVars
  <1>1. CASE Admission \/ \E r \in Requests : OperatorAbandons(r)
    BY <1>1 DEF Admission, OperatorAbandons, gatewayVars
  <1>2. CASE CommandNext
    <2>1. CASE \E c \in Conversations : ShowCard(c)
      BY <2>1 DEF ShowCard
    <2>2. ASSUME NEW i \in Interactions, ActorControls(i)
          PROVE  DaemonTypeOK'
      BY <2>2 DEF ActorControls, Aim, Latest, HeldIn, PostedIn
    <2>3. ASSUME NEW i \in Interactions,
                 \/ StoreControls(i) \/ ControlTimesOut(i)
                 \/ ResumeApplies(i) \/ BackupTaken(i)
                 \/ \E c \in Conversations : \/ ControlArrives(i, c)
                                             \/ ResumeArrives(i, c)
                                             \/ PressButton(i, c)
          PROVE  DaemonTypeOK'
      BY <2>3 DEF StoreControls, ControlTimesOut, ResumeApplies, BackupTaken,
         ControlArrives, ResumeArrives, PressButton
    <2> QED
      BY <1>2, <2>1, <2>2, <2>3 DEF CommandNext
  <1>3. CASE Crash
    BY <1>3, BoundsType DEF Crash, JobStep, CodexTurn
  <1>4. CASE BootRecovers \/ BootFences
    BY <1>4 DEF BootRecovers, BootFences
  <1>5. CASE UNCHANGED gateway
    BY <1>5 DEF gateway, gatewayVars
  <1> QED
    BY <1>1, <1>2, <1>3, <1>4, <1>5, JobTypeStep DEF GatewayNext

\* Only /recover shows a card.
LEMMA CardKept ==
    ASSUME [GatewayNext]_gateway, ~ \E c \in Conversations : ShowCard(c)
    PROVE  UNCHANGED card
  <1>1. ASSUME NEW r \in Requests,
               JobNext(r) \/ CodexNext(r) \/ OperatorAbandons(r)
        PROVE  UNCHANGED card
    BY <1>1 DEF JobNext, CodexNext, OperatorAbandons, Schedule, InputChanged,
       StartFails, Prepare, SendBegins, SendRefused, SendBeginFails,
       BoundaryFenced, DriveFails, TurnRequested, TurnAccepted, SendFails,
       ActorStarts, ActorNotStarted, ApprovalAsked, RuntimeLost, ActorFails,
       TurnConfirmed, DeliveryEnds, Unregister, JobSettles, DropFenced,
       TurnStarts, TurnEnds, gatewayVars, commandVars
  <1>2. ASSUME NEW i \in Interactions,
               \/ ActorControls(i) \/ StoreControls(i) \/ ControlTimesOut(i)
               \/ ResumeApplies(i) \/ BackupTaken(i)
               \/ \E c \in Conversations : \/ ControlArrives(i, c)
                                           \/ ResumeArrives(i, c)
                                           \/ PressButton(i, c)
        PROVE  UNCHANGED card
    BY <1>2 DEF ActorControls, StoreControls, ControlTimesOut, ResumeApplies,
       BackupTaken, ControlArrives, ResumeArrives, PressButton
  <1>3. ASSUME Admission \/ Crash \/ BootRecovers \/ BootFences
               \/ UNCHANGED gateway
        PROVE  UNCHANGED card
    BY <1>3 DEF Admission, Crash, BootRecovers, BootFences, gateway,
       gatewayVars, commandVars
  <1> QED
    BY <1>1, <1>2, <1>3 DEF GatewayNext, CommandNext

\* What a card says when it is shown.
LEMMA CardShown ==
    ASSUME TypeOK, card \in [Conversations -> Card], NEW c \in Conversations,
           ShowCard(c)
    PROVE  /\ card' \in [Conversations -> Card]
           /\ card'[c].pauseRevision = pauseRevision[c]
           /\ card'[c].nextSequence = nextSequence[c]
           /\ card'[c].shown = QueuedIn(c)
           /\ card'[c].stopsSeen = stops[c]
           /\ \A d \in Conversations \ {c} : card'[d] = card[d]
  <1>1. PICK r \in PostedIn(c) :
            card' = [card EXCEPT ![c] =
                [request       |-> r,
                 pauseRevision |-> pauseRevision[c],
                 nextSequence  |-> nextSequence[c],
                 shown         |-> QueuedIn(c),
                 stopsSeen     |-> stops[c]]]
    BY DEF ShowCard
  <1> QED
    BY <1>1 DEF TypeOK, Card, PostedIn, QueuedIn

LEMMA CardTypeStep ==
    ASSUME TypeOK, card \in [Conversations -> Card], [GatewayNext]_gateway
    PROVE  card' \in [Conversations -> Card]
  BY CardKept, CardShown

LEMMA GatewayTypeStep ==
    ASSUME GatewayTypeOK, CommandsAddressed, [GatewayNext]_gateway
    PROVE  GatewayTypeOK' /\ CommandsAddressed'
  <1>1. TypeOK'
    BY StoreStep, TypeStep DEF GatewayTypeOK
  <1>2. DaemonTypeOK'
    BY DaemonTypeStep DEF GatewayTypeOK, DaemonTypeOK
  <1>3. (card \in [Conversations -> Card])'
    BY CardTypeStep DEF GatewayTypeOK
  <1>4. CommandsAddressed'
    BY CommandStep DEF GatewayTypeOK
  <1> QED
    BY <1>1, <1>2, <1>3, <1>4 DEF GatewayTypeOK, DaemonTypeOK,
       CommandsAddressed

-----------------------------------------------------------------------------
(***************************************************************************)
(* What the store never takes back, whoever calls it.                      *)
(***************************************************************************)

\* The request has left the queue.
Unqueued(r) == state[r] \notin {"NONE", "QUEUED"}

\* What has left the queue does not come back to it.
LEMMA UnqueuedStable ==
    ASSUME TypeOK, RecordsAgree, [Next]_vars, NEW q \in Requests, Unqueued(q)
    PROVE  Unqueued(q)'
  <1> USE DEF Unqueued, TypeOK, Active, Terminal
  <1>1. CASE UNCHANGED state
    BY <1>1
  <1>2. ASSUME NEW r \in Requests, Finalize(r)
        PROVE  Unqueued(q)'
    BY <1>2 DEF Finalize, RecordsAgree
  <1>3. ASSUME NEW r \in Requests,
               \/ BeginDirectSend(r) \/ MarkDirectUnknown(r)
               \/ \E t \in ReportedThread(r) : AcknowledgeDirectTurn(r, t)
               \/ \E status \in Terminal : FinishDirect(r, status)
               \/ RequireApproval(r) \/ ResolveApproval(r)
               \/ FailDirectBeforeSend(r)
        PROVE  Unqueued(q)'
    BY <1>3 DEF BeginDirectSend, MarkDirectUnknown, AcknowledgeDirectTurn,
       FinishDirect, RequireApproval, ResolveApproval, FailDirectBeforeSend
  <1>4. ASSUME NEW r \in Requests,
               \/ Reserve(r) \/ RejectAdmission(r) \/ PrepareDirect(r)
               \/ \E t \in ReportedThread(r) : RecordDirectThread(r, t)
               \/ AbandonDirectUnknown(r)
        PROVE  UNCHANGED state
    BY <1>4 DEF Reserve, RejectAdmission, PrepareDirect, RecordDirectThread,
       AbandonDirectUnknown, requestVars
  <1>5. ASSUME NEW i \in Interactions, NEW c \in Conversations,
               CancelLatest(i, c) \/ RecoverDirectUnknown(i, c)
        PROVE  Unqueued(q)'
    BY <1>5 DEF CancelLatest, RecoverDirectUnknown
  <1>6. ASSUME \/ \E S \in SUBSET Requests : Sweep(S)
               \/ \E i \in Interactions : ApplyResume(i)
               \/ \E i \in Interactions, c \in Conversations :
                     \/ Stop(i, c) \/ ReserveResume(i, c)
                     \/ ReadRecoveryOffer(i, c)
               \/ StartupRecover \/ UNCHANGED vars
        PROVE  UNCHANGED state
    BY <1>6 DEF Sweep, ApplyResume, Stop, ReserveResume, ReadRecoveryOffer,
       StartupRecover, requestVars, vars
  <1>7. CASE FenceDirectAfterRestart
    BY <1>7 DEF FenceDirectAfterRestart
  <1> QED
    BY <1>1, <1>2, <1>3, <1>4, <1>5, <1>6, <1>7 DEF Next

\* A request that was asked to stop stays asked.
LEMMA StopRequestedStable ==
    ASSUME [Next]_vars, NEW q \in Requests, stopRequested[q]
    PROVE  stopRequested'[q]
  <1>1. CASE UNCHANGED stopRequested
    BY <1>1
  <1>2. ASSUME NEW r \in Requests,
               \/ Reserve(r) \/ Finalize(r) \/ RejectAdmission(r)
               \/ PrepareDirect(r) \/ BeginDirectSend(r)
               \/ \E t \in ReportedThread(r) : RecordDirectThread(r, t)
               \/ \E t \in ReportedThread(r) : AcknowledgeDirectTurn(r, t)
               \/ RequireApproval(r) \/ ResolveApproval(r)
               \/ MarkDirectUnknown(r)
               \/ \E status \in Terminal : FinishDirect(r, status)
               \/ FailDirectBeforeSend(r) \/ AbandonDirectUnknown(r)
        PROVE  UNCHANGED stopRequested
    BY <1>2 DEF Reserve, Finalize, RejectAdmission, PrepareDirect,
       BeginDirectSend, RecordDirectThread, AcknowledgeDirectTurn,
       RequireApproval, ResolveApproval, MarkDirectUnknown, FinishDirect,
       FailDirectBeforeSend, AbandonDirectUnknown, requestVars
  <1>3. ASSUME NEW i \in Interactions, NEW c \in Conversations,
               CancelLatest(i, c) \/ Stop(i, c)
        PROVE  stopRequested'[q]
    BY <1>3 DEF CancelLatest, Stop
  <1>4. ASSUME \/ \E S \in SUBSET Requests : Sweep(S)
               \/ \E i \in Interactions : ApplyResume(i)
               \/ \E i \in Interactions, c \in Conversations :
                     \/ ReserveResume(i, c) \/ ReadRecoveryOffer(i, c)
                     \/ RecoverDirectUnknown(i, c)
               \/ StartupRecover \/ FenceDirectAfterRestart \/ UNCHANGED vars
        PROVE  UNCHANGED stopRequested
    BY <1>4 DEF Sweep, ApplyResume, ReserveResume, ReadRecoveryOffer,
       RecoverDirectUnknown, StartupRecover, FenceDirectAfterRestart,
       requestVars, vars
  <1> QED
    BY <1>1, <1>2, <1>3, <1>4 DEF Next

-----------------------------------------------------------------------------
(***************************************************************************)
(* Where the job of a request is, against its records and its turn.  A     *)
(* turn can only run while the job owns the child and the request is       *)
(* active; a run that was dropped has left the queue, so the scheduler     *)
(* cannot start a second job whose records the late fence would change.    *)
(***************************************************************************)

Driving == {"starting", "turn", "acked", "serving"}
Over    == {"none", "failing", "ending", "aborted", "settling"}

JobMatches(r) ==
    /\ codexTurn[r] \in {"requested", "running"} => job[r] \in Driving
    /\ job[r] \in Driving => state[r] \in Active
    /\ job[r] = "starting" => codexTurn[r] = "none"
    /\ codexTurn[r] # "none" => Started(r)
    /\ r \in dropped => job[r] \in Over /\ Unqueued(r)

GatewayInv ==
    /\ GatewayTypeOK
    /\ CommandsAddressed
    /\ DispatchInv
    /\ \A r \in Requests : JobMatches(r)

LEMMA GatewayInvInit == GatewayInit => GatewayInv
  BY GatewayTypeInit, CommandInit, StoreInit, DispatchInit
     DEF GatewayInit, GatewayInv, JobMatches, Driving, Over

\* Nothing of the job of q changes; its request stays active if it was.
Spares(q) ==
    /\ job'[q] = job[q]
    /\ codexTurn'[q] = codexTurn[q]
    /\ q \in dropped' <=> q \in dropped
    /\ state[q] \in Active => state'[q] \in Active

LEMMA SparedMatches ==
    ASSUME GatewayInv, [Next]_vars, NEW q \in Requests, Spares(q)
    PROVE  JobMatches(q)'
  <1>1. TypeOK /\ RecordsAgree
    BY DEF GatewayInv, DispatchInv
  <1>2. Started(q) => Started(q)'
    BY <1>1, StartedStable
  <1>3. Unqueued(q) => Unqueued(q)'
    BY <1>1, UnqueuedStable
  <1> QED
    BY <1>2, <1>3 DEF GatewayInv, JobMatches, Spares

LEMMA OtherJobSpares ==
    ASSUME GatewayInv, NEW r \in Requests, JobNext(r) \/ CodexNext(r),
           NEW q \in Requests, q # r
    PROVE  Spares(q)
  <1> USE DEF GatewayInv, GatewayTypeOK, TypeOK, Spares, Goes, vars,
          requestVars
  <1>1. CASE \/ Schedule(r) \/ StartFails(r) \/ SendRefused(r)
             \/ ActorStarts(r) \/ DeliveryEnds(r) \/ Unregister(r)
    BY <1>1 DEF Schedule, StartFails, SendRefused, ActorStarts, DeliveryEnds,
       Unregister
  <1>2. CASE InputChanged(r) \/ Prepare(r) \/ SendBegins(r)
    BY <1>2 DEF InputChanged, Prepare, SendBegins, FailDirectBeforeSend,
       PrepareDirect, BeginDirectSend
  <1>3. CASE SendBeginFails(r) \/ BoundaryFenced(r) \/ DriveFails(r)
    BY <1>3 DEF SendBeginFails, BoundaryFenced, DriveFails, BeginDirectSend,
       MarkDirectUnknown, FailDirectBeforeSend
  <1>4. CASE TurnRequested(r) \/ TurnAccepted(r)
    BY <1>4 DEF TurnRequested, TurnAccepted, RecordDirectThread,
       AcknowledgeDirectTurn
  <1>5. CASE SendFails(r) \/ ActorNotStarted(r) \/ ActorFails(r)
    BY <1>5 DEF SendFails, ActorNotStarted, ActorFails, MarkDirectUnknown, Cut
  <1>6. CASE ApprovalAsked(r)
    BY <1>6 DEF ApprovalAsked, RequireApproval, ResolveApproval, gatewayVars,
       jobVars
  <1>7. CASE RuntimeLost(r) \/ TurnConfirmed(r)
    BY <1>7 DEF RuntimeLost, TurnConfirmed, MarkDirectUnknown, FinishDirect,
       Cut
  <1>8. CASE JobSettles(r) \/ DropFenced(r)
    BY <1>8 DEF JobSettles, DropFenced, MarkIfActive, MarkDirectUnknown
  <1>9. CASE TurnStarts(r) \/ TurnEnds(r)
    BY <1>9 DEF TurnStarts, TurnEnds
  <1> QED
    BY <1>1, <1>2, <1>3, <1>4, <1>5, <1>6, <1>7, <1>8, <1>9
       DEF JobNext, CodexNext

\* Neither admission nor a command touches an active request.
LEMMA CommandSpares ==
    ASSUME GatewayInv, NEW q \in Requests,
           \/ Admission \/ CommandNext \/ UNCHANGED gateway
           \/ \E r \in Requests : OperatorAbandons(r)
    PROVE  Spares(q)
  <1> USE DEF GatewayInv, GatewayTypeOK, TypeOK, jobVars, requestVars
  <1>1. UNCHANGED <<job, codexTurn, dropped>>
    BY DEF Admission, CommandNext, OperatorAbandons, ShowCard, ActorControls,
       StoreControls, ControlTimesOut, ResumeApplies, BackupTaken,
       ControlArrives, ResumeArrives, PressButton, gateway, gatewayVars
  <1>2. ASSUME state[q] \in Active
        PROVE  state'[q] \in Active
    <2>1. CASE Admission
      <3>1. ASSUME NEW r \in Requests, Finalize(r)
            PROVE  state'[q] = state[q]
        <4>1. r # q
          BY <1>2, <3>1 DEF Finalize, DispatchInv, RecordsAgree, Active
        <4> QED
          BY <3>1, <4>1 DEF Finalize
      <3>2. ASSUME \/ \E r \in Requests : Reserve(r) \/ RejectAdmission(r)
                   \/ \E S \in SUBSET Requests : Sweep(S)
            PROVE  UNCHANGED state
        BY <3>2 DEF Reserve, RejectAdmission, Sweep
      <3> QED
        BY <1>2, <2>1, <3>1, <3>2 DEF Admission
    <2>2. ASSUME NEW i \in Interactions, NEW c, CancelLatest(i, c)
          PROVE  state'[q] = state[q]
      <3>1. CASE UNCHANGED state
        BY <3>1
      <3>2. ASSUME NEW r \in Latest(WaitingIn(c)),
                   state' = IF admission[r] = "ACCEPTED"
                            THEN [state EXCEPT ![r] = "CANCELLED"] ELSE state
            PROVE  state'[q] = state[q]
        <4>1. admission[r] = "ACCEPTED" => state[r] = "QUEUED"
          BY DEF Latest, WaitingIn, Waiting
        <4> QED
          BY <1>2, <3>2, <4>1 DEF Active
      <3> QED
        BY <2>2, <3>1, <3>2 DEF CancelLatest
    <2>3. ASSUME NEW i \in Interactions, NEW c, RecoverDirectUnknown(i, c)
          PROVE  state'[q] = state[q]
      BY <1>2, <2>3 DEF RecoverDirectUnknown, QueuedIn, Active
    <2>4. ASSUME \E i \in Interactions : \/ ActorControls(i)
                                         \/ StoreControls(i)
          PROVE  state'[q] = state[q]
      BY <2>2, <2>4 DEF ActorControls, StoreControls, Control, Stop
    <2>5. ASSUME \E i \in Interactions : BackupTaken(i)
          PROVE  state'[q] = state[q]
      BY <2>3, <2>5 DEF BackupTaken
    <2>6. ASSUME \/ \E c \in Conversations : ShowCard(c)
                 \/ \E i \in Interactions :
                       \/ ControlTimesOut(i) \/ ResumeApplies(i)
                       \/ \E c \in Conversations : \/ ControlArrives(i, c)
                                                   \/ ResumeArrives(i, c)
                                                   \/ PressButton(i, c)
                 \/ \E r \in Requests : OperatorAbandons(r)
                 \/ UNCHANGED gateway
          PROVE  UNCHANGED state
      BY <2>6 DEF ShowCard, ControlTimesOut, ResumeApplies, ControlArrives,
         ResumeArrives, PressButton, OperatorAbandons, ApplyResume,
         ReserveResume, ReadRecoveryOffer, AbandonDirectUnknown, gateway, vars
    <2> QED
      BY <1>2, <2>1, <2>4, <2>5, <2>6 DEF CommandNext
  <1> QED
    BY <1>1, <1>2 DEF Spares

\* The job's own steps, from the queue to the send boundary.
LEMMA StartMatches ==
    ASSUME GatewayInv, [Next]_vars, NEW q \in Requests,
           \/ Schedule(q) \/ InputChanged(q) \/ StartFails(q) \/ Prepare(q)
           \/ SendBegins(q) \/ SendRefused(q) \/ SendBeginFails(q)
           \/ BoundaryFenced(q) \/ DriveFails(q)
    PROVE  JobMatches(q)'
  <1> USE DEF JobMatches, Driving, Over, Goes
  <1>1. JobMatches(q) /\ job \in [Requests -> JobStep]
        /\ TypeOK /\ RecordsAgree
    BY DEF GatewayInv, GatewayTypeOK, DispatchInv
  <1>2. /\ Started(q) => Started(q)'
        /\ Unqueued(q) => Unqueued(q)'
    BY <1>1, StartedStable, UnqueuedStable
  <1>3. CASE Schedule(q)
    BY <1>1, <1>2, <1>3 DEF Schedule, Candidates, Unqueued
  <1>4. CASE InputChanged(q) \/ StartFails(q) \/ Prepare(q) \/ SendRefused(q)
    BY <1>1, <1>2, <1>4 DEF InputChanged, StartFails, Prepare, SendRefused
  <1>5. CASE SendBegins(q)
    <2>1. codexTurn[q] = "none"
      BY <1>1, <1>5 DEF SendBegins, BeginDirectSend, Sendable, Started
    <2>2. state'[q] \in Active
      BY <1>1, <1>5 DEF SendBegins, BeginDirectSend, TypeOK, Active
    <2> QED
      BY <1>1, <1>2, <1>5, <2>1, <2>2 DEF SendBegins
  <1>6. CASE SendBeginFails(q)
    BY <1>1, <1>2, <1>6 DEF SendBeginFails
  <1>7. CASE BoundaryFenced(q) \/ DriveFails(q)
    BY <1>1, <1>2, <1>7 DEF BoundaryFenced, DriveFails
  <1> QED
    BY <1>3, <1>4, <1>5, <1>6, <1>7

\* The job's steps while the child has its turn.
LEMMA TurnMatches ==
    ASSUME GatewayInv, [Next]_vars, NEW q \in Requests,
           \/ TurnRequested(q) \/ TurnStarts(q) \/ TurnEnds(q)
           \/ TurnAccepted(q) \/ SendFails(q) \/ ActorStarts(q)
           \/ ActorNotStarted(q) \/ ApprovalAsked(q)
    PROVE  JobMatches(q)'
  <1> USE DEF JobMatches, Driving, Over, Goes
  <1>1. /\ JobMatches(q) /\ job \in [Requests -> JobStep]
        /\ codexTurn \in [Requests -> CodexTurn]
        /\ TypeOK /\ RecordsAgree
    BY DEF GatewayInv, GatewayTypeOK, DispatchInv
  <1>2. /\ Started(q) => Started(q)'
        /\ Unqueued(q) => Unqueued(q)'
    BY <1>1, StartedStable, UnqueuedStable
  <1>3. state[q] \in Active => Unqueued(q)
    BY DEF Active, Unqueued
  <1>4. CASE TurnRequested(q)
    <2>1. state' = state /\ Started(q)
      BY <1>4 DEF TurnRequested, RecordDirectThread, BindThread, requestVars,
         Started
    <2> QED
      BY <1>1, <1>2, <1>4, <2>1 DEF TurnRequested
  <1>5. CASE TurnStarts(q) \/ TurnEnds(q)
    <2>1. state' = state
      BY <1>5 DEF TurnStarts, TurnEnds, vars, requestVars
    <2> QED
      BY <1>1, <1>2, <1>5, <2>1 DEF TurnStarts, TurnEnds
  <1>6. CASE TurnAccepted(q)
    <2>1. state'[q] \in Active
      BY <1>1, <1>6 DEF TurnAccepted, AcknowledgeDirectTurn, TypeOK, Active
    <2> QED
      BY <1>1, <1>2, <1>6, <2>1 DEF TurnAccepted
  <1>7. CASE SendFails(q)
    BY <1>1, <1>2, <1>3, <1>7 DEF SendFails, Cut
  <1>8. CASE ActorStarts(q)
    <2>1. state' = state
      BY <1>8 DEF ActorStarts, vars, requestVars
    <2> QED
      BY <1>1, <1>2, <1>8, <2>1 DEF ActorStarts
  <1>9. CASE ActorNotStarted(q)
    BY <1>1, <1>2, <1>3, <1>9 DEF ActorNotStarted, Cut
  <1>10. CASE ApprovalAsked(q)
    <2>1. state'[q] \in Active
      BY <1>1, <1>10 DEF ApprovalAsked, RequireApproval, ResolveApproval,
         TypeOK, Active
    <2> QED
      BY <1>1, <1>2, <1>10, <2>1 DEF ApprovalAsked, gatewayVars, jobVars
  <1> QED
    BY <1>4, <1>5, <1>6, <1>7, <1>8, <1>9, <1>10

\* The job's steps once the turn or the actor is over.
LEMMA EndMatches ==
    ASSUME GatewayInv, [Next]_vars, NEW q \in Requests,
           \/ RuntimeLost(q) \/ ActorFails(q) \/ TurnConfirmed(q)
           \/ DeliveryEnds(q) \/ Unregister(q) \/ JobSettles(q)
           \/ DropFenced(q)
    PROVE  JobMatches(q)'
  <1> USE DEF JobMatches, Driving, Over, Goes
  <1>1. /\ JobMatches(q) /\ job \in [Requests -> JobStep]
        /\ codexTurn \in [Requests -> CodexTurn]
        /\ TypeOK /\ RecordsAgree
    BY DEF GatewayInv, GatewayTypeOK, DispatchInv
  <1>2. /\ Started(q) => Started(q)'
        /\ Unqueued(q) => Unqueued(q)'
    BY <1>1, StartedStable, UnqueuedStable
  <1>3. state[q] \in Active => Unqueued(q)
    BY DEF Active, Unqueued
  <1>4. CASE RuntimeLost(q) \/ ActorFails(q)
    BY <1>1, <1>2, <1>3, <1>4 DEF RuntimeLost, ActorFails, Cut
  <1>5. CASE TurnConfirmed(q)
    BY <1>1, <1>2, <1>3, <1>5 DEF TurnConfirmed
  <1>6. CASE DeliveryEnds(q) \/ Unregister(q)
    BY <1>1, <1>2, <1>6 DEF DeliveryEnds, Unregister
  <1>7. CASE JobSettles(q) \/ DropFenced(q)
    BY <1>1, <1>2, <1>7 DEF JobSettles, DropFenced
  <1> QED
    BY <1>4, <1>5, <1>6, <1>7

\* A crash and a start-up leave no job, and no turn that runs.
LEMMA BootMatches ==
    ASSUME GatewayInv, [Next]_vars, NEW q \in Requests,
           Crash \/ BootRecovers \/ BootFences
    PROVE  JobMatches(q)'
  <1> USE DEF JobMatches, Driving, Over
  <1>1. /\ JobMatches(q) /\ GatewayTypeOK /\ TypeOK /\ RecordsAgree
    BY DEF GatewayInv, DispatchInv
  <1>2. Started(q) => Started(q)'
    BY <1>1, StartedStable
  <1>3. CASE Crash
    BY <1>1, <1>2, <1>3 DEF Crash
  <1>4. CASE BootRecovers \/ BootFences
    <2>1. job[q] = "none" /\ q \notin dropped
      BY <1>1, <1>4 DEF GatewayTypeOK, BootRecovers, BootFences
    <2> QED
      BY <1>1, <1>2, <1>4, <2>1 DEF BootRecovers, BootFences, jobVars
  <1> QED
    BY <1>3, <1>4

LEMMA GatewayInvStep ==
    ASSUME GatewayInv, [GatewayNext]_gateway
    PROVE  GatewayInv'
  <1>1. [Next]_vars
    BY StoreStep DEF GatewayInv
  <1>2. GatewayTypeOK' /\ CommandsAddressed'
    BY GatewayTypeStep DEF GatewayInv
  <1>3. DispatchInv'
    BY <1>1, DispatchStep DEF GatewayInv
  <1>4. ASSUME NEW q \in Requests
        PROVE  JobMatches(q)'
    <2>1. CASE Admission \/ CommandNext \/ UNCHANGED gateway
               \/ \E r \in Requests : OperatorAbandons(r)
      BY <1>1, <2>1, CommandSpares, SparedMatches
    <2>2. ASSUME NEW r \in Requests, JobNext(r) \/ CodexNext(r), r # q
          PROVE  JobMatches(q)'
      BY <1>1, <2>2, OtherJobSpares, SparedMatches
    <2>3. CASE JobNext(q) \/ CodexNext(q)
      BY <1>1, <2>3, StartMatches, TurnMatches, EndMatches
         DEF JobNext, CodexNext
    <2>4. CASE Crash \/ BootRecovers \/ BootFences
      BY <1>1, <2>4, BootMatches
    <2> QED
      BY <2>1, <2>2, <2>3, <2>4 DEF GatewayNext
  <1> QED
    BY <1>2, <1>3, <1>4 DEF GatewayInv

-----------------------------------------------------------------------------
(***************************************************************************)
(* Theorems.                                                               *)
(***************************************************************************)

LEMMA GatewayInvariant == GatewaySpec => []GatewayInv
  BY GatewayInvInit, GatewayInvStep, PTL DEF GatewaySpec, gateway

\* The variables of the daemon keep their domains, and a daemon that is not
\* started has no jobs, no live runs and no dropped runs.
THEOREM GatewayTypeCorrect == GatewaySpec => []GatewayTypeOK
  <1>1. GatewayInv => GatewayTypeOK
    BY DEF GatewayInv
  <1> QED
    BY <1>1, GatewayInvariant, PTL

\* The daemon is a caller of the store as DirectStore allows it: each of its
\* steps is one transaction or none.  What is proved about the store for any
\* caller so holds of the running Gateway.
THEOREM GatewayRefinesStore == GatewaySpec => Spec
  <1>1. GatewayInv /\ [GatewayNext]_<<vars, gatewayVars>> => [Next]_vars
    BY StoreStep DEF GatewayInv, gateway
  <1> QED
    BY <1>1, StoreInit, GatewayInvariant, PTL DEF GatewaySpec, Spec

\* So the daemon keeps the promise of TurnLedger as well: over every crash,
\* failed call, command and recovery a message goes from waiting to in flight
\* at most once, and from uncertain only to settled or abandoned.
THEOREM GatewayImplementsLedger == GatewaySpec => ImplementsLedger
  BY GatewayRefinesStore, StoreImplementsLedger

\* A turn that runs, or may run, holds its conversation: no recovery, fence,
\* command or crash, in whatever order, gives the conversation to a second
\* turn beside it.
THEOREM TurnsHeld == GatewaySpec => []RunningTurnHeld
  <1>1. GatewayInv => RunningTurnHeld
    BY DEF GatewayInv, DispatchInv, RunningTurnHeld, JobMatches, RecordsAgree,
       Active
  <1> QED
    BY <1>1, GatewayInvariant, PTL

\* Only the job of q writes its turn/start, and it writes it as "starting".
LEMMA RequestedOnce ==
    ASSUME GatewayInv, [GatewayNext]_gateway, NEW q \in Requests,
           codexTurn'[q] = "requested", codexTurn[q] # "requested"
    PROVE  codexTurn[q] = "none"
  <1>0. codexTurn \in [Requests -> CodexTurn] /\ JobMatches(q)
    BY DEF GatewayInv, GatewayTypeOK
  <1>1. CASE Spares(q)
    BY <1>1 DEF Spares
  <1>2. CASE TurnRequested(q)
    BY <1>0, <1>2 DEF TurnRequested, Goes, JobMatches
  <1>3. ASSUME JobNext(q) \/ CodexNext(q), ~TurnRequested(q)
        PROVE  FALSE
    <2>1. \/ UNCHANGED codexTurn
          \/ Cut(q)
          \/ TurnStarts(q) \/ TurnEnds(q)
      BY <1>3 DEF JobNext, CodexNext, Schedule, InputChanged, StartFails,
         Prepare, SendBegins, SendRefused, SendBeginFails, BoundaryFenced,
         DriveFails, TurnAccepted, SendFails, ActorStarts, ActorNotStarted,
         ApprovalAsked, RuntimeLost, ActorFails, TurnConfirmed, DeliveryEnds,
         Unregister, JobSettles, DropFenced, gatewayVars, jobVars
    <2> QED
      BY <1>0, <2>1 DEF Cut, TurnStarts, TurnEnds
  <1>4. CASE Crash \/ BootRecovers \/ BootFences
    BY <1>0, <1>4 DEF Crash, BootRecovers, BootFences, jobVars
  <1> QED
    BY <1>1, <1>2, <1>3, <1>4, OtherJobSpares, CommandSpares DEF GatewayNext

\* A message is handed to Codex at most once, over any number of crashes,
\* failed calls, fences and recoveries.
THEOREM NeverTwice == GatewaySpec => ExecutedOnce
  <1>1. GatewayInv /\ [GatewayNext]_<<vars, gatewayVars>> =>
           [\A r \in Requests :
               codexTurn'[r] = "requested" /\ codexTurn[r] # "requested" =>
                  codexTurn[r] = "none"]_<<vars, gatewayVars>>
    BY RequestedOnce DEF gateway
  <1> QED
    BY <1>1, GatewayInvariant, PTL DEF GatewaySpec, ExecutedOnce

-----------------------------------------------------------------------------
(***************************************************************************)
(* Interrupts.  The actor interrupts its own turn only when its request is *)
(* the execution the control's transaction has marked; because a           *)
(* conversation has one hold, what is marked is what is aimed at.          *)
(***************************************************************************)

LEMMA AimIsMarked ==
    ASSUME GatewayInv, NEW i \in Interactions, Control(i),
           NEW r \in Requests, r \in Aim(i)
    PROVE  stopRequested'[r]
  <1> DEFINE c == cmd[i].thread
  <1>1. Latest(HeldIn(c)) = {r}
    <2>1. r \in Latest(HeldIn(c))
      BY DEF Aim
    <2>2. \A s \in Latest(HeldIn(c)) : s = r
      BY <2>1 DEF Latest, HeldIn, PostedIn, GatewayInv, DispatchInv,
         OneHoldPerConversation
    <2> QED
      BY <2>1, <2>2
  <1>2. OrNull(Latest(HeldIn(c))) = {r}
    BY <1>1 DEF OrNull
  <1>3. stopRequested' = [s \in Requests |-> stopRequested[s] \/ s = r]
    <2>1. CASE cmd[i].kind = "stop" /\ Stop(i, c)
      BY <1>2, <2>1 DEF Stop
    <2>2. CASE cmd[i].kind = "cancel" /\ CancelLatest(i, c)
      <3>1. WaitingIn(c) = {}
        BY <2>2 DEF Aim
      <3>2. Latest(WaitingIn(c)) = {}
        BY <3>1 DEF Latest
      <3> QED
        BY <1>2, <2>2, <3>2 DEF CancelLatest
    <2> QED
      BY <2>1, <2>2 DEF Control
  <1> QED
    BY <1>3

LEMMA InterruptStep ==
    ASSUME GatewayInv, InterruptAimed, [GatewayNext]_gateway
    PROVE  InterruptAimed'
  <1>1. \A r \in Requests : stopRequested[r] => stopRequested'[r]
    BY StoreStep, StopRequestedStable DEF GatewayInv
  <1>2. CASE UNCHANGED interrupted
    BY <1>1, <1>2 DEF InterruptAimed
  <1>3. ASSUME NEW i \in Interactions, ActorControls(i)
        PROVE  InterruptAimed'
    <2>1. /\ Control(i)
          /\ interrupted' = interrupted \cup (Aim(i) \cap {cmd[i].actor})
      BY <1>3 DEF ActorControls
    <2>2. \A r \in Aim(i) : r \in Requests
      BY DEF Aim, Latest, HeldIn, PostedIn
    <2>3. \A r \in Aim(i) : stopRequested'[r]
      BY <2>1, <2>2, AimIsMarked
    <2> QED
      BY <1>1, <2>1, <2>2, <2>3 DEF InterruptAimed
  <1>4. ASSUME NEW r \in Requests,
               JobNext(r) \/ CodexNext(r) \/ OperatorAbandons(r)
        PROVE  UNCHANGED interrupted
    BY <1>4 DEF JobNext, CodexNext, OperatorAbandons, Schedule, InputChanged,
       StartFails, Prepare, SendBegins, SendRefused, SendBeginFails,
       BoundaryFenced, DriveFails, TurnRequested, TurnAccepted, SendFails,
       ActorStarts, ActorNotStarted, ApprovalAsked, RuntimeLost, ActorFails,
       TurnConfirmed, DeliveryEnds, Unregister, JobSettles, DropFenced,
       TurnStarts, TurnEnds, gatewayVars, commandVars
  <1>5. ASSUME \/ \E c \in Conversations : ShowCard(c)
               \/ \E i \in Interactions :
                     \/ StoreControls(i) \/ ControlTimesOut(i)
                     \/ ResumeApplies(i) \/ BackupTaken(i)
                     \/ \E c \in Conversations : \/ ControlArrives(i, c)
                                                 \/ ResumeArrives(i, c)
                                                 \/ PressButton(i, c)
        PROVE  UNCHANGED interrupted
    BY <1>5 DEF ShowCard, StoreControls, ControlTimesOut, ResumeApplies,
       BackupTaken, ControlArrives, ResumeArrives, PressButton
  <1>6. ASSUME \/ Admission \/ Crash \/ BootRecovers \/ BootFences
               \/ UNCHANGED gateway
        PROVE  UNCHANGED interrupted
    BY <1>6 DEF Admission, Crash, BootRecovers, BootFences, gateway,
       gatewayVars, commandVars
  <1> QED
    BY <1>2, <1>3, <1>4, <1>5, <1>6 DEF GatewayNext, CommandNext

\* An interrupt reaches no other execution than the one a /stop or /cancel
\* was aimed at, however late an actor takes the command out of its mailbox.
THEOREM ControlsAimed == GatewaySpec => []InterruptAimed
  <1>1. GatewayInit => InterruptAimed
    BY DEF GatewayInit, InterruptAimed
  <1>2. GatewayInv /\ InterruptAimed /\ [GatewayNext]_<<vars, gatewayVars>>
           => InterruptAimed'
    BY InterruptStep DEF gateway
  <1> QED
    BY <1>1, <1>2, GatewayInvariant, PTL DEF GatewaySpec

-----------------------------------------------------------------------------
(***************************************************************************)
(* The recovery button.  A card whose revision and sequence are current    *)
(* has seen every /stop and lists whatever waits; what a button has read   *)
(* is never newer than the card, whichever card is shown meanwhile.  So an *)
(* offer that is still good when the backup is taken is the card's.        *)
(***************************************************************************)

CardCurrent(c) ==
    /\ card[c].pauseRevision <= pauseRevision[c]
    /\ card[c].pauseRevision = pauseRevision[c] => card[c].stopsSeen = stops[c]
    /\ card[c].nextSequence <= nextSequence[c]
    /\ card[c].nextSequence = nextSequence[c] => WaitingIn(c) \subseteq card[c].shown

ButtonCurrent(i) ==
    cmd[i].step = "backup" =>
        LET c == cmd[i].thread IN
        /\ cmd[i].kind = "recover" /\ c \in Conversations
        /\ offer[i].pauseRevision <= card[c].pauseRevision
        /\ offer[i].nextSequence <= card[c].nextSequence

CardInv == /\ \A c \in Conversations : CardCurrent(c)
           /\ \A i \in Interactions : ButtonCurrent(i)

\* Every /stop bumps the revision, and nothing lowers it.
LEMMA RevisionMoves ==
    ASSUME TypeOK, [Next]_vars, NEW c \in Conversations
    PROVE  /\ pauseRevision[c] \in Nat /\ pauseRevision'[c] \in Nat
           /\ pauseRevision[c] <= pauseRevision'[c]
           /\ pauseRevision'[c] = pauseRevision[c] => stops'[c] = stops[c]
  <1>1. pauseRevision[c] \in Nat
    BY DEF TypeOK
  <1>2. CASE UNCHANGED <<pauseRevision, stops>>
    BY <1>1, <1>2
  <1>3. ASSUME NEW i \in Interactions, ApplyResume(i)
        PROVE  UNCHANGED stops /\ pauseRevision'[c] \in {pauseRevision[c], pauseRevision[c] + 1}
    BY <1>3 DEF ApplyResume, TypeOK
  <1>4. ASSUME NEW i \in Interactions, NEW d \in Conversations, RecoverDirectUnknown(i, d)
        PROVE  UNCHANGED stops /\ pauseRevision'[c] \in {pauseRevision[c], pauseRevision[c] + 1}
    BY <1>4 DEF RecoverDirectUnknown, TypeOK
  <1>5. ASSUME NEW i \in Interactions, NEW d \in Conversations, Stop(i, d)
        PROVE  \/ pauseRevision'[c] = pauseRevision[c] /\ stops'[c] = stops[c]
               \/ pauseRevision'[c] = pauseRevision[c] + 1
    BY <1>5 DEF Stop, TypeOK
  <1>6. ASSUME \/ Plain \/ StartupRecover
               \/ \E i \in Interactions : \E d \in Conversations :
                     CancelLatest(i, d) \/ ReserveResume(i, d) \/ ReadRecoveryOffer(i, d)
        PROVE  UNCHANGED <<pauseRevision, stops>>
    BY <1>6, PlainKeepsControls DEF PauseKept, StartupRecover, CancelLatest, ReserveResume,
       ReadRecoveryOffer, pauseVars
  <1> QED
    BY <1>1, <1>2, <1>3, <1>4, <1>5, <1>6, StepKinds

\* A conversation gets a waiting message only with a new sequence number.
LEMMA SequenceMoves ==
    ASSUME TypeOK, RecordsAgree, [Next]_vars, NEW c \in Conversations
    PROVE  /\ nextSequence[c] \in Nat /\ nextSequence'[c] \in Nat
           /\ nextSequence[c] <= nextSequence'[c]
           /\ nextSequence'[c] = nextSequence[c] => WaitingIn(c)' \subseteq WaitingIn(c)
  <1>1. nextSequence[c] \in Nat
    BY DEF TypeOK
  <1>2. CASE UNCHANGED nextSequence /\ Waiting' \subseteq Waiting
    BY <1>1, <1>2 DEF WaitingIn, PostedIn
  <1>3. CASE Quiet
    BY <1>2, <1>3 DEF Quiet
  <1>4. ASSUME NEW r \in Requests, BeginDirectSend(r)
        PROVE  UNCHANGED nextSequence /\ Waiting' \subseteq Waiting
    BY <1>4 DEF BeginDirectSend, Sendable, TypeOK, admissionVars, Waiting
  <1>5. ASSUME NEW r \in Requests, Reserve(r)
        PROVE  \/ nextSequence'[c] = nextSequence[c] + 1
               \/ /\ nextSequence'[c] = nextSequence[c]
                  /\ WaitingIn(c)' \subseteq WaitingIn(c)
    <2>1. CASE ThreadOf[r] = c
      BY <1>5, <2>1 DEF Reserve, TypeOK
    <2>2. CASE ThreadOf[r] # c
      <3>1. Waiting' \subseteq Waiting \cup {r}
        BY <1>5 DEF Reserve, TypeOK, requestVars, Waiting
      <3>2. WaitingIn(c)' \subseteq WaitingIn(c)
        BY <2>2, <3>1 DEF WaitingIn, PostedIn
      <3> QED
        BY <1>5, <2>2, <3>2 DEF Reserve, TypeOK
    <2> QED
      BY <2>1, <2>2
  <1> QED
    BY <1>1, <1>2, <1>3, <1>4, <1>5, QuietSteps

\* The jobs and the admission are no controls.
LEMMA WorkIsPlain ==
    ASSUME \/ Admission \/ BootFences
           \/ \E r \in Requests : JobNext(r) \/ CodexNext(r) \/ OperatorAbandons(r)
    PROVE  Plain
  <1>1. CASE Admission \/ BootFences
    BY <1>1 DEF Admission, BootFences, Plain
  <1>2. ASSUME NEW r \in Requests, CodexNext(r) \/ OperatorAbandons(r)
        PROVE  Plain
    BY <1>2 DEF CodexNext, TurnStarts, TurnEnds, OperatorAbandons, Plain
  <1>3. ASSUME NEW r \in Requests, JobNext(r)
        PROVE  Plain
    <2>1. CASE \/ Schedule(r) \/ StartFails(r) \/ SendRefused(r)
               \/ ActorStarts(r) \/ ActorNotStarted(r) \/ ActorFails(r)
               \/ DeliveryEnds(r) \/ Unregister(r)
      BY <2>1 DEF Schedule, StartFails, SendRefused, ActorStarts,
         ActorNotStarted, ActorFails, DeliveryEnds, Unregister, Plain
    <2>2. CASE \/ InputChanged(r) \/ Prepare(r) \/ SendBegins(r)
               \/ SendBeginFails(r) \/ BoundaryFenced(r) \/ DriveFails(r)
      BY <2>2 DEF InputChanged, Prepare, SendBegins, SendBeginFails,
         BoundaryFenced, DriveFails, Plain, vars
    <2>3. CASE TurnRequested(r) \/ TurnAccepted(r)
      BY <2>3, ChildReported DEF TurnRequested, TurnAccepted, Plain
    <2>4. CASE \/ SendFails(r) \/ ApprovalAsked(r) \/ RuntimeLost(r)
               \/ TurnConfirmed(r) \/ JobSettles(r) \/ DropFenced(r)
      BY <2>4 DEF SendFails, ApprovalAsked, RuntimeLost, TurnConfirmed,
         JobSettles, DropFenced, MarkIfActive, Plain
    <2> QED
      BY <1>3, <2>1, <2>2, <2>3, <2>4 DEF JobNext
  <1> QED
    BY <1>1, <1>2, <1>3

LEMMA CardInit == GatewayInit => CardInv
  <1> SUFFICES ASSUME GatewayInit
               PROVE  CardInv
    OBVIOUS
  <1>1. \A c \in Conversations : CardCurrent(c)
    <2>1. Waiting = {}
      BY DEF GatewayInit, Init, Waiting
    <2> QED
      BY <2>1 DEF GatewayInit, Init, CardCurrent, NoCard, WaitingIn
  <1>2. \A i \in Interactions : ButtonCurrent(i)
    BY DEF GatewayInit, ButtonCurrent, NoCommand
  <1> QED
    BY <1>1, <1>2 DEF CardInv

\* A card that is shown now is current, and one that is there stays so.
LEMMA CardCurrentStep ==
    ASSUME TypeOK, RecordsAgree, card \in [Conversations -> Card],
           [Next]_vars, [GatewayNext]_gateway, NEW c \in Conversations,
           CardCurrent(c)
    PROVE  CardCurrent(c)'
  <1>0. /\ card[c].pauseRevision \in Nat /\ card[c].nextSequence \in Nat
        /\ pauseRevision[c] \in Nat /\ nextSequence[c] \in Nat
        /\ card[c] \in Card
    BY DEF Card, TypeOK
  <1>1. CASE card'[c] = card[c]
    <2>1. /\ pauseRevision'[c] \in Nat
          /\ pauseRevision[c] <= pauseRevision'[c]
          /\ pauseRevision'[c] = pauseRevision[c] => stops'[c] = stops[c]
      BY RevisionMoves
    <2>2. /\ nextSequence'[c] \in Nat
          /\ nextSequence[c] <= nextSequence'[c]
          /\ nextSequence'[c] = nextSequence[c] =>
                WaitingIn(c)' \subseteq WaitingIn(c)
      BY SequenceMoves
    <2> QED
      BY <1>0, <1>1, <2>1, <2>2 DEF CardCurrent
  <1>2. CASE ShowCard(c)
    <2>1. UNCHANGED vars /\ ~Busy(c)
      BY <1>2 DEF ShowCard
    <2>2. UNCHANGED <<pauseRevision, stops, nextSequence, admission, state>>
      BY <2>1 DEF vars, pauseVars, admissionVars, requestVars
    <2>3. WaitingIn(c)' = WaitingIn(c)
      BY <2>2 DEF WaitingIn, Waiting, PostedIn
    <2>4. WaitingIn(c) \subseteq QueuedIn(c)
      BY <2>1 DEF WaitingIn, Waiting, QueuedIn, PostedIn, Busy
    <2>5. /\ card'[c].pauseRevision = pauseRevision[c]
          /\ card'[c].nextSequence = nextSequence[c]
          /\ card'[c].shown = QueuedIn(c)
          /\ card'[c].stopsSeen = stops[c]
      BY <1>2, CardShown
    <2> QED
      BY <1>0, <2>2, <2>3, <2>4, <2>5 DEF CardCurrent
  <1>3. ASSUME NEW d \in Conversations, ShowCard(d), d # c
        PROVE  card'[c] = card[c]
    BY <1>3, CardShown
  <1> QED
    BY <1>1, <1>2, <1>3, CardKept

\* A worker comes to wait for its backup only by a button that was pressed,
\* and keeps meanwhile what it has read.
LEMMA ButtonMoves ==
    ASSUME TypeOK, CommandsAddressed, [GatewayNext]_gateway,
           NEW i \in Interactions, cmd'[i].step = "backup",
           ~ \E c \in Conversations : PressButton(i, c)
    PROVE  cmd'[i] = cmd[i] /\ offer'[i] = offer[i]
  <1>0. cmd[i] \in Command
    BY DEF CommandsAddressed
  <1>1. CASE \/ Admission \/ BootFences
             \/ \E r \in Requests :
                   JobNext(r) \/ CodexNext(r) \/ OperatorAbandons(r)
    <2>1. UNCHANGED offer
      BY <1>1, WorkIsPlain, PlainKeepsControls DEF OfferKept
    <2>2. ASSUME NEW r \in Requests,
                 JobNext(r) \/ CodexNext(r) \/ OperatorAbandons(r)
          PROVE  UNCHANGED cmd
      BY <2>2 DEF JobNext, CodexNext, OperatorAbandons, Schedule,
         InputChanged, StartFails, Prepare, SendBegins, SendRefused,
         SendBeginFails, BoundaryFenced, DriveFails, TurnRequested,
         TurnAccepted, SendFails, ActorStarts, ActorNotStarted,
         ApprovalAsked, RuntimeLost, ActorFails, TurnConfirmed, DeliveryEnds,
         Unregister, JobSettles, DropFenced, TurnStarts, TurnEnds,
         gatewayVars, commandVars
    <2>3. Admission \/ BootFences => UNCHANGED cmd
      BY DEF Admission, BootFences, gatewayVars, commandVars
    <2> QED
      BY <1>1, <2>1, <2>2, <2>3
  <1>2. ASSUME NEW j \in Interactions,
               \/ ActorControls(j) \/ StoreControls(j) \/ ControlTimesOut(j)
               \/ ResumeApplies(j) \/ BackupTaken(j)
        PROVE  cmd'[i] = cmd[i] /\ offer'[i] = offer[i]
    <2>1. UNCHANGED offer
      BY <1>2 DEF ActorControls, StoreControls, ControlTimesOut,
         ResumeApplies, BackupTaken, Control, Stop, CancelLatest, ApplyResume,
         RecoverDirectUnknown, vars
    <2>2. \E s \in {"late", "done"} : cmd' = [cmd EXCEPT ![j].step = s]
      BY <1>2 DEF ActorControls, StoreControls, ControlTimesOut,
         ResumeApplies, BackupTaken, Answered
    <2>3. i # j
      BY <1>0, <2>2 DEF CommandsAddressed, Command
    <2> QED
      BY <2>1, <2>2, <2>3 DEF CommandsAddressed
  <1>3. ASSUME NEW j \in Interactions, NEW c \in Conversations,
               ControlArrives(j, c) \/ ResumeArrives(j, c)
        PROVE  cmd'[i] = cmd[i] /\ offer'[i] = offer[i]
    <2>1. UNCHANGED offer
      BY <1>3 DEF ControlArrives, ResumeArrives, ReserveResume, vars
    <2>2. PICK k \in {"stop", "cancel", "resume"},
               a \in {active[c], None}, s \in {"asked", "reserved"} :
             cmd' = [cmd EXCEPT ![j] = [kind |-> k, thread |-> c,
                                        actor |-> a, step |-> s]]
      BY <1>3 DEF ControlArrives, ResumeArrives, Asked
    <2>3. i # j
      BY <2>2 DEF CommandsAddressed
    <2> QED
      BY <2>1, <2>2, <2>3 DEF CommandsAddressed
  <1>4. ASSUME NEW j \in Interactions, NEW c \in Conversations,
               PressButton(j, c)
        PROVE  cmd'[i] = cmd[i] /\ offer'[i] = offer[i]
    <2>1. i # j
      BY <1>4
    <2> QED
      BY <1>4, <2>1 DEF PressButton, Asked, ReadRecoveryOffer, TypeOK,
         CommandsAddressed
  <1>5. CASE Crash
    <2>1. /\ UNCHANGED offer
          /\ cmd'[i] = IF cmd[i].kind = "none" THEN cmd[i]
                       ELSE [cmd[i] EXCEPT !.step = "done"]
      BY <1>5 DEF Crash, vars
    <2> QED
      BY <1>0, <2>1 DEF Command
  <1>6. CASE BootRecovers
    BY <1>6 DEF BootRecovers, StartupRecover, commandVars
  <1>7. CASE \/ \E c \in Conversations : ShowCard(c)
             \/ UNCHANGED gateway
    BY <1>7 DEF ShowCard, gateway, gatewayVars, commandVars, vars
  <1> QED
    BY <1>1, <1>2, <1>3, <1>4, <1>5, <1>6, <1>7 DEF GatewayNext, CommandNext

LEMMA ButtonCurrentStep ==
    ASSUME TypeOK, CommandsAddressed, card \in [Conversations -> Card],
           \A c \in Conversations : CardCurrent(c),
           [GatewayNext]_gateway, NEW i \in Interactions, ButtonCurrent(i)
    PROVE  ButtonCurrent(i)'
  <1> SUFFICES ASSUME cmd'[i].step = "backup"
               PROVE  /\ cmd'[i].kind = "recover"
                      /\ cmd'[i].thread \in Conversations
                      /\ offer'[i].pauseRevision <=
                            card'[cmd'[i].thread].pauseRevision
                      /\ offer'[i].nextSequence <=
                            card'[cmd'[i].thread].nextSequence
    BY DEF ButtonCurrent
  <1>1. ASSUME NEW c \in Conversations
        PROVE  /\ card[c].pauseRevision \in Nat
               /\ card[c].nextSequence \in Nat
               /\ card'[c].pauseRevision \in Nat
               /\ card'[c].nextSequence \in Nat
               /\ card[c].pauseRevision <= card'[c].pauseRevision
               /\ card[c].nextSequence <= card'[c].nextSequence
    <2>1. /\ card[c].pauseRevision \in Nat /\ card[c].nextSequence \in Nat
          /\ card[c].pauseRevision <= pauseRevision[c]
          /\ card[c].nextSequence <= nextSequence[c]
          /\ pauseRevision[c] \in Nat /\ nextSequence[c] \in Nat
      BY DEF Card, CardCurrent, TypeOK
    <2>2. \/ card'[c] = card[c]
          \/ /\ card'[c].pauseRevision = pauseRevision[c]
             /\ card'[c].nextSequence = nextSequence[c]
      BY CardKept, CardShown
    <2> QED
      BY <2>1, <2>2
  <1>2. ASSUME NEW c \in Conversations, PressButton(i, c)
        PROVE  /\ cmd'[i].kind = "recover" /\ cmd'[i].thread = c
               /\ offer'[i].pauseRevision = card'[c].pauseRevision
               /\ offer'[i].nextSequence = card'[c].nextSequence
    BY <1>2 DEF PressButton, Asked, CommandsAddressed
  <1>3. CASE \E c \in Conversations : PressButton(i, c)
    BY <1>1, <1>2, <1>3
  <1>4. CASE ~ \E c \in Conversations : PressButton(i, c)
    <2>1. cmd'[i] = cmd[i] /\ offer'[i] = offer[i]
      BY <1>4, ButtonMoves
    <2>2. /\ cmd[i].kind = "recover" /\ cmd[i].thread \in Conversations
          /\ offer[i].pauseRevision <= card[cmd[i].thread].pauseRevision
          /\ offer[i].nextSequence <= card[cmd[i].thread].nextSequence
      BY <2>1 DEF ButtonCurrent
    <2>3. offer[i].pauseRevision \in Nat /\ offer[i].nextSequence \in Nat
      BY DEF TypeOK, Offer
    <2> QED
      BY <1>1, <2>1, <2>2, <2>3
  <1> QED
    BY <1>3, <1>4

LEMMA CardStep ==
    ASSUME GatewayInv, CardInv, [GatewayNext]_gateway
    PROVE  CardInv'
  <1>1. /\ TypeOK /\ RecordsAgree /\ CommandsAddressed
        /\ card \in [Conversations -> Card]
    BY DEF GatewayInv, DispatchInv, GatewayTypeOK
  <1>2. [Next]_vars
    BY <1>1, StoreStep
  <1>3. \A c \in Conversations : CardCurrent(c)'
    BY <1>1, <1>2, CardCurrentStep DEF CardInv
  <1>4. \A i \in Interactions : ButtonCurrent(i)'
    BY <1>1, ButtonCurrentStep DEF CardInv
  <1> QED
    BY <1>3, <1>4 DEF CardInv

\* What a worker that waits for its backup records is the recovery.
LEMMA BackupApplies ==
    ASSUME TypeOK, CommandsAddressed, [GatewayNext]_gateway,
           NEW i \in Interactions, ButtonCurrent(i), cmd[i].step = "backup",
           Applied(i)
    PROVE  RecoverDirectUnknown(i, cmd[i].thread)
  <1>1. cmd[i].kind = "recover"
    BY DEF ButtonCurrent
  <1>2. operation'[i] # operation[i] /\ operation'[i].state = "APPLIED"
    BY DEF Applied
  <1>3. ~ (\/ Admission \/ BootFences
           \/ \E r \in Requests :
                 JobNext(r) \/ CodexNext(r) \/ OperatorAbandons(r))
    BY <1>2, WorkIsPlain, PlainKeepsControls DEF OperationKept
  <1>4. ~BootRecovers
    <2>1. SUFFICES ASSUME BootRecovers
                   PROVE  FALSE
      OBVIOUS
    <2>2. operation'[i] = [operation[i] EXCEPT !.state = "SUPERSEDED"]
      BY <1>2, <2>1 DEF BootRecovers, StartupRecover
    <2> QED
      BY <1>2, <2>2 DEF TypeOK, Operation
  <1>5. /\ ~Crash
        /\ ~ \E c \in Conversations : ShowCard(c)
        /\ ~UNCHANGED gateway
    BY <1>2 DEF Crash, ShowCard, gateway, vars
  <1>6. ASSUME NEW j \in Interactions, j # i,
               \/ ActorControls(j) \/ StoreControls(j) \/ ControlTimesOut(j)
               \/ ResumeApplies(j) \/ BackupTaken(j)
               \/ \E c \in Conversations : \/ ControlArrives(j, c)
                                           \/ ResumeArrives(j, c)
                                           \/ PressButton(j, c)
        PROVE  FALSE
    <2>1. CASE ActorControls(j) \/ StoreControls(j)
      BY <1>2, <1>6, <2>1 DEF ActorControls, StoreControls, Control, Stop,
         CancelLatest, RecordOperation, TypeOK
    <2>2. CASE ControlTimesOut(j)
      BY <1>2, <2>2 DEF ControlTimesOut, vars
    <2>3. CASE ResumeApplies(j)
      BY <1>2, <1>6, <2>3 DEF ResumeApplies, ApplyResume, TypeOK
    <2>4. CASE BackupTaken(j)
      BY <1>2, <1>6, <2>4 DEF BackupTaken, RecoverDirectUnknown,
         RecordOperation, TypeOK
    <2>5. ASSUME NEW c \in Conversations,
                 \/ ControlArrives(j, c) \/ ResumeArrives(j, c)
                 \/ PressButton(j, c)
          PROVE  FALSE
      BY <1>2, <1>6, <2>5 DEF ControlArrives, ResumeArrives, PressButton,
         ReserveResume, ReadRecoveryOffer, RecordOperation, vars, TypeOK
    <2> QED
      BY <1>6, <2>1, <2>2, <2>3, <2>4, <2>5
  <1>7. /\ ~ActorControls(i) /\ ~StoreControls(i) /\ ~ControlTimesOut(i)
        /\ ~ResumeApplies(i)
        /\ \A c \in Conversations : /\ ~ControlArrives(i, c)
                                    /\ ~ResumeArrives(i, c)
                                    /\ ~PressButton(i, c)
    BY <1>1 DEF ActorControls, StoreControls, ControlTimesOut, ResumeApplies,
       ControlArrives, ResumeArrives, PressButton, Asked
  <1>8. BackupTaken(i)
    BY <1>3, <1>4, <1>5, <1>6, <1>7 DEF GatewayNext, CommandNext
  <1> QED
    BY <1>8 DEF BackupTaken

LEMMA ButtonStep ==
    ASSUME GatewayInv, CardInv, [GatewayNext]_gateway,
           NEW i \in Interactions, cmd[i].step = "backup", Applied(i)
    PROVE  LET c == cmd[i].thread IN
           /\ card[c].stopsSeen = stops[c]
           /\ WaitingIn(c) \subseteq card[c].shown
  <1>1. /\ TypeOK /\ CommandsAddressed /\ ButtonCurrent(i)
        /\ card \in [Conversations -> Card]
    BY DEF GatewayInv, GatewayTypeOK, CardInv
  <1>2. PICK c \in Conversations : c = cmd[i].thread
    BY <1>1 DEF ButtonCurrent
  <1>3. CardCurrent(c)
    BY DEF CardInv
  <1>4. RecoverDirectUnknown(i, c)
    BY <1>1, <1>2, BackupApplies
  <1>5. /\ pauseRevision[c] = offer[i].pauseRevision
        /\ nextSequence[c] = offer[i].nextSequence
    BY <1>4 DEF RecoverDirectUnknown
  <1>6. /\ offer[i].pauseRevision <= card[c].pauseRevision
        /\ offer[i].nextSequence <= card[c].nextSequence
    BY <1>1, <1>2 DEF ButtonCurrent
  <1>7. /\ pauseRevision[c] \in Nat /\ nextSequence[c] \in Nat
        /\ card[c].pauseRevision \in Nat /\ card[c].nextSequence \in Nat
    BY <1>1 DEF TypeOK, Card
  <1>8. /\ card[c].pauseRevision = pauseRevision[c]
        /\ card[c].nextSequence = nextSequence[c]
    BY <1>3, <1>5, <1>6, <1>7 DEF CardCurrent
  <1> QED
    BY <1>2, <1>3, <1>8 DEF CardCurrent

\* The recovery button does no more than its card said: whatever is posted,
\* stopped, recovered or shown between the card, the button and the backup,
\* a recovery it records withdraws only messages the card has counted and
\* lifts no /stop the card has not seen.
THEOREM ButtonKeepsWord == GatewaySpec => ButtonAsShown
  <1>1. GatewayInv /\ CardInv /\ [GatewayNext]_<<vars, gatewayVars>>
           => CardInv'
    BY CardStep DEF gateway
  <1>2. GatewayInv /\ CardInv /\ [GatewayNext]_<<vars, gatewayVars>> =>
           [\A i \in Interactions :
               cmd[i].step = "backup" /\ Applied(i) =>
                  LET c == cmd[i].thread IN
                  /\ card[c].stopsSeen = stops[c]
                  /\ WaitingIn(c) \subseteq card[c].shown]_<<vars, gatewayVars>>
    BY ButtonStep DEF gateway
  <1> QED
    BY <1>1, <1>2, CardInit, GatewayInvariant, PTL DEF GatewaySpec,
       ButtonAsShown

-----------------------------------------------------------------------------
(***************************************************************************)
(* Who settles what is in flight.  The job does while it drives its        *)
(* request; a dropped run leaves its fence behind.  Both can fail, but     *)
(* each failure is a lost store call: after one, what is left has not      *)
(* failed yet, and after two there may be nobody.                          *)
(***************************************************************************)

Owned(r) ==
    \/ job[r] \in Driving
    \/ job[r] = "boundary" /\ faults >= 1
    \/ job[r] \in {"aborted", "settling"} /\ faults >= 1
    \/ r \in dropped /\ (job[r] \in {"aborted", "settling"} \/ faults >= 1)

OwnedInv ==
    boot = "up" /\ faults <= 1 =>
        \A r \in Requests : state[r] \in Active => Owned(r)

\* What was not in flight is not, and what was keeps who settles it.
Passes(q) ==
    /\ boot' = "up" => boot = "up"
    /\ job'[q] = job[q]
    /\ q \in dropped' <=> q \in dropped
    /\ state'[q] \in Active => state[q] \in Active

LEMMA FaultsGrow ==
    ASSUME GatewayTypeOK, [GatewayNext]_gateway
    PROVE  faults \in Nat /\ faults' \in {faults, faults + 1}
  <1>0. faults \in Nat
    BY BoundsType DEF GatewayTypeOK
  <1>1. ASSUME NEW r \in Requests,
               JobNext(r) \/ CodexNext(r) \/ OperatorAbandons(r)
        PROVE  faults' \in {faults, faults + 1}
    BY <1>1 DEF JobNext, CodexNext, OperatorAbandons, Schedule, InputChanged,
       StartFails, Prepare, SendBegins, SendRefused, SendBeginFails,
       BoundaryFenced, DriveFails, TurnRequested, TurnAccepted, SendFails,
       ActorStarts, ActorNotStarted, ApprovalAsked, RuntimeLost, ActorFails,
       TurnConfirmed, DeliveryEnds, Unregister, JobSettles, DropFenced,
       TurnStarts, TurnEnds, StoreFault, gatewayVars, boundVars
  <1>2. ASSUME CommandNext
        PROVE  faults' = faults
    BY <1>2 DEF CommandNext, ShowCard, ActorControls, StoreControls,
       ControlTimesOut, ResumeApplies, BackupTaken, ControlArrives,
       ResumeArrives, PressButton, boundVars
  <1>3. ASSUME \/ Admission \/ Crash \/ BootRecovers \/ BootFences
               \/ UNCHANGED gateway
        PROVE  faults' = faults
    BY <1>3 DEF Admission, Crash, BootRecovers, BootFences, gateway,
       gatewayVars, boundVars
  <1> QED
    BY <1>0, <1>1, <1>2, <1>3 DEF GatewayNext

LEMMA PassedOwned ==
    ASSUME GatewayTypeOK, OwnedInv, [GatewayNext]_gateway,
           boot' = "up", faults' <= 1,
           NEW q \in Requests, Passes(q), state'[q] \in Active
    PROVE  Owned(q)'
  <1>1. faults \in Nat /\ faults' \in {faults, faults + 1}
    BY FaultsGrow
  <1>2. Owned(q)
    BY <1>1 DEF OwnedInv, Passes
  <1> QED
    BY <1>1, <1>2 DEF Owned, Passes

\* The steps of another job.
LEMMA OtherJobPasses ==
    ASSUME GatewayTypeOK, NEW r \in Requests, JobNext(r) \/ CodexNext(r),
           NEW q \in Requests, q # r
    PROVE  Passes(q)
  <1> USE DEF GatewayTypeOK, TypeOK, Passes, Goes, vars, requestVars
  <1>1. CASE \/ Schedule(r) \/ StartFails(r) \/ SendRefused(r)
             \/ ActorStarts(r) \/ DeliveryEnds(r) \/ Unregister(r)
    BY <1>1 DEF Schedule, StartFails, SendRefused, ActorStarts, DeliveryEnds,
       Unregister
  <1>2. CASE InputChanged(r) \/ Prepare(r) \/ SendBegins(r)
    BY <1>2 DEF InputChanged, Prepare, SendBegins, FailDirectBeforeSend,
       PrepareDirect, BeginDirectSend
  <1>3. CASE SendBeginFails(r) \/ BoundaryFenced(r) \/ DriveFails(r)
    BY <1>3 DEF SendBeginFails, BoundaryFenced, DriveFails, BeginDirectSend,
       MarkDirectUnknown, FailDirectBeforeSend
  <1>4. CASE TurnRequested(r) \/ TurnAccepted(r)
    BY <1>4 DEF TurnRequested, TurnAccepted, RecordDirectThread,
       AcknowledgeDirectTurn
  <1>5. CASE SendFails(r) \/ ActorNotStarted(r) \/ ActorFails(r)
    BY <1>5 DEF SendFails, ActorNotStarted, ActorFails, MarkDirectUnknown
  <1>6. CASE ApprovalAsked(r)
    BY <1>6 DEF ApprovalAsked, RequireApproval, ResolveApproval, gatewayVars,
       jobVars
  <1>7. CASE RuntimeLost(r) \/ TurnConfirmed(r)
    BY <1>7 DEF RuntimeLost, TurnConfirmed, MarkDirectUnknown, FinishDirect
  <1>8. CASE JobSettles(r) \/ DropFenced(r)
    BY <1>8 DEF JobSettles, DropFenced, MarkIfActive, MarkDirectUnknown
  <1>9. CASE TurnStarts(r) \/ TurnEnds(r)
    BY <1>9 DEF TurnStarts, TurnEnds
  <1> QED
    BY <1>1, <1>2, <1>3, <1>4, <1>5, <1>6, <1>7, <1>8, <1>9
       DEF JobNext, CodexNext

\* Neither admission nor a command puts anything in flight.
LEMMA CommandPasses ==
    ASSUME GatewayTypeOK, NEW q \in Requests,
           \/ Admission \/ CommandNext \/ UNCHANGED gateway
           \/ \E r \in Requests : OperatorAbandons(r)
    PROVE  Passes(q)
  <1> USE DEF GatewayTypeOK, TypeOK, jobVars, requestVars
  <1>1. UNCHANGED <<boot, job, dropped>>
    BY DEF Admission, CommandNext, OperatorAbandons, ShowCard, ActorControls,
       StoreControls, ControlTimesOut, ResumeApplies, BackupTaken,
       ControlArrives, ResumeArrives, PressButton, gateway, gatewayVars
  <1>2. CASE Admission
    <2>1. state'[q] \in {state[q], "QUEUED"}
      BY <1>2 DEF Admission, Reserve, Finalize, RejectAdmission, Sweep
    <2> QED
      BY <1>1, <2>1 DEF Passes, Active
  <1>3. ASSUME NEW i \in Interactions, NEW c,
               CancelLatest(i, c) \/ RecoverDirectUnknown(i, c)
        PROVE  state'[q] \in {state[q], "CANCELLED"}
    BY <1>3 DEF CancelLatest, RecoverDirectUnknown
  <1>4. ASSUME NEW i \in Interactions,
               ActorControls(i) \/ StoreControls(i) \/ BackupTaken(i)
        PROVE  state'[q] \in {state[q], "CANCELLED"}
    BY <1>3, <1>4 DEF ActorControls, StoreControls, BackupTaken, Control, Stop
  <1>5. ASSUME \/ \E c \in Conversations : ShowCard(c)
               \/ \E i \in Interactions :
                     \/ ControlTimesOut(i) \/ ResumeApplies(i)
                     \/ \E c \in Conversations : \/ ControlArrives(i, c)
                                                 \/ ResumeArrives(i, c)
                                                 \/ PressButton(i, c)
               \/ \E r \in Requests : OperatorAbandons(r)
               \/ UNCHANGED gateway
        PROVE  UNCHANGED state
    BY <1>5 DEF ShowCard, ControlTimesOut, ResumeApplies, ControlArrives,
       ResumeArrives, PressButton, OperatorAbandons, ApplyResume,
       ReserveResume, ReadRecoveryOffer, AbandonDirectUnknown, gateway, vars
  <1> QED
    BY <1>1, <1>2, <1>4, <1>5 DEF Passes, CommandNext, Active

\* The job's own steps on its way to the turn.
LEMMA StartOwned ==
    ASSUME GatewayInv, OwnedInv, [GatewayNext]_gateway,
           boot' = "up", faults' <= 1,
           NEW q \in Requests, state'[q] \in Active,
           \/ Schedule(q) \/ InputChanged(q) \/ StartFails(q) \/ Prepare(q)
           \/ SendBegins(q) \/ SendRefused(q) \/ SendBeginFails(q)
           \/ BoundaryFenced(q) \/ DriveFails(q)
    PROVE  Owned(q)'
  <1>1. /\ faults \in Nat /\ faults' \in {faults, faults + 1}
        /\ job \in [Requests -> JobStep] /\ TypeOK /\ JobMatches(q)
    BY FaultsGrow DEF GatewayInv, GatewayTypeOK
  <1>2. boot = "up" /\ faults <= 1
    BY <1>1 DEF Schedule, InputChanged, StartFails, Prepare, SendBegins,
       SendRefused, SendBeginFails, BoundaryFenced, DriveFails
  <1>3. state[q] \in Active => Owned(q)
    BY <1>2 DEF OwnedInv
  <1> USE DEF Owned, Driving, Over, JobMatches, Goes, Active
  <1>4. CASE Schedule(q)
    BY <1>1, <1>4 DEF Schedule, Candidates, vars, requestVars
  <1>5. CASE InputChanged(q)
    BY <1>1, <1>5 DEF InputChanged, FailDirectBeforeSend, TypeOK
  <1>6. CASE StartFails(q) \/ SendRefused(q) \/ Prepare(q)
    <2>1. UNCHANGED <<state, faults, dropped>>
      BY <1>6 DEF StartFails, SendRefused, Prepare, PrepareDirect, vars,
         requestVars, boundVars
    <2>2. /\ job[q] \in {"checking", "prepared"}
          /\ job'[q] \in {"failing", "refused", "prepared"}
      BY <1>1, <1>6 DEF StartFails, SendRefused, Prepare
    <2> QED
      BY <1>3, <2>1, <2>2
  <1>7. CASE SendBegins(q)
    BY <1>1, <1>7 DEF SendBegins
  <1>8. CASE SendBeginFails(q)
    <2>1. faults' = faults + 1 /\ UNCHANGED dropped
      BY <1>8 DEF SendBeginFails, StoreFault
    <2>2. \/ /\ job[q] = "prepared" /\ job'[q] = "failing" /\ UNCHANGED state
          \/ job'[q] = "boundary"
      BY <1>1, <1>8 DEF SendBeginFails, vars, requestVars
    <2> QED
      BY <1>1, <1>3, <2>1, <2>2
  <1>9. CASE BoundaryFenced(q)
    <2>1. \/ state'[q] = "UNKNOWN"
          \/ /\ faults' = faults + 1 /\ UNCHANGED <<state, dropped>>
             /\ job[q] = "boundary" /\ job'[q] = "failing"
      BY <1>1, <1>9 DEF BoundaryFenced, MarkDirectUnknown, StoreFault, TypeOK,
         vars, requestVars
    <2> QED
      BY <1>1, <1>3, <2>1
  <1>10. CASE DriveFails(q)
    <2>1. \/ state'[q] = "FAILED"
          \/ /\ UNCHANGED <<state, dropped>>
             /\ job[q] \in {"failing", "refused"} /\ job'[q] = "none"
      BY <1>1, <1>10 DEF DriveFails, FailDirectBeforeSend, TypeOK, vars,
         requestVars
    <2> QED
      BY <1>1, <1>3, <2>1
  <1> QED
    BY <1>4, <1>5, <1>6, <1>7, <1>8, <1>9, <1>10

\* The steps of a job with a turn, and what comes after it.
LEMMA EndOwned ==
    ASSUME GatewayInv, OwnedInv, [GatewayNext]_gateway,
           boot' = "up", faults' <= 1,
           NEW q \in Requests, state'[q] \in Active,
           \/ TurnRequested(q) \/ TurnStarts(q) \/ TurnEnds(q)
           \/ TurnAccepted(q) \/ SendFails(q) \/ ActorStarts(q)
           \/ ActorNotStarted(q) \/ ApprovalAsked(q) \/ RuntimeLost(q)
           \/ ActorFails(q) \/ TurnConfirmed(q) \/ DeliveryEnds(q)
           \/ Unregister(q) \/ JobSettles(q) \/ DropFenced(q)
    PROVE  Owned(q)'
  <1>1. /\ faults \in Nat /\ faults' \in {faults, faults + 1}
        /\ job \in [Requests -> JobStep] /\ TypeOK /\ JobMatches(q)
    BY FaultsGrow DEF GatewayInv, GatewayTypeOK
  <1>2. boot = "up" /\ faults <= 1
    BY <1>1 DEF TurnRequested, TurnStarts, TurnEnds, TurnAccepted, SendFails,
       ActorStarts, ActorNotStarted, ApprovalAsked, RuntimeLost, ActorFails,
       TurnConfirmed, DeliveryEnds, Unregister, JobSettles, DropFenced,
       gatewayVars
  <1>3. state[q] \in Active => Owned(q)
    BY <1>2 DEF OwnedInv
  <1> USE DEF Owned, Driving, Over, JobMatches, Goes, Active
  <1>4. CASE \/ TurnRequested(q) \/ TurnAccepted(q) \/ ActorStarts(q)
             \/ ApprovalAsked(q)
    BY <1>1, <1>4 DEF TurnRequested, TurnAccepted, ActorStarts,
       ApprovalAsked, gatewayVars, jobVars
  <1>5. CASE TurnStarts(q) \/ TurnEnds(q)
    BY <1>1, <1>3, <1>5 DEF TurnStarts, TurnEnds, vars, requestVars, boundVars
  <1>6. CASE SendFails(q)
    <2>1. state'[q] = "UNKNOWN" \/ (faults' = faults + 1 /\ q \in dropped')
      BY <1>1, <1>6 DEF SendFails, MarkDirectUnknown, StoreFault, TypeOK
    <2> QED
      BY <1>1, <2>1
  <1>7. CASE ActorNotStarted(q)
    BY <1>1, <1>7 DEF ActorNotStarted, StoreFault
  <1>8. CASE RuntimeLost(q)
    BY <1>1, <1>8 DEF RuntimeLost, MarkDirectUnknown, TypeOK
  <1>9. CASE ActorFails(q)
    BY <1>1, <1>9 DEF ActorFails
  <1>10. CASE TurnConfirmed(q)
    <2>1. state'[q] \in Terminal
      BY <1>1, <1>10 DEF TurnConfirmed, FinishDirect, TypeOK
    <2> QED
      BY <2>1 DEF Terminal
  <1>11. CASE DeliveryEnds(q) \/ Unregister(q)
    <2>1. UNCHANGED <<state, faults, dropped>>
      BY <1>11 DEF DeliveryEnds, Unregister, vars, requestVars, boundVars
    <2>2. \/ job[q] \in {"delivering", "ending"} /\ job'[q] \in {"ending", "none"}
          \/ job[q] = "aborted" /\ job'[q] = "settling"
      BY <1>1, <1>11 DEF DeliveryEnds, Unregister
    <2> QED
      BY <1>3, <2>1, <2>2
  <1>12. CASE JobSettles(q)
    <2>1. \/ state'[q] \notin Active
          \/ /\ faults' = faults + 1 /\ UNCHANGED <<state, dropped>>
             /\ job[q] = "settling" /\ job'[q] = "none"
      BY <1>1, <1>12 DEF JobSettles, MarkIfActive, MarkDirectUnknown,
         StoreFault, TypeOK, vars, requestVars
    <2> QED
      BY <1>1, <1>3, <2>1
  <1>13. CASE DropFenced(q)
    <2>1. \/ state'[q] \notin Active
          \/ (faults' = faults + 1 /\ UNCHANGED <<state, job>> /\ q \in dropped)
      BY <1>1, <1>13 DEF DropFenced, MarkIfActive, MarkDirectUnknown,
         StoreFault, TypeOK, vars, requestVars
    <2> QED
      BY <1>1, <1>3, <2>1
  <1> QED
    BY <1>4, <1>5, <1>6, <1>7, <1>8, <1>9, <1>10, <1>11, <1>12, <1>13

LEMMA OwnedStep ==
    ASSUME GatewayInv, OwnedInv, [GatewayNext]_gateway
    PROVE  OwnedInv'
  <1>0. GatewayTypeOK /\ TypeOK /\ RecordsAgree
    BY DEF GatewayInv, DispatchInv, GatewayTypeOK
  <1> SUFFICES ASSUME boot' = "up", faults' <= 1,
                      NEW q \in Requests, state'[q] \in Active
               PROVE  Owned(q)'
    BY DEF OwnedInv
  <1>1. CASE Admission \/ CommandNext \/ UNCHANGED gateway
             \/ \E r \in Requests : OperatorAbandons(r)
    BY <1>0, <1>1, CommandPasses, PassedOwned
  <1>2. ASSUME NEW r \in Requests, JobNext(r) \/ CodexNext(r), r # q
        PROVE  Owned(q)'
    BY <1>0, <1>2, OtherJobPasses, PassedOwned
  <1>3. CASE JobNext(q) \/ CodexNext(q)
    BY <1>3, StartOwned, EndOwned DEF JobNext, CodexNext
  <1>4. ~Crash /\ ~BootRecovers
    BY DEF Crash, BootRecovers
  <1>5. ~BootFences
    \* The fence leaves nothing in flight.
    <2>1. SUFFICES ASSUME FenceDirectAfterRestart
                   PROVE  FALSE
      BY DEF BootFences
    <2>2. state'[q] = IF /\ sendState[q] \in {"SENDING", "ACKED"}
                         /\ state[q] \notin Terminal
                      THEN "UNKNOWN" ELSE state[q]
      BY <2>1 DEF FenceDirectAfterRestart
    <2>3. state[q] \in Active => sendState[q] \in {"SENDING", "ACKED"}
      BY <1>0 DEF RecordsAgree, Active
    <2> QED
      BY <2>2, <2>3 DEF Active, Terminal
  <1> QED
    BY <1>1, <1>2, <1>3, <1>4, <1>5 DEF GatewayNext

\* As long as no more than one store call was lost, however many were made
\* and whatever else fails or crashes, every execution in flight has a job or
\* a pending fence that will settle it.  (Two lost calls can leave one that
\* nobody settles before the next restart.)
THEOREM InFlightSettled == GatewaySpec => [](faults <= 1 => InFlightOwned)
  <1>1. GatewayInit => OwnedInv
    BY DEF GatewayInit, Init, OwnedInv, Active
  <1>2. GatewayInv /\ OwnedInv /\ [GatewayNext]_<<vars, gatewayVars>>
           => OwnedInv'
    BY OwnedStep DEF gateway
  <1>3. OwnedInv => (faults <= 1 => InFlightOwned)
    BY DEF OwnedInv, InFlightOwned, Owned, Driving
  <1> QED
    BY <1>1, <1>2, <1>3, GatewayInvariant, PTL DEF GatewaySpec

=============================================================================
