---------------------------- MODULE DirectGateway ----------------------------
(***************************************************************************)
(* The running Direct Gateway around the store: start-up, the scheduler,   *)
(* one job per dispatched request (DirectCoordinator::drive with           *)
(* DirectRunService and the run actor), the Codex child of each job, the   *)
(* table of live runs, and the commands of the user.  Every step does at   *)
(* most one transaction of DirectStore, so the daemon is one particular    *)
(* caller of it.                                                           *)
(*                                                                         *)
(* A job owns its Codex child (the lease); when the job lets go of it the  *)
(* child is killed and its turn is cut.  A store call may fail with or     *)
(* without having committed; MaxFaults bounds how often.  A failed Codex   *)
(* call, a failed Discord call and a failed input check are not bounded.   *)
(* A crash loses everything but the store, the cards in Discord and what   *)
(* Codex has already done.                                                 *)
(***************************************************************************)
EXTENDS DirectStore

CONSTANTS
    MaxFaults,   \* bound: store calls that fail
    MaxCrashes   \* bound: crashes and restarts

ASSUME BoundsType == MaxFaults \in Nat /\ MaxCrashes \in Nat

VARIABLES
    boot,       \* how far run() has come: "down", "recovered", "up"
    job,        \* where the job that drives a request is
    active,     \* DirectCoordinator.active: the live run of a conversation
    codexTurn,  \* the turn in the Codex child
    dropped,    \* runs dropped while armed: UnknownOnDrop tasks to be run
    cmd,        \* the worker that serves a Discord interaction
    card,       \* the recovery card last shown in a conversation
    interrupted,\* turns that were sent a turn/interrupt
    faults,     \* store calls that have failed so far
    crashes     \* crashes so far

jobVars     == <<job, active, codexTurn, dropped>>
commandVars == <<cmd, card, interrupted>>
boundVars   == <<faults, crashes>>
gatewayVars == <<boot, jobVars, commandVars, boundVars>>

-----------------------------------------------------------------------------
\* Types.

\* A job that has a Codex child, and one that has none (any more).
Leased  == {"prepared", "boundary", "starting", "turn", "acked", "serving",
            "delivering"}
JobStep == Leased \cup {"none", "checking", "failing", "refused", "ending",
                        "aborted", "settling"}

CodexTurn == {"none", "requested", "running", "ended", "cut"}

Command == [kind    : {"none", "stop", "cancel", "resume", "recover"},
            thread  : Conversations \cup {None},
            actor   : Requests \cup {None},
            step    : {"none", "asked", "late", "reserved", "backup", "done"}]

NoCommand == [kind |-> "none", thread |-> None, actor |-> None,
              step |-> "none"]

\* The custom id of the recovery button; shown and stopsSeen are history.
Card == [request       : Requests \cup {None},
         pauseRevision : Nat,
         nextSequence  : Nat,
         shown         : SUBSET Requests,
         stopsSeen     : Nat]

NoCard == [request |-> None, pauseRevision |-> 0, nextSequence |-> 0,
           shown |-> {}, stopsSeen |-> 0]

\* Every variable of the daemon keeps its domain, and only a started daemon
\* has jobs, live runs and dropped runs.
GatewayTypeOK ==
    /\ TypeOK
    /\ boot \in {"down", "recovered", "up"}
    /\ job \in [Requests -> JobStep]
    /\ active \in [Conversations -> Requests \cup {None}]
    /\ codexTurn \in [Requests -> CodexTurn]
    /\ dropped \subseteq Requests
    /\ cmd \in [Interactions -> Command]
    /\ card \in [Conversations -> Card]
    /\ interrupted \subseteq Requests
    /\ faults \in 0 .. MaxFaults
    /\ crashes \in 0 .. MaxCrashes
    /\ boot # "up" => /\ \A r \in Requests : job[r] = "none"
                      /\ \A c \in Conversations : active[c] = None
                      /\ dropped = {}

GatewayInit ==
    /\ Init
    /\ boot = "up"
    /\ job = [r \in Requests |-> "none"]
    /\ active = [c \in Conversations |-> None]
    /\ codexTurn = [r \in Requests |-> "none"]
    /\ dropped = {}
    /\ cmd = [i \in Interactions |-> NoCommand]
    /\ card = [c \in Conversations |-> NoCard]
    /\ interrupted = {}
    /\ faults = 0
    /\ crashes = 0

-----------------------------------------------------------------------------
\* Helpers.

Jobs == {r \in Requests : job[r] # "none"}

\* The job of r goes on from one of the steps S to step t.
Goes(r, S, t) == /\ job[r] \in S
                 /\ job' = [job EXCEPT ![r] = t]

\* The child of r is gone, and with it a turn that has not ended.
Cut(r) == codexTurn' = [codexTurn EXCEPT ![r] =
                           IF @ \in {"requested", "running"} THEN "cut" ELSE @]

StoreFault == faults < MaxFaults /\ faults' = faults + 1

\* mark_direct_unknown where it may be refused and the caller does not care.
MarkIfActive(r) == IF state[r] \in Active THEN MarkDirectUnknown(r)
                   ELSE UNCHANGED vars

-----------------------------------------------------------------------------
(***************************************************************************)
(* Admission (admit_loop, admit_message) and the sweeper.                  *)
(***************************************************************************)

Admission ==
    /\ boot = "up"
    /\ \/ \E r \in Requests : Reserve(r) \/ Finalize(r) \/ RejectAdmission(r)
       \/ \E S \in SUBSET Requests : Sweep(S)
    /\ UNCHANGED gatewayVars

-----------------------------------------------------------------------------
(***************************************************************************)
(* Scheduling and the way to the send boundary (scheduler_loop,            *)
(* start_queued, DirectRunService::start).                                 *)
(***************************************************************************)

Schedule(r) ==
    /\ boot = "up"
    /\ r \in Candidates
    /\ Cardinality(Jobs) < Capacity
    /\ Goes(r, {"none"}, "checking")
    /\ UNCHANGED <<vars, boot, active, codexTurn, dropped, commandVars,
                   boundVars>>

\* The message changed since it was admitted.
InputChanged(r) ==
    /\ Goes(r, {"checking"}, "failing")
    /\ FailDirectBeforeSend(r)
    /\ UNCHANGED <<boot, active, codexTurn, dropped, commandVars, boundVars>>

\* The request left the queue, Discord did not answer, or no child started.
StartFails(r) ==
    /\ Goes(r, {"checking"}, "failing")
    /\ UNCHANGED <<vars, boot, active, codexTurn, dropped, commandVars,
                   boundVars>>

\* prepare_direct returns the intent it has, or records a new one.
Prepare(r) ==
    /\ Goes(r, {"checking"}, "prepared")
    /\ \/ PrepareDirect(r)
       \/ /\ state[r] = "QUEUED" /\ sendState[r] = "PREPARED"
          /\ UNCHANGED vars
    /\ UNCHANGED <<boot, active, codexTurn, dropped, commandVars, boundVars>>

SendBegins(r) ==
    /\ Goes(r, {"prepared"}, "starting")
    /\ BeginDirectSend(r)
    /\ UNCHANGED <<boot, active, codexTurn, dropped, commandVars, boundVars>>

SendRefused(r) ==
    /\ Goes(r, {"prepared"}, "refused")
    /\ ~Sendable(r)
    /\ UNCHANGED <<vars, boot, active, codexTurn, dropped, commandVars,
                   boundVars>>

\* begin_direct_send returns an error: it has not committed, or it has (its
\* answer was lost, or the workspace changed).
SendBeginFails(r) ==
    /\ \/ Goes(r, {"prepared"}, "failing") /\ UNCHANGED vars
       \/ Goes(r, {"prepared"}, "boundary") /\ BeginDirectSend(r)
    /\ StoreFault
    /\ UNCHANGED <<boot, active, codexTurn, dropped, commandVars, crashes>>

\* Behind a failed begin_direct_send the request is read back and fenced.
\* There is no UnknownOnDrop yet.
BoundaryFenced(r) ==
    /\ Goes(r, {"boundary"}, "failing")
    /\ \/ MarkDirectUnknown(r) /\ UNCHANGED faults
       \/ StoreFault /\ UNCHANGED vars
    /\ UNCHANGED <<boot, active, codexTurn, dropped, commandVars, crashes>>

\* drive() after an error of start_queued: what is still queued has failed.
DriveFails(r) ==
    /\ Goes(r, {"failing", "refused"}, "none")
    /\ \/ FailDirectBeforeSend(r) /\ UNCHANGED faults
       \/ state[r] # "QUEUED" /\ UNCHANGED <<vars, faults>>
       \/ StoreFault /\ UNCHANGED vars
    /\ UNCHANGED <<boot, active, codexTurn, dropped, commandVars, crashes>>

-----------------------------------------------------------------------------
(***************************************************************************)
(* Behind the send boundary: thread/start or thread/resume, turn/start.    *)
(***************************************************************************)

\* The thread the child works in: the bound one, or the one it just started.
ChildThread(r) == IF codexThread[ThreadOf[r]] = None
                  THEN r ELSE codexThread[ThreadOf[r]]

\* The thread is recorded, then turn/start is written to the child.
TurnRequested(r) ==
    /\ Goes(r, {"starting"}, "turn")
    /\ RecordDirectThread(r, ChildThread(r))
    /\ codexTurn' = [codexTurn EXCEPT ![r] = "requested"]
    /\ UNCHANGED <<boot, active, dropped, commandVars, boundVars>>

\* What the child does on its own.
TurnStarts(r) ==
    /\ codexTurn[r] = "requested"
    /\ codexTurn' = [codexTurn EXCEPT ![r] = "running"]
    /\ UNCHANGED <<vars, boot, job, active, dropped, commandVars, boundVars>>

TurnEnds(r) ==
    /\ codexTurn[r] = "running"
    /\ codexTurn' = [codexTurn EXCEPT ![r] = "ended"]
    /\ UNCHANGED <<vars, boot, job, active, dropped, commandVars, boundVars>>

TurnAccepted(r) ==
    /\ codexTurn[r] \in {"running", "ended"}
    /\ AcknowledgeDirectTurn(r, ChildThread(r))
    /\ \/ Goes(r, {"turn"}, "acked") /\ UNCHANGED faults
       \/ Goes(r, {"turn"}, "turn") /\ StoreFault
    /\ UNCHANGED <<boot, active, codexTurn, dropped, commandVars, crashes>>

\* Mutant: the run is disarmed although its fence was not recorded.
SendFails_Disarmed(r) ==
    /\ Goes(r, {"starting", "turn"}, "failing")
    /\ Cut(r)
    /\ \/ MarkDirectUnknown(r) /\ UNCHANGED faults
       \/ StoreFault /\ UNCHANGED vars
    /\ UNCHANGED <<boot, active, dropped, commandVars, crashes>>

\* A call to the child failed or was not answered, or its result could not
\* be recorded: the request is fenced and the child dropped.
SendFails(r) ==
    /\ Goes(r, {"starting", "turn"}, "failing")
    /\ Cut(r)
    /\ \/ MarkDirectUnknown(r) /\ UNCHANGED <<dropped, faults>>
       \/ StoreFault /\ dropped' = dropped \cup {r} /\ UNCHANGED vars
    /\ UNCHANGED <<boot, active, commandVars, crashes>>

\* drive() starts the actor and registers it, or fails to read the request
\* and drops the run.
ActorStarts(r) ==
    /\ Goes(r, {"acked"}, "serving")
    /\ active' = [active EXCEPT ![ThreadOf[r]] = r]
    /\ UNCHANGED <<vars, boot, codexTurn, dropped, commandVars, boundVars>>

ActorNotStarted(r) ==
    /\ Goes(r, {"acked"}, "none")
    /\ Cut(r)
    /\ dropped' = dropped \cup {r}
    /\ StoreFault
    /\ UNCHANGED <<vars, boot, active, commandVars, crashes>>

-----------------------------------------------------------------------------
(***************************************************************************)
(* The run actor (serve) and the end of the job.                           *)
(***************************************************************************)

\* Codex asks for an approval, and is answered.
ApprovalAsked(r) ==
    /\ job[r] = "serving" /\ codexTurn[r] = "running"
    /\ RequireApproval(r) \/ ResolveApproval(r)
    /\ UNCHANGED gatewayVars

\* Mutant: the child outlives the actor that lost it.
RuntimeLost_LeaksChild(r) ==
    /\ Goes(r, {"serving"}, "ending")
    /\ MarkDirectUnknown(r)
    /\ UNCHANGED <<boot, active, codexTurn, dropped, commandVars, boundVars>>

\* The child closed its pipe or broke the protocol, or the content of an
\* ended turn could not be had within a minute.
RuntimeLost(r) ==
    /\ Goes(r, {"serving"}, "ending")
    /\ MarkDirectUnknown(r)
    /\ Cut(r)
    /\ UNCHANGED <<boot, active, dropped, commandVars, boundVars>>

\* The actor returned an error, or was aborted because an approval card or
\* a notice could not be posted.
ActorFails(r) ==
    /\ Goes(r, {"serving"}, "aborted")
    /\ Cut(r)
    /\ dropped' = dropped \cup {r}
    /\ UNCHANGED <<vars, boot, active, commandVars, boundVars>>

\* confirm_terminal read the turn back as ended and saved what it left.
TurnConfirmed(r) ==
    /\ codexTurn[r] = "ended"
    /\ \E status \in Terminal : FinishDirect(r, status)
    /\ \/ Goes(r, {"serving"}, "delivering") /\ UNCHANGED <<dropped, faults>>
       \/ /\ Goes(r, {"serving"}, "ending")
          /\ dropped' = dropped \cup {r}
          /\ StoreFault
    /\ UNCHANGED <<boot, active, codexTurn, commandVars, crashes>>

\* The answer and the images were posted, or could not be.
DeliveryEnds(r) ==
    /\ Goes(r, {"delivering"}, "ending")
    /\ UNCHANGED <<vars, boot, active, codexTurn, dropped, commandVars,
                   boundVars>>

\* drive() removes the entry of the conversation, whosever it is.
Unregister(r) ==
    /\ \/ Goes(r, {"ending"}, "none")
       \/ Goes(r, {"aborted"}, "settling")
    /\ active' = [active EXCEPT ![ThreadOf[r]] = None]
    /\ UNCHANGED <<vars, boot, codexTurn, dropped, commandVars, boundVars>>

\* drive() fences what its failed actor left behind.
JobSettles(r) ==
    /\ Goes(r, {"settling"}, "none")
    /\ \/ MarkIfActive(r) /\ UNCHANGED faults
       \/ StoreFault /\ UNCHANGED vars
    /\ UNCHANGED <<boot, active, codexTurn, dropped, commandVars, crashes>>

\* The task that UnknownOnDrop spawned; its result is ignored.
DropFenced(r) ==
    /\ r \in dropped
    /\ dropped' = dropped \ {r}
    /\ \/ MarkIfActive(r) /\ UNCHANGED faults
       \/ StoreFault /\ UNCHANGED vars
    /\ UNCHANGED <<boot, job, active, codexTurn, commandVars, crashes>>

-----------------------------------------------------------------------------
(***************************************************************************)
(* Commands.  /stop and /cancel go to the actor registered when they       *)
(* arrive, and to the store when there is none or it has gone.             *)
(***************************************************************************)

Asked(i, k, c, a, s) ==
    /\ boot = "up"
    /\ cmd[i].kind = "none"
    /\ cmd' = [cmd EXCEPT ![i] = [kind |-> k, thread |-> c, actor |-> a,
                                  step |-> s]]

ControlArrives(i, c) ==
    /\ \E k \in {"stop", "cancel"} : Asked(i, k, c, active[c], "asked")
    /\ UNCHANGED <<vars, boot, jobVars, card, interrupted, boundVars>>

\* The transaction of the control, and the execution it is aimed at.
Control(i) == LET c == cmd[i].thread IN
              \/ cmd[i].kind = "stop" /\ Stop(i, c)
              \/ cmd[i].kind = "cancel" /\ CancelLatest(i, c)
Aim(i) == LET c == cmd[i].thread IN
          IF cmd[i].kind = "cancel" /\ WaitingIn(c) # {}
          THEN {} ELSE Latest(HeldIn(c))

Answered(i) == cmd' = [cmd EXCEPT ![i].step = "done"]

\* Mutant: the control's target is not compared with the actor's request.
ActorControls_AnyTarget(i) ==
    LET r == cmd[i].actor IN
    /\ cmd[i].step \in {"asked", "late"}
    /\ r # None
    /\ job[r] = "serving"
    /\ Control(i)
    /\ interrupted' = interrupted \cup {r}
    /\ Answered(i)
    /\ UNCHANGED <<boot, jobVars, card, boundVars>>

\* The actor takes the control out of its mailbox.
ActorControls(i) ==
    LET r == cmd[i].actor IN
    /\ cmd[i].step \in {"asked", "late"}
    /\ r # None
    /\ job[r] = "serving"
    /\ Control(i)
    /\ interrupted' = interrupted \cup (Aim(i) \cap {r})
    /\ Answered(i)
    /\ UNCHANGED <<boot, jobVars, card, boundVars>>

\* No actor, or its mailbox is closed: only the store is changed.
StoreControls(i) ==
    LET r == cmd[i].actor IN
    /\ cmd[i].step = "asked"
    /\ r # None => job[r] \notin {"serving", "delivering"}
    /\ Control(i)
    /\ Answered(i)
    /\ UNCHANGED <<boot, jobVars, card, interrupted, boundVars>>

\* The user is told that the actor did not answer; the mail stays with it.
ControlTimesOut(i) ==
    /\ cmd[i].step = "asked" /\ cmd[i].actor # None
    /\ cmd' = [cmd EXCEPT ![i].step = "late"]
    /\ UNCHANGED <<vars, boot, jobVars, card, interrupted, boundVars>>

ResumeArrives(i, c) ==
    /\ Asked(i, "resume", c, None, "reserved")
    /\ ReserveResume(i, c)
    /\ UNCHANGED <<boot, jobVars, card, interrupted, boundVars>>

ResumeApplies(i) ==
    /\ cmd[i].step = "reserved"
    /\ ApplyResume(i)
    /\ Answered(i)
    /\ UNCHANGED <<boot, jobVars, card, interrupted, boundVars>>

-----------------------------------------------------------------------------
(***************************************************************************)
(* /recover shows a card; its button, pressed at any later time, reads the *)
(* offer again, takes a backup and recovers.                               *)
(***************************************************************************)

ShowCard(c) ==
    /\ boot = "up"
    /\ active[c] = None
    /\ ~Busy(c)
    /\ \E r \in PostedIn(c) :
          /\ Uncertain(r)
          /\ HeldIn(c) = {r}
          /\ card' = [card EXCEPT ![c] =
                [request       |-> r,
                 pauseRevision |-> pauseRevision[c],
                 nextSequence  |-> nextSequence[c],
                 shown         |-> QueuedIn(c),
                 stopsSeen     |-> stops[c]]]
    /\ UNCHANGED <<vars, boot, jobVars, cmd, interrupted, boundVars>>

\* Mutant: the button only names the request, not what the card had shown.
PressButton_AnyRevision(i, c) ==
    /\ card[c].request # None
    /\ Asked(i, "recover", c, None, "backup")
    /\ active[c] = None
    /\ ReadRecoveryOffer(i, c)
    /\ offer'[i].request = card[c].request
    /\ UNCHANGED <<boot, jobVars, card, interrupted, boundVars>>

PressButton(i, c) ==
    /\ card[c].request # None
    /\ Asked(i, "recover", c, None, "backup")
    /\ active[c] = None
    /\ ReadRecoveryOffer(i, c)
    /\ offer'[i].request = card[c].request
    /\ offer'[i].pauseRevision = card[c].pauseRevision
    /\ offer'[i].nextSequence = card[c].nextSequence
    /\ UNCHANGED <<boot, jobVars, card, interrupted, boundVars>>

BackupTaken(i) ==
    /\ cmd[i].step = "backup"
    /\ active[cmd[i].thread] = None
    /\ RecoverDirectUnknown(i, cmd[i].thread)
    /\ Answered(i)
    /\ UNCHANGED <<boot, jobVars, card, interrupted, boundVars>>

-----------------------------------------------------------------------------
(***************************************************************************)
(* Crash and start-up (run), and the operator's tool.                      *)
(***************************************************************************)

Crash ==
    /\ boot # "down"
    /\ crashes < MaxCrashes
    /\ boot' = "down"
    /\ job' = [r \in Requests |-> "none"]
    /\ active' = [c \in Conversations |-> None]
    /\ dropped' = {}
    /\ codexTurn' = [r \in Requests |->
                        IF codexTurn[r] \in {"requested", "running"}
                        THEN "cut" ELSE codexTurn[r]]
    /\ cmd' = [i \in Interactions |->
                  IF cmd[i].kind = "none" THEN cmd[i]
                  ELSE [cmd[i] EXCEPT !.step = "done"]]
    /\ crashes' = crashes + 1
    /\ UNCHANGED <<vars, card, interrupted, faults>>

BootRecovers ==
    /\ boot = "down"
    /\ boot' = "recovered"
    /\ StartupRecover
    /\ UNCHANGED <<jobVars, commandVars, boundVars>>

BootFences ==
    /\ boot = "recovered"
    /\ boot' = "up"
    /\ FenceDirectAfterRestart
    /\ UNCHANGED <<jobVars, commandVars, boundVars>>

\* `direct abandon` needs the state lock, so the daemon is not running.
OperatorAbandons(r) ==
    /\ boot = "down"
    /\ AbandonDirectUnknown(r)
    /\ UNCHANGED gatewayVars

-----------------------------------------------------------------------------
JobNext(r) ==
    \/ Schedule(r)
    \/ InputChanged(r)
    \/ StartFails(r)
    \/ Prepare(r)
    \/ SendBegins(r)
    \/ SendRefused(r)
    \/ SendBeginFails(r)
    \/ BoundaryFenced(r)
    \/ DriveFails(r)
    \/ TurnRequested(r)
    \/ TurnAccepted(r)
    \/ SendFails(r)
    \/ ActorStarts(r)
    \/ ActorNotStarted(r)
    \/ ApprovalAsked(r)
    \/ RuntimeLost(r)
    \/ ActorFails(r)
    \/ TurnConfirmed(r)
    \/ DeliveryEnds(r)
    \/ Unregister(r)
    \/ JobSettles(r)
    \/ DropFenced(r)

CodexNext(r) == TurnStarts(r) \/ TurnEnds(r)

CommandNext ==
    \/ \E c \in Conversations : ShowCard(c)
    \/ \E i \in Interactions :
          \/ ActorControls(i)
          \/ StoreControls(i)
          \/ ControlTimesOut(i)
          \/ ResumeApplies(i)
          \/ BackupTaken(i)
          \/ \E c \in Conversations :
                \/ ControlArrives(i, c)
                \/ ResumeArrives(i, c)
                \/ PressButton(i, c)

GatewayNext ==
    \/ Admission
    \/ \E r \in Requests : JobNext(r) \/ CodexNext(r) \/ OperatorAbandons(r)
    \/ CommandNext
    \/ Crash
    \/ BootRecovers
    \/ BootFences

GatewaySpec == GatewayInit /\ [][GatewayNext]_<<vars, gatewayVars>>

-----------------------------------------------------------------------------
(***************************************************************************)
(* Fairness.  The daemon's calls to the store, to Discord and to the child *)
(* all have a time limit, so whatever waits for one goes on.  An actor     *)
(* waits as long as its turn runs; of Codex nothing is assumed but that    *)
(* the turns it runs end.                                                  *)
(***************************************************************************)

\* The validation of a message ends: by a result, or by the sweeper.
AdmissionEnds(r) == /\ boot = "up"
                    /\ Finalize(r) \/ RejectAdmission(r) \/ Sweep({r})
                    /\ UNCHANGED gatewayVars

\* The job of r, from the scheduler to the send boundary and behind it.
StartGoesOn(r) == \/ InputChanged(r) \/ StartFails(r) \/ Prepare(r)
                  \/ SendBegins(r) \/ SendRefused(r) \/ SendBeginFails(r)
                  \/ BoundaryFenced(r) \/ DriveFails(r)
                  \/ TurnRequested(r) \/ TurnAccepted(r) \/ SendFails(r)
                  \/ ActorStarts(r) \/ ActorNotStarted(r)

\* The actor of a turn that is over, and the rest of drive().
ActorEnds(r) == /\ codexTurn[r] # "running"
                /\ TurnConfirmed(r) \/ RuntimeLost(r) \/ ActorFails(r)
JobEnds(r)   == DeliveryEnds(r) \/ Unregister(r) \/ JobSettles(r)

Fairness ==
    /\ \A r \in Requests :
          /\ WF_<<vars, gatewayVars>>(AdmissionEnds(r))
          /\ WF_<<vars, gatewayVars>>(Schedule(r))
          /\ WF_<<vars, gatewayVars>>(StartGoesOn(r))
          /\ WF_<<vars, gatewayVars>>(ActorEnds(r))
          /\ WF_<<vars, gatewayVars>>(JobEnds(r))
          /\ WF_<<vars, gatewayVars>>(DropFenced(r))
          /\ WF_<<vars, gatewayVars>>(TurnEnds(r))
    /\ WF_<<vars, gatewayVars>>(BootRecovers)
    /\ WF_<<vars, gatewayVars>>(BootFences)

FairGatewaySpec == GatewaySpec /\ Fairness

-----------------------------------------------------------------------------
(***************************************************************************)
(* Properties.                                                             *)
(***************************************************************************)

\* A message is handed to Codex at most once, over every crash, failed call,
\* fence and recovery (DA-R06, DA-R07): a turn/start is written only for a
\* request none was written for before.
ExecutedOnce ==
    [][\A r \in Requests :
          codexTurn'[r] = "requested" /\ codexTurn[r] # "requested" =>
             codexTurn[r] = "none"]_<<vars, gatewayVars>>

\* Work that is still running is never released: neither a recovery, nor the
\* operator, nor a late fence frees a conversation while its turn runs, so no
\* second turn can start beside it (operations.md, "Recover a blocked
\* conversation").
RunningTurnHeld ==
    \A r \in Requests :
        codexTurn[r] \in {"requested", "running"} => hold[r] = "HELD"

\* What is in flight has someone who will settle it: a job, or the fence of a
\* dropped run.  Without one it would block its conversation until the next
\* restart, because /recover is not offered for it.
InFlightOwned ==
    boot = "up" =>
        \A r \in Requests :
            state[r] \in Active => job[r] # "none" \/ r \in dropped

\* The recovery button does no more than its card said: it withdraws only
\* messages that were counted there, none that was posted later, and never
\* lifts a /stop that came after the card.
ButtonAsShown ==
    [][\A i \in Interactions :
          cmd[i].step = "backup" /\ Applied(i) =>
             LET c == cmd[i].thread IN
             /\ card[c].stopsSeen = stops[c]
             /\ WaitingIn(c) \subseteq card[c].shown]_<<vars, gatewayVars>>

\* An interrupt reaches no other execution than the one a control was aimed
\* at, however late the actor takes the control out of its mailbox.
InterruptAimed == interrupted \subseteq {r \in Requests : stopRequested[r]}

\* /stop and /cancel ask for the interruption of the running task, wherever
\* it came from (user-manual.md, "Commands"): a control that arrives while an
\* actor serves the conversation is mailed to that actor.
ControlReachesRun ==
    [][\A i \in Interactions :
          cmd[i].kind = "none" /\ cmd'[i].kind \in {"stop", "cancel"} =>
             \A r \in PostedIn(cmd'[i].thread) :
                job[r] = "serving" => cmd'[i].actor = r]_<<vars, gatewayVars>>

\* No execution is left behind: what crossed the send boundary becomes
\* settled or uncertain, whatever fails on the way (with one lost store call;
\* see InFlightOwned for two).
ExecutionsEnd ==
    \A r \in Requests : state[r] \in Active ~> state[r] \notin Active

\* A waiting message is not forgotten: it leaves the queue, unless /stop has
\* paused the conversation, an uncertain execution blocks it, or uncertain
\* executions of any conversations hold every slot of the Gateway: all holds
\* not released are counted (candidates and begin_direct_send), and these only
\* /recover or the operator releases.
UncertainHolds == {s \in Held : state[s] = "UNKNOWN"}
QueueMoves ==
    \A r \in Requests :
        state[r] = "QUEUED" ~>
            \/ state[r] # "QUEUED"
            \/ paused[ThreadOf[r]]
            \/ HeldIn(ThreadOf[r]) \cap UncertainHolds # {}
            \/ Cardinality(UncertainHolds) >= Capacity
=============================================================================
