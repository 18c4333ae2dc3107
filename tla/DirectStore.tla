----------------------------- MODULE DirectStore -----------------------------
(***************************************************************************)
(* The durable store of Direct mode: admissions, requests, dispatches,     *)
(* holds, conversations and control operations (src/storage.rs and         *)
(* src/direct_store.rs).  Each action is one SQLite transaction.  They     *)
(* all run on the single writer thread behind Store::call, so each one is  *)
(* atomic; who calls them, and in which order, is left open here: any      *)
(* transaction may be called at any moment.  DirectGateway restricts the   *)
(* callers to the ones the daemon has.                                     *)
(*                                                                         *)
(* Columns that carry no information of their own are dropped:             *)
(*   dispatch_eligible    is 1 exactly while state = "QUEUED";             *)
(*   dispatch_started_at  is set exactly when sendState leaves "PREPARED"; *)
(*   holds.generation     is 0 while held and 1 once released, because no  *)
(*                        Direct transaction takes a hold a second time.   *)
(* Retired projects, recovery_pending (set only by a database restore) and *)
(* model selection are not in this module.                                 *)
(***************************************************************************)
EXTENDS Naturals, FiniteSets

CONSTANTS
    Requests,           \* one per Discord message; the message id is its key
    Conversations,      \* Discord threads
    ThreadOf,           \* the conversation each message was posted in
    Interactions,       \* Discord interaction ids, the keys of operations
    Capacity,           \* unreleased holds allowed (the literal 2 in SQL)
    QueueGlobal,        \* limits.queue_global
    QueueConversation,  \* limits.queue_conversation
    None                \* SQL NULL, in every column that may be NULL

ASSUME RequestsFinite == IsFiniteSet(Requests)
ASSUME ThreadOfType == ThreadOf \in [Requests -> Conversations]
ASSUME LimitsType ==
    Capacity \in Nat /\ QueueGlobal \in Nat /\ QueueConversation \in Nat
ASSUME NoneIsNull == None \notin Requests /\ None \notin Conversations

VARIABLES
    admission,      \* admissions.status; "NONE": the message was never seen
    sequence,       \* admissions.sequence, its place in the conversation
    state,          \* requests.state; "NONE": no row
    stopRequested,  \* requests.stop_requested
    sendState,      \* direct_dispatches.send_state; "NONE": no row
    dispatchThread, \* direct_dispatches.codex_thread_id
    turn,           \* direct_dispatches.codex_turn_id is recorded
    hold,           \* holds: no row, unreleased, released
    nextSequence,   \* conversations.next_sequence
    paused,         \* conversations.paused
    pauseRevision,  \* conversations.pause_revision
    continuation,   \* conversations.continuation
    codexThread,    \* direct_conversations.codex_thread_id
    operation,      \* operations, keyed by interaction_id
    offer,          \* the offer a recovery worker has read, by interaction_id
    stops           \* history: how many /stop each conversation has taken

admissionVars    == <<admission, sequence, nextSequence>>
requestVars      == <<state, stopRequested>>
dispatchVars     == <<sendState, dispatchThread, turn>>
pauseVars        == <<paused, pauseRevision, stops>>
conversationVars == <<continuation, codexThread>>
vars == <<admissionVars, requestVars, dispatchVars, hold, pauseVars,
          conversationVars, operation, offer>>

-----------------------------------------------------------------------------
\* Types.

AdmissionStatus == {"NONE", "VALIDATING", "ACCEPTED", "REJECTED"}
Active          == {"SENDING", "RUNNING", "APPROVAL_REQUIRED"}
Terminal        == {"COMPLETED", "FAILED", "CANCELLED"}
RequestState    == {"NONE", "QUEUED", "UNKNOWN"} \cup Active \cup Terminal
SendState       == {"NONE", "PREPARED", "SENDING", "ACKED", "UNKNOWN",
                    "TERMINAL"}
HoldState       == {"NONE", "HELD", "RELEASED"}
Continuation    == {"NEW", "READY", "VERIFYING"}

\* A Codex thread is named by the request whose thread/start created it.
CodexThread == Requests \cup {None}

\* stopsSeen is history: the /stop count when the resume was reserved.
Operation == [kind      : {"none", "cancel", "stop", "resume",
                           "direct_recover"},
              thread    : Conversations \cup {None},
              target    : Requests \cup {None},
              expected  : Nat,
              state     : {"VALIDATING", "APPLIED", "SUPERSEDED"},
              stopsSeen : Nat]

NoOperation == [kind |-> "none", thread |-> None, target |-> None,
                expected |-> 0, state |-> "VALIDATING", stopsSeen |-> 0]

\* DirectRecoveryOffer.  shown (the waiting requests counted by `waiting`)
\* and stopsSeen are history.
Offer == [request       : Requests \cup {None},
          waiting       : Nat,
          pauseRevision : Nat,
          nextSequence  : Nat,
          shown         : SUBSET Requests,
          stopsSeen     : Nat]

NoOffer == [request |-> None, waiting |-> 0, pauseRevision |-> 0,
            nextSequence |-> 0, shown |-> {}, stopsSeen |-> 0]

\* Every column keeps its domain.
TypeOK ==
    /\ admission \in [Requests -> AdmissionStatus]
    /\ sequence \in [Requests -> Nat]
    /\ state \in [Requests -> RequestState]
    /\ stopRequested \in [Requests -> BOOLEAN]
    /\ sendState \in [Requests -> SendState]
    /\ dispatchThread \in [Requests -> CodexThread]
    /\ turn \in [Requests -> BOOLEAN]
    /\ hold \in [Requests -> HoldState]
    /\ nextSequence \in [Conversations -> Nat]
    /\ paused \in [Conversations -> BOOLEAN]
    /\ pauseRevision \in [Conversations -> Nat]
    /\ continuation \in [Conversations -> Continuation]
    /\ codexThread \in [Conversations -> CodexThread]
    /\ operation \in [Interactions -> Operation]
    /\ offer \in [Interactions -> Offer]
    /\ stops \in [Conversations -> Nat]

-----------------------------------------------------------------------------
\* What the queries select.

PostedIn(c) == {r \in Requests : ThreadOf[r] = c}

\* Mutant: messages in validation are not counted and hold nobody back.
Waiting_AcceptedOnly ==
    {r \in Requests : admission[r] = "ACCEPTED" /\ state[r] = "QUEUED"}

\* Messages that still count against the queue limits and may be withdrawn.
Waiting == {r \in Requests :
               \/ admission[r] = "VALIDATING"
               \/ admission[r] = "ACCEPTED" /\ state[r] = "QUEUED"}
WaitingIn(c) == Waiting \cap PostedIn(c)
QueuedIn(c)  == {r \in PostedIn(c) : state[r] = "QUEUED"}

Held      == {r \in Requests : hold[r] = "HELD"}
HeldIn(c) == Held \cap PostedIn(c)

\* ORDER BY sequence DESC LIMIT 1, as the set of rows it may return.
Latest(S) == {r \in S : \A s \in S : sequence[s] <= sequence[r]}
OrNull(S) == IF S = {} THEN {None} ELSE S

Earlier(r) == {s \in PostedIn(ThreadOf[r]) : sequence[s] < sequence[r]}

\* Mutant: a message still in validation does not count as activity.
Busy_ExecutionsOnly(c) == \E r \in PostedIn(c) : state[r] \in Active

\* A request of the conversation is running, or a message is being validated.
Busy(c) == \E r \in PostedIn(c) :
              state[r] \in Active \/ admission[r] = "VALIDATING"

\* Mutant: the capacity is compared off by one.
Dispatchable_OneTooMany(c) == /\ ~paused[c]
                              /\ continuation[c] \in {"NEW", "READY"}
                              /\ HeldIn(c) = {}
                              /\ Cardinality(Held) <= Capacity

\* The conversation may take a new turn.
Dispatchable(c) == /\ ~paused[c]
                   /\ continuation[c] \in {"NEW", "READY"}
                   /\ HeldIn(c) = {}
                   /\ Cardinality(Held) < Capacity

\* The rows Store::candidates offers the scheduler.
Candidates == {r \in Requests : /\ state[r] = "QUEUED"
                                /\ Dispatchable(ThreadOf[r])
                                /\ Earlier(r) \cap Waiting = {}}

-----------------------------------------------------------------------------
Init ==
    /\ admission = [r \in Requests |-> "NONE"]
    /\ sequence = [r \in Requests |-> 0]
    /\ state = [r \in Requests |-> "NONE"]
    /\ stopRequested = [r \in Requests |-> FALSE]
    /\ sendState = [r \in Requests |-> "NONE"]
    /\ dispatchThread = [r \in Requests |-> None]
    /\ turn = [r \in Requests |-> FALSE]
    /\ hold = [r \in Requests |-> "NONE"]
    /\ nextSequence = [c \in Conversations |-> 0]
    /\ paused = [c \in Conversations |-> FALSE]
    /\ pauseRevision = [c \in Conversations |-> 0]
    /\ continuation = [c \in Conversations |-> "NEW"]
    /\ codexThread = [c \in Conversations |-> None]
    /\ operation = [i \in Interactions |-> NoOperation]
    /\ offer = [i \in Interactions |-> NoOffer]
    /\ stops = [c \in Conversations |-> 0]

-----------------------------------------------------------------------------
(***************************************************************************)
(* Admission.  A message is reserved before its attachments are read, so   *)
(* that its place in the conversation is fixed while validation, which     *)
(* calls Discord, is still going on.                                       *)
(***************************************************************************)

Reserve(r) ==
    LET c == ThreadOf[r] IN
    /\ admission[r] = "NONE"
    /\ Cardinality(Waiting) < QueueGlobal
    /\ Cardinality(WaitingIn(c)) < QueueConversation
    /\ nextSequence' = [nextSequence EXCEPT ![c] = @ + 1]
    /\ sequence' = [sequence EXCEPT ![r] = nextSequence[c] + 1]
    /\ admission' = [admission EXCEPT ![r] = "VALIDATING"]
    /\ UNCHANGED <<requestVars, dispatchVars, hold, pauseVars,
                   conversationVars, operation, offer>>

Finalize(r) ==
    /\ admission[r] = "VALIDATING"
    /\ admission' = [admission EXCEPT ![r] = "ACCEPTED"]
    /\ state' = [state EXCEPT ![r] = "QUEUED"]
    /\ UNCHANGED <<sequence, nextSequence, stopRequested, dispatchVars, hold,
                   pauseVars, conversationVars, operation, offer>>

\* The messages of S leave validation without becoming a request.
Reject(S) ==
    admission' = [r \in Requests |->
                     IF r \in S /\ admission[r] = "VALIDATING"
                     THEN "REJECTED" ELSE admission[r]]

RejectAdmission(r) ==
    /\ admission[r] = "VALIDATING"
    /\ Reject({r})
    /\ UNCHANGED <<sequence, nextSequence, requestVars, dispatchVars, hold,
                   pauseVars, conversationVars, operation, offer>>

\* Expired validations; the clock is abstracted, any of them may be expired.
Sweep(S) ==
    /\ S # {}
    /\ \A r \in S : admission[r] = "VALIDATING"
    /\ Reject(S)
    /\ UNCHANGED <<sequence, nextSequence, requestVars, dispatchVars, hold,
                   pauseVars, conversationVars, operation, offer>>

-----------------------------------------------------------------------------
(***************************************************************************)
(* Controls.  A control is recorded under its Discord interaction id and a *)
(* second delivery of the same interaction changes nothing.                *)
(***************************************************************************)

RecordOperation(i, op) ==
    /\ operation[i].kind = "none"
    /\ operation' = [operation EXCEPT ![i] = op]

\* Withdraw the newest waiting message, or ask the running one to stop.
CancelLatest(i, c) ==
    /\ \/ \E r \in Latest(WaitingIn(c)) :
             /\ Reject({r})
             /\ state' = IF admission[r] = "ACCEPTED"
                         THEN [state EXCEPT ![r] = "CANCELLED"] ELSE state
             /\ UNCHANGED stopRequested
             /\ RecordOperation(i, [NoOperation EXCEPT
                   !.kind = "cancel", !.thread = c, !.target = r,
                   !.state = "APPLIED"])
       \/ \E t \in OrNull(Latest(HeldIn(c))) :
             /\ WaitingIn(c) = {}
             /\ stopRequested' = [r \in Requests |-> stopRequested[r] \/ r = t]
             /\ UNCHANGED <<admission, state>>
             /\ RecordOperation(i, [NoOperation EXCEPT
                   !.kind = "cancel", !.thread = c, !.target = t,
                   !.state = "APPLIED"])
    /\ UNCHANGED <<sequence, nextSequence, dispatchVars, hold, pauseVars,
                   conversationVars, offer>>

\* Mutant: /stop on a paused conversation does not bump pause_revision.
Stop_OncePerPause(i, c) ==
    /\ \E t \in OrNull(Latest(HeldIn(c))) :
          stopRequested' = [r \in Requests |-> stopRequested[r] \/ r = t]
    /\ paused' = [paused EXCEPT ![c] = TRUE]
    /\ pauseRevision' = [pauseRevision EXCEPT ![c] = IF paused[c] THEN @ ELSE @ + 1]
    /\ stops' = [stops EXCEPT ![c] = @ + 1]
    /\ RecordOperation(i, [NoOperation EXCEPT
          !.kind = "stop", !.thread = c, !.state = "APPLIED"])
    /\ UNCHANGED <<admissionVars, state, dispatchVars, hold,
                   conversationVars, offer>>

\* Pause the conversation and ask its running request to stop.
Stop(i, c) ==
    /\ \E t \in OrNull(Latest(HeldIn(c))) :
          stopRequested' = [r \in Requests |-> stopRequested[r] \/ r = t]
    /\ paused' = [paused EXCEPT ![c] = TRUE]
    /\ pauseRevision' = [pauseRevision EXCEPT ![c] = @ + 1]
    /\ stops' = [stops EXCEPT ![c] = @ + 1]
    /\ RecordOperation(i, [NoOperation EXCEPT
          !.kind = "stop", !.thread = c, !.state = "APPLIED"])
    /\ UNCHANGED <<admissionVars, state, dispatchVars, hold,
                   conversationVars, offer>>

\* /resume takes two transactions, and other controls may come in between.
ReserveResume(i, c) ==
    /\ RecordOperation(i, [NoOperation EXCEPT
          !.kind = "resume", !.thread = c, !.expected = pauseRevision[c],
          !.stopsSeen = stops[c]])
    /\ UNCHANGED <<admissionVars, requestVars, dispatchVars, hold, pauseVars,
                   conversationVars, offer>>

ApplyResume(i) ==
    LET c == operation[i].thread IN
    /\ operation[i].kind = "resume"
    /\ operation[i].state = "VALIDATING"
    /\ \/ /\ pauseRevision[c] = operation[i].expected
          /\ paused' = [paused EXCEPT ![c] = FALSE]
          /\ pauseRevision' = [pauseRevision EXCEPT ![c] = @ + 1]
          /\ operation' = [operation EXCEPT ![i].state = "APPLIED"]
       \/ /\ pauseRevision[c] # operation[i].expected
          /\ operation' = [operation EXCEPT ![i].state = "SUPERSEDED"]
          /\ UNCHANGED <<paused, pauseRevision>>
    /\ UNCHANGED <<admissionVars, requestVars, dispatchVars, hold, stops,
                   conversationVars, offer>>

-----------------------------------------------------------------------------
(***************************************************************************)
(* Dispatch.  BeginDirectSend commits the send boundary before the first   *)
(* byte is written to the Codex child; from then on the request can only   *)
(* be confirmed or become UNKNOWN, never be queued again.                  *)
(***************************************************************************)

PrepareDirect(r) ==
    /\ state[r] = "QUEUED"
    /\ sendState[r] = "NONE"
    /\ sendState' = [sendState EXCEPT ![r] = "PREPARED"]
    /\ UNCHANGED <<admissionVars, requestVars, dispatchThread, turn, hold,
                   pauseVars, conversationVars, operation, offer>>

\* What begin_direct_send ensures before it writes anything.
Sendable(r) == /\ sendState[r] = "PREPARED"
               /\ state[r] = "QUEUED"
               /\ Dispatchable(ThreadOf[r])
               /\ Earlier(r) \cap Waiting = {}

BeginDirectSend(r) ==
    LET c == ThreadOf[r] IN
    /\ Sendable(r)
    /\ sendState' = [sendState EXCEPT ![r] = "SENDING"]
    /\ state' = [state EXCEPT ![r] = "SENDING"]
    /\ continuation' = [continuation EXCEPT ![c] = "VERIFYING"]
    /\ hold' = [hold EXCEPT ![r] = "HELD"]
    /\ UNCHANGED <<admissionVars, stopRequested, dispatchThread, turn,
                   pauseVars, codexThread, operation, offer>>

\* t: what thread/start or thread/resume returned.  thread/start names a new
\* thread; thread/resume confirms the one the conversation is bound to.
BindThread(r, t) ==
    LET c == ThreadOf[r] IN
    /\ sendState[r] = "SENDING"
    /\ codexThread[c] \in {None, t}
    /\ codexThread' = [codexThread EXCEPT ![c] = t]
    /\ dispatchThread' = [dispatchThread EXCEPT ![r] = t]

RecordDirectThread(r, t) ==
    /\ BindThread(r, t)
    /\ UNCHANGED <<admissionVars, requestVars, sendState, turn, hold,
                   pauseVars, continuation, operation, offer>>

AcknowledgeDirectTurn(r, t) ==
    /\ BindThread(r, t)
    /\ state[r] = "SENDING"
    /\ sendState' = [sendState EXCEPT ![r] = "ACKED"]
    /\ turn' = [turn EXCEPT ![r] = TRUE]
    /\ state' = [state EXCEPT ![r] = "RUNNING"]
    /\ UNCHANGED <<admissionVars, stopRequested, hold, pauseVars,
                   continuation, operation, offer>>

\* Codex asks for an approval, and the last open approval is resolved: what
\* record_direct_interaction and resolve_direct_approval do to the request.
RequireApproval(r) ==
    /\ sendState[r] = "ACKED"
    /\ state[r] \in {"RUNNING", "APPROVAL_REQUIRED"}
    /\ state' = [state EXCEPT ![r] = "APPROVAL_REQUIRED"]
    /\ UNCHANGED <<admissionVars, stopRequested, dispatchVars, hold,
                   pauseVars, conversationVars, operation, offer>>

ResolveApproval(r) ==
    /\ state[r] = "APPROVAL_REQUIRED"
    /\ state' = [state EXCEPT ![r] = "RUNNING"]
    /\ UNCHANGED <<admissionVars, stopRequested, dispatchVars, hold,
                   pauseVars, conversationVars, operation, offer>>

\* Mutant: a send that was not acknowledged is put back into the queue.
MarkDirectUnknown_Requeues(r) ==
    /\ state[r] \in Active \cup {"UNKNOWN"}
    /\ IF sendState[r] = "SENDING"
       THEN /\ sendState' = [sendState EXCEPT ![r] = "PREPARED"]
            /\ state' = [state EXCEPT ![r] = "QUEUED"]
            /\ hold' = [hold EXCEPT ![r] = "NONE"]
            /\ continuation' = [continuation EXCEPT ![ThreadOf[r]] = "READY"]
       ELSE /\ sendState' = [sendState EXCEPT ![r] = "UNKNOWN"]
            /\ state' = [state EXCEPT ![r] = "UNKNOWN"]
            /\ UNCHANGED <<hold, continuation>>
    /\ UNCHANGED <<admissionVars, stopRequested, dispatchThread, turn,
                   pauseVars, codexThread, operation, offer>>

MarkDirectUnknown(r) ==
    /\ state[r] \in Active \cup {"UNKNOWN"}
    /\ sendState' = IF sendState[r] \in {"SENDING", "ACKED", "UNKNOWN"}
                    THEN [sendState EXCEPT ![r] = "UNKNOWN"] ELSE sendState
    /\ state' = [state EXCEPT ![r] = "UNKNOWN"]
    /\ UNCHANGED <<admissionVars, stopRequested, dispatchThread, turn, hold,
                   pauseVars, conversationVars, operation, offer>>

\* Mutant: the verdict does not re-open the conversation.
FinishDirect_KeepsVerifying(r, status) ==
    /\ sendState[r] \in {"ACKED", "UNKNOWN"}
    /\ turn[r]
    /\ state[r] \in {"RUNNING", "APPROVAL_REQUIRED", "UNKNOWN"}
    /\ sendState' = [sendState EXCEPT ![r] = "TERMINAL"]
    /\ state' = [state EXCEPT ![r] = status]
    /\ hold' = [hold EXCEPT ![r] = IF @ = "HELD" THEN "RELEASED" ELSE @]
    /\ UNCHANGED <<admissionVars, stopRequested, dispatchThread, turn,
                   pauseVars, conversationVars, operation, offer>>

\* The exact turn was read back as terminal.  An UNKNOWN request may be
\* confirmed too, even after its hold was given up.
FinishDirect(r, status) ==
    LET c == ThreadOf[r] IN
    /\ sendState[r] \in {"ACKED", "UNKNOWN"}
    /\ turn[r]
    /\ state[r] \in {"RUNNING", "APPROVAL_REQUIRED", "UNKNOWN"}
    /\ sendState' = [sendState EXCEPT ![r] = "TERMINAL"]
    /\ state' = [state EXCEPT ![r] = status]
    /\ hold' = [hold EXCEPT ![r] = IF @ = "HELD" THEN "RELEASED" ELSE @]
    /\ continuation' = [continuation EXCEPT
                           ![c] = IF @ = "VERIFYING" THEN "READY" ELSE @]
    /\ UNCHANGED <<admissionVars, stopRequested, dispatchThread, turn,
                   pauseVars, codexThread, operation, offer>>

\* Mutant: the send boundary is not checked.
FailDirectBeforeSend_AnyTime(r) ==
    /\ state[r] \in {"QUEUED"} \cup Active
    /\ state' = [state EXCEPT ![r] = "FAILED"]
    /\ UNCHANGED <<admissionVars, stopRequested, dispatchVars, hold,
                   pauseVars, conversationVars, operation, offer>>

FailDirectBeforeSend(r) ==
    /\ state[r] = "QUEUED"
    /\ state' = [state EXCEPT ![r] = "FAILED"]
    /\ UNCHANGED <<admissionVars, stopRequested, dispatchVars, hold,
                   pauseVars, conversationVars, operation, offer>>

-----------------------------------------------------------------------------
(***************************************************************************)
(* Recovery of an execution whose outcome is not known.                    *)
(***************************************************************************)

Uncertain(r) == /\ state[r] = "UNKNOWN"
                /\ sendState[r] = "UNKNOWN"
                /\ hold[r] = "HELD"

\* direct_recovery_offer finds exactly one unreleased hold, an uncertain one.
\* Each confirmation reads its own offer; one read for an interaction that is
\* already recorded could not be used any more and is left out.
ReadRecoveryOffer(i, c) ==
    /\ operation[i].kind = "none"
    /\ ~Busy(c)
    /\ \E r \in PostedIn(c) :
          /\ Uncertain(r)
          /\ HeldIn(c) = {r}
          /\ offer' = [offer EXCEPT ![i] =
                [request       |-> r,
                 waiting       |-> Cardinality(QueuedIn(c)),
                 pauseRevision |-> pauseRevision[c],
                 nextSequence  |-> nextSequence[c],
                 shown         |-> QueuedIn(c),
                 stopsSeen     |-> stops[c]]]
    /\ UNCHANGED <<admissionVars, requestVars, dispatchVars, hold, pauseVars,
                   conversationVars, operation>>

\* Mutants: the old Codex thread stays bound; the continuation is not reset.
GiveUp_KeepsThread(r) ==
    /\ Uncertain(r)
    /\ HeldIn(ThreadOf[r]) = {r}
    /\ hold' = [hold EXCEPT ![r] = "RELEASED"]
    /\ continuation' = [continuation EXCEPT ![ThreadOf[r]] = "NEW"]
    /\ UNCHANGED codexThread

GiveUp_KeepsContinuation(r) ==
    /\ Uncertain(r)
    /\ HeldIn(ThreadOf[r]) = {r}
    /\ hold' = [hold EXCEPT ![r] = "RELEASED"]
    /\ codexThread' = [codexThread EXCEPT ![ThreadOf[r]] = None]
    /\ UNCHANGED continuation

\* The hold is given up and the conversation starts a fresh Codex thread.
GiveUp(r) ==
    LET c == ThreadOf[r] IN
    /\ Uncertain(r)
    /\ HeldIn(c) = {r}
    /\ hold' = [hold EXCEPT ![r] = "RELEASED"]
    /\ codexThread' = [codexThread EXCEPT ![c] = None]
    /\ continuation' = [continuation EXCEPT ![c] = "NEW"]

\* User-confirmed recovery with the offer read before.
RecoverDirectUnknown(i, c) ==
    LET o == offer[i] IN
    /\ pauseRevision[c] = o.pauseRevision
    /\ nextSequence[c] = o.nextSequence
    /\ \E r \in PostedIn(c) : r = o.request /\ GiveUp(r)
    /\ ~Busy(c)
    /\ Cardinality(QueuedIn(c)) = o.waiting
    /\ state' = [r \in Requests |->
                    IF r \in QueuedIn(c) THEN "CANCELLED" ELSE state[r]]
    /\ paused' = [paused EXCEPT ![c] = FALSE]
    /\ pauseRevision' = [pauseRevision EXCEPT ![c] = @ + 1]
    /\ RecordOperation(i, [NoOperation EXCEPT
          !.kind = "direct_recover", !.thread = c, !.target = o.request,
          !.state = "APPLIED"])
    /\ UNCHANGED <<admissionVars, stopRequested, dispatchVars, stops, offer>>

\* Operator recovery while the Gateway is stopped; the queue is kept.
AbandonDirectUnknown(r) ==
    /\ GiveUp(r)
    /\ \A s \in PostedIn(ThreadOf[r]) : state[s] \notin Active
    /\ UNCHANGED <<admissionVars, requestVars, dispatchVars, pauseVars,
                   operation, offer>>

-----------------------------------------------------------------------------
(***************************************************************************)
(* Start-up after a stop or a crash.  A crash loses the callers, of which  *)
(* this module keeps nothing, so it is no step here.                       *)
(***************************************************************************)

StartupRecover ==
    /\ Reject(Requests)
    /\ operation' = [i \in Interactions |->
          IF operation[i].kind = "resume" /\ operation[i].state = "VALIDATING"
          THEN [operation[i] EXCEPT !.state = "SUPERSEDED"]
          ELSE operation[i]]
    /\ UNCHANGED <<sequence, nextSequence, requestVars, dispatchVars, hold,
                   pauseVars, conversationVars, offer>>

\* Mutant: a request that was not acknowledged yet is not fenced.
FenceDirectAfterRestart_AckedOnly ==
    LET open == {r \in Requests : sendState[r] = "ACKED"} IN
    /\ sendState' = [r \in Requests |->
                        IF r \in open THEN "UNKNOWN" ELSE sendState[r]]
    /\ state' = [r \in Requests |->
                    IF r \in open /\ state[r] \notin Terminal
                    THEN "UNKNOWN" ELSE state[r]]
    /\ UNCHANGED <<admissionVars, stopRequested, dispatchThread, turn, hold,
                   pauseVars, conversationVars, operation, offer>>

FenceDirectAfterRestart ==
    LET open == {r \in Requests : sendState[r] \in {"SENDING", "ACKED"}} IN
    /\ sendState' = [r \in Requests |->
                        IF r \in open THEN "UNKNOWN" ELSE sendState[r]]
    /\ state' = [r \in Requests |->
                    IF r \in open /\ state[r] \notin Terminal
                    THEN "UNKNOWN" ELSE state[r]]
    /\ UNCHANGED <<admissionVars, stopRequested, dispatchThread, turn, hold,
                   pauseVars, conversationVars, operation, offer>>

-----------------------------------------------------------------------------
\* The thread a caller may report: a new one, or the one it resumed.
ReportedThread(r) == {r} \cup ({codexThread[ThreadOf[r]]} \ {None})

Next ==
    \/ \E r \in Requests :
          \/ Reserve(r)
          \/ Finalize(r)
          \/ RejectAdmission(r)
          \/ PrepareDirect(r)
          \/ BeginDirectSend(r)
          \/ \E t \in ReportedThread(r) : RecordDirectThread(r, t)
          \/ \E t \in ReportedThread(r) : AcknowledgeDirectTurn(r, t)
          \/ RequireApproval(r)
          \/ ResolveApproval(r)
          \/ MarkDirectUnknown(r)
          \/ \E status \in Terminal : FinishDirect(r, status)
          \/ FailDirectBeforeSend(r)
          \/ AbandonDirectUnknown(r)
    \/ \E S \in SUBSET Requests : Sweep(S)
    \/ \E i \in Interactions :
          \/ ApplyResume(i)
          \/ \E c \in Conversations :
                \/ CancelLatest(i, c)
                \/ Stop(i, c)
                \/ ReserveResume(i, c)
                \/ ReadRecoveryOffer(i, c)
                \/ RecoverDirectUnknown(i, c)
    \/ StartupRecover
    \/ FenceDirectAfterRestart

Spec == Init /\ [][Next]_vars

-----------------------------------------------------------------------------
(***************************************************************************)
(* Properties.                                                             *)
(***************************************************************************)

\* The records of one request agree: which states may stand beside which
\* admission, send state and hold.  They are written by a dozen transactions
\* (direct_store.rs), each of which updates only some of them.
RecordsAgree ==
    \A r \in Requests :
        /\ state[r] # "NONE" <=> admission[r] = "ACCEPTED"
        /\ state[r] \in {"NONE", "QUEUED"} =>
              hold[r] = "NONE" /\ sendState[r] \in {"NONE", "PREPARED"}
        /\ state[r] = "SENDING" => hold[r] = "HELD" /\ sendState[r] = "SENDING"
        /\ state[r] \in {"RUNNING", "APPROVAL_REQUIRED"} =>
              hold[r] = "HELD" /\ sendState[r] = "ACKED" /\ turn[r]
        /\ state[r] = "UNKNOWN" =>
              hold[r] \in {"HELD", "RELEASED"} /\ sendState[r] = "UNKNOWN"
        /\ state[r] \in Terminal =>
              \/ hold[r] = "NONE" /\ sendState[r] \in {"NONE", "PREPARED"}
              \/ hold[r] = "RELEASED" /\ sendState[r] = "TERMINAL"

\* At most one execution of a conversation is open, counting uncertain ones.
OneHoldPerConversation ==
    \A r, s \in Held : ThreadOf[r] = ThreadOf[s] => r = s

\* No more executions are open than there are Codex children.
CapacityRespected == Cardinality(Held) <= Capacity

\* A conversation that waits for a verdict ("VERIFYING" admits no candidate)
\* has an open execution whose end, or whose recovery, will free it: no order
\* of results, recoveries and restarts leaves it blocked by nothing.
VerdictPending ==
    \A c \in Conversations :
        continuation[c] = "VERIFYING" => HeldIn(c) # {}

\* What a conversation says of itself and the executions that are open agree:
\* never two of them, and none is awaited that is not there.
ConversationsAgree == OneHoldPerConversation /\ VerdictPending

\* Messages of a conversation reach Codex in the order they were posted: once
\* one crossed the send boundary, no earlier one is, or will ever be, sent.
NoOvertaking ==
    \A s \in Requests :
        sendState[s] \notin {"NONE", "PREPARED"} =>
            Earlier(s) \cap Waiting = {}

\* The queue limits hold although validation ends long after the count.
QueueBounded ==
    /\ Cardinality(Waiting) <= QueueGlobal
    /\ \A c \in Conversations : Cardinality(WaitingIn(c)) <= QueueConversation

\* Every limit holds: executions are admitted by racing jobs, and messages are
\* counted long before they are validated.
LimitsHeld == CapacityRespected /\ QueueBounded

\* Interaction i takes effect in this step.
Applied(i) == /\ operation'[i] # operation[i]
              /\ operation'[i].state = "APPLIED"

\* A pause is lifted only by someone who had seen every /stop: by a /resume
\* reserved after the last one, or a recovery whose offer was read after it.
StopWins ==
    [][\A c \in Conversations :
          paused[c] /\ ~paused'[c] =>
             \E i \in Interactions :
                /\ Applied(i)
                /\ operation'[i].thread = c
                /\ \/ /\ operation'[i].kind = "resume"
                      /\ operation[i].stopsSeen = stops[c]
                   \/ /\ operation'[i].kind = "direct_recover"
                      /\ offer[i].stopsSeen = stops[c]]_vars

\* A recovery withdraws exactly the waiting requests its offer counted, and
\* drops no message posted after the offer was read.
RecoveryAsShown ==
    [][\A i \in Interactions :
          Applied(i) /\ operation'[i].kind = "direct_recover" =>
             LET c == operation'[i].thread IN
             /\ {r \in PostedIn(c) : state[r] = "QUEUED"
                                     /\ state'[r] = "CANCELLED"} = offer[i].shown
             /\ WaitingIn(c) = offer[i].shown]_vars

\* A conversation recovered from an uncertain execution goes on in a fresh
\* Codex thread: no later message runs in the thread that was given up.
FreshContextAfterGiveUp ==
    \A r, s \in Requests :
        /\ state[r] = "UNKNOWN" /\ hold[r] = "RELEASED"
        /\ ThreadOf[s] = ThreadOf[r] /\ sequence[r] < sequence[s]
        /\ dispatchThread[s] # None
        => dispatchThread[s] # dispatchThread[r]

\* No two conversations ever run in the same Codex thread.
ContextNotShared ==
    \A r, s \in Requests :
        dispatchThread[r] # None /\ dispatchThread[r] = dispatchThread[s] =>
            ThreadOf[r] = ThreadOf[s]

\* A Codex thread carries the context of one conversation up to the execution
\* that was given up, and of nothing else.
ContextKept == ContextNotShared /\ FreshContextAfterGiveUp

\* What a request is to someone who only cares how often it is executed.
Phase(r) ==
    CASE hold[r] = "HELD" /\ state[r] \in Active -> "inFlight"
      [] hold[r] = "HELD" /\ state[r] \notin Active -> "uncertain"
      [] hold[r] = "RELEASED" /\ state[r] = "UNKNOWN" -> "abandoned"
      [] hold[r] = "RELEASED" /\ state[r] # "UNKNOWN" -> "settled"
      [] hold[r] = "NONE" /\ admission[r] = "NONE" -> "unseen"
      [] hold[r] = "NONE" /\ r \in Waiting -> "waiting"
      [] OTHER -> "withdrawn"

Ledger == INSTANCE TurnLedger WITH phase <- [r \in Requests |-> Phase(r)]

\* Every transaction is a step of the ledger, or invisible to it: a message
\* is executed at most once, and never again once its outcome is uncertain.
ImplementsLedger == Ledger!Spec
=============================================================================
