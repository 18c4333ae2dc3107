---------------------------- MODULE CodexTransport ----------------------------
(***************************************************************************)
(* One Codex App Server child as the Gateway owns it: the permit of the    *)
(* pool, spawn and initialize, the JSON-RPC calls that share one stdin,    *)
(* the reader and the monitor of the child, the broadcast of its events to *)
(* the run, and the end of all of it.  src/src/codex_transport, with the   *)
(* order in which direct_run.rs uses it: initialize, initialized,          *)
(* subscribe, turn/start, and then the calls and replies of the run.       *)
(*                                                                         *)
(* A call is a caller that writes one frame and waits for its answer; a    *)
(* reply (notify, respond, reject) only writes.  Every caller is one use   *)
(* of the method, so it happens at most once.  Callers run concurrently,   *)
(* as the transport allows, and each may be dropped where it awaits.       *)
(***************************************************************************)
EXTENDS Naturals, Sequences, FiniteSets

CONSTANTS
    Requests,       \* calls of request()
    Replies,        \* calls of notify(), respond() and reject()
    Initialize,     \* the request launch() makes
    Initialized,    \* the notification that ends launch()
    StartTurn,      \* the request that starts the run's turn
    EventCapacity,  \* places of the broadcast channel (512)
    MaxReports,     \* events of the turn the child reports
    MaxStrays,      \* lines of the child that are no JSON-RPC message
    None

Callers == Requests \cup Replies

ASSUME CallersAssumption ==
    /\ Initialize \in Requests /\ StartTurn \in Requests
    /\ Initialize # StartTurn
    /\ Initialized \in Replies
    /\ Requests \cap Replies = {}
    /\ None \notin Callers
ASSUME BoundsAssumption ==
    /\ EventCapacity \in Nat \ {0}
    /\ MaxReports \in Nat /\ MaxStrays \in Nat

VARIABLES
    stage,      \* of the lease
    permit,     \* one of the pool's two permits is held for this child
    child,      \* the process
    closed,     \* Inner.closed
    draining,   \* close() has set `closed`, not yet emptied `pending`
    pending,    \* Inner.pending, by caller
    holder,     \* who holds the lock of stdin
    at,         \* where a caller stands
    answer,     \* what its oneshot channel holds
    told,       \* what the call returned
    stdin,      \* callers in the order of the first byte they wrote
    written,    \* how much of its frame a caller has written
    taken,      \* frames of stdin the child has read
    stdout,     \* lines of the child the reader has not read
    reading,    \* the reader task is in its loop
    replied,    \* requests the child has answered
    spent,      \* events and stray lines of the child, bounded
    subscribed, feed, lagged,  \* the run's receiver
    published, heard           \* events of the turn: dispatched, received

leaseVars == <<stage, permit>>
lineVars == <<stdin, written>>
childVars == <<child, taken, replied, spent>>
closeVars == <<closed, draining>>
callVars == <<at, answer, told>>
feedVars == <<feed, lagged, published>>
vars == <<leaseVars, childVars, closeVars, pending, holder, callVars, lineVars,
          stdout, reading, subscribed, feedVars, heard>>

-----------------------------------------------------------------------------
(* Types and helpers                                                       *)

\* A result, or one of the errors Remote and Protocol.
Verdicts == {"Value", "Error"}
Outcomes == Verdicts \cup {"NotSent", "ResultUnknown", "Written", "Dropped"}
Lines == [kind : {"Answer"}, to : Requests, verdict : Verdicts]
         \cup [kind : {"Report", "Malformed", "Oversized"}]
Events == {"Report", "Protocol", "Closed"}

\* The domains; and neither a dropped call nor one that ran out of time leaves
\* an entry in `pending` behind (PendingGuard).
TransportTypeOK ==
    /\ stage \in {"Waits", "Launches", "Announces", "Leased", "Ends",
                  "Drops", "Gone"}
    /\ permit \in BOOLEAN
    /\ child \in {"None", "Running", "Exited", "Killed"}
    /\ closed \in BOOLEAN /\ draining \in BOOLEAN
    /\ pending \subseteq {c \in Requests : at[c] \in {"Writes", "Sent"}}
    /\ holder \in Callers \cup {None}
    /\ at \in [Callers -> {"Idle", "Waits", "Checked", "Writes", "Sent", "Done"}]
    /\ answer \in [Requests -> Verdicts \cup {"ResultUnknown", "None"}]
    /\ told \in [Callers -> Outcomes \cup {"None"}]
    /\ stdin \in Seq(Callers)
    /\ written \in [Callers -> {"None", "Part", "Whole"}]
    /\ taken \in 0 .. Len(stdin)
    /\ stdout \in Seq(Lines)
    /\ reading \in BOOLEAN
    /\ replied \subseteq Requests
    /\ spent \in [reports : 0 .. MaxReports, strays : 0 .. MaxStrays]
    /\ subscribed \in BOOLEAN /\ lagged \in BOOLEAN
    /\ feed \in Seq(Events)
    /\ published \in 0 .. MaxReports /\ heard \in 0 .. MaxReports

\* A caller is inside the transport.
Busy(c) == at[c] \in {"Waits", "Checked", "Writes", "Sent"}

\* Inner lives: the lease, or a caller, still holds the transport.
Owned == stage \in {"Launches", "Announces", "Leased", "Ends"}

\* The run waits for events: its turn is acknowledged.
Serving == stage = "Leased" /\ told[StartTurn] = "Value"

Init ==
    /\ stage = "Waits" /\ permit = FALSE
    /\ child = "None"
    /\ closed = FALSE /\ draining = FALSE
    /\ pending = {} /\ holder = None
    /\ at = [c \in Callers |-> "Idle"]
    /\ answer = [c \in Requests |-> "None"]
    /\ told = [c \in Callers |-> "None"]
    /\ stdin = <<>> /\ written = [c \in Callers |-> "None"]
    /\ taken = 0
    /\ stdout = <<>> /\ reading = TRUE
    /\ replied = {} /\ spent = [reports |-> 0, strays |-> 0]
    /\ subscribed = FALSE /\ feed = <<>> /\ lagged = FALSE
    /\ published = 0 /\ heard = 0

\* broadcast::Sender::send: without a receiver the event is lost, and a full
\* channel drops its oldest event.
Publish(e) ==
    LET full == Len(feed) = EventCapacity
    IN  /\ feed' = IF ~subscribed THEN feed
                   ELSE Append(IF full THEN Tail(feed) ELSE feed, e)
        /\ lagged' = (lagged \/ (subscribed /\ full))
        /\ published' = published + (IF e = "Report" THEN 1 ELSE 0)

\* close(): only the first one has an effect; `pending` is emptied next.
Close == IF closed THEN UNCHANGED <<closeVars, feedVars>>
         ELSE closed' = TRUE /\ draining' = TRUE /\ Publish("Closed")

-----------------------------------------------------------------------------
(* The lease: pool.acquire, launch, and the end                            *)

\* acquire() has a permit and spawns the child; or the spawn fails.
Acquires ==
    /\ stage = "Waits"
    /\ stage' = "Launches" /\ permit' = TRUE /\ child' = "Running"
    /\ UNCHANGED <<taken, replied, spent, closeVars, pending, holder, callVars,
                   lineVars, stdout, reading, subscribed, feedVars, heard>>

AcquireFails ==
    /\ stage = "Waits" /\ stage' = "Gone"
    /\ UNCHANGED <<permit, childVars, closeVars, pending, holder, callVars,
                   lineVars, stdout, reading, subscribed, feedVars, heard>>

Goes(next) ==
    /\ stage' = next
    /\ UNCHANGED <<permit, childVars, pending, holder, callVars, lineVars,
                   stdout, reading, subscribed, heard>>

\* launch(): a failed or timed out initialize shuts the transport down, which
\* waits for the killed child; a failed notification only drops it.
LaunchGoesOn ==
    /\ UNCHANGED <<closeVars, feedVars>>
    /\ \/ stage = "Launches" /\ told[Initialize] = "Value" /\ Goes("Announces")
       \/ stage = "Announces" /\ told[Initialized] = "Written" /\ Goes("Leased")

LaunchFails ==
    \/ /\ stage = "Launches" /\ told[Initialize] \notin {"None", "Value"}
       /\ Close /\ Goes("Drops")
    \/ /\ stage = "Announces" /\ told[Initialized] \notin {"None", "Written"}
       /\ UNCHANGED <<closeVars, feedVars>> /\ Goes("Ends")

\* The run subscribes before it starts its turn.
Subscribes ==
    /\ stage = "Leased" /\ ~subscribed
    /\ subscribed' = TRUE
    /\ UNCHANGED <<leaseVars, childVars, closeVars, pending, holder, callVars,
                   lineVars, stdout, reading, feedVars, heard>>

\* The turn was not started: start() drops the lease.
StartFails ==
    /\ stage = "Leased" /\ told[StartTurn] \notin {"None", "Value"}
    /\ UNCHANGED <<closeVars, feedVars>> /\ Goes("Ends")

\* run.recv(): a receiver that was too slow is told that it lagged, which the
\* run ignores; Closed and ProtocolError end the run.
Hears ==
    /\ Serving
    /\ \/ lagged /\ lagged' = FALSE /\ UNCHANGED <<feed, heard, stage>>
       \/ /\ ~lagged /\ feed # <<>>
          /\ feed' = Tail(feed)
          /\ IF Head(feed) = "Report"
             THEN heard' = heard + 1 /\ UNCHANGED stage
             ELSE stage' = "Ends" /\ UNCHANGED heard
          /\ UNCHANGED lagged
    /\ UNCHANGED <<permit, childVars, closeVars, pending, holder, callVars,
                   lineVars, stdout, reading, subscribed, published>>

\* The poll of every five seconds finds the transport closed.
PollFindsClosed ==
    /\ Serving /\ closed
    /\ UNCHANGED <<closeVars, feedVars>> /\ Goes("Ends")

\* The turn ended and its result is saved.
RunEnds ==
    /\ Serving /\ heard > 0
    /\ UNCHANGED <<closeVars, feedVars>> /\ Goes("Ends")

Kill == child' = IF child = "Running" THEN "Killed" ELSE child

\* shutdown() kills and reaps the child before the permit is given back.
Shutdown ==
    /\ stage = "Drops" /\ ~draining
    /\ Kill /\ stage' = "Gone" /\ permit' = FALSE
    /\ UNCHANGED <<taken, replied, spent, closeVars, pending, holder, callVars,
                   lineVars, stdout, reading, subscribed, feedVars, heard>>

\* The run is dropped.  kill_on_drop kills the child with the last reference,
\* which the reader or the monitor may hold a moment longer than the lease.
DropLease ==
    /\ stage = "Ends" /\ ~draining
    /\ \A c \in Callers : ~Busy(c)
    /\ stage' = "Gone" /\ permit' = FALSE
    /\ Kill \/ UNCHANGED child
    /\ UNCHANGED <<taken, replied, spent, closeVars, pending, holder, callVars,
                   lineVars, stdout, reading, subscribed, feedVars, heard>>

\* Mutant: without kill_on_drop nothing stops the child.
DropInner_Keeps ==
    /\ stage = "Gone" /\ child = "Running"
    /\ UNCHANGED vars

DropInner ==
    /\ stage = "Gone" /\ child = "Running"
    /\ Kill
    /\ UNCHANGED <<leaseVars, taken, replied, spent, closeVars, pending, holder,
                   callVars, lineVars, stdout, reading, subscribed, feedVars,
                   heard>>

-----------------------------------------------------------------------------
(* request(), notify(), respond(), reject()                                *)

\* Mutant: the run subscribes whenever it gets to it.
Due_Unsubscribed(c) ==
    CASE c = Initialize -> stage = "Launches"
      [] c = Initialized -> stage = "Announces"
      [] c = StartTurn -> stage = "Leased"
      [] OTHER -> Serving

\* When the code makes this call.
Due(c) ==
    CASE c = Initialize -> stage = "Launches"
      [] c = Initialized -> stage = "Announces"
      [] c = StartTurn -> stage = "Leased" /\ subscribed
      [] OTHER -> Serving

Begins(c) ==
    /\ at[c] = "Idle" /\ Due(c)
    /\ at' = [at EXCEPT ![c] = "Waits"]
    /\ UNCHANGED <<leaseVars, childVars, closeVars, pending, holder, answer,
                   told, lineVars, stdout, reading, subscribed, feedVars, heard>>

\* The call returns.
Returns(c, outcome) ==
    /\ at' = [at EXCEPT ![c] = "Done"]
    /\ told' = [told EXCEPT ![c] = outcome]

\* Under the lock of stdin a closed transport refuses the call.
Locks(c) ==
    /\ at[c] = "Waits" /\ holder = None
    /\ IF closed THEN Returns(c, "NotSent") /\ UNCHANGED holder
       ELSE /\ at' = [at EXCEPT ![c] = "Checked"] /\ holder' = c
            /\ UNCHANGED told
    /\ UNCHANGED <<leaseVars, childVars, closeVars, pending, answer, lineVars,
                   stdout, reading, subscribed, feedVars, heard>>

\* A request enters `pending`, whether or not the transport was closed since.
Registers(c) ==
    /\ at[c] = "Checked"
    /\ at' = [at EXCEPT ![c] = "Writes"]
    /\ pending' = pending \cup ({c} \cap Requests)
    /\ UNCHANGED <<leaseVars, childVars, closeVars, holder, answer, told,
                   lineVars, stdout, reading, subscribed, feedVars, heard>>

\* The pipe takes the first bytes of the frame, then the rest.
WritesSome(c) ==
    /\ at[c] = "Writes" /\ child = "Running" /\ written[c] # "Whole"
    /\ IF written[c] = "None" THEN stdin' = Append(stdin, c)
       ELSE UNCHANGED stdin
    /\ \E amount \in {"Part", "Whole"} \ {written[c]} :
          written' = [written EXCEPT ![c] = amount]
    /\ UNCHANGED <<leaseVars, childVars, closeVars, pending, holder, callVars,
                   stdout, reading, subscribed, feedVars, heard>>

WriteEnds(c) ==
    /\ at[c] = "Writes" /\ written[c] = "Whole"
    /\ holder' = None
    /\ IF c \in Requests THEN at' = [at EXCEPT ![c] = "Sent"] /\ UNCHANGED told
       ELSE Returns(c, "Written")
    /\ UNCHANGED <<leaseVars, childVars, closeVars, pending, answer, lineVars,
                   stdout, reading, subscribed, feedVars, heard>>

\* Mutants: the interrupted write leaves the transport open; it counts as
\* not sent.
Breaks_Open(c, outcome) ==
    /\ at[c] = "Writes"
    /\ UNCHANGED <<closeVars, feedVars>>
    /\ holder' = None /\ pending' = pending \ {c}
    /\ Returns(c, outcome)
    /\ UNCHANGED <<leaseVars, childVars, answer, lineVars, stdout, reading,
                   subscribed, heard>>

Breaks_NotSent(c, outcome) ==
    /\ at[c] = "Writes"
    /\ Close
    /\ holder' = None /\ pending' = pending \ {c}
    /\ Returns(c, IF outcome = "Dropped" THEN outcome ELSE "NotSent")
    /\ UNCHANGED <<leaseVars, childVars, answer, lineVars, stdout, reading,
                   subscribed, heard>>

\* The write fails, takes more than ten seconds, or its caller is dropped:
\* WriteFence closes the transport before the lock is released.
Breaks(c, outcome) ==
    /\ at[c] = "Writes"
    /\ Close
    /\ holder' = None /\ pending' = pending \ {c}
    /\ Returns(c, outcome)
    /\ UNCHANGED <<leaseVars, childVars, answer, lineVars, stdout, reading,
                   subscribed, heard>>

WriteFails(c) == Breaks(c, "ResultUnknown")

\* Mutants: an entry is only removed by its answer; a call waits for it without
\* a time limit.
Concludes_KeepsEntry(c) ==
    /\ at[c] = "Sent"
    /\ Returns(c, IF answer[c] = "None" THEN "ResultUnknown" ELSE answer[c])
    /\ UNCHANGED <<leaseVars, childVars, closeVars, pending, holder, answer,
                   lineVars, stdout, reading, subscribed, feedVars, heard>>

Concludes_NoLimit(c) ==
    /\ at[c] = "Sent" /\ answer[c] # "None"
    /\ Returns(c, answer[c])
    /\ pending' = pending \ {c}
    /\ UNCHANGED <<leaseVars, childVars, closeVars, holder, answer, lineVars,
                   stdout, reading, subscribed, feedVars, heard>>

\* The answer is there, or the time limit of the call passes without one.
Concludes(c) ==
    /\ at[c] = "Sent"
    /\ Returns(c, IF answer[c] = "None" THEN "ResultUnknown" ELSE answer[c])
    /\ pending' = pending \ {c}
    /\ UNCHANGED <<leaseVars, childVars, closeVars, holder, answer, lineVars,
                   stdout, reading, subscribed, feedVars, heard>>

\* The caller is dropped: by the time limit of initialize, by the two seconds
\* of a poll, or with the task that runs it.
Cancelled(c) ==
    \/ Breaks(c, "Dropped")
    \/ /\ at[c] \in {"Waits", "Sent"}
       /\ Returns(c, "Dropped")
       /\ pending' = pending \ {c}
       /\ UNCHANGED <<leaseVars, childVars, closeVars, holder, answer, lineVars,
                      stdout, reading, subscribed, feedVars, heard>>

\* close() tells every pending call that its result is unknown.
Drains ==
    /\ draining
    /\ draining' = FALSE
    /\ answer' = [c \in Requests |-> IF c \in pending THEN "ResultUnknown"
                                     ELSE answer[c]]
    /\ pending' = {}
    /\ UNCHANGED <<leaseVars, childVars, closed, holder, at, told, lineVars,
                   stdout, reading, subscribed, feedVars, heard>>

-----------------------------------------------------------------------------
(* The child                                                               *)

Emits(line) ==
    /\ child = "Running"
    /\ stdout' = Append(stdout, line)
    /\ UNCHANGED <<leaseVars, child, taken, closeVars, pending, holder,
                   callVars, lineVars, reading, subscribed, feedVars, heard>>

\* It reads whole frames, in their order.
ChildReads ==
    /\ child = "Running" /\ taken < Len(stdin)
    /\ written[stdin[taken + 1]] = "Whole"
    /\ taken' = taken + 1
    /\ UNCHANGED <<leaseVars, child, replied, spent, closeVars, pending, holder,
                   callVars, lineVars, stdout, reading, subscribed, feedVars,
                   heard>>

Read == {stdin[i] : i \in 1 .. taken}

ChildAnswers(c) ==
    /\ c \in Read \ replied
    /\ replied' = replied \cup {c}
    /\ \E v \in Verdicts : Emits([kind |-> "Answer", to |-> c, verdict |-> v])
    /\ UNCHANGED spent

\* Events of the turn, which only begins when turn/start is read.
ChildReports ==
    /\ StartTurn \in Read /\ spent.reports < MaxReports
    /\ spent' = [spent EXCEPT !.reports = @ + 1]
    /\ Emits([kind |-> "Report"])
    /\ UNCHANGED replied

ChildStrays ==
    /\ spent.strays < MaxStrays
    /\ spent' = [spent EXCEPT !.strays = @ + 1]
    /\ \E kind \in {"Malformed", "Oversized"} : Emits([kind |-> kind])
    /\ UNCHANGED replied

ChildExits ==
    /\ child = "Running" /\ child' = "Exited"
    /\ UNCHANGED <<leaseVars, taken, replied, spent, closeVars, pending, holder,
                   callVars, lineVars, stdout, reading, subscribed, feedVars,
                   heard>>

-----------------------------------------------------------------------------
(* The reader and the monitor                                              *)

\* The answer of a call that no longer waits is dropped.
Resolve(line) ==
    /\ UNCHANGED <<closeVars, feedVars>>
    /\ IF line.to \in pending
       THEN /\ pending' = pending \ {line.to}
            /\ answer' = [answer EXCEPT ![line.to] = line.verdict]
       ELSE UNCHANGED <<pending, answer>>

\* dispatch(): one line.  A frame over the limit ends the reader.
Dispatches ==
    /\ reading /\ Owned /\ stdout # <<>>
    /\ LET line == Head(stdout) IN
       /\ stdout' = Tail(stdout)
       /\ reading' = (line.kind # "Oversized")
       /\ CASE line.kind = "Answer" -> Resolve(line)
            [] line.kind = "Oversized" -> Close /\ UNCHANGED <<pending, answer>>
            [] line.kind = "Malformed" -> /\ Publish("Protocol")
                                          /\ UNCHANGED <<closeVars, pending,
                                                         answer>>
            [] OTHER -> /\ Publish("Report")
                        /\ UNCHANGED <<closeVars, pending, answer>>
    /\ UNCHANGED <<leaseVars, childVars, holder, at, told, lineVars, subscribed,
                   heard>>

\* The end of stdout, once all its lines are read.
ReaderEnds ==
    /\ reading /\ Owned /\ stdout = <<>> /\ child \in {"Exited", "Killed"}
    /\ reading' = FALSE /\ Close
    /\ UNCHANGED <<leaseVars, childVars, pending, holder, callVars, lineVars,
                   stdout, subscribed, heard>>

\* The monitor sees the exit, perhaps before the reader has read all lines.
MonitorCloses ==
    /\ Owned /\ ~closed /\ child = "Exited"
    /\ Close
    /\ UNCHANGED <<leaseVars, childVars, pending, holder, callVars, lineVars,
                   stdout, reading, subscribed, heard>>

-----------------------------------------------------------------------------
(* Specification                                                           *)

CallStep(c) ==
    \/ Begins(c) \/ Locks(c) \/ Registers(c)
    \/ WritesSome(c) \/ WriteEnds(c) \/ WriteFails(c)
    \/ Concludes(c) \/ Cancelled(c)

LeaseStep ==
    \/ Acquires \/ AcquireFails \/ LaunchGoesOn \/ LaunchFails
    \/ Subscribes \/ StartFails \/ Hears \/ PollFindsClosed \/ RunEnds
    \/ Shutdown \/ DropLease \/ DropInner

ChildStep ==
    \/ ChildReads \/ ChildReports \/ ChildStrays \/ ChildExits
    \/ \E c \in Requests : ChildAnswers(c)

TaskStep == Dispatches \/ ReaderEnds \/ MonitorCloses \/ Drains

Next == (\E c \in Callers : CallStep(c)) \/ LeaseStep \/ ChildStep \/ TaskStep

Spec == Init /\ [][Next]_vars

\* The Gateway's own steps happen: tasks run, the mutex of stdin is fair, and
\* every wait of a call has its time limit.  Of the child nothing is assumed.
CallerGoesOn(c) == Locks(c) \/ Registers(c) \/ WriteEnds(c) \/ WriteFails(c)
                   \/ Concludes(c)

FairSpec ==
    /\ Spec
    /\ \A c \in Callers : WF_vars(CallerGoesOn(c)) /\ WF_vars(Begins(c))
    /\ WF_vars(LaunchGoesOn \/ LaunchFails \/ Subscribes \/ StartFails)
    /\ WF_vars(PollFindsClosed) /\ WF_vars(Drains)
    /\ WF_vars(Shutdown \/ DropLease \/ DropInner)

-----------------------------------------------------------------------------
(* Properties                                                              *)

\* No frame is ever begun behind one that was cut short: the child reads whole
\* frames only, whichever caller is interrupted while it writes.
FramesWhole ==
    \A i \in 1 .. Len(stdin) - 1 : written[stdin[i]] = "Whole"

\* What a caller is told is true: NotSent means that not one byte went out, so
\* that it may be tried again; an answer or a finished write means that the
\* whole frame did, and an answer that this very call was answered.
VerdictTrue ==
    \A c \in Callers :
        /\ told[c] = "NotSent" => written[c] = "None"
        /\ told[c] \in Verdicts \cup {"Written"} => written[c] = "Whole"
        /\ told[c] \in Verdicts => c \in replied

\* As long as the channel of events never had to drop one, the run has heard
\* every event of its turn or will: it subscribes before its turn can begin.
Queued == Cardinality({i \in 1 .. Len(feed) : feed[i] = "Report"})
TurnHeard ==
    spent.reports + spent.strays < EventCapacity => published = heard + Queued

\* Every call ends, whatever the child does and whoever is interrupted (a
\* caller calls once, so in the end nobody is inside).
CallsEnd == <>[](\A c \in Callers : ~Busy(c))

\* A closed transport ends its lease, from launch to the running turn and even
\* if the event of the closing was lost, and no child is left running.
CloseEndsLease == closed ~> (stage = "Gone" /\ child # "Running")
=============================================================================
