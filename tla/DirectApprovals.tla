--------------------------- MODULE DirectApprovals ---------------------------
(***************************************************************************)
(* The approvals of one running turn: the requests the App Server sends to *)
(* the run actor (src/direct_run_actor.rs), their durable record           *)
(* (src/direct_interaction_store.rs), the cards and buttons of the         *)
(* coordinator (src/direct_daemon.rs) and the replies that go back through *)
(* the child's pipe (src/direct_run.rs).                                   *)
(*                                                                         *)
(* The actor is one task: it takes commands before events, and finishes    *)
(* one before it takes the next.  A reply is three steps of it: the        *)
(* durable intent, the write, the record of the outcome; Codex, the        *)
(* coordinator, the button workers and a restart may come in between.      *)
(*                                                                         *)
(* What an App Server request asks for is reduced to which answers it      *)
(* offers, the MCP tool it is about and how many pages its details take.   *)
(* All MCP calls have the same server and arguments here, the hardest case *)
(* for telling which call a confirmation belongs to.  An rpc id is asked   *)
(* once, so its fingerprint always matches.                                *)
(***************************************************************************)
EXTENDS Naturals, FiniteSets, Sequences

CONSTANTS
    Rpcs,           \* App Server requests of the turn
    KindsOf,        \* the kinds each may have
    Tools,          \* tools of MCP calls
    PagesOf,        \* pages of its private details
    RiskyTools,     \* tools that need a confirmation each time
    MaxFaults,      \* bound: requests withdrawn, and the child's death
    Workers,        \* control workers that serve a button press
    Steers,         \* Discord interactions that carry a /steer
    EventCapacity,  \* channel to the coordinator (32)
    MaxAhead,       \* bound: events of the child not yet taken, when it asks
    MaxCommands,    \* bound: commands mailed to the actor
    None

ASSUME RequestsType == PagesOf \in [Rpcs -> Nat \ {0}]
ASSUME LimitsType == EventCapacity \in Nat /\ MaxCommands \in Nat
ASSUME NoneIsNull == None \notin Rpcs

VARIABLES
    asked,        \* Codex: how far each request is
    kind,         \* what from_event makes of it
    child,        \* Codex: the child runs its turn, has ended it, is gone
    inbox,        \* events of the child the actor has not taken
    sent,         \* replies written to the child, or perhaps written
    interaction,  \* direct_interactions.state; "NONE": no row
    request,      \* requests.state
    steer,        \* operations.send_state of a /steer; "NONE": no row
    stopRequested,\* requests.stop_requested
    actor,        \* the run actor
    task,         \* the reply or steer the actor is in the middle of
    generation,   \* input_generation
    grants,       \* run_grants: the configuration a tool was granted under
    items,        \* mcp_items: calls in progress
    evidence,     \* the call matched with a request
    known,        \* approval_rpc_ids
    commands,     \* mailbox of the actor
    mailed,       \* commands mailed so far
    events,       \* channel to the coordinator
    drive,        \* the coordinator's loop for this run
    cards,        \* DirectCoordinator.approvals
    live,         \* DirectCoordinator.active has this run
    worker,       \* what a control worker read, and what it is to do
    config,       \* content of config.toml
    shown,        \* history: detail pages shown since the last /steer
    mandate       \* history: tools allowed for the run, with the config

codexVars  == <<asked, kind, child, inbox, sent>>
storeVars  == <<interaction, request, steer, stopRequested>>
actorVars  == <<actor, task, generation, grants, items, evidence, known>>
mailVars   == <<commands, mailed, events>>
coordVars  == <<drive, cards, live, worker>>
userVars   == <<config, shown, mandate>>
vars == <<codexVars, storeVars, actorVars, mailVars, coordVars, userVars>>

-----------------------------------------------------------------------------
\* Types.

Open  == {"PENDING", "SENDING", "SENT", "UNKNOWN"}
State == Open \cup {"NONE", "RESOLVED", "UNAVAILABLE"}
Active == {"RUNNING", "APPROVAL_REQUIRED"}
Config == {0, 1}

Pages(r) == 1 .. PagesOf[r]

\* One kind for each set of decisions that can be returned: the confirmation
\* of an MCP call, a command or file change, a form with no known answer, and
\* a method the Gateway does not know.
Decisions == {"accept", "decline", "cancel"}
Kind      == Tools \cup {"command", "form", "unknown"}
ASSUME KindsType == /\ KindsOf \in [Rpcs -> SUBSET Kind]
                    /\ Tools \cap {"none", "command", "form", "unknown"} = {}
Offer(k)  == CASE k \in Tools    -> {"accept", "decline"}
               [] k = "command" -> {"accept", "cancel"}
               [] OTHER         -> {}

NoCard == [generation |-> 0, viewed |-> 0, up |-> FALSE]
Idle   == [rpc |-> None, action |-> "none", generation |-> 0, viewed |-> 0]
NoTask == [step |-> "none", rpc |-> None, what |-> "none", config |-> 0,
           ok |-> FALSE]

Actions == Decisions \cup {"run", "reject"}

\* what: the button pressed, or "grant"; config: as read for a "run".
Task == [step   : {"none", "begin", "write", "record", "steer", "steering"},
         rpc    : Rpcs \cup Steers \cup {None},
         what   : Actions \cup {"none", "grant"},
         config : Config,
         ok     : BOOLEAN]

Command == [kind : {"approval"}, rpc : Rpcs, action : Actions,
            generation : Nat]
           \cup [kind : {"steer"}, steer : Steers]
           \cup [kind : {"interrupt"}]

Event == [kind : {"approval"}, rpc : Rpcs, generation : Nat]
         \cup [kind : {"resolved"}, rpc : Rpcs]
         \cup [kind : {"invalidated"}, generation : Nat]
         \cup [kind : {"unsupported", "ended"}]

Upstream == [kind : {"request", "resolved", "started", "completed"},
             rpc : Rpcs]
            \cup [kind : {"closed"}]

\* Every variable keeps its domain and every channel its capacity.
TypeOK ==
    /\ asked \in [Rpcs -> {"no", "started", "waiting", "answered",
                           "withdrawn"}]
    /\ kind \in [Rpcs -> Kind \cup {"none"}]
    /\ child \in {"running", "ended", "gone"}
    /\ inbox \in Seq(Upstream)
    /\ sent \in [Rpcs -> Nat]
    /\ interaction \in [Rpcs -> State]
    /\ request \in Active \cup {"UNKNOWN", "TERMINAL"}
    /\ steer \in [Steers -> {"NONE", "SENDING", "SENT", "UNKNOWN"}]
    /\ stopRequested \in BOOLEAN
    /\ actor \in {"serving", "confirmed", "ended", "failed", "aborted"}
    /\ task \in Task
    /\ generation \in Nat
    /\ grants \in [Tools -> Config \cup {None}]
    /\ items \subseteq Rpcs
    /\ evidence \in [Rpcs -> Rpcs \cup {None}]
    /\ known \subseteq Rpcs
    /\ commands \in Seq(Command)
    /\ mailed \in 0 .. MaxCommands
    /\ events \in Seq(Event) /\ Len(events) <= EventCapacity
    /\ drive \in {"receiving", "ending", "settling", "done", "down"}
    /\ cards \in [Rpcs -> [generation : Nat, viewed : Nat, up : BOOLEAN]]
    /\ live \in BOOLEAN
    /\ worker \in [Workers ->
                     [rpc : Rpcs \cup {None}, action : Actions \cup {"none"},
                      generation : Nat, viewed : Nat]]
    /\ config \in Config
    /\ shown \in [Rpcs -> SUBSET Nat]
    /\ mandate \subseteq Tools \X Config

Init ==
    /\ asked = [r \in Rpcs |-> "no"]
    /\ kind = [r \in Rpcs |-> "none"]
    /\ child = "running"
    /\ inbox = <<>>
    /\ sent = [r \in Rpcs |-> 0]
    /\ interaction = [r \in Rpcs |-> "NONE"]
    /\ request = "RUNNING"
    /\ steer = [s \in Steers |-> "NONE"]
    /\ stopRequested = FALSE
    /\ actor = "serving"
    /\ task = NoTask
    /\ generation = 0
    /\ grants = [t \in Tools |-> None]
    /\ items = {}
    /\ evidence = [r \in Rpcs |-> None]
    /\ known = {}
    /\ commands = <<>>
    /\ mailed = 0
    /\ events = <<>>
    /\ drive = "receiving"
    /\ cards = [r \in Rpcs |-> NoCard]
    /\ live = TRUE
    /\ worker = [w \in Workers |-> Idle]
    /\ config = 0
    /\ shown = [r \in Rpcs |-> {}]
    /\ mandate = {}

-----------------------------------------------------------------------------
\* Helpers.

InState(S) == {r \in Rpcs : interaction[r] \in S}

\* Mutant: a second press is served before the request is resolved.
Replyable_Again(r) == interaction[r] \in {"PENDING", "SENT"}
                      /\ request \in Active

\* begin_direct_approval_reply_inner, begin_direct_reject.
Replyable(r) == interaction[r] = "PENDING" /\ request \in Active

\* The tool a grant for r would name: the one of the call r was matched with.
GrantTool(r) == kind[evidence[r]]

\* run_grant_tool, for request r matched with call e.
Eligible(r, e) == /\ kind[r] \in Tools /\ "accept" \in Offer(kind[r])
                  /\ e # None
                  /\ kind[e] \notin RiskyTools
Grantable(r) == Eligible(r, evidence[r])

\* rejection_button, and the buttons under the details.
Rejection(r) ==
    CASE "decline" \in Offer(kind[r]) -> "decline"
      [] "cancel" \in Offer(kind[r])  -> "cancel"
      [] OTHER                        -> "reject"
Buttons(r) == (Offer(kind[r]) \cap {"accept"})
              \cup (IF Grantable(r) THEN {"run"} ELSE {})
              \cup {Rejection(r)}

\* A confirmation names no call: it is matched only with the sole one known.
Match(r) == IF kind[r] \in Tools /\ \E i \in Rpcs : items = {i}
            THEN CHOOSE i \in Rpcs : items = {i} ELSE None

NoGrants == [t \in Tools |-> None]

Has(queue, k) == queue # <<>> /\ Head(queue).kind = k

Mark(r, s) == interaction' = [interaction EXCEPT ![r] = s]

\* Mutant: what was being sent is recorded as never answered.
Closed_AllUnavailable ==
    [r \in Rpcs |-> IF interaction[r] \in {"PENDING", "SENDING", "SENT"}
                    THEN "UNAVAILABLE" ELSE interaction[r]]

\* fence_direct_approvals_after_restart, close_direct_approvals
Closed == [r \in Rpcs |->
              CASE interaction[r] = "PENDING"             -> "UNAVAILABLE"
                [] interaction[r] \in {"SENDING", "SENT"} -> "UNKNOWN"
                [] OTHER                                  -> interaction[r]]

\* run_grants.clear(), and nothing the user allowed counts any more.
Forgets == grants' = NoGrants /\ mandate' = {}

\* What the actor kept in memory, its mailbox and its child go with it.
Dropped ==
    /\ child' = "gone" /\ inbox' = <<>> /\ commands' = <<>>
    /\ task' = NoTask /\ generation' = 0
    /\ items' = {} /\ known' = {} /\ evidence' = [r \in Rpcs |-> None]
    /\ Forgets
    /\ shown' = [r \in Rpcs |-> {}]

\* try_send: a full channel ends the actor.
Room    == Len(events) < EventCapacity
Emit(e) == Room /\ events' = Append(events, e)
Fails   == actor' = "failed" /\ Dropped /\ UNCHANGED events

\* The last event, then the actor returns.
EmitLast == \/ Emit([kind |-> "ended"]) /\ actor' = "ended" /\ Dropped
            \/ ~Room /\ Fails

\* What the child sends when request r is over.
Over(r) == <<[kind |-> "resolved", rpc |-> r]>>
           \o (IF kind[r] \in Tools
               THEN <<[kind |-> "completed", rpc |-> r]>> ELSE <<>>)

\* A reply to r is written; a child that still waits for it goes on.
Reaches(r) ==
    /\ sent' = [sent EXCEPT ![r] = @ + 1]
    /\ IF child = "running" /\ asked[r] = "waiting"
       THEN /\ asked' = [asked EXCEPT ![r] = "answered"]
            /\ inbox' = inbox \o Over(r)
       ELSE UNCHANGED <<asked, inbox>>

-----------------------------------------------------------------------------
(***************************************************************************)
(* The App Server child.                                                   *)
(***************************************************************************)

\* Bound: how far Codex runs ahead of the actor.
Ahead == Len(inbox) < MaxAhead

Tells(r, k) == inbox' = Append(inbox, [kind |-> k, rpc |-> r])

CallStarts(r) ==
    /\ Ahead /\ child = "running" /\ asked[r] = "no"
    /\ \E t \in KindsOf[r] \cap Tools : kind' = [kind EXCEPT ![r] = t]
    /\ asked' = [asked EXCEPT ![r] = "started"]
    /\ Tells(r, "started")
    /\ UNCHANGED <<child, sent, storeVars, actorVars, mailVars,
                   coordVars, userVars>>

Asks(r) ==
    /\ Ahead /\ child = "running"
    /\ \/ asked[r] = "started" /\ UNCHANGED kind
       \/ /\ asked[r] = "no"
          /\ \E k \in KindsOf[r] \ Tools : kind' = [kind EXCEPT ![r] = k]
    /\ asked' = [asked EXCEPT ![r] = "waiting"]
    /\ Tells(r, "request")
    /\ UNCHANGED <<child, sent, storeVars, actorVars, mailVars,
                   coordVars, userVars>>

Faults == Cardinality({r \in Rpcs : asked[r] = "withdrawn"})

\* Codex stops waiting without an answer, as when its turn is interrupted.
Withdraws(r) ==
    /\ Ahead /\ Faults < MaxFaults
    /\ child = "running" /\ asked[r] = "waiting"
    /\ asked' = [asked EXCEPT ![r] = "withdrawn"]
    /\ inbox' = inbox \o Over(r)
    /\ UNCHANGED <<kind, child, sent, storeVars, actorVars, mailVars,
                   coordVars, userVars>>

TurnEnds ==
    /\ child = "running"
    /\ \A r \in Rpcs : asked[r] # "waiting"
    /\ child' = "ended"
    /\ UNCHANGED <<asked, kind, inbox, sent, storeVars, actorVars,
                   mailVars, coordVars, userVars>>

\* The child dies or breaks the protocol.
ChildDies ==
    /\ Faults < MaxFaults /\ child # "gone"
    /\ child' = "gone"
    /\ inbox' = Append(inbox, [kind |-> "closed"])
    /\ UNCHANGED <<asked, kind, sent, storeVars, actorVars, mailVars,
                   coordVars, userVars>>

-----------------------------------------------------------------------------
(***************************************************************************)
(* The user and the control workers (approval_button, command).            *)
(***************************************************************************)

\* The next page of the details, or one seen before.
ReadsPage(r, k) ==
    /\ cards[r].up /\ k <= cards[r].viewed + 1
    /\ shown' = [shown EXCEPT ![r] = @ \cup {k}]
    /\ cards' = [cards EXCEPT ![r].viewed = IF @ < k THEN k ELSE @]
    /\ UNCHANGED <<codexVars, storeVars, actorVars, mailVars, drive, live,
                   worker, config, mandate>>

\* A decision button: the card is copied, then Discord is acknowledged.
Presses(w, r) ==
    /\ worker[w] = Idle /\ cards[r].up /\ mailed < MaxCommands
    /\ \E a \in Buttons(r) :
          worker' = [worker EXCEPT ![w] =
                        [rpc |-> r, action |-> a,
                         generation |-> cards[r].generation,
                         viewed |-> cards[r].viewed]]
    /\ UNCHANGED <<codexVars, storeVars, actorVars, mailVars, drive, cards,
                   live, userVars>>

Leaves(w) == worker' = [worker EXCEPT ![w] = Idle]

\* Discord did not answer, or the button is refused.
GivesUp(w) ==
    /\ worker[w] # Idle
    /\ Leaves(w)
    /\ UNCHANGED <<codexVars, storeVars, actorVars, mailVars, drive, cards,
                   live, userVars>>

ReadAll(w) == worker[w].action \in {"accept", "run"} =>
                 worker[w].viewed = PagesOf[worker[w].rpc]

Mail(c) == /\ live /\ mailed < MaxCommands
           /\ commands' = Append(commands, c)
           /\ mailed' = mailed + 1
           /\ UNCHANGED events

MailsDecision(w) ==
    /\ worker[w] # Idle
    /\ ReadAll(w)
    /\ Mail([kind |-> "approval", rpc |-> worker[w].rpc,
             action |-> worker[w].action,
             generation |-> worker[w].generation])
    /\ Leaves(w)
    /\ UNCHANGED <<codexVars, storeVars, actorVars, drive, cards, live,
                   userVars>>

\* /steer (Discord may deliver one interaction twice); /stop and /cancel.
MailsSteer(s) == /\ Mail([kind |-> "steer", steer |-> s])
                 /\ UNCHANGED <<codexVars, storeVars, actorVars, coordVars,
                                userVars>>
MailsInterrupt == /\ Mail([kind |-> "interrupt"])
                  /\ UNCHANGED <<codexVars, storeVars, actorVars, coordVars,
                                 userVars>>

\* The operator edits config.toml; before the first grant it does not matter
\* which content there is.
EditsConfig ==
    /\ config = 0
    /\ grants # NoGrants \/ task.what = "run"
    /\ config' = 1
    /\ UNCHANGED <<codexVars, storeVars, actorVars, mailVars, coordVars,
                   shown, mandate>>

-----------------------------------------------------------------------------
(***************************************************************************)
(* The actor takes a command (biased: before any event).                   *)
(***************************************************************************)

Serving  == actor = "serving" /\ task = NoTask
Takes(k) == Serving /\ Has(commands, k) /\ commands' = Tail(commands)

\* Mutant: the generation of the card is not compared.
Current_Any(c) == TRUE

\* The card was shown after the last /steer.
Current(c) == c.generation = generation

\* The durable intent to send the reply of task t.
Intends(t) == /\ Mark(t.rpc, "SENDING")
              /\ task' = [t EXCEPT !.step = "write"]

TakesApproval ==
    /\ Takes("approval")
    /\ LET c == Head(commands) IN
       IF Current(c) /\ Replyable(c.rpc)
       THEN Intends([NoTask EXCEPT !.rpc = c.rpc, !.what = c.action,
                                   !.config = config])
       ELSE UNCHANGED <<interaction, task>>
    /\ UNCHANGED <<codexVars, request, steer, stopRequested, actor,
                   generation, grants, items, evidence, known, mailed,
                   events, coordVars, userVars>>

\* Mutant: /stop and /cancel leave the grants alone.
TakesInterrupt_KeepsGrants ==
    /\ Takes("interrupt")
    /\ mandate' = {}
    /\ stopRequested' = TRUE
    /\ UNCHANGED <<codexVars, interaction, request, steer, actor,
                   task, generation, grants, items, evidence, known, mailed,
                   events, coordVars, config, shown>>

TakesInterrupt ==
    /\ Takes("interrupt")
    /\ Forgets
    /\ stopRequested' = TRUE
    /\ UNCHANGED <<codexVars, interaction, request, steer, actor,
                   task, generation, items, evidence, known, mailed, events,
                   coordVars, config, shown>>

TakesSteer ==
    /\ Serving /\ Has(commands, "steer")
    /\ \/ /\ Emit([kind |-> "invalidated", generation |-> generation + 1])
          /\ commands' = Tail(commands)
          /\ Forgets
          /\ shown' = [r \in Rpcs |-> {}]
          /\ generation' = generation + 1
          /\ task' = [NoTask EXCEPT !.step = "steer",
                                    !.rpc = Head(commands).steer]
          /\ UNCHANGED <<child, inbox, actor, items, evidence, known>>
       \/ ~Room /\ Fails
    /\ UNCHANGED <<asked, kind, sent, storeVars, mailed, coordVars, config>>

\* begin_direct_steer
Steerable(s) == request \in Active /\ ~stopRequested /\ steer[s] = "NONE"

SteerBegins ==
    /\ actor = "serving" /\ task.step = "steer"
    /\ Steerable(task.rpc)
    /\ steer' = [steer EXCEPT ![task.rpc] = "SENDING"]
    /\ task' = [task EXCEPT !.step = "steering"]
    /\ UNCHANGED <<codexVars, interaction, request, stopRequested,
                   actor, generation, grants, items, evidence, known,
                   mailVars, coordVars, userVars>>

\* Refused by the store, or the location could not be verified before.
SteerRefused ==
    /\ actor = "serving" /\ task.step = "steer"
    /\ task' = NoTask
    /\ UNCHANGED <<codexVars, storeVars, actor, generation, grants, items,
                   evidence, known, mailVars, coordVars, userVars>>

SteerEnds ==
    /\ actor = "serving" /\ task.step = "steering"
    /\ \E s \in (IF child = "gone" THEN {} ELSE {"SENT"}) \cup {"UNKNOWN"} :
          steer' = [steer EXCEPT ![task.rpc] = s]
    /\ task' = NoTask
    /\ UNCHANGED <<asked, kind, child, inbox, sent, interaction, request,
                   stopRequested, actor, generation, grants, items, evidence,
                   known, mailVars, coordVars, userVars>>

-----------------------------------------------------------------------------
(***************************************************************************)
(* A reply on its way (reply_manual, reply_mcp_tool, reject_unsupported).  *)
(***************************************************************************)

ReplyWritten ==
    /\ actor = "serving" /\ task.step = "write" /\ child # "gone"
    /\ Reaches(task.rpc)
    /\ task' = [task EXCEPT !.step = "record", !.ok = TRUE]
    /\ UNCHANGED <<kind, child, storeVars, actor, generation, grants,
                   items, evidence, known, mailVars, coordVars, userVars>>

\* The pipe is closed already, or the write broke off and closes it; the
\* reply may have arrived.
WriteFails ==
    /\ actor = "serving" /\ task.step = "write"
    /\ \/ child = "gone" /\ UNCHANGED <<asked, child, inbox, sent>>
       \/ /\ child # "gone" /\ child' = "gone"
          /\ sent' = [sent EXCEPT ![task.rpc] = @ + 1]
          /\ inbox' = Append(inbox, [kind |-> "closed"])
          /\ UNCHANGED asked
    /\ task' = [task EXCEPT !.step = "record"]
    /\ UNCHANGED <<kind, storeVars, actor, generation, grants, items,
                   evidence, known, mailVars, coordVars, userVars>>

\* mark_direct_approval_sent; a grant is entered once its first reply is out.
ReplyRecorded ==
    LET t == GrantTool(task.rpc) IN
    /\ actor = "serving" /\ task.step = "record" /\ task.ok
    /\ Mark(task.rpc, "SENT")
    /\ IF task.what = "run"
       THEN /\ grants' = [grants EXCEPT ![t] = task.config]
            /\ mandate' = mandate \cup {<<kind[task.rpc], task.config>>}
       ELSE UNCHANGED <<grants, mandate>>
    /\ task' = NoTask
    /\ UNCHANGED <<codexVars, request, steer, stopRequested, actor,
                   generation, items, evidence, known, mailVars, coordVars,
                   config, shown>>

\* mark_direct_approval_unknown; a reply given for a grant ends the run.
ReplyUnknown ==
    /\ actor = "serving" /\ task.step = "record" /\ ~task.ok
    /\ Mark(task.rpc, "UNKNOWN")
    /\ \/ task.what = "grant" /\ request' = "UNKNOWN" /\ EmitLast
       \/ /\ task.what # "grant" /\ task' = NoTask
          /\ UNCHANGED <<child, inbox, request, actor, generation, grants,
                         items, evidence, known, commands, events, mandate,
                         shown>>
    /\ UNCHANGED <<asked, kind, sent, steer, stopRequested, mailed, coordVars,
                   config>>

\* The grant's own intent, after the request was recorded.
GrantReplies ==
    /\ actor = "serving" /\ task.step = "begin"
    /\ Intends(task)
    /\ UNCHANGED <<codexVars, request, steer, stopRequested, actor,
                   generation, grants, items, evidence, known, mailVars,
                   coordVars, userVars>>

-----------------------------------------------------------------------------
(***************************************************************************)
(* The actor takes an event of the child.                                  *)
(***************************************************************************)

Hears(k) == /\ Serving /\ commands = <<>>
            /\ Has(inbox, k) /\ inbox' = Tail(inbox)

\* item/started and item/completed of an MCP call.
HearsCall ==
    /\ \/ Hears("started") /\ items' = items \cup {Head(inbox).rpc}
       \/ Hears("completed") /\ items' = items \ {Head(inbox).rpc}
    /\ UNCHANGED <<asked, kind, child, sent, storeVars, actor, task,
                   generation, grants, evidence, known, mailVars, coordVars,
                   userVars>>

\* The grants that are left when config.toml is compared.
Standing == IF \E t \in Tools : grants[t] \notin {None, config}
            THEN NoGrants ELSE grants

Learns(r, e) ==
    /\ inbox' = Tail(inbox)
    /\ known' = known \cup {r}
    /\ evidence' = [evidence EXCEPT ![r] = e]
    /\ items' = items \ {e}
    /\ grants' = Standing
    /\ UNCHANGED <<child, actor, generation, commands, mandate, shown>>

\* record_direct_interaction; then a grant answers, or the card is shown.
HearsRequest ==
    LET r       == Head(inbox).rpc
        e       == Match(r)
        granted == Eligible(r, e) /\ Standing[kind[e]] # None
    IN
    /\ Serving /\ commands = <<>>
    /\ Has(inbox, "request") /\ kind[r] # "unknown"
    /\ Mark(r, "PENDING")
    /\ request' = "APPROVAL_REQUIRED"
    /\ \/ /\ granted /\ Learns(r, e)
          /\ task' = [NoTask EXCEPT !.step = "begin", !.rpc = r,
                                    !.what = "grant"]
          /\ UNCHANGED events
       \/ /\ ~granted /\ Learns(r, e)
          /\ Emit([kind |-> "approval", rpc |-> r, generation |-> generation])
          /\ UNCHANGED task
       \/ ~granted /\ ~Room /\ Fails
    /\ UNCHANGED <<asked, kind, sent, steer, stopRequested, mailed, coordVars,
                   config>>

\* Mutant: an unknown method is left without an answer.
HearsUnknown_Ignored ==
    /\ Serving /\ commands = <<>>
    /\ Has(inbox, "request") /\ kind[Head(inbox).rpc] = "unknown"
    /\ inbox' = Tail(inbox)
    /\ UNCHANGED <<asked, kind, child, sent, storeVars, actorVars, mailVars,
                   coordVars, userVars>>

\* An unknown method is answered with an error at once; the write may fail.
HearsUnknown ==
    LET r == Head(inbox).rpc
        waits == child = "running" /\ asked[r] = "waiting"
    IN
    /\ Serving /\ commands = <<>>
    /\ Has(inbox, "request") /\ kind[r] = "unknown"
    /\ sent' = [sent EXCEPT ![r] = IF child = "gone" THEN @ ELSE @ + 1]
    /\ \/ /\ child # "gone"
          /\ asked' = [asked EXCEPT ![r] = IF waits THEN "answered" ELSE @]
          /\ \/ /\ Emit([kind |-> "unsupported"])
                /\ inbox' = Tail(inbox) \o (IF waits THEN Over(r) ELSE <<>>)
                /\ UNCHANGED <<child, actorVars, commands, mandate, shown>>
             \/ ~Room /\ Fails
          /\ UNCHANGED request
       \/ request' = "UNKNOWN" /\ EmitLast /\ UNCHANGED asked
    /\ UNCHANGED <<kind, interaction, steer, stopRequested, mailed,
                   coordVars, config>>

StillOpen(r) == InState(Open) \ {r}

\* serverRequest/resolved of a request the actor knows; resolve_direct_approval
\* refuses it while no reply was begun, and the actor ends with that error.
HearsResolved ==
    LET r     == Head(inbox).rpc
        begun == interaction[r] \in {"SENDING", "SENT", "UNKNOWN"}
        Goes  == /\ inbox' = Tail(inbox) /\ known' = known \ {r}
                 /\ UNCHANGED <<child, actor, task, generation, grants, items,
                                evidence, commands, mandate, shown>>
    IN
    /\ Serving /\ commands = <<>> /\ Has(inbox, "resolved")
    /\ \/ r \notin known /\ Goes /\ UNCHANGED <<interaction, request, events>>
       \/ /\ r \in known /\ begun
          /\ Mark(r, "RESOLVED")
          /\ request' = IF StillOpen(r) = {} THEN "RUNNING" ELSE request
          /\ \/ Goes /\ Emit([kind |-> "resolved", rpc |-> r])
             \/ ~Room /\ Fails
       \/ /\ r \in known /\ ~begun /\ Fails
          /\ UNCHANGED <<interaction, request>>
    /\ UNCHANGED <<asked, kind, sent, steer, stopRequested, mailed, coordVars,
                   config>>

\* The child is gone, or the content of the ended turn could not be had
\* within a minute.
LosesRuntime ==
    /\ Serving /\ commands = <<>>
    /\ Has(inbox, "closed") \/ child = "ended"
    /\ request' = "UNKNOWN"
    /\ EmitLast
    /\ UNCHANGED <<asked, kind, sent, interaction, steer, stopRequested,
                   mailed, coordVars, config>>

\* turn/completed, or the poll every 5 s: confirm_terminal.
Confirms ==
    /\ Serving /\ commands = <<>> /\ inbox = <<>> /\ child = "ended"
    /\ request' = "TERMINAL"
    /\ actor' = "confirmed"
    /\ UNCHANGED <<codexVars, interaction, steer, stopRequested,
                   task, generation, grants, items, evidence, known,
                   mailVars, coordVars, userVars>>

\* close_direct_approvals, the delivery, and the end of the actor.
Closes ==
    /\ actor = "confirmed"
    /\ interaction' = Closed
    /\ EmitLast
    /\ UNCHANGED <<asked, kind, sent, request, steer, stopRequested, mailed,
                   coordVars, config>>

-----------------------------------------------------------------------------
(***************************************************************************)
(* The coordinator's loop for the run (drive).                             *)
(***************************************************************************)

NoCards == [r \in Rpcs |-> NoCard]

\* The actor has ended, or is aborted.
ActorGone == /\ Dropped
             /\ events' = <<>>
             /\ actor' = IF actor \in {"serving", "confirmed"}
                         THEN "aborted" ELSE actor

DriveTakes(k) == /\ drive = "receiving"
                 /\ Has(events, k) /\ events' = Tail(events)

DriveShows ==
    LET e == Head(events) IN
    /\ DriveTakes("approval")
    /\ cards' = [cards EXCEPT ![e.rpc] = [generation |-> e.generation,
                                          viewed |-> 0, up |-> TRUE]]
    /\ UNCHANGED <<codexVars, storeVars, actorVars, commands, mailed, drive,
                   live, worker, userVars>>

\* The card or a notice could not be posted.
DriveFails ==
    /\ drive = "receiving"
    /\ Has(events, "approval") \/ Has(events, "unsupported")
    /\ drive' = "ending"
    /\ ActorGone
    /\ UNCHANGED <<asked, kind, sent, storeVars, mailed, cards, live, worker,
                   config>>

DriveRemoves ==
    LET e == Head(events) IN
    /\ \/ /\ DriveTakes("resolved")
          /\ cards' = [cards EXCEPT ![e.rpc] = NoCard]
       \/ /\ DriveTakes("invalidated")
          /\ cards' = [r \in Rpcs |->
                          IF cards[r].generation < e.generation
                          THEN NoCard ELSE cards[r]]
       \/ DriveTakes("unsupported") /\ UNCHANGED cards
    /\ UNCHANGED <<codexVars, storeVars, actorVars, commands, mailed, drive,
                   live, worker, userVars>>

\* The last event, or the closed channel of an actor that failed.
DriveEnds ==
    /\ drive = "receiving"
    /\ \/ Has(events, "ended")
       \/ events = <<>> /\ actor \in {"ended", "failed"}
    /\ drive' = "ending"
    /\ ActorGone
    /\ UNCHANGED <<asked, kind, sent, storeVars, mailed, cards, live, worker,
                   config>>

\* active.remove and approvals.retain; a worker on its way finds no run.
DriveCleans ==
    /\ drive = "ending"
    /\ drive' = "settling"
    /\ live' = FALSE
    /\ cards' = NoCards
    /\ worker' = [w \in Workers |-> Idle]
    /\ UNCHANGED <<codexVars, storeVars, actorVars, mailVars, userVars>>

\* direct_actor_failed, or the UnknownOnDrop of the run.
DriveSettles ==
    /\ drive = "settling"
    /\ drive' = "done"
    /\ request' = IF request \in Active THEN "UNKNOWN" ELSE request
    /\ UNCHANGED <<codexVars, interaction, steer, stopRequested,
                   actorVars, mailVars, cards, live, worker, userVars>>

-----------------------------------------------------------------------------
\* The Gateway stops at any moment; start-up fences what it finds.
Restarts ==
    /\ drive # "down"
    /\ drive' = "down"
    /\ interaction' = Closed
    /\ request' = IF request \in Active THEN "UNKNOWN" ELSE request
    /\ ActorGone
    /\ cards' = NoCards /\ live' = FALSE
    /\ worker' = [w \in Workers |-> Idle]
    /\ UNCHANGED <<asked, kind, sent, steer, stopRequested, mailed, config>>

CodexNext == \/ \E r \in Rpcs : CallStarts(r) \/ Asks(r) \/ Withdraws(r)
             \/ TurnEnds
             \/ ChildDies

UserNext ==
    \/ \E r \in Rpcs : \E k \in Pages(r) : ReadsPage(r, k)
    \/ \E w \in Workers, r \in Rpcs : Presses(w, r)
    \/ \E w \in Workers : GivesUp(w) \/ MailsDecision(w)
    \/ \E s \in Steers : MailsSteer(s)
    \/ MailsInterrupt
    \/ EditsConfig

ActorNext ==
    \/ TakesApproval
    \/ TakesInterrupt
    \/ TakesSteer
    \/ SteerBegins
    \/ SteerRefused
    \/ SteerEnds
    \/ ReplyWritten
    \/ WriteFails
    \/ ReplyRecorded
    \/ ReplyUnknown
    \/ GrantReplies
    \/ HearsCall
    \/ HearsRequest
    \/ HearsUnknown
    \/ HearsResolved
    \/ LosesRuntime
    \/ Confirms
    \/ Closes

DriveNext ==
    \/ DriveShows
    \/ DriveFails
    \/ DriveRemoves
    \/ DriveEnds
    \/ DriveCleans
    \/ DriveSettles

Next == CodexNext \/ UserNext \/ ActorNext \/ DriveNext \/ Restarts

Spec == Init /\ [][Next]_vars

\* The actor's and the coordinator's steps wait only for store calls, writes
\* and Discord calls, all of which have a time limit.  Codex and the user owe
\* nothing.
FairSpec == Spec /\ WF_vars(ActorNext) /\ WF_vars(DriveNext)

-----------------------------------------------------------------------------
(***************************************************************************)
(* Properties.                                                             *)
(***************************************************************************)

\* A request of the App Server is answered at most once, over repeated
\* presses, lost outcomes, grants and restarts (DA-R06: what may have been
\* sent is not sent again).
AnsweredOnce == \A r \in Rpcs : sent[r] <= 1

\* Permission is given only by a user who saw all of it: when the actor
\* decides to send an accept for a press, every page of the details had been
\* shown since the last /steer it took (DA-R10).
AcceptInformed ==
    [][\A r \in Rpcs :
          /\ interaction[r] # "SENDING" /\ interaction'[r] = "SENDING"
          /\ task'.what \in {"accept", "run"}
          => shown[r] = Pages(r)]_vars

\* A request is accepted without asking only if the user allowed the very
\* tool that asks for the rest of this run, under the configuration that was
\* in force when it was compared, and neither a /steer, nor a /stop or
\* /cancel came since (DA-R24).
GrantInScope ==
    [][\A r \in Rpcs :
          task'.step = "begin" /\ task'.rpc = r /\ task.step # "begin"
          => <<kind[r], config>> \in mandate]_vars

\* The record never claims less than what happened: what it calls unanswered
\* was never written to the child, what it calls sent was written, and what
\* it calls resolved was over for Codex, also after a crash in mid-reply; and
\* the run waits for an approval exactly as long as one is open.
RecordTellsTruth ==
    /\ TypeOK
    /\ \A r \in Rpcs : kind[r] # "unknown" =>
          /\ interaction[r] \in {"NONE", "PENDING", "UNAVAILABLE"} =>
                sent[r] = 0
          /\ interaction[r] = "SENT" => sent[r] = 1
          /\ interaction[r] = "RESOLVED" =>
                asked[r] \in {"answered", "withdrawn"}
    /\ request \in Active =>
          (request = "APPROVAL_REQUIRED" <=> InState(Open) # {})

\* Nobody waits unseen: a new request of Codex is answered, or its card is
\* shown, or the run is given up (DA-R23: no turn waits for ever), unless a
\* /steer is taken first.  A card that a /steer took away is not shown again,
\* also if the /steer is then refused.
AskedIsShown ==
    \A r \in Rpcs :
        asked[r] = "waiting" /\ interaction[r] = "NONE"
        ~> \/ asked[r] # "waiting"
           \/ cards[r].up
           \/ task.step = "steer"
           \/ request \notin Active

=============================================================================
