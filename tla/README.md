# Formal model of codex-hoshikage-gateway

The Gateway lets one authorised person use Codex from Discord. Every message
becomes at most one Codex turn; nothing is ever rerun on a guess. This directory
holds TLA+ modules translated from the code in `src/`, TLC configurations that
check them on small instances, and TLAPS proofs of the main properties for
instances of any size.

The program has two modes. **Direct mode** (`direct_*.rs`, `codex_transport/`)
owns a Codex App Server child per running turn; **Proxy mode** is its
predecessor and talks to an HTTP proxy. A state directory belongs to one of them.
The model covers Direct mode, and of Proxy mode what backup, restore and the
switch to Direct mode depend on.

## Inventory

| Part | State it keeps | Operations | Hard behaviour | Modelled in |
| --- | --- | --- | --- | --- |
| Direct store (`storage.rs`, `direct_store.rs`, `domain.rs`) | SQLite rows: admissions, requests, dispatches, holds, conversations, operations | some twenty transactions, one writer thread, two queues, 10 s limits | every caller works with rows it read earlier; a timed-out call may still commit | `DirectStore` |
| Coordinator (`direct_daemon.rs`, `direct_application.rs`) | table of live runs, jobs, busy set, approval cards | admission workers, scheduler tick, `drive` per request, one worker per interaction | jobs, commands and the scheduler interleave at every `await`; start-up order; stop at any point | `DirectGateway`, and the modules below for their part of it |
| Run service and actor (`direct_run.rs`, `direct_run_actor.rs`) | lease of a child, `UnknownOnDrop`, mailbox, grants, input generation | the way over the send boundary, serve loop, confirmation of the end | error paths whose own store call fails; late mail; lost notifications | `DirectGateway`, `DirectApprovals`, `DirectDelivery`, `CodexTransport` |
| Control intents (`direct_control_store.rs`) | `send_state` of an operation | interrupt, steer, outcome | unknown outcome, repeated interaction | `DirectGateway`, `DirectApprovals` |
| Approvals (`direct_interaction_store.rs`, `direct_approval.rs`) | interaction rows, grants, cards | record, reply boundary, resolve, fence | reply against resolve, a /steer against a press, lost outcome | `DirectApprovals` |
| Transport and pool (`codex_transport/`, `codex_execution.rs`) | pending calls, stdin, child, two permits | launch, request, respond, close | a call that may or may not have been written, cancellation | `CodexTransport` |
| Delivery (`delivery.rs`, `direct_delivery.rs`, `direct_image_store.rs`, …) | delivery rows, saved content | post or patch a part, reconcile, recover | lost and late HTTP answers, restart between parts | `Delivery`, `DirectDelivery` |
| Artifacts (`direct_artifacts.rs`) | artifact rows and files | capture, send | partial failure | `DirectDelivery` |
| Model and effort selection (`direct_model_store.rs`, `direct_models.rs`) | selection and its order | select, list | catalogue read outside the transaction | `ModelSelection` |
| Backup, restore, cutover (`backup.rs`, `direct_migration.rs`, `main.rs`) | bundle, marker, restore id, runtime mode | create, restore, quarantine, release, cutover, archive, abandon | crash between two steps | `Cutover` |
| Input and workspaces (`files.rs`, `direct_input.rs`, `direct_workspace.rs`) | slots, byte budget, files in the workspace | read at admission, read before send, place files | lost wake-up; content that changes between two readings | `InputFiles` |
| Configuration, Discord adapter | none that outlives a call | checks and conversions | – | through their callers |
| Proxy mode (`application.rs`, `proxy*.rs`, `mcp_*.rs`, …) | its own rows | – | – | dispatch, start-up and recovery in `Cutover` |

How they interact: Discord events enter two channels (messages, interactions).
A message is *reserved* in the store, read and validated outside any transaction,
and *finalized* into a queued request. The scheduler polls the store for candidates
and spawns a job, which reads the message again, leases a child, commits the *send
boundary* and starts the turn; an actor then owns the child and serializes Codex's
notifications, approvals and the user's controls. What the turn made is saved, the
request becomes terminal, and only then is the answer posted. The store is the only
thing that survives a stop, and every part reaches it through the same writer
thread. Backup, restore and cutover work on the directory while no daemon holds
its lock, or (backup, release) beside one.

What makes it correct:

* a message is executed at most once, and an uncertain execution is neither
  repeated nor forgotten, also over a restored backup and the change of mode;
* one open execution per conversation, no more than two in all, in the order of
  posting;
* what Codex is given is what was admitted;
* a pause, a recovery, an approval or a control does what the user had seen when
  asking;
* running work is never released, and work in flight always has an owner;
* every execution ends, settled or uncertain, and no message is forgotten;
* what a caller of the transport is told is true, and no child outlives its run;
* nothing is posted twice, and what is called delivered is visible.

The hazards behind these, each at its line of code, are in `PROJECT.json`.

## Modules

| Module | What it is |
| --- | --- |
| `TurnLedger` | abstract specification: a message is unseen, waiting, withdrawn, in flight, uncertain, settled or abandoned; once in flight it never waits again |
| `DirectStore` | the durable store of Direct mode; one action per transaction, called by anybody at any moment |
| `DirectStoreProofs` | TLAPS: types, agreement of the tables, order, exclusion, limits; `/stop` wins, recoveries do what they showed; the store implements `TurnLedger`; no Codex thread is shared or used again |
| `DirectGateway` | the daemon around the store (`EXTENDS DirectStore`): start-up, scheduler, jobs, children, live-run table, commands, recovery cards, failed calls, crashes |
| `DirectGatewayProofs` | TLAPS: every step of the daemon is a step of the store; at-most-once execution; running turns are held; controls hit their target; the recovery button; who settles what is in flight |
| `DirectApprovals` | the approvals of one running turn: Codex, actor, coordinator, buttons, `/steer`, store rows |
| `DirectApprovalsProofs` | TLAPS: one reply per request, true records, informed accepts, grants within their scope |
| `Delivery` | one row of `deliveries` per part: place, send, confirm, reconcile, with lost and late requests |
| `DirectDelivery` | the calls of `Delivery` for one turn (`EXTENDS Delivery`): answer, images, card, `/get`, start-up |
| `DirectDeliveryProofs` | TLAPS: nothing posted twice, what is confirmed is shown, order of an answer, true outcomes |
| `CodexTransport` | one child: permit, launch, calls on one stdin, reader, monitor, events, the end |
| `CodexTransportProofs` | TLAPS: frames stay whole, callers are told the truth, the run hears its turn |
| `ModelSelection` | `/models`, `/model`, `/effort` of one conversation |
| `ModelSelectionProofs` | TLAPS: the newest selection wins, when a chosen pair can be one no catalogue offers, only complete catalogues |
| `Cutover` | a state directory over backups, restores, releases, cutover, archive |
| `CutoverProofs` | TLAPS: nothing is dispatched before a release, nothing twice; what a Direct directory keeps, what a procedure leaves is whole |
| `InputFiles` | a message's content from Discord to `turn/start` |
| `InputFilesProofs` | TLAPS: Codex is given what was admitted; no wake-up is lost; the byte budget is kept |
| `MC…` | the instances for TLC |

In every module an action is a step of the code between two `await`s, a
transaction, or a step outside the program; variables carry the name of the
column or field they stand for, with a comment where they are declared. Operators
called `…_Something` after an action's name, with a comment "Mutant", are
plausible bugs of that action, kept to see each property fail; no specification
uses them.

### DirectStore

Variables are columns, as functions from requests (or conversations, or
interaction ids) to values. Rows that do not exist are `"NONE"` or `None`. A
Discord message id names its request, since `reserve` accepts one only once.
Columns that carry no information of their own are left out (the module's header
says why). `stops`, `offer[i].shown` and the two `stopsSeen` are history: no action
reads them.

A transaction is one action, because all run on one thread in one SQLite
transaction. Where the code uses the result of an earlier read in a later
transaction, that result is state: `operation[i].expected` for `/resume`,
`offer[i]` for a recovery. Time is abstracted: `Sweep` may expire any message in
validation. A Codex thread is named by the request whose `thread/start` made it.
`TurnLedger` is implemented under `Phase`, a mapping from state and hold.

### DirectGateway

`job[r]` is the position of `drive` for a request, from the scheduler
("checking") over the lease ("prepared"), the boundary ("starting"), the written
`turn/start` ("turn"), its acknowledgement ("acked") and the actor ("serving",
"delivering") to the clean-up ("ending", "aborted", "settling"); "failing",
"refused" and "boundary" are error paths. `codexTurn[r]` is the child's side,
`active` the table of live runs, `dropped` the tasks that `UnknownOnDrop` has
spawned, `cmd[i]` the worker of an interaction, `card` the recovery card. Every
action does at most one transaction of `DirectStore`.

A store call may fail before or after its commit, `MaxFaults` times. A crash
(`MaxCrashes`) may come at any point and loses everything but the store, what
Discord shows and what Codex did; an orderly stop is a crash for the model, for
it aborts the jobs as well. The Codex App Server is external: a turn starts after
`turn/start` was written and ends by itself, or is cut with its child. Failing
Discord calls and input checks are free choices.

Two simplifications. A mark of UNKNOWN and the drop of the lease behind it are
one step, although the source awaits the commit in between
(`direct_run.rs:292-322`, `direct_run_actor.rs:295-303`): `RunningTurnHeld` does not
speak about a recovery that comes between the two. A timed-out call that commits later is modelled as one that commits at
once: the writer serves the calls of a priority in order, so nothing of the same
job comes in between.

### DirectApprovals

One turn whose child may ask several times. `asked` is Codex's side of a request,
`interaction` its row, `task` the reply or steer the actor is in the middle of: a
reply is a durable intent (SENDING), the write, and its outcome, three steps
between which Codex, the coordinator and the button workers move. `shown` counts
the pages of details the user has seen, and `mandate` is history: what a grant
allowed, and under which configuration. The actor prefers its mailbox to events,
as `select!` with `biased` does. The channel to the coordinator has
`EventCapacity` places; an event that finds it full ends the actor, as `emit` does.
A restart fences what was in flight.

A refused `/steer` has already withdrawn the cards (`ApprovalInvalidated` is sent
first), and nothing shows them again: `AskedIsShown` excepts that case. The drop of
approval requests by a lagging broadcast (512 events behind) is not in this module.
Rows are closed only by `confirm_terminal` or the start-up. That no button worker
is in the middle of a press when `drive` cleans up is a reduction: a press that
comes later finds its card gone.

### Delivery and DirectDelivery

`row[s]` is the row of a slot (an answer's part, an image, the card, a `/get`),
`posts[s]` how often Discord has it, `shown[s]` what it shows, `late` the requests
whose client has given up and which Discord may still apply. `call[p]` is what a
caller is doing; the callers are the actor, `drive`, the start-up and each `/get`.
A row is placed before the request leaves, and only an empty row is ever posted:
afterwards the code can look for the nonce and compare. `DirectDelivery` has the
sequence of `confirm_terminal` (inventory of images, answer file, terminal state,
closing of approvals), then answer and images, and the start-up's recovery.

Assumed of Discord: nobody deletes the bot's messages, and one process serves a
target. The start-up's `recover()` compares an artifact's row by the digest of a
text and so never matches; such rows are left to `recover_direct_artifacts`, as in
the code. Answers of Direct mode never shrink, so the trimming of surplus parts
has nothing to do. A failed `close_direct_approvals` skips the posting of an answer
that is saved; it is one of the ways into finding 2.

### CodexTransport

A caller (`at`) waits for stdin's lock, registers in `pending`, writes some or all
of its frame, waits, and is told (`told`) an answer, `NotSent`, `ResultUnknown` or
that it was cancelled; it may be dropped at each `await`. `written` is what of its
frame went out, `stdin` the order of frames, `stdout` the child's lines. `stage` is
the lease, from the permit to its end; `feed` the run's receiver of the bounded
broadcast. The child answers, reports, sends junk or exits as it likes.

Production never calls `ActiveRun::shutdown` outside errors; the lease is dropped,
and the permit may be free a moment before the process is gone, since
`kill_on_drop` is asynchronous. A launch whose `initialize` runs into its time
limit appears as a cancelled call.

### ModelSelection

Interactions are numbered by their ids. A handler reads the catalogue page by page
from a child of its own, validates against the model it found in the row, and
commits. The catalogue may be another one at each read; the handler keeps the entry
of the model it read, and `ops[i]` keeps, as history, that entry, the listing and
the model found at the commit. The configured pair is any pair: nothing in the code
compares it with a catalogue (`direct_config.rs:127`), and a row of before schema
v15 starts with the configured effort whatever its model is (`storage.rs:312`).

So a turn may be sent with a pair Codex does not offer (it then ends UNKNOWN) in two
ways. A pair nobody has chosen from, the configured one or an old row's, is
compared with nothing. And an `/effort` validated against a model that is replaced
meanwhile is stored beside the new one. `UnofferedOnlyIfStale` says that for pairs
somebody has chosen from there is only the second way, as far as the catalogue read
for the choice tells; that a catalogue may change between choice and send, nobody
checks. Another thing the code allows: an older `/effort` that commits after a newer
`/model` has adjusted the effort overwrites the adjustment, as
`docs/system-design-direct-app-server.ja.md:129` orders the two separately. The
replies claim a change also when the selection was SUPERSEDED; texts are not
modelled.

### Cutover

`db` is one value, the database, so that a backup can keep it and a restore bring
it back. `proc` is the process that holds the state lock and the step it has
reached; `Stops` ends it anywhere. Messages may be posted again by Discord's
catch-up: a restored database may have never heard of them, and only the admission
floor keeps them out. `sent` counts dispatches, `owing` the restores not yet
released by the operator, `skipped` that a Direct daemon was started over a pending
restore; all three are history.

`direct run` and `direct cutover` look neither at the marker nor at
`recovery_pending`. A Direct directory that is restored is therefore worked on at
once (S-11 of `docs/direct-app-server-cutover-test-plan.ja.md` asks that nothing
uncertain be executed anew; `docs/operations.md:56` leaves the check to the
operator), or, if the flag was set in the copy, refuses every message for good, for
only the Proxy daemon serves the release and it refuses a Direct database.
`NoReplay` and `ReleasedFirst` except exactly these directories, by `skipped`.

Left out: a backup is one action (it is built in a staging directory and renamed);
there is one instance, one schema version and no deadline; continuation pointers,
digests and the audit table. An archive is only made while no backup and no restore
exists (`ArchiveBound`), which keeps the state space small and loses nothing, as it
writes only to a directory of its own and one bundle.

### InputFiles

`post[m]` holds versions of a message and of the bytes behind its attachments;
`had[m]` what the preparation has read and placed; `accepted[m]` what admission saw.
The budget's waiter is modelled as the code has it: register with `Notify`, try,
sleep; and the lease's drop as two steps, `fetch_sub` and `notify_waiters`. Limits
are per message, because a message keeps the configuration it was admitted under.
The kind of an attachment is fixed; a semaphore serves its waiters in any order;
`.upload-` files that a stop leaves behind are ignored, as the code ignores them. A
message does not start its second preparation while its own first lease is being
dropped. That one message of a conversation is prepared for sending at a time is a
guard here and proved in `DirectStoreProofs`.

## Runs

| Run | Instance | Distinct states | Properties |
| --- | --- | --- | --- |
| `store_send` | 3 messages, 2 conversations, capacity 1, 1 control | 350 thousand | `RecordsAgree`, `NoOvertaking`, `LimitsHeld`, `ContextKept`, `ImplementsLedger` |
| `store_control` | 2 messages, 1 conversation, 3 controls | 3.2 million | `ConversationsAgree`, `StopWins`, `RecoveryAsShown` |
| `gateway_recovery` | 2 messages, 1 conversation, 2 commands, 1 failed call, 1 crash | 2.5 million | `RunningTurnHeld`, `InFlightOwned`, `InterruptAimed`, `ExecutedOnce`, `ButtonAsShown` |
| `gateway_liveness` | 3 messages, 2 conversations, capacity 1, 1 failed call, 1 crash | 278 thousand | `ExecutionsEnd`, `QueueMoves` |
| `approvals` | 2 requests, 1 tool or an unknown kind, 1 worker, 1 `/steer`, 2 commands, 1 fault, channel of 1 | 648 thousand | `AnsweredOnce`, `RecordTellsTruth`, `AcceptInformed`, `GrantInScope`, `AskedIsShown` |
| `delivery` | 2 parts, 1 image, 1 card, 1 `/get`, 2 faults, 1 restart | 742 thousand | `PostedOnce`, `ConfirmedIsShown`, `AnswerInOrder`, `OutcomeTrue`, `KeptImagesPosted` |
| `transport` | launch, `turn/start`, 1 poll, 1 reply, 1 event, 1 stray line, 2 places | 413 thousand | `TransportTypeOK`, `FramesWhole`, `VerdictTrue`, `TurnHeard`, `CallsEnd`, `CloseEndsLease` |
| `selection` | 2 models, 3 efforts, 6 listings, 3 interactions, 1 repeated, 1 restart | 2.5 million | `NewestWins`, `UnofferedOnlyIfStale`, `OnlyOffered` |
| `cutover` | 2 messages, 2 backups, 2 restores | 9.5 million | `NoReplay`, `CutoverKeepsAll`, `ReleasedFirst`, `WholeWhenOpened` |
| `input` | 3 messages, 2 conversations, 2 slots, 1 outside change, 1 restart | 2.4 million | `BudgetKept`, `SentAsAdmitted` |
| `gateway_control` | 2 messages, 1 command, nothing fails | – | finding 1 |
| `undelivered` | 2 parts, 1 fault, 1 restart | – | finding 2 |

What each property says stands above its definition; which hazard it is for, in
`PROJECT.json`.

Bounds. *Store*: three messages are the least where a message has both an earlier
and a later one and where two conversations compete while one has a queue;
capacity 1 makes them compete with three messages (the code's value is 2). Three
controls are the least for stop, resume, stop. *Gateway*: two messages of one
conversation are what a job, its successor and a recovery need. Conversations meet
only in the capacity: the liveness run has two of them with one slot, because an
uncertain execution elsewhere fills it (with the two slots of the code it takes
two). It has no command, which would make it too large for liveness; what commands do to
jobs is checked for safety, in `gateway_recovery`. *Approvals*: two requests are the
least for a grant that answers the second, and for telling which call a
confirmation belongs to; a channel of one place is full with one event waiting.
*Delivery*: two parts are the least for an order; two faults let an answer be lost
and the search for it fail. *Transport*: every kind of caller once, and a channel
that the event, the stray line and the closing overfill. *Selection*: three
interactions are a model, an effort and the newer model between them; of the
listings one is complete, one complete and changed (a model is gone, the efforts of
the other differ), one loops at once, one later, one names a model twice, and one has
a default its model lacks; the configured pair is in none of them. *Cutover*: two backups and two restores are the least for a restore of
a state that was itself restored. *Input*: three messages of which the first two
share a conversation and one has a smaller limit; one change suffices to make the
second reading differ, and one restart to come between placing and sending.

Requests and interaction ids are interchangeable where a run uses symmetry; runs
with liveness properties use none. Deadlock is not an error where the system rests:
when all messages are done, all ids are used and the child is gone.
Every bound has a name in its cfg.

### Fairness

* `FairGatewaySpec`. Store calls, Discord calls and calls to the child have time
  limits, so each job, fence and start-up step is weakly fair, as is the scheduler's
  500 ms tick, the sweeper's second and the supervisor that starts the process
  again. Discord is assumed to be connected (the scheduler waits for it). Of Codex
  it is assumed that a turn ends; without that, a running turn holds its
  conversation for as long as it runs, which is the intent. An actor is only fair
  once its turn is over.
* `FairSpec` of `CodexTransport`. The Gateway's tasks run, stdin's mutex is fair,
  and every wait of a call has its limit. Nothing is assumed of the child.
* `FairSpec` of `DirectApprovals` and `DirectDelivery`. Each task of the process
  goes on while it is up; its calls have time limits.

Commands, crashes, faults, buttons and late requests are never fair. `/recover` and
the operator are not either, so an uncertain execution may stay for good;
`QueueMoves` therefore excepts messages of its conversation, and all messages while
uncertain executions hold every slot.

## Findings

1. **A live run can lose its place in the table** (`gateway_control`,
   `direct_daemon.rs:542`). The hold is released when the end of a turn is
   recorded, but the job goes on delivering the answer. The next message of the
   conversation may be running by the time the first job removes the table's entry,
   which is then the second job's. `/stop`, `/cancel` and `/steer` cannot reach the
   running turn any more.
2. **A saved answer may never be sent** (`undelivered`, `direct_delivery.rs:490`).
   `direct_answer` stops at the first part it cannot confirm, `drive` ignores that
   the answer is undelivered, and nothing calls it again: the start-up reconciles
   rows that exist and posts images, but no part that has no row.

Behaviour worth a discussion that no line of the repository contradicts plainly
enough to be a finding:

* A `/stop` between selection and send boundary makes `begin_direct_send` refuse,
  and the refused message becomes FAILED rather than staying in the paused queue
  (`direct_daemon.rs:469`).
* A request stays SENDING without an owner until the next start, if
  `begin_direct_send` fails behind its commit and the store fails again on the error
  path (`direct_run.rs:260`). With one failure this does not happen
  (`InFlightOwned`).
* `serverRequest/resolved` for an approval that is still PENDING, or UNKNOWN, ends
  the actor and makes the run uncertain (`direct_run_actor.rs:287`).
* The Direct daemon and `direct cutover` ignore a pending restore (see *Cutover*).
* Uncertain executions keep their slots, of which there are two: two of them stop
  every conversation until one is recovered (`storage.rs:521`, `direct_store.rs:344`).
* The configured model and effort are never compared with a catalogue, so a fresh
  conversation may send a pair Codex does not offer (see *ModelSelection*).
* A refused `/steer` strands the approvals it withdrew from view (see
  *DirectApprovals*).

## Proofs

`tlapm` checks the following for every finite set of messages, every set of
conversations, interactions and callers, and all limits and bounds.

* `DirectStoreProofs`. `TypeCorrect` and `RecordsAlwaysAgree` by themselves. The
  rest from one inductive invariant, `DispatchInv`: types, `RecordsAgree`,
  `SequenceIssued` (no sequence number is larger than `next_sequence` of its
  conversation) and `NoOvertaking`, `ConversationsAgree`, `LimitsHeld` together.
  These are not inductive alone: a new message is later than all that were sent
  only because its number is the next one; a send finds no hold only because the
  tables agree; that a VERIFYING conversation has an open execution needs that it
  has one hold, so that releasing it is what re-opens the conversation.
  `StopAlwaysWins` rests on an invariant over history: a resume or offer whose
  revision is still current has seen every stop, because each stop bumps the
  revision. `RecoveryNeverSurprises` rests on one that says that, as long as an
  offer's sequence is current and validation is over, the waiting messages are
  among those shown; equal counts then make the sets equal.
  `StoreImplementsLedger`: by `RecordsAgree` the columns of a request decide its
  phase; each transaction is shown to move one set of requests from one phase to
  another, or none. The exclusion and the capacity test of a send are what the
  ledger's `Dispatch` asks for. `ContextsKept` rests on order: places in a
  conversation differ, an open execution is the newest one sent there
  (`HeldIsNewest`), and a thread was started by an execution no newer than those
  that use it (`ThreadsUsed`). So a thread started now is not one that an
  execution given up before has used, and the old one is not bound any more
  (`GivenUpUnbound`).
* `DirectGatewayProofs`. `GatewayRefinesStore` shows that every step of the daemon
  is a step of the store or leaves it alone, so that all store theorems hold of
  the daemon; it needs that a command in flight names a conversation
  (`CommandsAddressed`). With `StoreImplementsLedger` the daemon so implements
  `TurnLedger` (`GatewayImplementsLedger`). `TurnsHeld` and `NeverTwice` follow from `GatewayInv`,
  which adds `JobMatches`: a turn that may run is driven by a job, a job that
  drives one has an active request, a child whose job is about to send has no turn
  yet, a turn belongs to a request behind the send boundary, and a dropped run has
  left the queue. The last one keeps the late fence of a dropped run away from a
  newer job. `ControlsAimed` needs that a conversation has one hold: then the
  request a control marks and the one the actor compares with are the same.
  `ButtonKeepsWord` needs `CardInv`: a card whose revision is current has seen
  every stop, one whose sequence is current lists whatever waits, and what a
  pressed button has read is never newer than the card, whichever card is shown
  meanwhile; so an offer that is still good when the backup is taken is the
  card's. `InFlightSettled` is the invariant `InFlightOwned` for behaviours that
  have lost at most one store call; without that hypothesis it is false.
  `OwnedInv` names who settles what is in flight at each place of a job, and by
  which failure it came there.
* `DirectApprovalsProofs`. All four from `DirectApprovalsInv`. `InboxSound` is the
  order of what the child has told of one request (its call, then the question,
  then the end, each once), `RowSound` what the record of a request may say
  given what was heard and sent, `TaskSound` what the actor is in the middle of,
  `LifeSound` when the run and an approval wait for each other. `Informed`: a
  card, a press and a command know no generation of the input that the actor does
  not, and of the current one only pages that were shown, so a press made
  before a `/steer` accepts nothing. `Scoped`: a call in progress is there when
  its request is heard, so evidence is of the request's own call or missing, and a
  grant rests on a mandate. Neither is kept once the actor has gone, nor needed.
* `DirectDeliveryProofs`. All from `DirectDeliveryInv`. `SlotSound` is what one row
  says of Discord: while it is pending, either nothing has arrived and at most
  the row's own request may still do so, or its version is shown and nothing is
  under way. `CallSound` is what a call knows at each of its steps. That the calls
  do not disturb each other needs `Ownership` (which task calls for which part in
  which stage) and `OneCaller`; `ActorWalk` and `BootWalk` follow the two walks
  over parts and images. `SettledImagesStay` is the action part of
  `KeptImagesPosted`.
* `InputFilesProofs`. `SentKept` from `InputInv`: what a preparation has read is
  whole when it is prepared; a message behind its digest check has read what was
  admitted; a file placed and not yet sent holds those bytes, since only a running
  turn of the same conversation writes there and there is none. `WakeupsKept`: a
  waiter that is denied without having been notified does not fit, or a lease is
  between its two steps; every step that frees room creates such a lease.
  `BudgetSound` from `BudgetInv`: the counter is the sum of the live leases, and
  any set of live leases was within the limit of one of their owners
  (`WithinLimits`; of the whole set alone it would not survive the drop of a
  lease). The sum of a set of shares is handled as the number of pairs of a
  message and one of its bytes, so that the laws of `Cardinality` apply.
* `CodexTransportProofs`. `FramesKept` and `VerdictsKept` from `TransportInv`. Who is
  past the check of `closed` holds stdin's lock (`Locked`); a frame that was cut
  short means its writer still holds the lock, or the transport is closed and
  nobody does (`CutShort`). So the next writer finds it closed and writes nothing.
  `AnswerInv` follows an answer from the child's pipe to the caller it is for.
  `TransportTypeCorrect` and `TurnReachesRun` add `EventInv`: the run subscribes
  before its turn begins, and the turn begins before the child reports of it
  (`Subscribed`); what was published and what is still in the pipe are what the
  child has sent (`Reported`); a place in the channel is that of a line of the
  child, or of the closing (`Placed`). Counts over queues are cardinalities of
  sets of positions.
* `ModelSelectionProofs`. `NewestSelectionWins` and `UnofferedMeansStale` from
  `SelectionInv`: a task that is to store has validated its choice against a model
  (`ValidatedBeforeStored`), the choice in force has its row
  (`ChoicesRecorded`), and no row of an interaction is newer than the choice in force
  (`NewestInForce`). `OnlyCompleteCatalogues` speaks of the listing
  itself, a recursive function of the pages read: it exists for every limit, and
  what it has read after `k` pages is a chain of `k` cursors.
* `CutoverProofs`. `ReleaseComesFirst` from `MarkerInv`: a restore that is still
  owed has its marker there; a Proxy daemon that works has fenced the
  database under that marker; and no saved database is as new as a marker. A
  dispatch needs a working daemon and `pending` unset, which only the release
  does. `ReplayKept` adds `Safe`: of a request that was sent, the database knows, or
  it is behind the floor or a pending flag, or a marker is there and the database
  is not yet fenced under it. `CutoverNamesBackup` and `OpenedWhole` add
  `WholeInv`, which says of the database and of every backup what a restore may
  bring back: a request that runs or is uncertain has its slot (`Held`), and a
  Direct database names a backup of a finished Proxy and agrees with it
  (`Named`); besides, nobody writes the database between the backup and the
  commit of an offline command (`Copied`), a backup has the files its database
  names (`Filled`), and a fresh directory is fenced until its archive is
  recorded.

The induction theorems of the library take an operator as a parameter, which the
installed provers cannot instantiate. Where a fact needed induction (the sum in
`BudgetKept`, the pages of a listing) the proof takes a smallest counterexample
instead, which a well-founded order provides.

Assumptions, all named in the modules and evaluated by TLC in every run: messages
are finitely many, each belongs to a conversation, limits and bounds are natural
numbers, a message's limits admit it, `None` is no request and no conversation,
the calls of the transport are distinct, the tasks of the delivery and the kinds of
approval requests too, and no model is called like an effort. Of the configured
pairs and of what the catalogue answers nothing is assumed but their types.

Every invariant and every action property of a passing run is proved;
`InFlightOwned` under the hypothesis above. Only model-checked: the liveness
properties (`ExecutionsEnd`, `QueueMoves`, `AskedIsShown`, `CallsEnd`,
`CloseEndsLease` and the other half of `KeptImagesPosted`), which rest on fairness
and so on ENABLED, and the two findings.

## Not modelled

* **Proxy mode**, beyond what `Cutover` needs. Its commands, cards, retention and
  MCP approvals follow a protocol whose other side is not in the repository, and a
  directory leaves the mode for good. Its store operations share the tables and
  the rules of `DirectStore`.
* **Wording, menus, slash-command registration, configuration parsing**: no state
  that a property could be about.
* **Formats, sizes, paths, permissions**: every such check is one outcome of the
  step that makes it.
* **Discord's client**: rate limits, gateway sessions and permission tables. Its
  callers see requests that succeed, fail, are lost or are late.
* **Artifacts published by Codex during a turn** (`item/tool/call`): the same capture
  and delivery as `/get`, which is modelled; concurrent captures of one path are
  not. Pages of fifty rows at start-up (`LIMIT 50`) are not either.
* **Composition of transport, approvals and delivery with the daemon**: each is one
  run beside `DirectGateway`, which has their effect on the store as free choices.
  Their product is too large for TLC, and they meet only in the store's rows.
