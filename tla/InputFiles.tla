----------------------------- MODULE InputFiles -----------------------------
(***************************************************************************)
(* What a Discord message carries, on its way to Codex: it is read once    *)
(* when it is admitted and once more before it is sent (src/files.rs), in  *)
(* two slots and under a byte budget that every preparation shares; its    *)
(* binary attachments are put into the workspace of the conversation, and  *)
(* the input of turn/start names them.                                     *)
(*                                                                         *)
(* `job` is where the preparation of a message is.  A lease is dropped in  *)
(* two steps, fetch_sub and notify_waiters; a waiter registers with        *)
(* Notify, tries, and sleeps only then.  What the bytes are is a version   *)
(* number.  Every check of sizes, formats and origins, and every failed    *)
(* read, is one outcome: the preparation fails.  The transactions are      *)
(* those of DirectStore, seen here only as far as they decide who          *)
(* prepares; the semaphore's order of arrival is left out.                 *)
(***************************************************************************)
EXTENDS Integers, Sequences, FiniteSets, FiniteSetsExt

CONSTANTS
    Messages,      \* Discord messages
    ThreadOf,      \* the conversation of each
    Kinds,         \* what each attachment of a message is: a sequence
    Input, Temp,   \* input_bytes and temp_bytes each message was admitted with
    Slots,         \* preparations at a time
    MaxChanges,    \* bound: edits, changed bytes, files Codex touched
    MaxRestarts    \* bound: restarts of the Gateway

Kind == {"text", "image", "file"}

ASSUME InputAssumption ==
    /\ IsFiniteSet(Messages)
    /\ Kinds \in [Messages -> Seq(Kind)]
    /\ Input \in [Messages -> Nat] /\ Temp \in [Messages -> Nat]
    /\ \A m \in Messages : Input[m] <= Temp[m]
    /\ Slots \in Nat /\ MaxChanges \in Nat /\ MaxRestarts \in Nat

VARIABLES
    post,      \* the message in Discord: its version and those of its bytes
    stage,     \* how far the request of the message is
    job,       \* where its preparation is
    had,       \* what the preparation has: metadata, bytes read, files placed
    used,      \* Budget.used
    woken,     \* waiters that notify_waiters has reached
    accepted,  \* what admission saw; its digest is in the admissions row
    files,     \* the attachments' files in the workspace
    sent,      \* the input of turn/start, and the files at that moment
    changes, restarts

vars == <<post, stage, job, had, used, woken, accepted, files, sent, changes, restarts>>
outside == <<post, changes, restarts>>

-----------------------------------------------------------------------------
Parts(m) == 1 .. Len(Kinds[m])
FileParts(m) == {i \in Parts(m) : Kinds[m][i] = "file"}
Version == 0 .. MaxChanges

\* A file is absent, someone else's, or a version of the attachment.
Absent == MaxChanges + 1
Foreign == MaxChanges + 2

Stage == {"new", "admitting", "queued", "sending", "running", "over"}

\* failing: the budget has been given back, the slot not yet; leaving: both.
JobStep == {"idle", "slot", "budget", "armed", "denied", "asleep", "reading",
            "prepared", "writing", "starting", "failing", "leaving"}

InSlot == {m \in Messages : job[m] \in {"budget", "armed", "denied", "asleep",
                                    "reading", "failing"}}
Leased == {m \in Messages : job[m] \in {"reading", "prepared", "writing", "starting"}}

Nothing == [meta |-> 0, read |-> <<>>, placed |-> {}]
NotSent == [times |-> 0, input |-> <<>>, files |-> <<>>]

Init ==
    /\ post = [m \in Messages |-> [meta |-> 0, bytes |-> [i \in Parts(m) |-> 0]]]
    /\ stage = [m \in Messages |-> "new"]
    /\ job = [m \in Messages |-> "idle"]
    /\ had = [m \in Messages |-> Nothing]
    /\ used = 0
    /\ woken = {}
    /\ accepted = [m \in Messages |-> Nothing]
    /\ files = [m \in Messages |-> [i \in FileParts(m) |-> Absent]]
    /\ sent = [m \in Messages |-> NotSent]
    /\ changes = 0
    /\ restarts = 0

\* Mutant: the digest covers the message, not the bytes behind its links.
Digest_MetadataOnly(seen) == <<seen.meta>>

Digest(seen) == <<seen.meta, seen.read>>

Goes(m, from, to) ==
    /\ job[m] = from
    /\ job' = [job EXCEPT ![m] = to]

Becomes(m, next) == stage' = [stage EXCEPT ![m] = next]

\* A preparation begins with the message as Discord shows it.
Begins(m) ==
    /\ Goes(m, "idle", "slot")
    /\ had' = [had EXCEPT ![m] = [meta |-> post[m].meta, read |-> <<>>, placed |-> {}]]

\* BudgetLease::drop, its first half.
GivesBack(m) == used' = used - Input[m]

-----------------------------------------------------------------------------
(***************************************************************************)
(* prepare: a slot, a share of the budget, the attachments one by one.     *)
(***************************************************************************)

Admit(m) ==
    /\ stage[m] = "new"
    /\ Begins(m)
    /\ Becomes(m, "admitting")
    /\ UNCHANGED <<used, woken, accepted, files, sent, outside>>

\* The candidates of the scheduler: at most two jobs, one per conversation.
StartQueued(m) ==
    /\ stage[m] = "queued"
    /\ LET busy == {n \in Messages : stage[n] \in {"sending", "running"}}
       IN Cardinality(busy) < 2 /\ \A n \in busy : ThreadOf[n] # ThreadOf[m]
    /\ \/ Begins(m) /\ Becomes(m, "sending")
       \/ Becomes(m, "over") /\ UNCHANGED <<job, had>>   \* Discord has it no more
    /\ UNCHANGED <<used, woken, accepted, files, sent, outside>>

TakeSlot(m) ==
    /\ Cardinality(InSlot) < Slots
    /\ Goes(m, "slot", "budget")
    /\ UNCHANGED <<stage, had, used, woken, accepted, files, sent, outside>>

\* notified().enable(): from here on a notification reaches this waiter.
Arm(m) ==
    /\ Goes(m, "budget", "armed")
    /\ UNCHANGED <<stage, had, used, woken, accepted, files, sent, outside>>

Reserve(m) ==
    /\ \/ /\ used + Input[m] <= Temp[m]
          /\ Goes(m, "armed", "reading")
          /\ used' = used + Input[m]
          /\ woken' = woken \ {m}
       \/ /\ used + Input[m] > Temp[m]
          /\ Goes(m, "armed", "denied")
          /\ UNCHANGED <<used, woken>>
    /\ UNCHANGED <<stage, had, accepted, files, sent, outside>>

Sleeps(m) ==
    /\ Goes(m, "denied", "asleep")
    /\ UNCHANGED <<stage, had, used, woken, accepted, files, sent, outside>>

Wakes(m) ==
    /\ m \in woken
    /\ Goes(m, "asleep", "budget")
    /\ woken' = woken \ {m}
    /\ UNCHANGED <<stage, had, used, accepted, files, sent, outside>>

ReadAttachment(m) ==
    /\ job[m] = "reading"
    /\ Len(had[m].read) < Len(Kinds[m])
    /\ had' = [had EXCEPT ![m].read = Append(@, post[m].bytes[Len(@) + 1])]
    /\ UNCHANGED <<stage, job, used, woken, accepted, files, sent, outside>>

Prepared(m) ==
    /\ Len(had[m].read) = Len(Kinds[m])
    /\ Goes(m, "reading", "prepared")
    /\ UNCHANGED <<stage, had, used, woken, accepted, files, sent, outside>>

\* A check or a download failed: the lease is dropped before the slot.
PrepareFails(m) ==
    /\ Goes(m, "reading", "failing")
    /\ GivesBack(m)
    /\ UNCHANGED <<stage, had, woken, accepted, files, sent, outside>>

\* Mutant: a waiter registers after its attempt, when it goes to sleep.
Listening_Sleepers == {m \in Messages : job[m] = "asleep"}

Listening == {m \in Messages : job[m] \in {"armed", "denied", "asleep"}}

\* notify_waiters, and the end of the preparation.  After a failure the
\* admission is rejected, or the request failed before it was sent.
Notify(m) ==
    /\ \/ /\ Goes(m, "failing", "idle")
          /\ Becomes(m, "over")
       \/ Goes(m, "leaving", "idle") /\ UNCHANGED stage
    /\ woken' = woken \cup Listening
    /\ had' = [had EXCEPT ![m] = Nothing]
    /\ UNCHANGED <<used, accepted, files, sent, outside>>

-----------------------------------------------------------------------------
(***************************************************************************)
(* admit_message: finalize records the digest; the sweeper may have        *)
(* rejected the admission meanwhile.                                       *)
(***************************************************************************)

ValidationExpires(m) ==
    /\ stage[m] = "admitting"
    /\ Becomes(m, "over")
    /\ UNCHANGED <<job, had, used, woken, accepted, files, sent, outside>>

Finalize(m) ==
    /\ stage[m] # "sending"
    /\ Goes(m, "prepared", "leaving")
    /\ GivesBack(m)
    /\ \/ /\ stage[m] = "admitting"
          /\ Becomes(m, "queued")
          /\ accepted' = [accepted EXCEPT ![m] = had[m]]
       \/ Becomes(m, "over") /\ UNCHANGED accepted
    /\ UNCHANGED <<had, woken, files, sent, outside>>

-----------------------------------------------------------------------------
(***************************************************************************)
(* start_queued: the second reading must be what was admitted; then the    *)
(* files are placed, each written under another name and renamed, and the  *)
(* turn is requested.  The lease is held until start_prepared returns.     *)
(***************************************************************************)

Confirmed(m) ==
    /\ stage[m] = "sending"
    /\ Digest(had[m]) = Digest(accepted[m])

SendFails(m) ==
    /\ stage[m] = "sending"
    /\ \E at \in {"prepared", "writing"} : Goes(m, at, "leaving")
    /\ Becomes(m, "over")
    /\ GivesBack(m)
    /\ UNCHANGED <<had, woken, accepted, files, sent, outside>>

WriteUpload(m) ==
    /\ Confirmed(m)
    /\ FileParts(m) # had[m].placed
    /\ Goes(m, "prepared", "writing")
    /\ UNCHANGED <<stage, had, used, woken, accepted, files, sent, outside>>

\* renameat; the sync of the directory behind it may still fail.
PublishUpload(m) ==
    /\ job[m] = "writing"
    /\ \E i \in FileParts(m) \ had[m].placed :
          /\ files' = [files EXCEPT ![m][i] = had[m].read[i]]
          /\ had' = [had EXCEPT ![m].placed = @ \cup {i}]
    /\ \/ /\ Goes(m, "writing", "prepared")
          /\ UNCHANGED <<stage, used>>
       \/ /\ Goes(m, "writing", "leaving")
          /\ Becomes(m, "over")
          /\ GivesBack(m)
    /\ UNCHANGED <<woken, accepted, sent, outside>>

\* The items of the input: the text, the inlined attachments, and for the
\* others the path of their file (append_attachment_content, app_server_input).
AppServerInput(m) ==
    [i \in 0 .. Len(Kinds[m]) |->
        IF i = 0 THEN [type |-> "text", holds |-> had[m].meta]
        ELSE IF i \in FileParts(m) THEN [type |-> "path", holds |-> i]
        ELSE [type |-> Kinds[m][i], holds |-> had[m].read[i]]]

StartTurn(m) ==
    /\ Confirmed(m)
    /\ FileParts(m) = had[m].placed
    /\ Goes(m, "prepared", "starting")
    /\ Becomes(m, "running")
    /\ sent' = [sent EXCEPT ![m] = [times |-> @.times + 1, input |-> AppServerInput(m),
                                    files |-> files[m]]]
    /\ UNCHANGED <<had, used, woken, accepted, files, outside>>

StartReturns(m) ==
    /\ Goes(m, "starting", "leaving")
    /\ GivesBack(m)
    /\ UNCHANGED <<stage, had, woken, accepted, files, sent, outside>>

TurnEnds(m) ==
    /\ stage[m] = "running"
    /\ job[m] = "idle"
    /\ Becomes(m, "over")
    /\ UNCHANGED <<job, had, used, woken, accepted, files, sent, outside>>

-----------------------------------------------------------------------------
(***************************************************************************)
(* The world: the author edits, a link yields other bytes, a running turn  *)
(* writes in its workspace, the Gateway stops and starts.                  *)
(***************************************************************************)

Edited(m) ==
    /\ changes < MaxChanges
    /\ changes' = changes + 1
    /\ \/ post' = [post EXCEPT ![m].meta = @ + 1]
       \/ \E i \in Parts(m) : post' = [post EXCEPT ![m].bytes[i] = @ + 1]
    /\ UNCHANGED <<stage, job, had, used, woken, accepted, files, sent, restarts>>

CodexWrites(m) ==
    /\ changes < MaxChanges
    /\ changes' = changes + 1
    /\ \E n \in Messages : stage[n] = "running" /\ ThreadOf[n] = ThreadOf[m]
    /\ \E i \in FileParts(m) : files' = [files EXCEPT ![m][i] = Foreign]
    /\ UNCHANGED <<post, stage, job, had, used, woken, accepted, sent, restarts>>

\* Start-up rejects what was being admitted and fences what was running.
Restart ==
    /\ restarts < MaxRestarts
    /\ restarts' = restarts + 1
    /\ stage' = [m \in Messages |->
                    CASE stage[m] \in {"admitting", "running"} -> "over"
                      [] stage[m] = "sending" -> "queued"
                      [] OTHER -> stage[m]]
    /\ job' = [m \in Messages |-> "idle"]
    /\ had' = [m \in Messages |-> Nothing]
    /\ used' = 0
    /\ woken' = {}
    /\ UNCHANGED <<post, accepted, files, sent, changes>>

Next ==
    \/ \E m \in Messages :
          \/ Admit(m) \/ StartQueued(m) \/ TakeSlot(m) \/ Arm(m) \/ Reserve(m) \/ Sleeps(m) \/ Wakes(m)
          \/ ReadAttachment(m) \/ Prepared(m) \/ PrepareFails(m) \/ Notify(m)
          \/ ValidationExpires(m) \/ Finalize(m)
          \/ SendFails(m) \/ WriteUpload(m) \/ PublishUpload(m) \/ StartTurn(m)
          \/ StartReturns(m) \/ TurnEnds(m)
          \/ Edited(m) \/ CodexWrites(m)
    \/ Restart

Spec == Init /\ [][Next]_vars

-----------------------------------------------------------------------------
(* The variables keep their domains; nothing is placed before it was read.   *)
Seen == [meta : Nat, read : Seq(Nat), placed : SUBSET Nat]

InputTypeOK ==
    /\ DOMAIN post = Messages
    /\ \A m \in Messages : post[m].meta \in Nat /\ post[m].bytes \in [Parts(m) -> Nat]
    /\ stage \in [Messages -> Stage]
    /\ job \in [Messages -> JobStep]
    /\ had \in [Messages -> Seen]
    /\ accepted \in [Messages -> Seen]
    /\ used \in Int
    /\ woken \subseteq Messages
    /\ DOMAIN files = Messages
    /\ \A m \in Messages : files[m] \in [FileParts(m) -> Nat]
    /\ DOMAIN sent = Messages
    /\ \A m \in Messages : sent[m].times \in Nat

(* No wake-up is lost: a message that waits for the budget unnotified does   *)
(* not fit, or a lease is just being dropped and will notify it.             *)
NoLostWakeup ==
    \A m \in Messages :
        job[m] \in {"denied", "asleep"} /\ m \notin woken =>
            \/ used + Input[m] > Temp[m]
            \/ \E n \in Messages : job[n] \in {"failing", "leaving"}

(* The budget and its waiters: the counter is what the live leases took and  *)
(* is within the limit of one of their owners, no slot is given twice, and   *)
(* nobody sleeps through a release (Files::reserve, BudgetLease::drop).      *)
BudgetKept ==
    /\ InputTypeOK
    /\ used = MapThenSumSet(LAMBDA m : Input[m], Leased)
    /\ used >= 0
    /\ used > 0 => \E m \in Leased : used <= Temp[m]
    /\ Cardinality(InSlot) <= Slots
    /\ NoLostWakeup

(* What Codex is given is what was admitted: text, inlined bytes, and each   *)
(* file the input names holds the admitted bytes when the turn is requested, *)
(* although the message, its links and the workspace may change at any time, *)
(* and over a restart between placing and sending; and it is given once      *)
(* (start_queued: "input_changed_before_send").                              *)
SentAsAdmitted ==
    \A m \in Messages :
        /\ sent[m].times <= 1
        /\ sent[m].times = 1 =>
              /\ sent[m].input[0].holds = accepted[m].meta
              /\ \A i \in Parts(m) :
                    (IF i \in FileParts(m) THEN sent[m].files[i] ELSE sent[m].input[i].holds)
                       = accepted[m].read[i]
=============================================================================
