------------------------------ MODULE Cutover ------------------------------
(* One state directory over its whole life: the Proxy daemon works on it,    *)
(* backups are taken, a backup is restored under a marker and quarantined,   *)
(* the directory is cut over to Direct mode or archived in favour of a fresh *)
(* one - each an offline procedure of several durable steps that may stop    *)
(* between any two of them (src/backup.rs, src/direct_migration.rs, main.rs).*)
(*                                                                           *)
(* The state lock lets one process at a time work on the directory: `proc`   *)
(* is that process, with the step it has reached.  A stop, a crash and a     *)
(* step that fails leave the same traces: `proc` goes back to Idle and what  *)
(* was written stays written.  SQLite makes each transaction, and the copy   *)
(* of a whole database by the backup interface, atomic.  Not in the module:  *)
(* the instance identity (one instance), the schema versions, the deadlines, *)
(* and a failed staging directory, which no command ever names again.        *)
EXTENDS Naturals, FiniteSets

CONSTANTS
    Requests,      \* Discord messages, each at most one request
    MaxBundles,    \* backup directories
    MaxRestores    \* restore ids handed out

ASSUME BoundsAssumption ==
    /\ IsFiniteSet(Requests)
    /\ MaxBundles \in Nat /\ MaxRestores \in Nat

VARIABLES
    db,        \* gateway.sqlite3 of the state directory
    files,     \* saved answers on disk, by request
    bundles,   \* the published backups
    marker,    \* recovery/restore-pending.json: its restore id, or 0
    proc,      \* the process holding the state lock
    fresh,     \* the separate directory of `direct archive-init`
    posted,    \* messages received so far
    ids,       \* restore ids used so far
    sent,      \* how often each request was handed to an AI
    owing,     \* restores begun and not yet released by the operator
    skipped    \* a Direct daemon was started over a pending restore

vars == <<db, files, bundles, marker, proc, fresh, posted, ids, sent, owing, skipped>>
history == <<sent, owing, skipped>>

----------------------------------------------------------------------------
(* "DONE": terminal, or refused before it became a request.  "OWED":         *)
(* terminal, its resources or a control still on the way.  "FENCED": UNKNOWN *)
(* with no identity at the Proxy; "UNKNOWN" has one.                         *)
RequestState ==
    {"ABSENT", "VALIDATING", "QUEUED", "RUNNING", "UNKNOWN", "FENCED", "OWED", "DONE"}

Database ==
    [mode : {"proxy", "direct"}, req : [Requests -> RequestState], holds : SUBSET Requests,
     restore : 0..MaxRestores, pending : BOOLEAN, floor : SUBSET Requests, paused : BOOLEAN,
     answers : SUBSET Requests, backup : 0..MaxBundles]

Bundle == [made : BOOLEAN, db : Database, files : SUBSET Requests]

Process ==
    [kind : {"none", "proxy", "direct", "restore", "cutover", "abandon", "archive"},
     at : {"none", "opened", "registered", "fenced", "run", "marked", "filled", "backup", "backed",
           "created", "switched", "audited"},
     arg : 0..(MaxBundles + MaxRestores), recovery : BOOLEAN, lifting : BOOLEAN]

Blank ==
    [mode |-> "proxy", req |-> [r \in Requests |-> "ABSENT"], holds |-> {}, restore |-> 0,
     pending |-> FALSE, floor |-> {}, paused |-> FALSE, answers |-> {}, backup |-> 0]

NoBundle == [made |-> FALSE, db |-> Blank, files |-> {}]
Idle == [kind |-> "none", at |-> "none", arg |-> 0, recovery |-> FALSE, lifting |-> FALSE]

Runs(kind) == [Idle EXCEPT !.kind = kind, !.at = "run"]
Free == proc.kind = "none"
At(kind, at) == proc.kind = kind /\ proc.at = at
Daemon == proc.at = "run"
Move(at) == proc' = [proc EXCEPT !.at = at]
In(state) == {r \in Requests : db.req[r] = state}

\* Mutant: unfinished admissions are not looked at.
Quiescent_NoAdmissions(d) ==
    /\ \A r \in Requests : d.req[r] \in {"ABSENT", "VALIDATING", "DONE"}
    /\ d.holds = {}

Quiescent(d) ==
    /\ \A r \in Requests : d.req[r] \in {"ABSENT", "DONE"}
    /\ d.holds = {}

Verified(b) ==
    /\ bundles[b].made
    /\ bundles[b].files = bundles[b].db.answers

Init ==
    /\ db = Blank
    /\ files = {}
    /\ bundles = [b \in 1..MaxBundles |-> NoBundle]
    /\ marker = 0
    /\ proc = Idle
    /\ fresh = [pending |-> FALSE, db |-> "none"]
    /\ posted = {}
    /\ ids = 0
    /\ sent = [r \in Requests |-> 0]
    /\ owing = {}
    /\ skipped = FALSE

----------------------------------------------------------------------------
(* The end of a process, at any step.                                        *)
Stops ==
    /\ ~Free
    /\ proc' = Idle
    /\ UNCHANGED <<db, files, bundles, marker, fresh, posted, ids, history>>

----------------------------------------------------------------------------
(* The Proxy daemon's start-up.  A marker, or --recovery which writes one,   *)
(* makes it fence the whole database before any task runs.                   *)
\* Mutant: only the database is asked whether a restore is pending.
ProxyStarts_NoMarker ==
    /\ Free
    /\ db.mode = "proxy"
    /\ proc' = [Idle EXCEPT !.kind = "proxy", !.at = IF db.pending THEN "opened" ELSE "fenced",
                            !.recovery = db.pending]
    /\ UNCHANGED <<db, files, bundles, marker, fresh, posted, ids, history>>

ProxyStarts ==
    /\ Free
    /\ db.mode = "proxy"
    /\ proc' = [Idle EXCEPT !.kind = "proxy", !.at = IF marker # 0 THEN "opened" ELSE "fenced",
                            !.recovery = marker # 0 \/ db.pending]
    /\ UNCHANGED <<db, files, bundles, marker, fresh, posted, ids, history>>

ForcedRecovery ==
    /\ Free
    /\ db.mode = "proxy"
    /\ marker = 0
    /\ ids < MaxRestores
    /\ ids' = ids + 1
    /\ marker' = ids + 1
    /\ owing' = owing \cup {ids + 1}
    /\ proc' = [Idle EXCEPT !.kind = "proxy", !.at = "opened", !.recovery = TRUE]
    /\ UNCHANGED <<db, files, bundles, fresh, posted, sent, skipped>>

RegisterRecoveryProjects ==
    /\ At("proxy", "opened")
    /\ db' = [db EXCEPT !.pending = TRUE]
    /\ Move("registered")
    /\ UNCHANGED <<files, bundles, marker, fresh, posted, ids, history>>

Fenced ==
    [db EXCEPT !.restore = marker, !.pending = TRUE, !.paused = TRUE,
               !.holds = @ \cup In("QUEUED"),
               !.req = [r \in Requests |->
                   CASE @[r] = "QUEUED" -> "FENCED"
                     [] @[r] = "RUNNING" -> "UNKNOWN"
                     [] @[r] = "VALIDATING" -> "DONE"
                     [] OTHER -> @[r]]]

Quarantine ==
    /\ At("proxy", "registered")
    /\ db' = IF db.restore = marker THEN db ELSE Fenced
    /\ Move("fenced")
    /\ UNCHANGED <<files, bundles, marker, fresh, posted, ids, history>>

Recovered(d) ==
    [d EXCEPT !.req = [r \in Requests |-> IF @[r] = "VALIDATING" THEN "DONE" ELSE @[r]]]

StartupRecover ==
    /\ At("proxy", "fenced")
    /\ db' = Recovered(db)
    /\ Move("run")
    /\ UNCHANGED <<files, bundles, marker, fresh, posted, ids, history>>

(* The Direct daemon: direct_database() asks for the mode only; what was     *)
(* under way when the last process ended becomes UNKNOWN.                    *)
DirectStarts ==
    /\ Free
    /\ db.mode = "direct"
    /\ proc' = Runs("direct")
    /\ db' = [Recovered(db) EXCEPT
                !.req = [r \in Requests |-> IF @[r] = "RUNNING" THEN "UNKNOWN" ELSE @[r]]]
    /\ skipped' = (skipped \/ marker # 0)
    /\ UNCHANGED <<files, bundles, marker, fresh, posted, ids, sent, owing>>

----------------------------------------------------------------------------
(* The daemons at work.  Both admit through the same store operations, and   *)
(* begin_send and begin_direct_send make the same checks here.               *)
\* An event may arrive again: Discord repeats events after a reconnection.
Reserve(r) ==
    /\ Daemon /\ ~proc.recovery
    /\ db.req[r] = "ABSENT"
    /\ ~db.pending
    /\ r \notin db.floor
    /\ db' = [db EXCEPT !.req[r] = "VALIDATING"]
    /\ posted' = posted \cup {r}
    /\ UNCHANGED <<files, bundles, marker, proc, fresh, ids, history>>

Finalize(r) ==
    /\ Daemon
    /\ db.req[r] = "VALIDATING"
    /\ \E next \in {"QUEUED", "DONE"} : db' = [db EXCEPT !.req[r] = next]
    /\ UNCHANGED <<files, bundles, marker, proc, fresh, posted, ids, history>>

BeginSend(r) ==
    /\ Daemon
    /\ db.req[r] = "QUEUED"
    /\ ~db.pending
    /\ ~db.paused
    /\ Cardinality(db.holds) < 2
    /\ db' = [db EXCEPT !.req[r] = "RUNNING", !.holds = @ \cup {r}]
    /\ sent' = [sent EXCEPT ![r] = @ + 1]
    /\ UNCHANGED <<files, bundles, marker, proc, fresh, posted, ids, owing, skipped>>

\* The Proxy is asked what became of a request it knows; also in recovery.
Observe(r) ==
    /\ At("proxy", "run")
    /\ \/ /\ db.req[r] \in {"RUNNING", "UNKNOWN"}
          /\ \E next \in {"OWED", "DONE"} :
                db' = [db EXCEPT !.req[r] = next, !.holds = @ \ {r}]
       \/ /\ db.req[r] = "RUNNING"
          /\ db' = [db EXCEPT !.req[r] = "UNKNOWN"]
       \/ /\ db.req[r] = "OWED"
          /\ db' = [db EXCEPT !.req[r] = "DONE"]
    /\ UNCHANGED <<files, bundles, marker, proc, fresh, posted, ids, history>>

\* The answer's file is written and synced before the row that names it.
SaveAnswer(r) ==
    /\ At("direct", "run")
    /\ db.req[r] = "RUNNING"
    /\ r \notin files
    /\ files' = files \cup {r}
    /\ UNCHANGED <<db, bundles, marker, proc, fresh, posted, ids, history>>

FinishDirect(r) ==
    /\ At("direct", "run")
    /\ db.req[r] = "RUNNING"
    /\ \/ /\ r \in files
          /\ db' = [db EXCEPT !.req[r] = "DONE", !.holds = @ \ {r}, !.answers = @ \cup {r}]
       \/ db' = [db EXCEPT !.req[r] = "UNKNOWN"]
    /\ UNCHANGED <<files, bundles, marker, proc, fresh, posted, ids, history>>

ApplyResume ==
    /\ Daemon /\ ~proc.recovery
    /\ db.paused
    /\ db' = [db EXCEPT !.paused = FALSE]
    /\ UNCHANGED <<files, bundles, marker, proc, fresh, posted, ids, history>>

----------------------------------------------------------------------------
(* A backup: an online copy of the database, then the files its rows name,   *)
(* then the rename that publishes it.  A daemon makes one beside its other   *)
(* work - the Direct daemon before it commits a /recover, whose effect is in *)
(* DirectStore - and the offline commands make one as a step.  One action:   *)
(* no daemon removes a file that a row names, so only the moment of the copy *)
(* counts; nothing names a bundle before the rename.  The first free name is *)
(* taken.                                                                    *)
CreateBackup(b) ==
    /\ Daemon \/ proc.at = "backup"
    /\ ~bundles[b].made
    /\ \A earlier \in 1..(b - 1) : bundles[earlier].made
    /\ db.answers \subseteq files
    /\ bundles' = [bundles EXCEPT ![b] = [made |-> TRUE, db |-> db, files |-> db.answers]]
    /\ proc' = IF proc.at = "backup" THEN [proc EXCEPT !.at = "backed", !.arg = b] ELSE proc
    /\ UNCHANGED <<db, files, marker, fresh, posted, ids, history>>

----------------------------------------------------------------------------
(* restore: marker, content, database - in this order.                       *)
RestoreStarts(b) ==
    /\ Free
    /\ Verified(b)
    /\ marker = 0
    /\ ids < MaxRestores
    /\ ids' = ids + 1
    /\ marker' = ids + 1
    /\ owing' = owing \cup {ids + 1}
    /\ proc' = [Idle EXCEPT !.kind = "restore", !.at = "marked", !.arg = b]
    /\ UNCHANGED <<db, files, bundles, fresh, posted, sent, skipped>>

\* A saved answer's file is lost while no process runs: the reason to restore.
LoseFile(r) ==
    /\ Free
    /\ r \in files
    /\ files' = files \ {r}
    /\ UNCHANGED <<db, bundles, marker, proc, fresh, posted, ids, history>>

\* Mutant: the content is left out, as in bundles of format 1.
RestoreContent_Skipped ==
    /\ At("restore", "marked")
    /\ files' = files
    /\ Move("filled")
    /\ UNCHANGED <<db, bundles, marker, fresh, posted, ids, history>>

RestoreContent ==
    /\ At("restore", "marked")
    /\ files' = files \cup bundles[proc.arg].files
    /\ Move("filled")
    /\ UNCHANGED <<db, bundles, marker, fresh, posted, ids, history>>

RestoreDatabase ==
    /\ At("restore", "filled")
    /\ db' = bundles[proc.arg].db
    /\ proc' = Idle
    /\ UNCHANGED <<files, bundles, marker, fresh, posted, ids, history>>

(* The operator lifts the quarantine: a transaction, then the marker.        *)
\* Mutant: no admission floor is set.
Release_NoFloor(id) ==
    /\ At("proxy", "run") /\ ~proc.lifting
    /\ marker # 0 => marker = id
    /\ db.restore = id
    /\ db' = [db EXCEPT !.pending = FALSE]
    /\ owing' = owing \ {id}
    /\ proc' = [proc EXCEPT !.lifting = TRUE]
    /\ UNCHANGED <<files, bundles, marker, fresh, posted, ids, sent, skipped>>

Release(id) ==
    /\ At("proxy", "run") /\ ~proc.lifting
    /\ marker # 0 => marker = id
    /\ db.restore = id
    /\ db' = [db EXCEPT !.pending = FALSE, !.floor = posted]
    /\ owing' = owing \ {id}
    /\ proc' = [proc EXCEPT !.lifting = TRUE]
    /\ UNCHANGED <<files, bundles, marker, fresh, posted, ids, sent, skipped>>

RemoveMarker ==
    /\ At("proxy", "run") /\ proc.lifting
    /\ marker' = 0
    /\ proc' = [proc EXCEPT !.lifting = FALSE, !.recovery = FALSE]
    /\ UNCHANGED <<db, files, bundles, fresh, posted, ids, history>>

----------------------------------------------------------------------------
(* direct cutover, and the backup every `direct abandon` begins with.        *)
CutoverStarts ==
    /\ Free
    /\ db.mode = "proxy"
    /\ Quiescent(db)
    /\ proc' = [Idle EXCEPT !.kind = "cutover", !.at = "backup"]
    /\ UNCHANGED <<db, files, bundles, marker, fresh, posted, ids, history>>

CutoverCommits ==
    /\ At("cutover", "backed")
    /\ Verified(proc.arg)
    /\ Quiescent(bundles[proc.arg].db)
    /\ db.mode = "proxy"
    /\ Quiescent(db)
    /\ db' = [db EXCEPT !.mode = "direct", !.backup = proc.arg]
    /\ proc' = Idle
    /\ UNCHANGED <<files, bundles, marker, fresh, posted, ids, history>>

AbandonStarts ==
    /\ Free
    /\ db.mode = "direct"
    /\ proc' = [Idle EXCEPT !.kind = "abandon", !.at = "backup"]
    /\ UNCHANGED <<db, files, bundles, marker, fresh, posted, ids, history>>

AbandonDirectUnknown(r) ==
    /\ At("abandon", "backed")
    /\ db.req[r] = "UNKNOWN"
    /\ r \in db.holds
    /\ db' = [db EXCEPT !.holds = @ \ {r}]
    /\ proc' = Idle
    /\ UNCHANGED <<files, bundles, marker, fresh, posted, ids, history>>

(* direct archive-init: the old directory is archived and a fresh one made;  *)
(* archive-init-pending.json in the fresh directory fences its half-made     *)
(* database.  The old directory stays a Proxy directory.                     *)
\* Bound: only a directory that was never backed up nor restored is archived.
ArchiveBound == ids = 0 /\ \A b \in 1..MaxBundles : ~bundles[b].made

ArchiveStarts ==
    /\ ArchiveBound
    /\ Free
    /\ db.mode = "proxy"
    /\ fresh.db = "none"
    /\ proc' = [Idle EXCEPT !.kind = "archive", !.at = "backup"]
    /\ UNCHANGED <<db, files, bundles, marker, fresh, posted, ids, history>>

ArchiveMarks ==
    /\ At("archive", "backed")
    /\ Verified(proc.arg)
    /\ ~fresh.pending
    /\ fresh' = [fresh EXCEPT !.pending = TRUE]
    /\ Move("marked")
    /\ UNCHANGED <<db, files, bundles, marker, posted, ids, history>>

FreshStep(from, to, next) ==
    /\ At("archive", from)
    /\ fresh' = [fresh EXCEPT !.db = next]
    /\ Move(to)
    /\ UNCHANGED <<db, files, bundles, marker, posted, ids, history>>

InitializeDirect ==
    \/ FreshStep("marked", "created", "proxy")
    \/ FreshStep("created", "switched", "direct")

ArchiveAudits == FreshStep("switched", "audited", "audited")

ArchiveEnds ==
    /\ At("archive", "audited")
    /\ fresh' = [fresh EXCEPT !.pending = FALSE]
    /\ proc' = Idle
    /\ UNCHANGED <<db, files, bundles, marker, posted, ids, history>>

\* direct_database() in the fresh directory: whether `direct run` opens it.
FreshAccepted == ~fresh.pending /\ fresh.db \in {"direct", "audited"}

----------------------------------------------------------------------------
StartUp ==
    \/ ProxyStarts \/ ForcedRecovery \/ RegisterRecoveryProjects \/ Quarantine
    \/ StartupRecover \/ DirectStarts \/ Stops

Work ==
    \/ \E r \in Requests :
          \/ Reserve(r) \/ Finalize(r) \/ BeginSend(r) \/ Observe(r)
          \/ SaveAnswer(r) \/ FinishDirect(r)
    \/ ApplyResume

Backups == \E b \in 1..MaxBundles : CreateBackup(b)

Restores ==
    \/ \E r \in Requests : LoseFile(r)
    \/ \E b \in 1..MaxBundles : RestoreStarts(b)
    \/ RestoreContent \/ RestoreDatabase
    \/ \E id \in 1..MaxRestores : Release(id)
    \/ RemoveMarker

Handover ==
    \/ CutoverStarts \/ CutoverCommits
    \/ AbandonStarts \/ \E r \in Requests : AbandonDirectUnknown(r)
    \/ ArchiveStarts \/ ArchiveMarks \/ InitializeDirect \/ ArchiveAudits \/ ArchiveEnds

Next == StartUp \/ Work \/ Backups \/ Restores \/ Handover

Spec == Init /\ [][Next]_vars

----------------------------------------------------------------------------
(* Types.  A request that runs or is uncertain in the Proxy's life keeps its *)
(* slot until its fate is known (src/storage.rs, observe).                   *)
CutoverTypeOK ==
    /\ db \in Database
    /\ files \subseteq Requests
    /\ bundles \in [1..MaxBundles -> Bundle]
    /\ marker \in 0..ids
    /\ proc \in Process
    /\ fresh \in [pending : BOOLEAN, db : {"none", "proxy", "direct", "audited"}]
    /\ posted \subseteq Requests
    /\ ids \in 0..MaxRestores
    /\ sent \in [Requests -> Nat]
    /\ owing \subseteq 1..MaxRestores
    /\ skipped \in BOOLEAN
    /\ In("RUNNING") \cup In("FENCED") \subseteq db.holds

(* No request is handed to an AI twice, by whichever daemon: not after a     *)
(* backup older than its dispatch is restored, nor when the message arrives  *)
(* again and the restored database has never heard of it, nor across the     *)
(* cutover.  Only a Direct daemon started over a pending restore may: it     *)
(* does not look at the marker (see the README).                             *)
NoReplay == skipped \/ \A r \in Requests : sent[r] <= 1

(* Nothing is dispatched between the moment a restore has marked the         *)
(* directory and the operator's release of that very restore, whatever       *)
(* crashed in between (backup::quarantine, begin_send: "recovery pending").  *)
ReleasedFirst == [][sent' # sent => owing = {} \/ skipped]_vars

(* A directory in Direct mode names a published backup of the finished Proxy *)
(* state: nothing was unfinished in it, and every request it holds is still  *)
(* recorded as it was (direct_migration::cutover).                           *)
CutoverKeepsAll ==
    /\ CutoverTypeOK
    /\ db.mode = "direct" =>
        /\ db.backup # 0
        /\ bundles[db.backup].made
        /\ LET saved == bundles[db.backup].db
           IN /\ saved.mode = "proxy" /\ saved.holds = {}
              /\ \A r \in Requests :
                    /\ saved.req[r] \in {"ABSENT", "DONE"}
                    /\ saved.req[r] # "ABSENT" => db.req[r] = saved.req[r]

(* What a daemon opens after a procedure is whole: a restore that ends has   *)
(* put every answer its database names on disk, and a fresh directory is     *)
(* accepted only after its archive was recorded (restore_content,            *)
(* archive_init, direct_database).                                           *)
WholeWhenOpened ==
    /\ [][At("restore", "filled") /\ db' # db => db'.answers \subseteq files']_vars
    /\ [](FreshAccepted => fresh.db = "audited")
=============================================================================
