---------------------------- MODULE CutoverProofs ----------------------------
(***************************************************************************)
(* Proofs about Cutover, for any number of messages, backups and restores: *)
(* nothing is dispatched before the operator releases the restore that was *)
(* begun, no request is handed to an AI twice, a directory in Direct mode  *)
(* names a backup of the finished Proxy state and keeps what was in it,    *)
(* and what a daemon opens after a procedure is whole.                     *)
(***************************************************************************)
EXTENDS Cutover, TLAPS

USE DEF history

-----------------------------------------------------------------------------
\* Types.

Rows ==
    [mode : {"proxy", "direct"}, req : [Requests -> RequestState], holds : SUBSET Requests,
     restore : Nat, pending : BOOLEAN, floor : SUBSET Requests, paused : BOOLEAN,
     answers : SUBSET Requests, backup : Nat]

Saved == [made : BOOLEAN, db : Rows, files : SUBSET Requests]

CoreTypes ==
    /\ db \in Rows
    /\ bundles \in [1..MaxBundles -> Saved]
    /\ proc \in Process
    /\ ids \in 0..MaxRestores
    /\ marker \in 0..ids
    /\ owing \subseteq Nat \ {0}
    /\ posted \subseteq Requests
    /\ sent \in [Requests -> Nat]
    /\ skipped \in BOOLEAN

LEMMA BlankType == Blank \in Rows /\ Idle \in Process /\ NoBundle \in Saved
  <1>1. [r \in Requests |-> "ABSENT"] \in [Requests -> RequestState]
    BY DEF RequestState
  <1>2. Blank \in Rows
    BY <1>1, BoundsAssumption DEF Blank, Rows
  <1> QED
    BY <1>2, BoundsAssumption DEF Idle, Process, NoBundle, Saved

LEMMA CoreInit == Init => CoreTypes
  <1> SUFFICES ASSUME Init
               PROVE  CoreTypes
    OBVIOUS
  <1>1. db \in Rows /\ proc \in Process /\ bundles \in [1..MaxBundles -> Saved]
    BY BlankType DEF Init
  <1>2. sent \in [Requests -> Nat]
    BY DEF Init
  <1>3. ids \in 0..MaxRestores /\ marker \in 0..ids
    BY BoundsAssumption DEF Init
  <1>4. owing \subseteq Nat \ {0} /\ posted \subseteq Requests /\ skipped \in BOOLEAN
    BY DEF Init
  <1> QED
    BY <1>1, <1>2, <1>3, <1>4 DEF CoreTypes

\* What a step of the process writes about itself.
LEMMA MoveType ==
    ASSUME proc \in Process,
           NEW to \in {"none", "opened", "registered", "fenced", "run", "marked", "filled",
                       "backup", "backed", "created", "switched", "audited"},
           Move(to)
    PROVE  /\ proc' \in Process
           /\ proc'.kind = proc.kind /\ proc'.at = to /\ proc'.arg = proc.arg
           /\ proc'.lifting = proc.lifting /\ proc'.recovery = proc.recovery
  BY DEF Move, Process

\* What a transaction on the requests leaves of the database.
LEMMA RequestsType ==
    ASSUME NEW d \in Rows, NEW q \in [Requests -> RequestState]
    PROVE  /\ [d EXCEPT !.req = q] \in Rows
           /\ [d EXCEPT !.req = q].req = q
           /\ [d EXCEPT !.req = q].restore = d.restore
           /\ [d EXCEPT !.req = q].pending = d.pending
           /\ [d EXCEPT !.req = q].floor = d.floor
           /\ [d EXCEPT !.req = q].mode = d.mode
  BY DEF Rows

LEMMA RequestType ==
    ASSUME NEW d \in Rows, NEW r \in Requests, NEW s \in RequestState
    PROVE  /\ [d EXCEPT !.req[r] = s] \in Rows
           /\ [d EXCEPT !.req[r] = s].req = [d.req EXCEPT ![r] = s]
           /\ [d EXCEPT !.req[r] = s].restore = d.restore
           /\ [d EXCEPT !.req[r] = s].pending = d.pending
           /\ [d EXCEPT !.req[r] = s].floor = d.floor
           /\ [d EXCEPT !.req[r] = s].mode = d.mode
  <1>1. [d.req EXCEPT ![r] = s] \in [Requests -> RequestState]
    BY DEF Rows
  <1> QED
    BY <1>1, RequestsType

-----------------------------------------------------------------------------
\* The steps that neither touch a marker nor a bundle.

\* The process goes on as it is, or is none that the markers are about.
Aside ==
    \/ UNCHANGED proc
    \/ /\ proc'.kind \in {"none", "cutover", "abandon", "archive"}
       /\ proc'.at # "run" /\ (proc'.at = "backup" => proc'.kind # "none")
       /\ proc'.lifting => proc.lifting

Quiet ==
    /\ CoreTypes'
    /\ UNCHANGED <<bundles, marker, ids, owing, skipped>>
    /\ db'.restore = db.restore /\ db'.pending = db.pending /\ db'.floor = db.floor
    /\ Aside

\* A request moves on, or what it is does not matter to whether it is sent.
OnwardFrom(r) ==
    \/ db'.req[r] = db.req[r]
    \/ db.req[r] # "ABSENT" /\ db'.req[r] \notin {"ABSENT", "VALIDATING", "QUEUED"}

LEMMA OneRequest ==
    ASSUME CoreTypes, NEW r \in Requests, NEW s \in RequestState,
           db' = [db EXCEPT !.req[r] = s]
    PROVE  /\ db' \in Rows
           /\ db'.restore = db.restore /\ db'.pending = db.pending /\ db'.floor = db.floor
           /\ db'.req[r] = s
           /\ \A x \in Requests \ {r} : db'.req[x] = db.req[x]
  <1>1. db \in Rows
    BY DEF CoreTypes
  <1>2. db.req \in [Requests -> RequestState]
    BY <1>1 DEF Rows
  <1> QED
    BY <1>1, <1>2, RequestType

LEMMA ReserveEffect ==
    ASSUME CoreTypes, NEW r \in Requests, Reserve(r)
    PROVE  Quiet /\ db'.req[r] = "VALIDATING" /\ \A x \in Requests \ {r} : db'.req[x] = db.req[x]
  <1>1. "VALIDATING" \in RequestState
    BY DEF RequestState
  <1> QED
    BY <1>1, OneRequest DEF Reserve, Quiet, Aside, CoreTypes

LEMMA FinalizeEffect ==
    ASSUME CoreTypes, NEW r \in Requests, Finalize(r)
    PROVE  /\ Quiet /\ db'.req[r] \in {"QUEUED", "DONE"}
           /\ \A x \in Requests \ {r} : db'.req[x] = db.req[x]
  <1>1. PICK s \in {"QUEUED", "DONE"} : db' = [db EXCEPT !.req[r] = s]
    BY DEF Finalize
  <1>2. s \in RequestState
    BY DEF RequestState
  <1> QED
    BY <1>1, <1>2, OneRequest DEF Finalize, Quiet, Aside, CoreTypes

\* What a transaction on a request and its hold leaves.
LEMMA HoldType ==
    ASSUME CoreTypes, NEW r \in Requests, NEW s \in RequestState, NEW h \in SUBSET Requests,
           NEW a \in SUBSET Requests,
           \/ db' = [db EXCEPT !.req[r] = s, !.holds = h]
           \/ db' = [db EXCEPT !.req[r] = s, !.holds = h, !.answers = a]
    PROVE  /\ db' \in Rows
           /\ db'.restore = db.restore /\ db'.pending = db.pending /\ db'.floor = db.floor
           /\ db'.req[r] = s
           /\ \A x \in Requests \ {r} : db'.req[x] = db.req[x]
  <1>1. db \in Rows
    BY DEF CoreTypes
  <1>2. db.req \in [Requests -> RequestState]
    BY <1>1 DEF Rows
  <1>3. [db.req EXCEPT ![r] = s] \in [Requests -> RequestState]
    BY <1>2
  <1>4. CASE db' = [db EXCEPT !.req[r] = s, !.holds = h]
    BY <1>1, <1>2, <1>3, <1>4 DEF Rows
  <1>5. CASE db' = [db EXCEPT !.req[r] = s, !.holds = h, !.answers = a]
    BY <1>1, <1>2, <1>3, <1>5 DEF Rows
  <1> QED
    BY <1>4, <1>5

LEMMA BeginSendEffect ==
    ASSUME CoreTypes, NEW r \in Requests, BeginSend(r)
    PROVE  /\ Quiet /\ db'.req[r] = "RUNNING"
           /\ \A x \in Requests \ {r} : db'.req[x] = db.req[x]
  <1>1. "RUNNING" \in RequestState
    BY DEF RequestState
  <1>2. db.holds \cup {r} \in SUBSET Requests
    BY DEF CoreTypes, Rows
  <1>3. db' = [db EXCEPT !.req[r] = "RUNNING", !.holds = db.holds \cup {r}]
    BY DEF BeginSend
  <1>4. sent' \in [Requests -> Nat]
    BY DEF BeginSend, CoreTypes
  <1>5. /\ db' \in Rows /\ db'.restore = db.restore /\ db'.pending = db.pending
        /\ db'.floor = db.floor /\ db'.req[r] = "RUNNING"
        /\ \A x \in Requests \ {r} : db'.req[x] = db.req[x]
    BY <1>1, <1>2, <1>3, HoldType
  <1> QED
    BY <1>4, <1>5 DEF BeginSend, Quiet, Aside, CoreTypes

LEMMA ObserveEffect ==
    ASSUME CoreTypes, NEW r \in Requests, Observe(r) \/ FinishDirect(r)
    PROVE  Quiet /\ \A x \in Requests : OnwardFrom(x)
  <1>1. db.req[r] \notin {"ABSENT", "VALIDATING", "QUEUED"}
    BY DEF Observe, FinishDirect
  <1>2. \E s \in {"OWED", "DONE", "UNKNOWN"} : \E h, a \in SUBSET Requests :
            \/ db' = [db EXCEPT !.req[r] = s]
            \/ db' = [db EXCEPT !.req[r] = s, !.holds = h]
            \/ db' = [db EXCEPT !.req[r] = s, !.holds = h, !.answers = a]
    <2>1. db.holds \ {r} \in SUBSET Requests /\ db.answers \cup {r} \in SUBSET Requests
      BY DEF CoreTypes, Rows
    <2> QED
      BY <2>1 DEF Observe, FinishDirect
  <1>3. PICK s \in {"OWED", "DONE", "UNKNOWN"} : \E h, a \in SUBSET Requests :
            \/ db' = [db EXCEPT !.req[r] = s]
            \/ db' = [db EXCEPT !.req[r] = s, !.holds = h]
            \/ db' = [db EXCEPT !.req[r] = s, !.holds = h, !.answers = a]
    BY <1>2
  <1>4. s \in RequestState
    BY DEF RequestState
  <1>5. /\ db' \in Rows /\ db'.restore = db.restore /\ db'.pending = db.pending
        /\ db'.floor = db.floor /\ db'.req[r] = s
        /\ \A x \in Requests \ {r} : db'.req[x] = db.req[x]
    <2>1. PICK h, a \in SUBSET Requests :
            \/ db' = [db EXCEPT !.req[r] = s]
            \/ db' = [db EXCEPT !.req[r] = s, !.holds = h]
            \/ db' = [db EXCEPT !.req[r] = s, !.holds = h, !.answers = a]
      BY <1>3
    <2>2. CASE db' = [db EXCEPT !.req[r] = s]
      BY <1>4, <2>2, OneRequest
    <2>3. CASE db' = [db EXCEPT !.req[r] = s, !.holds = h]
      BY <1>4, <2>1, <2>3, HoldType
    <2>4. CASE db' = [db EXCEPT !.req[r] = s, !.holds = h, !.answers = a]
      BY <1>4, <2>1, <2>4, HoldType
    <2> QED
      BY <2>1, <2>2, <2>3, <2>4
  <1>6. UNCHANGED <<bundles, marker, ids, owing, skipped, proc, posted, sent>>
    BY DEF Observe, FinishDirect
  <1>7. Quiet
    BY <1>5, <1>6 DEF Quiet, Aside, CoreTypes
  <1> QED
    BY <1>1, <1>5, <1>7 DEF OnwardFrom

LEMMA AsideType ==
    ASSUME CoreTypes, NEW kind \in {"cutover", "abandon", "archive"},
           proc' = [Idle EXCEPT !.kind = kind, !.at = "backup"]
    PROVE  proc' \in Process /\ Aside
  BY BlankType DEF Aside, Idle, Process

LEMMA ArchiveMoves ==
    ASSUME CoreTypes, proc.kind = "archive",
           NEW to \in {"marked", "created", "switched", "audited"}, Move(to)
    PROVE  proc' \in Process /\ Aside
  BY MoveType DEF CoreTypes, Aside

LEMMA StillEffect ==
    ASSUME CoreTypes,
           \/ \E r \in Requests : SaveAnswer(r) \/ LoseFile(r) \/ AbandonDirectUnknown(r)
           \/ ApplyResume \/ Stops \/ CutoverStarts \/ CutoverCommits \/ AbandonStarts
           \/ ArchiveStarts \/ ArchiveMarks \/ InitializeDirect \/ ArchiveAudits \/ ArchiveEnds
    PROVE  Quiet /\ UNCHANGED <<posted, sent>> /\ db'.req = db.req
  <1>0. db \in Rows /\ proc \in Process /\ proc.arg \in Nat
    BY BoundsAssumption DEF CoreTypes, Process
  <1>1. ASSUME NEW r \in Requests, SaveAnswer(r) \/ LoseFile(r)
        PROVE  Quiet /\ UNCHANGED <<posted, sent>> /\ db'.req = db.req
    BY <1>1 DEF SaveAnswer, LoseFile, Quiet, Aside, CoreTypes
  <1>2. CASE ArchiveEnds \/ Stops
    <2>1. proc' = Idle /\ UNCHANGED <<db, bundles, marker, posted, ids, sent, owing, skipped>>
      BY <1>2 DEF ArchiveEnds, Stops
    <2>2. Idle.kind = "none" /\ Idle.at = "none" /\ ~Idle.lifting
      BY DEF Idle
    <2> QED
      BY <2>1, <2>2, BlankType DEF Quiet, Aside, CoreTypes
  <1>3. CASE CutoverStarts \/ AbandonStarts \/ ArchiveStarts
    <2>1. PICK kind \in {"cutover", "abandon", "archive"} :
             proc' = [Idle EXCEPT !.kind = kind, !.at = "backup"]
      BY <1>3 DEF CutoverStarts, AbandonStarts, ArchiveStarts
    <2>2. UNCHANGED <<db, bundles, marker, posted, ids, sent, owing, skipped>>
      BY <1>3 DEF CutoverStarts, AbandonStarts, ArchiveStarts
    <2>3. proc' \in Process /\ Aside
      BY <2>1, AsideType
    <2> QED
      BY <2>2, <2>3 DEF Quiet, CoreTypes
  <1>4. CASE ArchiveMarks \/ InitializeDirect \/ ArchiveAudits
    <2>1. /\ UNCHANGED <<db, bundles, marker, posted, ids, sent, owing, skipped>>
          /\ proc.kind = "archive"
      BY <1>4 DEF ArchiveMarks, InitializeDirect, ArchiveAudits, FreshStep, At
    <2>2. \E to \in {"marked", "created", "switched", "audited"} : Move(to)
      BY <1>4 DEF ArchiveMarks, InitializeDirect, ArchiveAudits, FreshStep
    <2>3. proc' \in Process /\ Aside
      BY <2>1, <2>2, ArchiveMoves
    <2> QED
      BY <2>1, <2>3 DEF Quiet, CoreTypes
  <1>5. CASE ApplyResume
    <2>1. /\ db' = [db EXCEPT !.paused = FALSE]
          /\ UNCHANGED <<bundles, marker, proc, posted, ids, sent, owing, skipped>>
      BY <1>5 DEF ApplyResume
    <2>2. /\ db' \in Rows /\ db'.restore = db.restore /\ db'.pending = db.pending
          /\ db'.floor = db.floor /\ db'.req = db.req
      BY <1>0, <2>1 DEF Rows
    <2> QED
      BY <2>1, <2>2 DEF Quiet, Aside, CoreTypes
  <1>6. CASE CutoverCommits
    <2>1. /\ db' = [db EXCEPT !.mode = "direct", !.backup = proc.arg]
          /\ proc' = Idle
          /\ UNCHANGED <<bundles, marker, posted, ids, sent, owing, skipped>>
      BY <1>6 DEF CutoverCommits
    <2>2. /\ db' \in Rows /\ db'.restore = db.restore /\ db'.pending = db.pending
          /\ db'.floor = db.floor /\ db'.req = db.req
      BY <1>0, <2>1 DEF Rows
    <2> QED
      BY <2>1, <2>2, BlankType DEF Quiet, Aside, CoreTypes, Idle
  <1>7. ASSUME NEW r \in Requests, AbandonDirectUnknown(r)
        PROVE  Quiet /\ UNCHANGED <<posted, sent>> /\ db'.req = db.req
    <2>1. /\ db' = [db EXCEPT !.holds = @ \ {r}]
          /\ proc' = Idle
          /\ UNCHANGED <<bundles, marker, posted, ids, sent, owing, skipped>>
      BY <1>7 DEF AbandonDirectUnknown
    <2>2. /\ db' \in Rows /\ db'.restore = db.restore /\ db'.pending = db.pending
          /\ db'.floor = db.floor /\ db'.req = db.req
      BY <1>0, <2>1 DEF Rows
    <2> QED
      BY <2>1, <2>2, BlankType DEF Quiet, Aside, CoreTypes, Idle
  <1> QED
    BY <1>1, <1>2, <1>3, <1>4, <1>5, <1>6, <1>7

-----------------------------------------------------------------------------
\* The markers.

MarkerInv ==
    /\ db.restore <= ids /\ \A b \in 1..MaxBundles : bundles[b].db.restore <= ids
    /\ owing \subseteq {marker}
    /\ proc.lifting => owing = {}
    /\ proc.kind = "proxy" /\ proc.at \in {"fenced", "run"} =>
          (marker # 0 => db.restore = marker) /\ (owing # {} => db.pending)
    /\ At("proxy", "registered") => db.pending
    /\ proc.kind = "direct" /\ marker # 0 => skipped
    /\ proc.kind = "restore" =>
          /\ marker = ids /\ marker # 0 /\ proc.arg \in 1..MaxBundles
          /\ \A b \in 1..MaxBundles : bundles[b].db.restore # marker
    /\ Daemon => proc.kind \in {"proxy", "direct"}
    /\ proc.at = "backup" => proc.kind \in {"cutover", "abandon", "archive"}

CoreInv == CoreTypes /\ MarkerInv

LEMMA MarkerInit == Init => CoreInv
  <1> SUFFICES ASSUME Init
               PROVE  CoreInv
    OBVIOUS
  <1>1. Blank.restore = 0 /\ NoBundle.db.restore = 0
    BY DEF Blank, NoBundle
  <1>2. proc.kind = "none" /\ proc.at = "none" /\ ~proc.lifting
    BY DEF Init, Idle
  <1> QED
    BY <1>1, <1>2, CoreInit DEF Init, CoreInv, MarkerInv, At, Daemon

LEMMA QuietKeeps ==
    ASSUME CoreInv, Quiet
    PROVE  CoreInv'
  BY DEF CoreInv, Quiet, Aside, MarkerInv, At, Daemon

-----------------------------------------------------------------------------
\* The steps that open a directory, take a bundle, restore and release.

LEMMA BundleKeeps ==
    ASSUME CoreInv, NEW b \in 1..MaxBundles, CreateBackup(b)
    PROVE  CoreInv'
  <1>1. /\ bundles' = [bundles EXCEPT ![b] = [made |-> TRUE, db |-> db, files |-> db.answers]]
        /\ UNCHANGED <<db, marker, posted, ids, sent, owing, skipped>>
    BY DEF CreateBackup
  <1>2. [made |-> TRUE, db |-> db, files |-> db.answers] \in Saved
    BY DEF CoreInv, CoreTypes, Saved, Rows
  <1>3. bundles' \in [1..MaxBundles -> Saved]
    BY <1>1, <1>2 DEF CoreInv, CoreTypes
  <1>4. \A x \in 1..MaxBundles : bundles'[x].db = db \/ bundles'[x] = bundles[x]
    BY <1>1 DEF CoreInv, CoreTypes
  <1>5. CASE UNCHANGED proc /\ Daemon
    BY <1>1, <1>3, <1>4, <1>5 DEF CoreInv, CoreTypes, MarkerInv, At, Daemon
  <1>6. CASE proc.at = "backup" /\ proc' = [proc EXCEPT !.at = "backed", !.arg = b]
    <2>1. /\ proc' \in Process /\ proc'.kind = proc.kind /\ proc'.at = "backed"
          /\ proc'.lifting = proc.lifting /\ proc'.arg = b
      <3>1. b \in 0..(MaxBundles + MaxRestores)
        BY BoundsAssumption
      <3> QED
        BY <1>6, <3>1 DEF CoreInv, CoreTypes, Process
    <2>2. proc.kind \in {"cutover", "abandon", "archive"}
      BY <1>6 DEF CoreInv, MarkerInv
    <2>3. CoreTypes'
      BY <1>1, <1>3, <2>1 DEF CoreInv, CoreTypes
    <2>4. \A x \in 1..MaxBundles : bundles'[x].db.restore <= ids
      BY <1>4 DEF CoreInv, MarkerInv
    <2> QED
      BY <1>1, <2>1, <2>2, <2>3, <2>4 DEF CoreInv, MarkerInv, At, Daemon
  <1> QED
    BY <1>1, <1>5, <1>6 DEF CreateBackup, At, CoreInv, MarkerInv, Daemon

\* A process starts.
LEMMA ProxyStartKeeps ==
    ASSUME CoreInv, ProxyStarts
    PROVE  CoreInv'
  <1>1. /\ proc' = [Idle EXCEPT !.kind = "proxy", !.at = IF marker # 0 THEN "opened" ELSE "fenced",
                                !.recovery = marker # 0 \/ db.pending]
        /\ UNCHANGED <<db, bundles, marker, posted, ids, sent, owing, skipped>>
    BY DEF ProxyStarts
  <1>2. /\ proc' \in Process /\ proc'.kind = "proxy" /\ ~proc'.lifting
        /\ proc'.at = IF marker # 0 THEN "opened" ELSE "fenced"
    BY <1>1, BlankType DEF CoreInv, CoreTypes, Process, Idle, Rows
  <1>3. marker = 0 => owing = {}
    BY DEF CoreInv, CoreTypes, MarkerInv
  <1> QED
    BY <1>1, <1>2, <1>3 DEF CoreInv, CoreTypes, MarkerInv, At, Daemon

LEMMA ForcedKeeps ==
    ASSUME CoreInv, ForcedRecovery
    PROVE  CoreInv'
  <1>1. /\ ids < MaxRestores /\ ids' = ids + 1 /\ marker' = ids + 1 /\ marker = 0
        /\ owing' = owing \cup {ids + 1}
        /\ proc' = [Idle EXCEPT !.kind = "proxy", !.at = "opened", !.recovery = TRUE]
        /\ UNCHANGED <<db, bundles, posted, sent, skipped>>
    BY DEF ForcedRecovery
  <1>2. proc' \in Process /\ proc'.kind = "proxy" /\ proc'.at = "opened" /\ ~proc'.lifting
    BY <1>1, BlankType DEF Process, Idle
  <1>3. ids \in Nat /\ owing = {} /\ ids' \in 0..MaxRestores /\ marker' \in 0..ids'
    BY <1>1, BoundsAssumption DEF CoreInv, CoreTypes, MarkerInv
  <1>4. db \in Rows /\ db.restore \in Nat /\ \A b \in 1..MaxBundles : bundles[b].db.restore \in Nat
    BY DEF CoreInv, CoreTypes, Rows, Saved
  <1>5. CoreTypes'
    BY <1>1, <1>2, <1>3 DEF CoreInv, CoreTypes
  <1> QED
    BY <1>1, <1>2, <1>3, <1>4, <1>5 DEF CoreInv, MarkerInv, At, Daemon

LEMMA RegisterKeeps ==
    ASSUME CoreInv, RegisterRecoveryProjects
    PROVE  /\ CoreInv' /\ db'.req = db.req /\ db'.restore = db.restore
           /\ db'.floor = db.floor /\ db'.pending
  <1>1. /\ db' = [db EXCEPT !.pending = TRUE] /\ Move("registered") /\ proc.kind = "proxy"
        /\ UNCHANGED <<bundles, marker, posted, ids, sent, owing, skipped>>
    BY DEF RegisterRecoveryProjects, At
  <1>2. /\ db' \in Rows /\ db'.pending /\ db'.restore = db.restore /\ db'.req = db.req
        /\ db'.floor = db.floor
    BY <1>1 DEF CoreInv, CoreTypes, Rows
  <1>3. /\ proc' \in Process /\ proc'.kind = "proxy" /\ proc'.at = "registered"
        /\ proc'.lifting = proc.lifting
    BY <1>1, MoveType DEF CoreInv, CoreTypes
  <1> QED
    BY <1>1, <1>2, <1>3 DEF CoreInv, CoreTypes, MarkerInv, At, Daemon

\* The fence of a database that does not yet know this restore.
LEMMA FencedType ==
    ASSUME CoreTypes
    PROVE  /\ Fenced \in Rows /\ Fenced.restore = marker /\ Fenced.pending
           /\ Fenced.floor = db.floor
           /\ \A r \in Requests :
                 /\ Fenced.req[r] \notin {"VALIDATING", "QUEUED"}
                 /\ Fenced.req[r] = "ABSENT" <=> db.req[r] = "ABSENT"
  <1> DEFINE q == [r \in Requests |->
                     CASE db.req[r] = "QUEUED" -> "FENCED"
                       [] db.req[r] = "RUNNING" -> "UNKNOWN"
                       [] db.req[r] = "VALIDATING" -> "DONE"
                       [] OTHER -> db.req[r]]
  <1>1. db \in Rows /\ marker \in Nat
    BY BoundsAssumption DEF CoreTypes
  <1>2. db.req \in [Requests -> RequestState]
    BY <1>1 DEF Rows
  <1>3. \A r \in Requests : q[r] \in RequestState \ {"VALIDATING", "QUEUED"}
                            /\ (q[r] = "ABSENT" <=> db.req[r] = "ABSENT")
    BY <1>2 DEF RequestState
  <1>4. q \in [Requests -> RequestState]
    BY <1>3
  <1>5. db.holds \cup In("QUEUED") \in SUBSET Requests
    BY <1>1 DEF Rows, In
  <1>6. Fenced = [db EXCEPT !.restore = marker, !.pending = TRUE, !.paused = TRUE,
                            !.holds = db.holds \cup In("QUEUED"), !.req = q]
    BY DEF Fenced
  <1> HIDE DEF q
  <1>7. Fenced \in Rows /\ Fenced.restore = marker /\ Fenced.pending /\ Fenced.floor = db.floor
        /\ Fenced.req = q
    BY <1>1, <1>4, <1>5, <1>6 DEF Rows
  <1> QED
    BY <1>3, <1>7

LEMMA QuarantineKeeps ==
    ASSUME CoreInv, Quarantine
    PROVE  CoreInv'
  <1>1. /\ Move("fenced") /\ proc.kind = "proxy" /\ db.pending
        /\ UNCHANGED <<bundles, marker, posted, ids, sent, owing, skipped>>
    BY DEF Quarantine, At, CoreInv, MarkerInv
  <1>2. /\ proc' \in Process /\ proc'.kind = "proxy" /\ proc'.at = "fenced"
        /\ proc'.lifting = proc.lifting
    BY <1>1, MoveType DEF CoreInv, CoreTypes
  <1>3. db' \in Rows /\ db'.restore = marker /\ db'.pending
    BY <1>1, FencedType DEF Quarantine, CoreInv, CoreTypes
  <1>4. marker <= ids
    BY BoundsAssumption DEF CoreInv, CoreTypes
  <1> QED
    BY <1>1, <1>2, <1>3, <1>4 DEF CoreInv, CoreTypes, MarkerInv, At, Daemon

LEMMA RecoverType ==
    ASSUME CoreTypes
    PROVE  /\ Recovered(db) \in Rows /\ Recovered(db).restore = db.restore
           /\ Recovered(db).pending = db.pending /\ Recovered(db).floor = db.floor
           /\ \A r \in Requests :
                 \/ Recovered(db).req[r] = db.req[r]
                 \/ db.req[r] = "VALIDATING" /\ Recovered(db).req[r] = "DONE"
  <1> DEFINE q == [r \in Requests |-> IF db.req[r] = "VALIDATING" THEN "DONE" ELSE db.req[r]]
  <1>1. db \in Rows /\ db.req \in [Requests -> RequestState]
    BY DEF CoreTypes, Rows
  <1>2. q \in [Requests -> RequestState]
    BY <1>1 DEF RequestState
  <1>3. Recovered(db) = [db EXCEPT !.req = q]
    BY DEF Recovered
  <1> HIDE DEF q
  <1>4. /\ Recovered(db) \in Rows /\ Recovered(db).req = q
        /\ Recovered(db).restore = db.restore /\ Recovered(db).pending = db.pending
        /\ Recovered(db).floor = db.floor
    BY <1>1, <1>2, <1>3, RequestsType
  <1> QED
    BY <1>4 DEF q

LEMMA RecoverKeeps ==
    ASSUME CoreInv, StartupRecover
    PROVE  CoreInv'
  <1>1. /\ db' = Recovered(db) /\ Move("run") /\ proc.kind = "proxy" /\ proc.at = "fenced"
        /\ UNCHANGED <<bundles, marker, posted, ids, sent, owing, skipped>>
    BY DEF StartupRecover, At
  <1>2. /\ proc' \in Process /\ proc'.kind = "proxy" /\ proc'.at = "run"
        /\ proc'.lifting = proc.lifting
    BY <1>1, MoveType DEF CoreInv, CoreTypes
  <1>3. db' \in Rows /\ db'.restore = db.restore /\ db'.pending = db.pending
    BY <1>1, RecoverType DEF CoreInv
  <1> QED
    BY <1>1, <1>2, <1>3 DEF CoreInv, CoreTypes, MarkerInv, At, Daemon

\* What a Direct daemon makes of the rows it finds.
LEMMA DirectType ==
    ASSUME CoreTypes, DirectStarts
    PROVE  /\ db' \in Rows /\ db'.restore = db.restore /\ db'.pending = db.pending
           /\ db'.floor = db.floor
           /\ \A r \in Requests :
                 \/ db'.req[r] = db.req[r]
                 \/ db.req[r] # "ABSENT" /\ db'.req[r] \notin {"ABSENT", "VALIDATING", "QUEUED"}
  <1> DEFINE d == Recovered(db)
  <1> DEFINE q == [r \in Requests |-> IF d.req[r] = "RUNNING" THEN "UNKNOWN" ELSE d.req[r]]
  <1>1. /\ d \in Rows /\ d.restore = db.restore /\ d.pending = db.pending /\ d.floor = db.floor
        /\ \A r \in Requests : \/ d.req[r] = db.req[r]
                               \/ db.req[r] = "VALIDATING" /\ d.req[r] = "DONE"
    BY RecoverType
  <1>2. db' = [d EXCEPT !.req = q]
    BY DEF DirectStarts
  <1> HIDE DEF d
  <1>3. q \in [Requests -> RequestState]
    BY <1>1 DEF Rows, RequestState
  <1>4. \A r \in Requests : q[r] = d.req[r] \/ (d.req[r] = "RUNNING" /\ q[r] = "UNKNOWN")
    OBVIOUS
  <1> HIDE DEF q
  <1>5. /\ db' \in Rows /\ db'.req = q /\ db'.restore = d.restore /\ db'.pending = d.pending
        /\ db'.floor = d.floor
    BY <1>1, <1>2, <1>3, RequestsType
  <1> QED
    BY <1>1, <1>4, <1>5

LEMMA DirectKeeps ==
    ASSUME CoreInv, DirectStarts
    PROVE  CoreInv'
  <1>1. /\ proc' = Runs("direct") /\ skipped' = (skipped \/ marker # 0)
        /\ UNCHANGED <<bundles, marker, posted, ids, sent, owing>>
    BY DEF DirectStarts
  <1>2. proc' \in Process /\ proc'.kind = "direct" /\ proc'.at = "run" /\ ~proc'.lifting
    BY <1>1, BlankType DEF Runs, Process, Idle
  <1>3. db' \in Rows /\ db'.restore = db.restore /\ db'.pending = db.pending
    BY DirectType DEF CoreInv
  <1> QED
    BY <1>1, <1>2, <1>3 DEF CoreInv, CoreTypes, MarkerInv, At, Daemon

\* restore: its marker is newer than any database that was ever saved.
LEMMA RestoreStartKeeps ==
    ASSUME CoreInv, NEW b \in 1..MaxBundles, RestoreStarts(b)
    PROVE  CoreInv'
  <1>1. /\ ids < MaxRestores /\ ids' = ids + 1 /\ marker' = ids + 1 /\ marker = 0
        /\ owing' = owing \cup {ids + 1}
        /\ proc' = [Idle EXCEPT !.kind = "restore", !.at = "marked", !.arg = b]
        /\ UNCHANGED <<db, bundles, posted, sent, skipped>>
    BY DEF RestoreStarts
  <1>2. /\ proc' \in Process /\ proc'.kind = "restore" /\ proc'.at = "marked" /\ ~proc'.lifting
        /\ proc'.arg = b
    <2>1. b \in 0..(MaxBundles + MaxRestores)
      BY BoundsAssumption
    <2> QED
      BY <1>1, <2>1, BlankType DEF Process, Idle
  <1>3. ids \in Nat /\ owing = {} /\ ids' \in 0..MaxRestores /\ marker' \in 0..ids'
    BY <1>1, BoundsAssumption DEF CoreInv, CoreTypes, MarkerInv
  <1>4. db.restore \in Nat /\ \A x \in 1..MaxBundles : bundles[x].db.restore \in Nat
    BY DEF CoreInv, CoreTypes, Rows, Saved
  <1>5. CoreTypes'
    BY <1>1, <1>2, <1>3 DEF CoreInv, CoreTypes
  <1> QED
    BY <1>1, <1>2, <1>3, <1>4, <1>5 DEF CoreInv, MarkerInv, At, Daemon

LEMMA RestoreKeeps ==
    ASSUME CoreInv, RestoreContent \/ RestoreDatabase
    PROVE  CoreInv'
  <1>1. CASE RestoreContent
    <2>1. /\ Move("filled") /\ proc.kind = "restore"
          /\ UNCHANGED <<db, bundles, marker, posted, ids, sent, owing, skipped>>
      BY <1>1 DEF RestoreContent, At
    <2>2. /\ proc' \in Process /\ proc'.kind = "restore" /\ proc'.at = "filled"
          /\ proc'.lifting = proc.lifting /\ proc'.arg = proc.arg
      BY <2>1, MoveType DEF CoreInv, CoreTypes
    <2> QED
      BY <2>1, <2>2 DEF CoreInv, CoreTypes, MarkerInv, At, Daemon
  <1>2. CASE RestoreDatabase
    <2>1. /\ db' = bundles[proc.arg].db /\ proc' = Idle /\ proc.kind = "restore"
          /\ UNCHANGED <<bundles, marker, posted, ids, sent, owing, skipped>>
      BY <1>2 DEF RestoreDatabase, At
    <2>2. proc.arg \in 1..MaxBundles
      BY <2>1 DEF CoreInv, MarkerInv
    <2>3. db' \in Rows /\ db'.restore <= ids
      BY <2>1, <2>2 DEF CoreInv, CoreTypes, MarkerInv, Saved
    <2>4. Idle.kind = "none" /\ Idle.at = "none" /\ ~Idle.lifting
      BY DEF Idle
    <2> QED
      BY <2>1, <2>3, <2>4, BlankType DEF CoreInv, CoreTypes, MarkerInv, At, Daemon
  <1> QED
    BY <1>1, <1>2

LEMMA ReleaseEffect ==
    ASSUME CoreInv, NEW id \in 1..MaxRestores, Release(id)
    PROVE  /\ CoreInv' /\ db'.req = db.req /\ db'.restore = db.restore /\ db'.floor = posted
           /\ UNCHANGED <<bundles, marker, posted, sent, skipped>>
  <1>1. /\ db' = [db EXCEPT !.pending = FALSE, !.floor = posted]
        /\ proc' = [proc EXCEPT !.lifting = TRUE]
        /\ owing' = owing \ {id} /\ (marker # 0 => marker = id)
        /\ proc.kind = "proxy" /\ proc.at = "run"
        /\ UNCHANGED <<bundles, marker, posted, ids, sent, skipped>>
    BY DEF Release, At
  <1>2. /\ db' \in Rows /\ db'.restore = db.restore /\ db'.req = db.req /\ db'.floor = posted
    BY <1>1 DEF CoreInv, CoreTypes, Rows
  <1>3. proc' \in Process /\ proc'.kind = "proxy" /\ proc'.at = "run"
    BY <1>1 DEF CoreInv, CoreTypes, Process
  <1>4. owing' = {}
    BY <1>1 DEF CoreInv, CoreTypes, MarkerInv
  <1> QED
    BY <1>1, <1>2, <1>3, <1>4 DEF CoreInv, CoreTypes, MarkerInv, At, Daemon

LEMMA RemoveKeeps ==
    ASSUME CoreInv, RemoveMarker
    PROVE  CoreInv'
  <1>1. /\ marker' = 0 /\ proc' = [proc EXCEPT !.lifting = FALSE, !.recovery = FALSE]
        /\ proc.kind = "proxy" /\ proc.at = "run" /\ proc.lifting
        /\ UNCHANGED <<db, bundles, posted, ids, sent, owing, skipped>>
    BY DEF RemoveMarker, At
  <1>2. proc' \in Process /\ proc'.kind = "proxy" /\ proc'.at = "run" /\ ~proc'.lifting
    BY <1>1 DEF CoreInv, CoreTypes, Process
  <1>3. owing = {} /\ 0 \in 0..ids
    BY <1>1, BoundsAssumption DEF CoreInv, CoreTypes, MarkerInv
  <1> QED
    BY <1>1, <1>2, <1>3 DEF CoreInv, CoreTypes, MarkerInv, At, Daemon

LEMMA StopKeeps ==
    ASSUME CoreInv, UNCHANGED vars
    PROVE  CoreInv'
  BY DEF vars, CoreInv, CoreTypes, MarkerInv, At, Daemon

LEMMA CoreStep ==
    ASSUME CoreInv, [Next]_vars
    PROVE  CoreInv'
  <1>0. CoreTypes
    BY DEF CoreInv
  <1>1. CASE StartUp
    BY <1>0, <1>1, ProxyStartKeeps, ForcedKeeps, RegisterKeeps, QuarantineKeeps, RecoverKeeps,
       DirectKeeps, StillEffect, QuietKeeps DEF StartUp
  <1>2. CASE Work
    BY <1>0, <1>2, ReserveEffect, FinalizeEffect, BeginSendEffect, ObserveEffect, StillEffect,
       QuietKeeps DEF Work
  <1>3. CASE Backups
    BY <1>3, BundleKeeps DEF Backups
  <1>4. CASE Restores
    BY <1>0, <1>4, StillEffect, QuietKeeps, RestoreStartKeeps, RestoreKeeps, ReleaseEffect,
       RemoveKeeps DEF Restores
  <1>5. CASE Handover
    BY <1>0, <1>5, StillEffect, QuietKeeps DEF Handover
  <1>6. CASE UNCHANGED vars
    BY <1>6, StopKeeps
  <1> QED
    BY <1>1, <1>2, <1>3, <1>4, <1>5, <1>6 DEF Next

\* Only begin_send hands a request to an AI.
LEMMA OnlySends ==
    ASSUME CoreInv, Next, \A r \in Requests : ~BeginSend(r)
    PROVE  sent' = sent
  <1>1. CASE StartUp
    BY <1>1 DEF StartUp, ProxyStarts, ForcedRecovery, RegisterRecoveryProjects, Quarantine,
               StartupRecover, DirectStarts, Stops
  <1>2. CASE Work
    BY <1>2 DEF Work, Reserve, Finalize, Observe, SaveAnswer, FinishDirect, ApplyResume
  <1>3. CASE Backups
    BY <1>3 DEF Backups, CreateBackup
  <1>4. CASE Restores
    BY <1>4 DEF Restores, LoseFile, RestoreStarts, RestoreContent, RestoreDatabase, Release,
               RemoveMarker
  <1>5. CASE Handover
    BY <1>5 DEF Handover, CutoverStarts, CutoverCommits, AbandonStarts, AbandonDirectUnknown,
               ArchiveStarts, ArchiveMarks, InitializeDirect, FreshStep, ArchiveAudits, ArchiveEnds
  <1> QED
    BY <1>1, <1>2, <1>3, <1>4, <1>5 DEF Next

\* A send finds nothing owed, or the fence was passed over.
LEMMA SendsReleased ==
    ASSUME CoreInv, NEW r \in Requests, BeginSend(r)
    PROVE  owing = {} \/ skipped
  <1>1. proc.at = "run" /\ proc.kind \in {"proxy", "direct"} /\ ~db.pending
    BY DEF BeginSend, Daemon, CoreInv, MarkerInv
  <1>2. marker = 0 => owing = {}
    BY DEF CoreInv, CoreTypes, MarkerInv
  <1> QED
    BY <1>1, <1>2 DEF CoreInv, MarkerInv

\* Nothing is dispatched before the restore that was begun is released, however
\* often whatever process stopped in between (backup::quarantine, release).
THEOREM ReleaseComesFirst == Spec => ReleasedFirst
  <1>1. ASSUME CoreInv, [Next]_vars
        PROVE  [sent' # sent => owing = {} \/ skipped]_vars
    BY <1>1, OnlySends, SendsReleased
  <1> QED
    BY MarkerInit, CoreStep, <1>1, PTL DEF Spec, ReleasedFirst

-----------------------------------------------------------------------------
\* No request is sent twice.

Unsent == {"ABSENT", "VALIDATING", "QUEUED"}

\* The database cannot send r once more: it knows that r was sent, or it will not
\* admit r, or it will be fenced before anything works on it.
Safe(r) ==
    \/ db.req[r] \notin Unsent
    \/ db.req[r] = "ABSENT" /\ (r \in db.floor \/ db.pending)
    \/ marker # 0 /\ db.restore # marker

ReplayInv ==
    /\ CoreInv
    /\ \A r \in Requests : db.req[r] # "ABSENT" => r \in posted
    /\ \A b \in 1..MaxBundles : \A r \in Requests : bundles[b].db.req[r] # "ABSENT" => r \in posted
    /\ \A r \in Requests : sent[r] # 0 => r \in posted
    /\ skipped \/ \A r \in Requests : sent[r] <= 1 /\ (sent[r] # 0 => Safe(r))

LEMMA ReplayInit == Init => ReplayInv
  <1> SUFFICES ASSUME Init
               PROVE  ReplayInv
    OBVIOUS
  <1>1. \A r \in Requests : Blank.req[r] = "ABSENT" /\ NoBundle.db.req[r] = "ABSENT"
    BY DEF Blank, NoBundle
  <1> QED
    BY <1>1, MarkerInit DEF Init, ReplayInv

\* A step after which every request that was sent is safe if it was before.
LEMMA SafeKeeps ==
    ASSUME ReplayInv, CoreInv', UNCHANGED <<bundles, sent>>, posted \subseteq posted',
           skipped => skipped', posted' \subseteq Requests,
           \A r \in Requests : db'.req[r] # "ABSENT" => r \in posted',
           ~skipped' => \A r \in Requests : sent[r] # 0 /\ Safe(r) => Safe(r)'
    PROVE  ReplayInv'
  BY DEF ReplayInv

\* While a daemon works, unless it passed over a fence, the database is fenced.
LEMMA WorksFenced ==
    ASSUME CoreInv, Daemon, ~skipped
    PROVE  ~(marker # 0 /\ db.restore # marker)
  BY DEF CoreInv, MarkerInv, Daemon

LEMMA OnwardKeeps ==
    ASSUME ReplayInv, CoreInv', UNCHANGED <<bundles, marker, posted, sent>>,
           skipped => skipped', db'.restore = db.restore, db'.floor = db.floor,
           db.pending => db'.pending, \A r \in Requests : OnwardFrom(r)
    PROVE  ReplayInv'
  <1>1. \A r \in Requests : db'.req[r] # "ABSENT" => r \in posted'
    BY DEF ReplayInv, OnwardFrom
  <1>2. \A r \in Requests : Safe(r) => Safe(r)'
    BY DEF Safe, Unsent, OnwardFrom
  <1>3. posted' \subseteq Requests
    BY DEF ReplayInv, CoreInv, CoreTypes
  <1> QED
    BY <1>1, <1>2, <1>3, SafeKeeps

\* Admission and dispatch, by either daemon.
LEMMA AdmitKeepsSafe ==
    ASSUME ReplayInv, CoreInv', NEW r \in Requests, Reserve(r) \/ Finalize(r)
    PROVE  ReplayInv'
  <1>0. CoreInv /\ CoreTypes /\ posted \subseteq Requests
    BY DEF ReplayInv, CoreInv, CoreTypes
  <1>1. Quiet /\ \A x \in Requests \ {r} : db'.req[x] = db.req[x]
    BY <1>0, ReserveEffect, FinalizeEffect
  <1>2. /\ Daemon /\ UNCHANGED sent /\ posted \subseteq posted' /\ posted' \subseteq Requests
        /\ r \in posted'
    BY <1>0 DEF Reserve, Finalize, ReplayInv
  <1>3. \/ db.req[r] = "VALIDATING"
        \/ db.req[r] = "ABSENT" /\ ~db.pending /\ r \notin db.floor
    BY DEF Reserve, Finalize
  <1>4. ~skipped => ~Safe(r)
    BY <1>0, <1>2, <1>3, WorksFenced DEF Safe, Unsent
  <1>5. \A x \in Requests \ {r} : Safe(x) => Safe(x)'
    BY <1>1 DEF Safe, Quiet
  <1>6. \A x \in Requests : db'.req[x] # "ABSENT" => x \in posted'
    BY <1>1, <1>2 DEF ReplayInv
  <1>7. UNCHANGED <<bundles, skipped>>
    BY <1>1 DEF Quiet
  <1> QED
    BY <1>2, <1>4, <1>5, <1>6, <1>7, SafeKeeps

LEMMA SendKeepsSafe ==
    ASSUME ReplayInv, CoreInv', NEW r \in Requests, BeginSend(r)
    PROVE  ReplayInv'
  <1>0. CoreInv /\ CoreTypes
    BY DEF ReplayInv, CoreInv
  <1>1. /\ Quiet /\ db'.req[r] = "RUNNING"
        /\ \A x \in Requests \ {r} : db'.req[x] = db.req[x]
    BY <1>0, BeginSendEffect
  <1>2. /\ Daemon /\ db.req[r] = "QUEUED" /\ sent' = [sent EXCEPT ![r] = @ + 1]
        /\ UNCHANGED <<posted, skipped>>
    BY DEF BeginSend
  <1>3. ~skipped => ~Safe(r)
    BY <1>0, <1>2, WorksFenced DEF Safe, Unsent
  <1>4. ~skipped => sent[r] = 0
    BY <1>3 DEF ReplayInv
  <1>5. /\ sent'[r] = sent[r] + 1 /\ \A x \in Requests \ {r} : sent'[x] = sent[x]
    BY <1>0, <1>2 DEF CoreTypes
  <1>6. Safe(r)' /\ \A x \in Requests \ {r} : Safe(x) => Safe(x)'
    BY <1>1 DEF Safe, Quiet, Unsent
  <1>7. r \in posted
    BY <1>2 DEF ReplayInv
  <1>8. /\ \A x \in Requests : db'.req[x] # "ABSENT" => x \in posted'
        /\ \A x \in Requests : sent'[x] # 0 => x \in posted'
    BY <1>1, <1>2, <1>5, <1>7 DEF ReplayInv
  <1>9. skipped' \/ \A x \in Requests : sent'[x] <= 1 /\ (sent'[x] # 0 => Safe(x)')
    BY <1>2, <1>4, <1>5, <1>6 DEF ReplayInv
  <1>10. \A b \in 1..MaxBundles : \A x \in Requests : bundles'[b].db.req[x] # "ABSENT" => x \in posted'
    BY <1>1, <1>2 DEF Quiet, ReplayInv
  <1> QED
    BY <1>8, <1>9, <1>10 DEF ReplayInv

\* A new marker, or a database put back under one: it will be fenced.
LEMMA RestoreKeepsSafe ==
    ASSUME ReplayInv, CoreInv',
           \/ ForcedRecovery \/ \E b \in 1..MaxBundles : RestoreStarts(b)
           \/ RestoreContent \/ RestoreDatabase
    PROVE  ReplayInv'
  <1>0. CoreInv /\ CoreTypes /\ posted \subseteq Requests
    BY DEF ReplayInv, CoreInv, CoreTypes
  <1>1. UNCHANGED <<bundles, sent, posted, skipped>>
    BY DEF ForcedRecovery, RestoreStarts, RestoreContent, RestoreDatabase
  <1>2. CASE ForcedRecovery \/ \E b \in 1..MaxBundles : RestoreStarts(b)
    <2>1. UNCHANGED db /\ marker' = ids + 1
      BY <1>2 DEF ForcedRecovery, RestoreStarts
    <2>2. ids \in Nat /\ db.restore \in Nat /\ db.restore <= ids
      BY <1>0 DEF CoreInv, CoreTypes, MarkerInv, Rows
    <2>3. \A r \in Requests : Safe(r)'
      BY <2>1, <2>2 DEF Safe
    <2>4. \A r \in Requests : db'.req[r] # "ABSENT" => r \in posted'
      BY <1>1, <2>1 DEF ReplayInv
    <2> QED
      BY <1>0, <1>1, <2>3, <2>4, SafeKeeps
  <1>3. CASE RestoreContent
    <2>1. UNCHANGED <<db, marker>>
      BY <1>3 DEF RestoreContent
    <2> QED
      BY <1>1, <2>1, OnwardKeeps DEF OnwardFrom
  <1>4. CASE RestoreDatabase
    <2>1. db' = bundles[proc.arg].db /\ proc.kind = "restore" /\ UNCHANGED marker
      BY <1>4 DEF RestoreDatabase, At
    <2>2. /\ marker # 0 /\ proc.arg \in 1..MaxBundles /\ db'.restore # marker
      BY <1>0, <2>1 DEF CoreInv, MarkerInv
    <2>3. \A r \in Requests : Safe(r)'
      BY <2>1, <2>2 DEF Safe
    <2>4. \A r \in Requests : db'.req[r] # "ABSENT" => r \in posted'
      BY <1>1, <2>1, <2>2 DEF ReplayInv
    <2> QED
      BY <1>0, <1>1, <2>3, <2>4, SafeKeeps
  <1> QED
    BY <1>2, <1>3, <1>4

\* The fence, and the operator's release of it.
LEMMA QuarantineKeepsSafe ==
    ASSUME ReplayInv, CoreInv', Quarantine
    PROVE  ReplayInv'
  <1>0. CoreInv /\ CoreTypes /\ posted \subseteq Requests
    BY DEF ReplayInv, CoreInv, CoreTypes
  <1>1. UNCHANGED <<bundles, marker, posted, sent, skipped>>
    BY DEF Quarantine
  <1>2. CASE UNCHANGED db
    BY <1>1, <1>2, OnwardKeeps DEF OnwardFrom
  <1>3. CASE db' = Fenced
    <2>1. /\ db'.pending
          /\ \A r \in Requests : /\ db'.req[r] \notin {"VALIDATING", "QUEUED"}
                                 /\ db'.req[r] = "ABSENT" <=> db.req[r] = "ABSENT"
      BY <1>0, <1>3, FencedType
    <2>2. \A r \in Requests : Safe(r)'
      BY <2>1 DEF Safe, Unsent
    <2>3. \A r \in Requests : db'.req[r] # "ABSENT" => r \in posted'
      BY <1>1, <2>1 DEF ReplayInv
    <2> QED
      BY <1>0, <1>1, <2>2, <2>3, SafeKeeps
  <1> QED
    BY <1>2, <1>3 DEF Quarantine

LEMMA ReleaseKeepsSafe ==
    ASSUME ReplayInv, CoreInv', RemoveMarker \/ \E id \in 1..MaxRestores : Release(id)
    PROVE  ReplayInv'
  <1>0. CoreInv /\ CoreTypes /\ posted \subseteq Requests
    BY DEF ReplayInv, CoreInv, CoreTypes
  <1>1. Daemon /\ UNCHANGED <<bundles, posted, sent, skipped>>
    BY DEF RemoveMarker, Release, At, Daemon
  <1>2. ~skipped => ~(marker # 0 /\ db.restore # marker)
    BY <1>0, <1>1, WorksFenced
  <1>3. CASE RemoveMarker
    <2>1. UNCHANGED db
      BY <1>3 DEF RemoveMarker
    <2>2. ~skipped' => \A r \in Requests : Safe(r) => Safe(r)'
      BY <1>1, <1>2, <2>1 DEF Safe
    <2>3. \A r \in Requests : db'.req[r] # "ABSENT" => r \in posted'
      BY <1>1, <2>1 DEF ReplayInv
    <2> QED
      BY <1>0, <1>1, <2>2, <2>3, SafeKeeps
  <1>4. ASSUME NEW id \in 1..MaxRestores, Release(id)
        PROVE  ReplayInv'
    <2>1. db'.req = db.req /\ db'.floor = posted
      BY <1>0, <1>4, ReleaseEffect
    <2>2. ~skipped' => \A r \in Requests : sent[r] # 0 /\ Safe(r) => Safe(r)'
      BY <1>1, <1>2, <2>1 DEF Safe, Unsent, ReplayInv
    <2>3. \A r \in Requests : db'.req[r] # "ABSENT" => r \in posted'
      BY <1>1, <2>1 DEF ReplayInv
    <2> QED
      BY <1>0, <1>1, <2>2, <2>3, SafeKeeps
  <1> QED
    BY <1>3, <1>4

LEMMA BundleKeepsSafe ==
    ASSUME ReplayInv, CoreInv', NEW b \in 1..MaxBundles, CreateBackup(b)
    PROVE  ReplayInv'
  <1>1. /\ bundles' = [bundles EXCEPT ![b] = [made |-> TRUE, db |-> db, files |-> db.answers]]
        /\ UNCHANGED <<db, marker, posted, sent, skipped>>
    BY DEF CreateBackup
  <1>2. \A x \in 1..MaxBundles : bundles'[x].db = db \/ bundles'[x] = bundles[x]
    BY <1>1 DEF ReplayInv, CoreInv, CoreTypes
  <1>3. \A r \in Requests : Safe(r) => Safe(r)'
    BY <1>1 DEF Safe
  <1> QED
    BY <1>1, <1>2, <1>3 DEF ReplayInv

\* The start of a process.
LEMMA StartKeepsSafe ==
    ASSUME ReplayInv, CoreInv',
           ProxyStarts \/ RegisterRecoveryProjects \/ StartupRecover \/ DirectStarts
    PROVE  ReplayInv'
  <1>0. CoreInv /\ CoreTypes
    BY DEF ReplayInv, CoreInv
  <1>1. UNCHANGED <<bundles, marker, posted, sent>> /\ (skipped => skipped')
    <2>1. UNCHANGED <<bundles, marker, posted, sent>>
      BY DEF ProxyStarts, RegisterRecoveryProjects, StartupRecover, DirectStarts
    <2>2. CASE UNCHANGED skipped
      BY <2>1, <2>2
    <2>3. CASE skipped' = (skipped \/ marker # 0)
      BY <2>1, <2>3
    <2>4. UNCHANGED skipped \/ skipped' = (skipped \/ marker # 0)
      BY DEF ProxyStarts, RegisterRecoveryProjects, StartupRecover, DirectStarts
    <2> QED
      BY <2>2, <2>3, <2>4
  <1>2. /\ db'.restore = db.restore /\ db'.floor = db.floor /\ (db.pending => db'.pending)
        /\ \A r \in Requests : OnwardFrom(r)
    <2>1. CASE ProxyStarts
      BY <2>1 DEF ProxyStarts, OnwardFrom
    <2>2. CASE RegisterRecoveryProjects
      BY <1>0, <2>2, RegisterKeeps DEF OnwardFrom
    <2>3. CASE StartupRecover
      BY <1>0, <2>3, RecoverType DEF StartupRecover, OnwardFrom
    <2>4. CASE DirectStarts
      BY <1>0, <2>4, DirectType DEF OnwardFrom
    <2> QED
      BY <2>1, <2>2, <2>3, <2>4
  <1> QED
    BY <1>1, <1>2, OnwardKeeps

LEMMA StillKeepsSafe ==
    ASSUME ReplayInv, CoreInv',
           \/ \E r \in Requests :
                 SaveAnswer(r) \/ LoseFile(r) \/ AbandonDirectUnknown(r) \/ Observe(r) \/ FinishDirect(r)
           \/ ApplyResume \/ Stops \/ CutoverStarts \/ CutoverCommits \/ AbandonStarts
           \/ ArchiveStarts \/ ArchiveMarks \/ InitializeDirect \/ ArchiveAudits \/ ArchiveEnds
    PROVE  ReplayInv'
  <1>0. CoreTypes
    BY DEF ReplayInv, CoreInv
  <1>1. ASSUME NEW r \in Requests, Observe(r) \/ FinishDirect(r)
        PROVE  ReplayInv'
    <2>1. Quiet /\ \A x \in Requests : OnwardFrom(x)
      BY <1>0, <1>1, ObserveEffect
    <2>2. UNCHANGED <<posted, sent>>
      BY <1>1 DEF Observe, FinishDirect
    <2> QED
      BY <2>1, <2>2, OnwardKeeps DEF Quiet
  <1>2. ASSUME Quiet, UNCHANGED <<posted, sent>>, db'.req = db.req
        PROVE  ReplayInv'
    BY <1>2, OnwardKeeps DEF Quiet, OnwardFrom
  <1> QED
    BY <1>0, <1>1, <1>2, StillEffect

LEMMA ReplayStep ==
    ASSUME ReplayInv, [Next]_vars
    PROVE  ReplayInv'
  <1>0. CoreInv'
    BY CoreStep DEF ReplayInv
  <1>1. CASE StartUp
    BY <1>0, <1>1, StartKeepsSafe, RestoreKeepsSafe, QuarantineKeepsSafe, StillKeepsSafe DEF StartUp
  <1>2. CASE Work
    BY <1>0, <1>2, AdmitKeepsSafe, SendKeepsSafe, StillKeepsSafe DEF Work
  <1>3. CASE Backups
    BY <1>0, <1>3, BundleKeepsSafe DEF Backups
  <1>4. CASE Restores
    BY <1>0, <1>4, StillKeepsSafe, RestoreKeepsSafe, ReleaseKeepsSafe DEF Restores
  <1>5. CASE Handover
    BY <1>0, <1>5, StillKeepsSafe DEF Handover
  <1>6. CASE UNCHANGED vars
    BY <1>0, <1>6 DEF vars, ReplayInv, Safe
  <1> QED
    BY <1>1, <1>2, <1>3, <1>4, <1>5, <1>6 DEF Next

\* No request is handed to an AI twice, whatever is restored and cut over, unless
\* a Direct daemon is started over a pending restore (begin_send, the admission
\* floor of release_restore).
THEOREM ReplayKept == Spec => []NoReplay
  <1>1. ReplayInv => NoReplay
    BY DEF ReplayInv, NoReplay
  <1> QED
    BY ReplayInit, ReplayStep, <1>1, PTL DEF Spec

-----------------------------------------------------------------------------
\* What a directory in Direct mode says of its past, and what a daemon opens.

\* A request that runs or is uncertain keeps its slot.
Held(d) == \A r \in Requests : d.req[r] \in {"RUNNING", "FENCED"} => r \in d.holds

\* The backup that a database in Direct mode names is of the finished Proxy.
Named(d, saved) ==
    /\ d.backup \in 0..MaxBundles
    /\ d.mode = "direct" =>
          /\ d.backup # 0 /\ saved[d.backup].made
          /\ saved[d.backup].db.mode = "proxy" /\ saved[d.backup].db.holds = {}
          /\ \A r \in Requests :
                /\ saved[d.backup].db.req[r] \in {"ABSENT", "DONE"}
                /\ saved[d.backup].db.req[r] # "ABSENT" => d.req[r] = saved[d.backup].db.req[r]

Kept ==
    /\ Held(db) /\ Named(db, bundles)
    /\ \A b \in 1..MaxBundles : Held(bundles[b].db) /\ Named(bundles[b].db, bundles)

\* While an offline command works on its backup nobody writes the database.
Copied ==
    proc.at = "backed" =>
        /\ proc.arg \in 1..MaxBundles
        /\ bundles[proc.arg].made /\ bundles[proc.arg].db = db

\* A backup has the files its database names; a restore puts them in place first.
Filled ==
    /\ files \subseteq Requests
    /\ \A b \in 1..MaxBundles : bundles[b].files = bundles[b].db.answers
    /\ At("restore", "filled") => bundles[proc.arg].db.answers \subseteq files

\* A fresh directory is fenced from before its database exists until the archive
\* is recorded.
FreshInv ==
    /\ fresh \in [pending : BOOLEAN, db : {"none", "proxy", "direct", "audited"}]
    /\ ~fresh.pending => fresh.db \in {"none", "audited"}
    /\ At("archive", "marked") \/ At("archive", "created") \/ At("archive", "switched") =>
          fresh.pending
    /\ At("archive", "audited") => fresh.db = "audited"

WholeInv == Kept /\ Copied /\ Filled /\ FreshInv /\ owing \subseteq 1..MaxRestores

\* A transaction that keeps the mode, what is finished and the slots.
Forward ==
    /\ db'.mode = db.mode /\ db'.backup = db.backup
    /\ \A r \in Requests : db.req[r] = "DONE" => db'.req[r] = "DONE"
    /\ Held(db')

LEMMA OneForward ==
    ASSUME CoreTypes, Held(db), NEW r \in Requests, db.req[r] # "DONE",
           NEW s \in RequestState, NEW h \in SUBSET Requests,
           db' = [db EXCEPT !.req[r] = s, !.holds = h],
           s \in {"RUNNING", "FENCED"} => r \in h, db.holds \subseteq h \cup {r}
    PROVE  Forward
  <1>1. db \in Rows /\ db.req \in [Requests -> RequestState]
    BY DEF CoreTypes, Rows
  <1>2. /\ db'.mode = db.mode /\ db'.backup = db.backup /\ db'.holds = h
        /\ db'.req = [db.req EXCEPT ![r] = s]
    BY <1>1 DEF Rows
  <1>3. db'.req[r] = s /\ \A x \in Requests \ {r} : db'.req[x] = db.req[x]
    BY <1>1, <1>2
  <1>4. \A x \in Requests : db.req[x] = "DONE" => db'.req[x] = "DONE"
    BY <1>3
  <1>5. Held(db')
    BY <1>2, <1>3 DEF Held
  <1> QED
    BY <1>2, <1>4, <1>5 DEF Forward

LEMMA OneStays ==
    ASSUME CoreTypes, Held(db), NEW r \in Requests, db.req[r] # "DONE",
           NEW s \in RequestState \ {"RUNNING", "FENCED"},
           db' = [db EXCEPT !.req[r] = s]
    PROVE  Forward
  <1>1. db \in Rows /\ db.req \in [Requests -> RequestState]
    BY DEF CoreTypes, Rows
  <1>2. /\ db'.mode = db.mode /\ db'.backup = db.backup /\ db'.holds = db.holds
        /\ db'.req = [db.req EXCEPT ![r] = s]
    BY <1>1 DEF Rows
  <1>3. db'.req[r] = s /\ \A x \in Requests \ {r} : db'.req[x] = db.req[x]
    BY <1>1, <1>2
  <1>4. \A x \in Requests : db.req[x] = "DONE" => db'.req[x] = "DONE"
    BY <1>3
  <1>5. Held(db')
    BY <1>2, <1>3 DEF Held
  <1> QED
    BY <1>2, <1>4, <1>5 DEF Forward

LEMMA WorkForward ==
    ASSUME CoreTypes, Held(db), Work
    PROVE  Forward
  <1>0. db \in Rows /\ db.req \in [Requests -> RequestState] /\ db.holds \in SUBSET Requests
    BY DEF CoreTypes, Rows
  <1>8. RequestState = {"ABSENT", "VALIDATING", "QUEUED", "RUNNING", "UNKNOWN", "FENCED",
                        "OWED", "DONE"}
    BY DEF RequestState
  <1>1. CASE ApplyResume
    <2>1. db' = [db EXCEPT !.paused = FALSE]
      BY <1>1 DEF ApplyResume
    <2>2. db'.mode = db.mode /\ db'.backup = db.backup /\ db'.req = db.req /\ db'.holds = db.holds
      BY <1>0, <2>1 DEF Rows
    <2> QED
      BY <2>2 DEF Forward, Held
  <1>2. ASSUME NEW r \in Requests, SaveAnswer(r)
        PROVE  Forward
    BY <1>2 DEF SaveAnswer, Forward
  <1>3. ASSUME NEW r \in Requests, Reserve(r)
        PROVE  Forward
    <2>1. db.req[r] = "ABSENT" /\ db' = [db EXCEPT !.req[r] = "VALIDATING"]
      BY <1>3 DEF Reserve
    <2> QED
      BY <1>8, <2>1, OneStays
  <1>4. ASSUME NEW r \in Requests, Finalize(r)
        PROVE  Forward
    <2>1. PICK s \in {"QUEUED", "DONE"} : db' = [db EXCEPT !.req[r] = s]
      BY <1>4 DEF Finalize
    <2>2. db.req[r] = "VALIDATING" /\ s \in RequestState \ {"RUNNING", "FENCED"}
      BY <1>4, <1>8 DEF Finalize
    <2> QED
      BY <2>1, <2>2, OneStays
  <1>5. ASSUME NEW r \in Requests, BeginSend(r)
        PROVE  Forward
    <2>1. PICK s, h : s = "RUNNING" /\ h = db.holds \cup {r}
      OBVIOUS
    <2>2. db' = [db EXCEPT !.req[r] = s, !.holds = h]
      BY <1>5, <2>1 DEF BeginSend
    <2>3. /\ db.req[r] # "DONE" /\ s \in RequestState /\ h \in SUBSET Requests
          /\ r \in h /\ db.holds \subseteq h \cup {r}
      BY <1>0, <1>5, <1>8, <2>1 DEF BeginSend
    <2> QED
      BY <2>2, <2>3, OneForward
  <1>6. ASSUME NEW r \in Requests, Observe(r)
        PROVE  Forward
    <2>1. CASE db.req[r] \in {"RUNNING", "UNKNOWN"}
               /\ \E s \in {"OWED", "DONE"} :
                     db' = [db EXCEPT !.req[r] = s, !.holds = db.holds \ {r}]
      <3>1. PICK s \in {"OWED", "DONE"} :
                    db' = [db EXCEPT !.req[r] = s, !.holds = db.holds \ {r}]
        BY <2>1
      <3>2. s \in RequestState /\ s \notin {"RUNNING", "FENCED"} /\ db.req[r] # "DONE"
            /\ db.holds \ {r} \in SUBSET Requests
        BY <1>0, <1>8, <2>1
      <3> QED
        BY <3>1, <3>2, OneForward
    <2>2. CASE \/ db.req[r] = "RUNNING" /\ db' = [db EXCEPT !.req[r] = "UNKNOWN"]
               \/ db.req[r] = "OWED" /\ db' = [db EXCEPT !.req[r] = "DONE"]
      <3>1. PICK s \in {"UNKNOWN", "DONE"} : db' = [db EXCEPT !.req[r] = s]
        BY <2>2
      <3>2. s \in RequestState \ {"RUNNING", "FENCED"} /\ db.req[r] # "DONE"
        BY <1>8, <2>2
      <3> QED
        BY <3>1, <3>2, OneStays
    <2> QED
      BY <1>6, <2>1, <2>2 DEF Observe
  <1>7. ASSUME NEW r \in Requests, FinishDirect(r)
        PROVE  Forward
    <2>0. db.req[r] = "RUNNING"
      BY <1>7 DEF FinishDirect
    <2>1. CASE db' = [db EXCEPT !.req[r] = "DONE", !.holds = @ \ {r}, !.answers = @ \cup {r}]
      <3>2. /\ db'.mode = db.mode /\ db'.backup = db.backup /\ db'.holds = db.holds \ {r}
            /\ db'.req = [db.req EXCEPT ![r] = "DONE"]
        BY <1>0, <2>1 DEF Rows
      <3>3. db'.req[r] = "DONE" /\ \A x \in Requests \ {r} : db'.req[x] = db.req[x]
        BY <1>0, <3>2
      <3>4. Held(db')
        BY <3>2, <3>3 DEF Held
      <3> QED
        BY <2>0, <3>2, <3>3, <3>4 DEF Forward
    <2>2. CASE db' = [db EXCEPT !.req[r] = "UNKNOWN"]
      <3>1. "UNKNOWN" \in RequestState \ {"RUNNING", "FENCED"}
        BY <1>8
      <3> QED
        BY <2>0, <2>2, <3>1, OneStays
    <2> QED
      BY <1>7, <2>1, <2>2 DEF FinishDirect
  <1> QED
    BY <1>1, <1>2, <1>3, <1>4, <1>5, <1>6, <1>7 DEF Work

LEMMA FencedForward ==
    ASSUME CoreTypes, Held(db)
    PROVE  /\ Fenced.mode = db.mode /\ Fenced.backup = db.backup
           /\ \A r \in Requests : db.req[r] = "DONE" => Fenced.req[r] = "DONE"
           /\ Held(Fenced)
  <1> DEFINE q == [r \in Requests |->
                     CASE db.req[r] = "QUEUED" -> "FENCED"
                       [] db.req[r] = "RUNNING" -> "UNKNOWN"
                       [] db.req[r] = "VALIDATING" -> "DONE"
                       [] OTHER -> db.req[r]]
  <1>1. db \in Rows /\ db.req \in [Requests -> RequestState]
    BY DEF CoreTypes, Rows
  <1>2. Fenced = [db EXCEPT !.restore = marker, !.pending = TRUE, !.paused = TRUE,
                            !.holds = db.holds \cup In("QUEUED"), !.req = q]
    BY DEF Fenced
  <1>3. \A r \in Requests :
           /\ db.req[r] = "DONE" => q[r] = "DONE"
           /\ q[r] \in {"RUNNING", "FENCED"} => db.req[r] \in {"FENCED", "QUEUED"}
    OBVIOUS
  <1> HIDE DEF q
  <1>4. /\ Fenced.mode = db.mode /\ Fenced.backup = db.backup
        /\ Fenced.holds = db.holds \cup In("QUEUED") /\ Fenced.req = q
    BY <1>1, <1>2 DEF Rows
  <1>5. Held(Fenced)
    BY <1>3, <1>4 DEF Held, In
  <1> QED
    BY <1>3, <1>4, <1>5

LEMMA RecoveredForward ==
    ASSUME CoreTypes, Held(db)
    PROVE  /\ Recovered(db).mode = db.mode /\ Recovered(db).backup = db.backup
           /\ \A r \in Requests : db.req[r] = "DONE" => Recovered(db).req[r] = "DONE"
           /\ Held(Recovered(db)) /\ Recovered(db) \in Rows
  <1> DEFINE q == [r \in Requests |-> IF db.req[r] = "VALIDATING" THEN "DONE" ELSE db.req[r]]
  <1>1. db \in Rows
    BY DEF CoreTypes
  <1>2. Recovered(db) = [db EXCEPT !.req = q]
    BY DEF Recovered
  <1>3. \A r \in Requests : q[r] = db.req[r] \/ q[r] = "DONE"
    OBVIOUS
  <1> HIDE DEF q
  <1>4. /\ Recovered(db).mode = db.mode /\ Recovered(db).backup = db.backup
        /\ Recovered(db).holds = db.holds /\ Recovered(db).req = q
    BY <1>1, <1>2 DEF Rows
  <1> QED
    BY <1>3, <1>4, RecoverType DEF Held

LEMMA DirectForward ==
    ASSUME CoreTypes, Held(db), DirectStarts
    PROVE  Forward
  <1> DEFINE d == Recovered(db)
  <1> DEFINE q == [r \in Requests |-> IF d.req[r] = "RUNNING" THEN "UNKNOWN" ELSE d.req[r]]
  <1>1. /\ d \in Rows /\ d.mode = db.mode /\ d.backup = db.backup /\ Held(d)
        /\ \A r \in Requests : db.req[r] = "DONE" => d.req[r] = "DONE"
    BY RecoveredForward
  <1>2. db' = [d EXCEPT !.req = q]
    BY DEF DirectStarts
  <1> HIDE DEF d
  <1>3. \A r \in Requests : q[r] = d.req[r] \/ (d.req[r] = "RUNNING" /\ q[r] = "UNKNOWN")
    OBVIOUS
  <1> HIDE DEF q
  <1>4. /\ db'.mode = d.mode /\ db'.backup = d.backup /\ db'.holds = d.holds /\ db'.req = q
    BY <1>1, <1>2 DEF Rows
  <1>5. Held(db')
    BY <1>1, <1>3, <1>4 DEF Held
  <1> QED
    BY <1>1, <1>3, <1>4, <1>5 DEF Forward

\* What Named says survives whatever keeps the mode and what is finished, and
\* any further backup.
LEMMA NamedForward ==
    ASSUME NEW d, NEW e, NEW saved, Named(d, saved),
           e.mode = d.mode, e.backup = d.backup,
           \A r \in Requests : d.req[r] = "DONE" => e.req[r] = "DONE"
    PROVE  Named(e, saved)
  <1>1. ASSUME d.mode = "direct", NEW r \in Requests, saved[d.backup].db.req[r] # "ABSENT"
        PROVE  e.req[r] = saved[d.backup].db.req[r]
    <2>1. saved[d.backup].db.req[r] = "DONE" /\ d.req[r] = "DONE"
      BY <1>1 DEF Named
    <2> QED
      BY <2>1
  <1> QED
    BY <1>1 DEF Named

LEMMA NamedGrows ==
    ASSUME NEW d, NEW saved, NEW more, Named(d, saved), 0 \notin 1..MaxBundles,
           \A b \in 1..MaxBundles : saved[b].made => more[b] = saved[b]
    PROVE  Named(d, more)
  <1>1. CASE d.mode # "direct"
    BY <1>1 DEF Named
  <1>2. CASE d.mode = "direct"
    <2>1. d.backup \in 1..MaxBundles /\ saved[d.backup].made
      BY <1>2, BoundsAssumption DEF Named
    <2>2. more[d.backup] = saved[d.backup]
      BY <2>1
    <2> QED
      BY <2>2 DEF Named
  <1> QED
    BY <1>1, <1>2

\* The database between two steps.
LEMMA DbForward ==
    ASSUME CoreInv, Held(db), Next, ~CutoverCommits, ~RestoreDatabase
    PROVE  Forward
  <1>0. CoreTypes /\ db \in Rows
    BY DEF CoreInv, CoreTypes
  <1>1. ASSUME UNCHANGED db
        PROVE  Forward
    BY <1>1 DEF Forward, Held
  <1>2. ASSUME db'.mode = db.mode, db'.backup = db.backup, db'.req = db.req, db'.holds = db.holds
        PROVE  Forward
    BY <1>2 DEF Forward, Held
  <1>3. CASE StartUp
    <2>1. CASE RegisterRecoveryProjects
      <3>1. db' = [db EXCEPT !.pending = TRUE]
        BY <2>1 DEF RegisterRecoveryProjects
      <3>2. db'.mode = db.mode /\ db'.backup = db.backup /\ db'.req = db.req
            /\ db'.holds = db.holds
        BY <1>0, <3>1 DEF Rows
      <3> QED
        BY <1>2, <3>2
    <2>2. CASE Quarantine
      <3>1. UNCHANGED db \/ db' = Fenced
        BY <2>2 DEF Quarantine
      <3>2. CASE db' = Fenced
        BY <1>0, <3>2, FencedForward DEF Forward
      <3> QED
        BY <1>1, <3>1, <3>2
    <2>3. CASE StartupRecover
      <3>1. db' = Recovered(db)
        BY <2>3 DEF StartupRecover
      <3> QED
        BY <1>0, <3>1, RecoveredForward DEF Forward
    <2>4. CASE DirectStarts
      BY <1>0, <2>4, DirectForward
    <2>5. CASE ProxyStarts \/ ForcedRecovery \/ Stops
      BY <1>1, <2>5 DEF ProxyStarts, ForcedRecovery, Stops
    <2> QED
      BY <1>3, <2>1, <2>2, <2>3, <2>4, <2>5 DEF StartUp
  <1>4. CASE Work
    BY <1>0, <1>4, WorkForward
  <1>5. CASE Backups
    BY <1>1, <1>5 DEF Backups, CreateBackup
  <1>6. CASE Restores
    <2>1. ASSUME NEW id \in 1..MaxRestores, Release(id)
          PROVE  Forward
      <3>1. db' = [db EXCEPT !.pending = FALSE, !.floor = posted]
        BY <2>1 DEF Release
      <3>2. db'.mode = db.mode /\ db'.backup = db.backup /\ db'.req = db.req
            /\ db'.holds = db.holds
        BY <1>0, <3>1 DEF Rows
      <3> QED
        BY <1>2, <3>2
    <2> QED
      BY <1>1, <1>6, <2>1
         DEF Restores, LoseFile, RestoreStarts, RestoreContent, RemoveMarker
  <1>7. CASE Handover
    <2>1. ASSUME NEW r \in Requests, AbandonDirectUnknown(r)
          PROVE  Forward
      <3>1. db.req[r] = "UNKNOWN" /\ db' = [db EXCEPT !.holds = @ \ {r}]
        BY <2>1 DEF AbandonDirectUnknown
      <3>2. /\ db'.mode = db.mode /\ db'.backup = db.backup /\ db'.req = db.req
            /\ db'.holds = db.holds \ {r}
        BY <1>0, <3>1 DEF Rows
      <3> QED
        BY <3>1, <3>2 DEF Forward, Held
    <2> QED
      BY <1>1, <1>7, <2>1
         DEF Handover, CutoverStarts, AbandonStarts, ArchiveStarts, ArchiveMarks,
             InitializeDirect, FreshStep, ArchiveAudits, ArchiveEnds
  <1> QED
    BY <1>3, <1>4, <1>5, <1>6, <1>7 DEF Next

\* The backups between two steps.
LEMMA BundlesGrow ==
    ASSUME CoreInv, Next
    PROVE  \/ UNCHANGED bundles
           \/ \E b \in 1..MaxBundles : CreateBackup(b)
  <1>1. CASE StartUp
    BY <1>1 DEF StartUp, ProxyStarts, ForcedRecovery, RegisterRecoveryProjects, Quarantine,
               StartupRecover, DirectStarts, Stops
  <1>2. CASE Work
    BY <1>2 DEF Work, Reserve, Finalize, BeginSend, Observe, SaveAnswer, FinishDirect,
               ApplyResume
  <1>3. CASE Backups
    BY <1>3 DEF Backups
  <1>4. CASE Restores
    BY <1>4 DEF Restores, LoseFile, RestoreStarts, RestoreContent, RestoreDatabase, Release,
               RemoveMarker
  <1>5. CASE Handover
    BY <1>5 DEF Handover, CutoverStarts, CutoverCommits, AbandonStarts, AbandonDirectUnknown,
               ArchiveStarts, ArchiveMarks, InitializeDirect, FreshStep, ArchiveAudits, ArchiveEnds
  <1> QED
    BY <1>1, <1>2, <1>3, <1>4, <1>5 DEF Next

LEMMA BundleEffect ==
    ASSUME CoreInv, NEW b \in 1..MaxBundles, CreateBackup(b)
    PROVE  /\ UNCHANGED <<db, files>>
           /\ bundles'[b] = [made |-> TRUE, db |-> db, files |-> db.answers]
           /\ \A x \in 1..MaxBundles \ {b} : bundles'[x] = bundles[x]
           /\ \A x \in 1..MaxBundles : bundles[x].made => bundles'[x] = bundles[x]
  <1>1. /\ bundles' = [bundles EXCEPT ![b] = [made |-> TRUE, db |-> db, files |-> db.answers]]
        /\ ~bundles[b].made
        /\ UNCHANGED <<db, files>>
    BY DEF CreateBackup
  <1>2. bundles \in [1..MaxBundles -> Saved]
    BY DEF CoreInv, CoreTypes
  <1> QED
    BY <1>1, <1>2

LEMMA KeptStep ==
    ASSUME CoreInv, Kept, Copied, [Next]_vars
    PROVE  Kept'
  <1>0. 0 \notin 1..MaxBundles
    OBVIOUS
  <1>1. ASSUME UNCHANGED bundles, Held(db'), Named(db', bundles)
        PROVE  Kept'
    BY <1>1 DEF Kept
  <1>2. CASE UNCHANGED vars
    BY <1>2 DEF vars, Kept
  <1>3. ASSUME NEW b \in 1..MaxBundles, CreateBackup(b)
        PROVE  Kept'
    <2>1. /\ UNCHANGED db
          /\ \A x \in 1..MaxBundles : bundles'[x].db = db \/ bundles'[x] = bundles[x]
          /\ \A x \in 1..MaxBundles : bundles[x].made => bundles'[x] = bundles[x]
      BY <1>3, BundleEffect
    <2>2. Held(db) /\ Named(db, bundles')
      BY <1>0, <2>1, NamedGrows DEF Kept
    <2>3. ASSUME NEW x \in 1..MaxBundles
          PROVE  Held(bundles'[x].db) /\ Named(bundles'[x].db, bundles')
      <3>1. CASE bundles'[x].db = db
        BY <2>2, <3>1
      <3>2. CASE bundles'[x] = bundles[x]
        <4>1. Held(bundles[x].db) /\ Named(bundles[x].db, bundles)
          BY DEF Kept
        <4>2. Named(bundles[x].db, bundles')
          BY <1>0, <2>1, <4>1, NamedGrows
        <4> QED
          BY <3>2, <4>1, <4>2
      <3> QED
        BY <2>1, <3>1, <3>2
    <2> QED
      BY <2>1, <2>2, <2>3 DEF Kept
  <1>4. CASE RestoreDatabase
    <2>1. /\ db' = bundles[proc.arg].db /\ proc.kind = "restore" /\ UNCHANGED bundles
      BY <1>4 DEF RestoreDatabase, At
    <2>2. proc.arg \in 1..MaxBundles
      BY <2>1 DEF CoreInv, MarkerInv
    <2>3. Held(bundles[proc.arg].db) /\ Named(bundles[proc.arg].db, bundles)
      BY <2>2 DEF Kept
    <2> QED
      BY <1>1, <2>1, <2>3
  <1>5. CASE CutoverCommits
    <2>1. /\ db' = [db EXCEPT !.mode = "direct", !.backup = proc.arg] /\ UNCHANGED bundles
          /\ proc.at = "backed" /\ db.mode = "proxy"
          /\ \A r \in Requests : db.req[r] \in {"ABSENT", "DONE"}
          /\ db.holds = {}
      BY <1>5 DEF CutoverCommits, At, Quiescent
    <2>2. /\ proc.arg \in 1..MaxBundles /\ bundles[proc.arg].made
          /\ bundles[proc.arg].db = db
      BY <2>1 DEF Copied
    <2>3. /\ db'.mode = "direct" /\ db'.backup = proc.arg /\ db'.req = db.req
          /\ db'.holds = db.holds
      BY <2>1 DEF CoreInv, CoreTypes, Rows
    <2>4. Held(db')
      BY <2>3 DEF Kept, Held
    <2>5. Named(db', bundles)
      BY <2>1, <2>2, <2>3, BoundsAssumption DEF Named
    <2> QED
      BY <1>1, <2>1, <2>4, <2>5
  <1>6. CASE Next /\ ~CutoverCommits /\ ~RestoreDatabase
    <2>1. Forward
      BY <1>6, DbForward DEF Kept
    <2>2. Named(db', bundles)
      BY <2>1, NamedForward DEF Kept, Forward
    <2>3. Held(db')
      BY <2>1 DEF Forward
    <2> QED
      BY <1>1, <1>3, <1>6, <2>2, <2>3, BundlesGrow
  <1> QED
    BY <1>2, <1>4, <1>5, <1>6

\* Where a process may be after a step, apart from the steps that say more.
Elsewhere == {"none", "opened", "registered", "fenced", "run", "backup"}

LEMMA ProcEffect ==
    ASSUME CoreInv, Next
    PROVE  \/ proc'.at \in Elsewhere
           \/ RestoreContent \/ ArchiveMarks \/ InitializeDirect \/ ArchiveAudits
           \/ \E b \in 1..MaxBundles : CreateBackup(b) /\ proc.at = "backup"
           \/ \E b \in 1..MaxBundles : RestoreStarts(b)
           \/ UNCHANGED <<proc, db, bundles, fresh>> /\ Free
  <1>0. proc \in Process /\ Idle \in Process /\ Idle.at = "none"
    BY BlankType DEF CoreInv, CoreTypes, Idle
  <1>1. ASSUME Daemon, UNCHANGED proc
        PROVE  proc'.at \in Elsewhere
    BY <1>1 DEF Daemon, Elsewhere
  <1>2. ASSUME NEW to \in {"registered", "fenced", "run"}, Move(to)
        PROVE  proc'.at \in Elsewhere
    BY <1>0, <1>2, MoveType DEF Elsewhere
  <1>3. ASSUME proc' = Idle
        PROVE  proc'.at \in Elsewhere
    BY <1>0, <1>3 DEF Elsewhere
  <1>4. CASE StartUp
    <2>1. CASE ProxyStarts
      <3>1. proc'.at \in {"opened", "fenced"}
        BY <2>1 DEF ProxyStarts, Idle
      <3> QED
        BY <3>1 DEF Elsewhere
    <2>2. CASE ForcedRecovery
      <3>1. proc'.at = "opened"
        BY <2>2 DEF ForcedRecovery, Idle
      <3> QED
        BY <3>1 DEF Elsewhere
    <2>3. CASE RegisterRecoveryProjects \/ Quarantine \/ StartupRecover
      BY <1>2, <2>3 DEF RegisterRecoveryProjects, Quarantine, StartupRecover
    <2>4. CASE DirectStarts
      <3>1. proc'.at = "run"
        BY <2>4 DEF DirectStarts, Runs, Idle
      <3> QED
        BY <3>1 DEF Elsewhere
    <2>5. CASE Stops
      BY <1>3, <2>5 DEF Stops
    <2> QED
      BY <1>4, <2>1, <2>2, <2>3, <2>4, <2>5 DEF StartUp
  <1>5. CASE Work
    <2>1. Daemon /\ UNCHANGED proc
      BY <1>5 DEF Work, Reserve, Finalize, BeginSend, Observe, SaveAnswer, FinishDirect,
                 ApplyResume, At, Daemon
    <2> QED
      BY <1>1, <2>1
  <1>6. CASE Backups
    <2>1. PICK b \in 1..MaxBundles : CreateBackup(b)
      BY <1>6 DEF Backups
    <2>2. proc.at = "backup" \/ (Daemon /\ UNCHANGED proc)
      BY <2>1 DEF CreateBackup
    <2> QED
      BY <1>1, <2>1, <2>2
  <1>7. CASE Restores
    <2>1. ASSUME NEW r \in Requests, LoseFile(r)
          PROVE  UNCHANGED <<proc, db, bundles, fresh>> /\ Free
      BY <2>1 DEF LoseFile
    <2>2. ASSUME RemoveMarker \/ \E id \in 1..MaxRestores : Release(id)
          PROVE  proc'.at \in Elsewhere
      <3>1. proc'.at = proc.at /\ proc.at = "run"
        BY <1>0, <2>2 DEF RemoveMarker, Release, At, Process
      <3> QED
        BY <3>1 DEF Elsewhere
    <2>3. ASSUME RestoreDatabase
          PROVE  proc'.at \in Elsewhere
      BY <1>3, <2>3 DEF RestoreDatabase
    <2> QED
      BY <1>7, <2>1, <2>2, <2>3 DEF Restores
  <1>8. CASE Handover
    <2>1. CASE CutoverStarts \/ AbandonStarts \/ ArchiveStarts
      <3>1. proc'.at = "backup"
        BY <2>1 DEF CutoverStarts, AbandonStarts, ArchiveStarts, Idle
      <3> QED
        BY <3>1 DEF Elsewhere
    <2>2. ASSUME CutoverCommits \/ ArchiveEnds \/ \E r \in Requests : AbandonDirectUnknown(r)
          PROVE  proc'.at \in Elsewhere
      BY <1>3, <2>2 DEF CutoverCommits, ArchiveEnds, AbandonDirectUnknown
    <2> QED
      BY <1>8, <2>1, <2>2 DEF Handover
  <1> QED
    BY <1>4, <1>5, <1>6, <1>7, <1>8 DEF Next

LEMMA CopiedStep ==
    ASSUME CoreInv, Copied, [Next]_vars
    PROVE  Copied'
  <1>0. proc \in Process
    BY DEF CoreInv, CoreTypes
  <1>1. CASE UNCHANGED vars
    BY <1>1 DEF vars, Copied
  <1>2. CASE proc'.at # "backed"
    BY <1>2 DEF Copied
  <1>3. CASE UNCHANGED <<proc, db, bundles, fresh>>
    BY <1>3 DEF Copied
  <1>4. ASSUME NEW b \in 1..MaxBundles, CreateBackup(b), proc.at = "backup"
        PROVE  Copied'
    <2>1. proc' = [proc EXCEPT !.at = "backed", !.arg = b]
      BY <1>4 DEF CreateBackup
    <2>2. proc'.arg = b
      BY <1>0, <2>1 DEF Process
    <2>3. bundles'[b].made /\ bundles'[b].db = db /\ UNCHANGED db
      BY <1>4, BundleEffect
    <2> QED
      BY <2>2, <2>3 DEF Copied
  <1>5. CASE RestoreContent \/ ArchiveMarks \/ InitializeDirect \/ ArchiveAudits
    <2>1. \E to \in {"filled", "marked", "created", "switched", "audited"} : Move(to)
      BY <1>5 DEF RestoreContent, ArchiveMarks, InitializeDirect, ArchiveAudits, FreshStep
    <2>2. proc'.at # "backed"
      BY <1>0, <2>1, MoveType
    <2> QED
      BY <1>2, <2>2
  <1>6. ASSUME NEW b \in 1..MaxBundles, RestoreStarts(b)
        PROVE  Copied'
    <2>1. proc'.at = "marked"
      BY <1>6 DEF RestoreStarts, Idle
    <2> QED
      BY <1>2, <2>1
  <1>7. proc'.at \in Elsewhere => proc'.at # "backed"
    BY DEF Elsewhere
  <1> QED
    BY <1>1, <1>2, <1>3, <1>4, <1>5, <1>6, <1>7, ProcEffect

\* The files between two steps: only an idle directory loses one.
LEMMA FilesEffect ==
    ASSUME CoreInv, files \subseteq Requests, Next
    PROVE  /\ files' \subseteq Requests
           /\ Free \/ files \subseteq files'
  <1>0. \A b \in 1..MaxBundles : bundles[b].files \subseteq Requests
    BY DEF CoreInv, CoreTypes, Saved
  <1>1. CASE StartUp
    BY <1>1 DEF StartUp, ProxyStarts, ForcedRecovery, RegisterRecoveryProjects, Quarantine,
               StartupRecover, DirectStarts, Stops
  <1>2. CASE Work
    BY <1>2 DEF Work, Reserve, Finalize, BeginSend, Observe, SaveAnswer, FinishDirect,
               ApplyResume
  <1>3. CASE Backups
    BY <1>3 DEF Backups, CreateBackup
  <1>4. CASE Restores
    <2>1. CASE RestoreContent
      <3>1. proc.arg \in 1..MaxBundles /\ files' = files \cup bundles[proc.arg].files
        BY <2>1 DEF RestoreContent, At, CoreInv, MarkerInv
      <3> QED
        BY <1>0, <3>1
    <2>2. ASSUME NEW r \in Requests, LoseFile(r)
          PROVE  Free /\ files' \subseteq Requests
      BY <2>2 DEF LoseFile
    <2> QED
      BY <1>4, <2>1, <2>2 DEF Restores, RestoreStarts, RestoreDatabase, Release, RemoveMarker
  <1>5. CASE Handover
    BY <1>5 DEF Handover, CutoverStarts, CutoverCommits, AbandonStarts, AbandonDirectUnknown,
               ArchiveStarts, ArchiveMarks, InitializeDirect, FreshStep, ArchiveAudits, ArchiveEnds
  <1> QED
    BY <1>1, <1>2, <1>3, <1>4, <1>5 DEF Next

LEMMA FilledStep ==
    ASSUME CoreInv, Filled, [Next]_vars
    PROVE  Filled'
  <1>0. proc \in Process /\ files \subseteq Requests
        /\ \A b \in 1..MaxBundles : bundles[b].files = bundles[b].db.answers
    BY DEF CoreInv, CoreTypes, Filled
  <1>1. CASE UNCHANGED vars
    BY <1>1 DEF vars, Filled, At
  <1>2. CASE Next
    <2>1. files' \subseteq Requests
      BY <1>0, <1>2, FilesEffect
    <2>2. \A b \in 1..MaxBundles : bundles'[b].files = bundles'[b].db.answers
      <3>1. ASSUME NEW b \in 1..MaxBundles, CreateBackup(b)
            PROVE  \A x \in 1..MaxBundles : bundles'[x].files = bundles'[x].db.answers
        <4>1. /\ bundles'[b] = [made |-> TRUE, db |-> db, files |-> db.answers]
              /\ \A x \in 1..MaxBundles \ {b} : bundles'[x] = bundles[x]
          BY <3>1, BundleEffect
        <4> QED
          BY <1>0, <4>1
      <3> QED
        BY <1>0, <1>2, <3>1, BundlesGrow
    <2>3. ASSUME At("restore", "filled")'
          PROVE  bundles'[proc'.arg].db.answers \subseteq files'
      <3>1. proc'.kind = "restore" /\ proc'.at = "filled"
        BY <2>3 DEF At
      <3>2. RestoreContent
        <4>1. ASSUME NEW to \in {"marked", "created", "switched", "audited"}, Move(to)
              PROVE  proc'.at # "filled"
          BY <1>0, <4>1, MoveType
        <4>2. ASSUME NEW b \in 1..MaxBundles, CreateBackup(b), proc.at = "backup"
              PROVE  proc'.at # "filled"
          BY <1>0, <4>2 DEF CreateBackup, Process
        <4>3. ASSUME NEW b \in 1..MaxBundles, RestoreStarts(b)
              PROVE  proc'.at # "filled"
          BY <4>3 DEF RestoreStarts, Idle
        <4>4. ~(UNCHANGED proc /\ Free)
          BY <3>1 DEF Free
        <4>5. proc'.at \notin Elsewhere
          BY <3>1 DEF Elsewhere
        <4>6. ~ArchiveMarks /\ ~InitializeDirect /\ ~ArchiveAudits
          BY <3>1, <4>1 DEF ArchiveMarks, InitializeDirect, ArchiveAudits, FreshStep
        <4> QED
          BY <1>2, <3>1, <4>2, <4>3, <4>4, <4>5, <4>6, ProcEffect
      <3>3. /\ files' = files \cup bundles[proc.arg].files /\ UNCHANGED bundles
            /\ Move("filled") /\ proc.kind = "restore"
        BY <3>2 DEF RestoreContent, At
      <3>4. proc'.arg = proc.arg /\ proc.arg \in 1..MaxBundles
        BY <1>0, <3>3, MoveType DEF CoreInv, MarkerInv
      <3> QED
        BY <1>0, <3>3, <3>4
    <2> QED
      BY <2>1, <2>2, <2>3 DEF Filled
  <1> QED
    BY <1>1, <1>2

LEMMA FreshEffect ==
    ASSUME Next
    PROVE  UNCHANGED fresh \/ ArchiveMarks \/ InitializeDirect \/ ArchiveAudits \/ ArchiveEnds
  <1>1. CASE StartUp
    BY <1>1 DEF StartUp, ProxyStarts, ForcedRecovery, RegisterRecoveryProjects, Quarantine,
               StartupRecover, DirectStarts, Stops
  <1>2. CASE Work
    BY <1>2 DEF Work, Reserve, Finalize, BeginSend, Observe, SaveAnswer, FinishDirect,
               ApplyResume
  <1>3. CASE Backups
    BY <1>3 DEF Backups, CreateBackup
  <1>4. CASE Restores
    BY <1>4 DEF Restores, LoseFile, RestoreStarts, RestoreContent, RestoreDatabase, Release,
               RemoveMarker
  <1>5. CASE Handover
    BY <1>5 DEF Handover, CutoverStarts, CutoverCommits, AbandonStarts, AbandonDirectUnknown,
               ArchiveStarts
  <1> QED
    BY <1>1, <1>2, <1>3, <1>4, <1>5 DEF Next

LEMMA FreshKept ==
    ASSUME CoreInv, FreshInv, [Next]_vars
    PROVE  FreshInv'
  <1>0. /\ proc \in Process
        /\ fresh \in [pending : BOOLEAN, db : {"none", "proxy", "direct", "audited"}]
    BY DEF CoreInv, CoreTypes, FreshInv
  <1>1. CASE UNCHANGED vars
    BY <1>1 DEF vars, FreshInv, At
  <1>2. CASE ArchiveMarks
    <2>1. Move("marked") /\ fresh' = [fresh EXCEPT !.pending = TRUE]
      BY <1>2 DEF ArchiveMarks
    <2>2. /\ fresh' \in [pending : BOOLEAN, db : {"none", "proxy", "direct", "audited"}]
          /\ fresh'.pending
      BY <1>0, <2>1
    <2>3. proc'.at = "marked"
      BY <1>0, <2>1, MoveType
    <2> QED
      BY <2>2, <2>3 DEF FreshInv, At
  <1>3. ASSUME NEW from \in {"marked", "created"}, NEW to \in {"created", "switched"},
               NEW next \in {"proxy", "direct"}, FreshStep(from, to, next)
        PROVE  FreshInv'
    <2>1. Move(to) /\ fresh' = [fresh EXCEPT !.db = next] /\ At("archive", from)
      BY <1>3 DEF FreshStep
    <2>2. fresh.pending
      BY <2>1 DEF FreshInv
    <2>3. /\ fresh' \in [pending : BOOLEAN, db : {"none", "proxy", "direct", "audited"}]
          /\ fresh'.pending
      BY <1>0, <2>1, <2>2
    <2>4. proc'.at = to
      BY <1>0, <2>1, MoveType
    <2> QED
      BY <2>3, <2>4 DEF FreshInv, At
  <1>4. CASE ArchiveAudits
    <2>1. Move("audited") /\ fresh' = [fresh EXCEPT !.db = "audited"] /\ At("archive", "switched")
      BY <1>4 DEF ArchiveAudits, FreshStep
    <2>2. /\ fresh' \in [pending : BOOLEAN, db : {"none", "proxy", "direct", "audited"}]
          /\ fresh'.db = "audited"
      BY <1>0, <2>1
    <2>3. proc'.at = "audited"
      BY <1>0, <2>1, MoveType
    <2> QED
      BY <2>2, <2>3 DEF FreshInv, At
  <1>5. CASE ArchiveEnds
    <2>1. proc' = Idle /\ fresh' = [fresh EXCEPT !.pending = FALSE] /\ At("archive", "audited")
      BY <1>5 DEF ArchiveEnds
    <2>2. fresh.db = "audited"
      BY <2>1 DEF FreshInv
    <2>3. /\ fresh' \in [pending : BOOLEAN, db : {"none", "proxy", "direct", "audited"}]
          /\ fresh'.db = "audited"
      BY <1>0, <2>1, <2>2
    <2>4. proc'.kind = "none"
      BY <2>1 DEF Idle
    <2> QED
      BY <2>3, <2>4 DEF FreshInv, At
  <1>6. CASE InitializeDirect
    BY <1>3, <1>6 DEF InitializeDirect
  <1>7. CASE Next /\ ~(ArchiveMarks \/ InitializeDirect \/ ArchiveAudits \/ ArchiveEnds)
    <2>1. UNCHANGED fresh
      BY <1>7, FreshEffect
    <2>2. \/ proc'.at \in Elsewhere
          \/ RestoreContent
          \/ \E b \in 1..MaxBundles : CreateBackup(b) /\ proc.at = "backup"
          \/ \E b \in 1..MaxBundles : RestoreStarts(b)
          \/ UNCHANGED proc
      BY <1>7, ProcEffect
    <2>3. proc'.at \in Elsewhere \cup {"backed"} \/ proc'.kind = "restore" \/ UNCHANGED proc
      <3>1. ASSUME NEW b \in 1..MaxBundles, CreateBackup(b), proc.at = "backup"
            PROVE  proc'.at = "backed"
        BY <1>0, <3>1 DEF CreateBackup, Process
      <3>2. ASSUME NEW b \in 1..MaxBundles, RestoreStarts(b)
            PROVE  proc'.kind = "restore"
        BY <3>2 DEF RestoreStarts, Idle
      <3>3. ASSUME RestoreContent
            PROVE  proc'.kind = "restore"
        BY <1>0, <3>3, MoveType DEF RestoreContent, At
      <3> QED
        BY <2>2, <3>1, <3>2, <3>3
    <2> QED
      BY <2>1, <2>3 DEF FreshInv, At, Elsewhere
  <1> QED
    BY <1>1, <1>2, <1>4, <1>5, <1>6, <1>7

LEMMA OwingKept ==
    ASSUME CoreInv, owing \subseteq 1..MaxRestores, [Next]_vars
    PROVE  owing' \subseteq 1..MaxRestores
  <1>1. ids \in Nat /\ ids <= MaxRestores /\ MaxRestores \in Nat
    BY BoundsAssumption DEF CoreInv, CoreTypes
  <1>2. ASSUME ids < MaxRestores, owing' = owing \cup {ids + 1}
        PROVE  owing' \subseteq 1..MaxRestores
    BY <1>1, <1>2
  <1>3. CASE UNCHANGED vars
    BY <1>3 DEF vars
  <1>4. CASE StartUp
    BY <1>2, <1>4 DEF StartUp, ProxyStarts, ForcedRecovery, RegisterRecoveryProjects, Quarantine,
               StartupRecover, DirectStarts, Stops
  <1>5. CASE Work
    BY <1>5 DEF Work, Reserve, Finalize, BeginSend, Observe, SaveAnswer, FinishDirect,
               ApplyResume
  <1>6. CASE Backups
    BY <1>6 DEF Backups, CreateBackup
  <1>7. CASE Restores
    BY <1>2, <1>7 DEF Restores, LoseFile, RestoreStarts, RestoreContent, RestoreDatabase, Release,
               RemoveMarker
  <1>8. CASE Handover
    BY <1>8 DEF Handover, CutoverStarts, CutoverCommits, AbandonStarts, AbandonDirectUnknown,
               ArchiveStarts, ArchiveMarks, InitializeDirect, FreshStep, ArchiveAudits, ArchiveEnds
  <1> QED
    BY <1>3, <1>4, <1>5, <1>6, <1>7, <1>8 DEF Next

LEMMA WholeInit == Init => WholeInv
  <1> SUFFICES ASSUME Init
               PROVE  WholeInv
    OBVIOUS
  <1>1. /\ db = Blank /\ \A b \in 1..MaxBundles : bundles[b] = NoBundle
        /\ files = {} /\ owing = {} /\ proc = Idle
        /\ fresh = [pending |-> FALSE, db |-> "none"]
    BY DEF Init
  <1>2. /\ Blank.mode = "proxy" /\ Blank.backup = 0 /\ Blank.answers = {}
        /\ \A r \in Requests : Blank.req[r] = "ABSENT"
        /\ NoBundle.db = Blank /\ NoBundle.files = {}
        /\ Idle.kind = "none" /\ Idle.at = "none"
    BY DEF Blank, NoBundle, Idle
  <1>3. Held(Blank) /\ Named(Blank, bundles)
    BY <1>2, BoundsAssumption DEF Held, Named
  <1>4. Kept
    BY <1>1, <1>2, <1>3 DEF Kept
  <1>5. Copied /\ Filled
    BY <1>1, <1>2 DEF Copied, Filled, At
  <1>6. FreshInv
    BY <1>1, <1>2 DEF FreshInv, At
  <1> QED
    BY <1>1, <1>4, <1>5, <1>6 DEF WholeInv

LEMMA WholeStep ==
    ASSUME CoreInv, WholeInv, [Next]_vars
    PROVE  CoreInv' /\ WholeInv'
  BY CoreStep, KeptStep, CopiedStep, FilledStep, FreshKept, OwingKept DEF WholeInv

\* Whatever stopped half-way, a directory keeps to its types, a request that runs
\* or is uncertain keeps its slot, an offline command's backup is of the database
\* it acts on, and a half-made fresh directory is fenced (backup.rs,
\* direct_migration.rs).
THEOREM DirectoryInvariant == Spec => [](CoreInv /\ WholeInv)
  <1>1. Init => CoreInv /\ WholeInv
    BY MarkerInit, WholeInit
  <1>2. CoreInv /\ WholeInv /\ [Next]_vars => (CoreInv /\ WholeInv)'
    BY WholeStep
  <1> QED
    BY <1>1, <1>2, PTL DEF Spec

\* A directory in Direct mode names a published backup of the finished Proxy
\* state, and every request in it is still recorded as it was, after whatever
\* restores and further runs (direct_migration::cutover).
THEOREM CutoverNamesBackup == Spec => []CutoverKeepsAll
  <1>1. CoreInv /\ WholeInv => CutoverKeepsAll
    <2> SUFFICES ASSUME CoreInv, WholeInv
                 PROVE  CutoverKeepsAll
      OBVIOUS
    <2>1. CoreTypes /\ MarkerInv /\ Kept /\ Filled /\ FreshInv
      BY DEF CoreInv, WholeInv
    <2>2. ids \in Nat /\ ids <= MaxRestores /\ MaxRestores \in Nat
      BY <2>1, BoundsAssumption DEF CoreTypes
    <2>3. ASSUME NEW d \in Rows, d.restore <= ids, d.backup \in 0..MaxBundles
          PROVE  d \in Database
      BY <2>2, <2>3 DEF Rows, Database
    <2>4. db \in Database
      BY <2>1, <2>3 DEF CoreTypes, MarkerInv, Kept, Named
    <2>5. bundles \in [1..MaxBundles -> Bundle]
      <3>1. ASSUME NEW b \in 1..MaxBundles
            PROVE  bundles[b] \in Bundle
        <4>1. bundles[b] \in Saved /\ bundles[b].db \in Rows
          BY <2>1 DEF CoreTypes, Saved
        <4>2. bundles[b].db.restore <= ids /\ bundles[b].db.backup \in 0..MaxBundles
          BY <2>1 DEF MarkerInv, Kept, Named
        <4>3. bundles[b].db \in Database
          BY <2>3, <4>1, <4>2
        <4> QED
          BY <4>1, <4>3 DEF Saved, Bundle
      <3> QED
        BY <2>1, <3>1 DEF CoreTypes
    <2>6. In("RUNNING") \cup In("FENCED") \subseteq db.holds
      BY <2>1 DEF Kept, Held, In
    <2>7. CutoverTypeOK
      BY <2>1, <2>4, <2>5, <2>6
         DEF CoreTypes, Filled, FreshInv, WholeInv, CutoverTypeOK
    <2> QED
      BY <2>1, <2>7 DEF Kept, Named, CutoverKeepsAll
  <1> QED
    BY <1>1, DirectoryInvariant, PTL

\* While a restore is under way nothing else writes the database.
LEMMA OnlyRestores ==
    ASSUME Next, At("restore", "filled"), db' # db
    PROVE  RestoreDatabase
  <1>0. proc.kind = "restore" /\ proc.at = "filled" /\ ~Daemon /\ ~Free
    BY DEF At, Daemon, Free
  <1>1. CASE StartUp
    BY <1>0, <1>1 DEF StartUp, ProxyStarts, ForcedRecovery, RegisterRecoveryProjects, Quarantine,
               StartupRecover, DirectStarts, Stops, At
  <1>2. CASE Work
    BY <1>0, <1>2 DEF Work, Reserve, Finalize, BeginSend, Observe, SaveAnswer, FinishDirect,
               ApplyResume, At
  <1>3. CASE Backups
    BY <1>3 DEF Backups, CreateBackup
  <1>4. CASE Restores
    BY <1>0, <1>4 DEF Restores, LoseFile, RestoreStarts, RestoreContent, Release, RemoveMarker, At
  <1>5. CASE Handover
    BY <1>0, <1>5 DEF Handover, CutoverStarts, CutoverCommits, AbandonStarts,
               AbandonDirectUnknown, ArchiveStarts, ArchiveMarks, InitializeDirect, FreshStep,
               ArchiveAudits, ArchiveEnds, At
  <1> QED
    BY <1>1, <1>2, <1>3, <1>4, <1>5 DEF Next

\* A restore that ends has put every answer its database names on disk, and a
\* fresh directory is accepted only after its archive was recorded
\* (restore_content, archive_init, direct_database).
THEOREM OpenedWhole == Spec => WholeWhenOpened
  <1>1. ASSUME CoreInv, WholeInv, [Next]_vars
        PROVE  [At("restore", "filled") /\ db' # db => db'.answers \subseteq files']_vars
    <2>1. SUFFICES ASSUME Next, At("restore", "filled"), db' # db
                   PROVE  db'.answers \subseteq files'
      BY <1>1
    <2>2. RestoreDatabase
      BY <1>1, <2>1, OnlyRestores
    <2>3. db' = bundles[proc.arg].db /\ UNCHANGED files
      BY <2>2 DEF RestoreDatabase
    <2> QED
      BY <1>1, <2>1, <2>3 DEF WholeInv, Filled
  <1>2. CoreInv /\ WholeInv => (FreshAccepted => fresh.db = "audited")
    BY DEF WholeInv, FreshInv, FreshAccepted
  <1> QED
    BY <1>1, <1>2, DirectoryInvariant, PTL DEF Spec, WholeWhenOpened

=============================================================================
