---------------------------- MODULE ModelSelection ----------------------------
(***************************************************************************)
(* /models, /model and /effort of one conversation, by command and by      *)
(* menu: the catalogue is read from a Codex child of its own, outside any  *)
(* transaction, and the choice is then stored in the order of the Discord  *)
(* interaction ids.  src/src/direct_model_store.rs, direct_models.rs, the  *)
(* paging of codex_execution.rs and the handlers of direct_daemon.rs.      *)
(*                                                                         *)
(* Interactions are numbered by their ids; each has a task of its own, and *)
(* Discord may deliver one again.  The catalogue may be another one each   *)
(* time it is read.                                                        *)
(***************************************************************************)
EXTENDS Naturals, Sequences, FiniteSets

CONSTANTS
    Models, Efforts,
    Defaults,      \* pairs config.direct.toml has had, for new conversations
    LastInteraction,  \* interactions are 1 .. LastInteraction
    MaxPages,      \* pages a listing may have (100)
    Cursors,       \* cursors the catalogue's pages may name
    Listings,      \* what model/list may answer, page by page
    MaxRepeats,    \* interactions delivered once more
    MaxCrashes,
    None

Interactions == 1 .. LastInteraction

\* A model as the catalogue describes it.
Entry == [model : Models, efforts : SUBSET Efforts, default : Efforts]

\* Nothing compares the configured pair with a catalogue.
ASSUME DefaultsAssumption ==
    /\ Defaults \subseteq [model : Models, effort : Efforts]
    /\ Models \cap Efforts = {}
\* A page has one model here; the first page has the cursor None.
ASSUME ListingsAssumption ==
    Listings \subseteq [Cursors \cup {None} ->
                           [data : Entry, next : Cursors \cup {None}]]
ASSUME NumbersAssumption ==
    /\ LastInteraction \in Nat /\ MaxPages \in Nat \ {0}
    /\ MaxRepeats \in Nat /\ MaxCrashes \in Nat
    /\ None \notin Models \cup Efforts \cup Cursors \cup Listings

VARIABLES
    asked,   \* what each interaction chooses: a model or an effort
    row,     \* the conversation: the pair, and the ids it was last set by
    ops,     \* rows of operations, by interaction
    task,    \* the handler of an interaction
    sent,    \* the pair of the last turn, fixed at the send boundary
    repeats, crashes

vars == <<asked, row, ops, task, sent, repeats, crashes>>

-----------------------------------------------------------------------------
(* The catalogue                                                           *)

\* list_models(): follows the cursors; a cursor seen before, or more pages
\* than allowed, is a protocol error and no catalogue at all.
\* Mutant: a repeated cursor ends the list.
Listing_StopsAtRepeat(p) ==
    LET f[n \in 1 .. MaxPages] ==
            IF n = 1 THEN [got |-> <<p[None].data>>, cursor |-> p[None].next,
                           seen |-> {}, failed |-> FALSE]
            ELSE LET last == f[n - 1] IN
                 IF last.cursor \in last.seen \cup {None} THEN last
                 ELSE [got |-> Append(last.got, p[last.cursor].data),
                       cursor |-> p[last.cursor].next,
                       seen |-> last.seen \cup {last.cursor},
                       failed |-> FALSE]
    IN  [ok |-> TRUE, models |-> f[MaxPages].got]

Listing(p) ==
    LET f[n \in 1 .. MaxPages] ==
            IF n = 1 THEN [got |-> <<p[None].data>>, cursor |-> p[None].next,
                           seen |-> {}, failed |-> FALSE]
            ELSE LET last == f[n - 1] IN
                 IF last.failed \/ last.cursor = None THEN last
                 ELSE IF last.cursor \in last.seen
                      THEN [last EXCEPT !.failed = TRUE]
                 ELSE [got |-> Append(last.got, p[last.cursor].data),
                       cursor |-> p[last.cursor].next,
                       seen |-> last.seen \cup {last.cursor},
                       failed |-> FALSE]
        end == f[MaxPages]
    IN  [ok |-> ~end.failed /\ end.cursor = None, models |-> end.got]

\* DirectModelCatalog::list(): the same model twice, or a default the model
\* itself does not support, is no catalogue either.
Distinct(s) == \A i, j \in DOMAIN s : s[i] = s[j] => i = j
Sound(entries) == /\ Distinct([i \in DOMAIN entries |-> entries[i].model])
                  /\ \A i \in DOMAIN entries :
                        entries[i].default \in entries[i].efforts
Catalogue(p) ==
    LET l == Listing(p)
    IN  IF l.ok /\ Sound(l.models) THEN {l.models[i] : i \in DOMAIN l.models}
        ELSE {}

-----------------------------------------------------------------------------
(* Types and the initial state                                             *)

NoRow == [model |-> None, effort |-> None, modelBy |-> 0, effortBy |-> 0]
NoOp == [kind |-> "None", value |-> None, state |-> "None",
         entry |-> None, read |-> None, found |-> None]
Handler(at, model, entry, read) ==
    [at |-> at, against |-> model, entry |-> entry, read |-> read, told |-> "None"]
Idle == Handler("Idle", None, None, None)
Ended(told) == [at |-> "Done", against |-> None, entry |-> None, read |-> None,
                told |-> told]

Kind(i) == IF asked[i] \in Models THEN "Model" ELSE "Effort"

SelectionTypeOK ==
    /\ asked \in [Interactions -> Models \cup Efforts]
    /\ row.model \in Models \cup {None} /\ row.effort \in Efforts \cup {None}
    /\ row.modelBy \in 0 .. LastInteraction
    /\ row.effortBy \in 0 .. LastInteraction
    /\ \A i \in Interactions :
          /\ ops[i] = NoOp \/ (/\ ops[i].kind = Kind(i)
                               /\ ops[i].value = asked[i]
                               /\ ops[i].state \in {"APPLIED", "SUPERSEDED"}
                               /\ ops[i].entry \in Entry
                               /\ ops[i].read \in Listings
                               /\ ops[i].found \in Models)
          /\ task[i].at \in {"Idle", "Lists", "Stores", "Done"}
          /\ task[i].against \in Models \cup {None}
          /\ task[i].entry = None \/ task[i].entry \in Entry
          /\ task[i].read \in Listings \cup {None}
          /\ task[i].told \in {"None", "Changed", "Superseded", "Failed"}
    /\ sent \in {<<>>} \cup (Models \X Efforts)
    /\ repeats \in 0 .. MaxRepeats /\ crashes \in 0 .. MaxCrashes

\* No conversation yet, or one of before schema v15: its model has got the
\* configured effort, whatever the model is (sync_direct_defaults).
Init ==
    /\ asked \in [Interactions -> Models \cup Efforts]
    /\ row \in {NoRow} \cup [model : Models, effort : {d.effort : d \in Defaults},
                             modelBy : {0}, effortBy : {0}]
    /\ ops = [i \in Interactions |-> NoOp]
    /\ task = [i \in Interactions |-> Idle]
    /\ sent = <<>> /\ repeats = 0 /\ crashes = 0

-----------------------------------------------------------------------------
(* The handlers                                                            *)

\* add_conversation: a conversation seen for the first time takes the
\* configured defaults.
Row(d) == IF row.model = None
          THEN [row EXCEPT !.model = d.model, !.effort = d.effort]
          ELSE row

\* The interaction arrives; choose_model needs no read of the conversation,
\* choose_effort reads the selected model to validate against.
Begins(i) ==
    /\ task[i].at = "Idle"
    /\ \E d \in Defaults :
          /\ row' = Row(d)
          /\ LET model == IF Kind(i) = "Model" THEN asked[i] ELSE Row(d).model IN
             task' = [task EXCEPT ![i] = Handler("Lists", model, None, None)]
    /\ UNCHANGED <<asked, ops, sent, repeats, crashes>>

\* DirectModelCatalog::find, validate_effort: what the catalogue has of the
\* model, if it has it, and has the effort.
Offered(i, p) ==
    {e \in Catalogue(p) : /\ e.model = task[i].against
                          /\ Kind(i) = "Effort" => asked[i] \in e.efforts}

\* Launch, list, shut down.  The command fails if that does, and nothing is
\* stored.  The task keeps the entry; as history, the listing too.
Validates(i) ==
    /\ task[i].at = "Lists"
    /\ \/ \E p \in Listings : \E e \in Offered(i, p) :
             task' = [task EXCEPT ![i] = Handler("Stores", task[i].against, e, p)]
       \/ task' = [task EXCEPT ![i] = Ended("Failed")]
    /\ UNCHANGED <<asked, row, ops, sent, repeats, crashes>>

\* Mutant: the selection that is stored last wins.
Newer_Always(i, by) == TRUE

Newer(i, by) == i > by

\* Mutant: the effort is left as it was.
Adjusted_Never(e) == row.effort

\* An effort the new model does not support gives way to its default, by the
\* entry that was read before the transaction.
Adjusted(e) == IF row.effort \in e.efforts THEN row.effort ELSE e.default

\* select_direct_model_with_efforts: the row of a repeated interaction only
\* repeats its outcome.
Tells(i, applied) ==
    task' = [task EXCEPT ![i] = Ended(IF applied THEN "Changed"
                                      ELSE "Superseded")]

Repeated(i) == /\ ops[i] # NoOp
               /\ Tells(i, ops[i].state = "APPLIED")
               /\ UNCHANGED <<row, ops>>

\* The row; as history, what the choice was validated against and the model
\* that was selected when it was stored.
Recorded(i, applied) ==
    ops' = [ops EXCEPT ![i] = [kind |-> Kind(i), value |-> asked[i],
                               state |-> IF applied THEN "APPLIED"
                                         ELSE "SUPERSEDED",
                               entry |-> task[i].entry,
                               read |-> task[i].read,
                               found |-> row.model]]

SelectModel(i) ==
    /\ task[i].at = "Stores" /\ Kind(i) = "Model"
    /\ \/ Repeated(i)
       \/ /\ ops[i] = NoOp
          /\ LET applied == Newer(i, row.modelBy) IN
             /\ row' = IF ~applied THEN row
                       ELSE [row EXCEPT !.model = asked[i], !.modelBy = i,
                                        !.effort = Adjusted(task[i].entry)]
             /\ Recorded(i, applied) /\ Tells(i, applied)
    /\ UNCHANGED <<asked, sent, repeats, crashes>>

\* select_direct_reasoning_effort: the catalogue is not asked again.
SelectEffort(i) ==
    /\ task[i].at = "Stores" /\ Kind(i) = "Effort"
    /\ \/ Repeated(i)
       \/ /\ ops[i] = NoOp
          /\ LET applied == Newer(i, row.effortBy) IN
             /\ row' = IF ~applied THEN row
                       ELSE [row EXCEPT !.effort = asked[i], !.effortBy = i]
             /\ Recorded(i, applied) /\ Tells(i, applied)
    /\ UNCHANGED <<asked, sent, repeats, crashes>>

\* begin_direct_send fixes the pair for the turn.
SendTurn ==
    /\ row.model # None
    /\ sent' = <<row.model, row.effort>>
    /\ UNCHANGED <<asked, row, ops, task, repeats, crashes>>

\* Discord delivers an interaction once more, or the Gateway restarts.
Repeats(i) ==
    /\ task[i].at = "Done" /\ repeats < MaxRepeats
    /\ repeats' = repeats + 1
    /\ task' = [task EXCEPT ![i] = Idle]
    /\ UNCHANGED <<asked, row, ops, sent, crashes>>

Crash ==
    /\ crashes < MaxCrashes /\ crashes' = crashes + 1
    /\ task' = [i \in Interactions |->
                   IF task[i].at \in {"Idle", "Done"} THEN task[i]
                   ELSE Ended("None")]
    /\ UNCHANGED <<asked, row, ops, sent, repeats>>

Next == \/ SendTurn \/ Crash
        \/ \E i \in Interactions : \/ Begins(i) \/ Validates(i) \/ SelectModel(i)
                                   \/ SelectEffort(i) \/ Repeats(i)

Spec == Init /\ [][Next]_vars

-----------------------------------------------------------------------------
(* Properties                                                              *)

\* However long their validations take, a selection never gives way to an
\* older one, and the pair is the newest model with the newest effort or the
\* default it had to give way to.
NewestWins ==
    /\ SelectionTypeOK
    /\ \A i \in Interactions :
          /\ ops[i].kind = "Model" => i <= row.modelBy
          /\ ops[i].kind = "Effort" => i <= row.effortBy
    /\ row.modelBy > 0 => row.model = asked[row.modelBy]
    /\ row.effortBy > 0 =>
          \/ row.effort = asked[row.effortBy]
          \/ \E i \in Interactions : /\ ops[i].kind = "Model"
                                     /\ ops[i].state = "APPLIED"
                                     /\ row.effort = ops[i].entry.default

\* A pair somebody has chosen from was offered together by a catalogue read
\* for the model or for the effort in force - unless the effort was validated
\* against another model, replaced while the catalogue was read by the one it
\* is now sent with: the transaction does not look at the model again.
PairOffered ==
    \E i \in {row.modelBy, row.effortBy} \ {0} :
        ops[i].entry.model = row.model /\ row.effort \in ops[i].entry.efforts
UnofferedOnlyIfStale ==
    row.modelBy + row.effortBy > 0 /\ ~PairOffered =>
        /\ row.effortBy > 0 /\ row.effort = asked[row.effortBy]
        /\ ops[row.effortBy].found = row.model
        /\ ops[row.effortBy].entry.model # row.model

\* A model is only selected, and an effort only validated, from a complete
\* catalogue: one whose pages end, within the limit, and name no model twice.
Chains == {s \in UNION {[1 .. n -> Cursors \cup {None}] : n \in 1 .. MaxPages} :
              s[1] = None /\ Distinct(s)}
Complete(p, s) ==
    /\ \A i \in DOMAIN s : p[s[i]].next = IF i = Len(s) THEN None ELSE s[i + 1]
    /\ Distinct([i \in DOMAIN s |-> p[s[i]].data.model])
OnlyOffered ==
    \A i \in Interactions :
        ops[i] # NoOp =>
            \E s \in Chains : /\ Complete(ops[i].read, s)
                              /\ \E k \in DOMAIN s :
                                    ops[i].read[s[k]].data = ops[i].entry
=============================================================================
