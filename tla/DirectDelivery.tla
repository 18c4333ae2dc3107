---------------------------- MODULE DirectDelivery ----------------------------
(***************************************************************************)
(* From the end of a turn to Discord: the run actor saves what the turn    *)
(* made and marks the request terminal (confirm_terminal, src/direct_run.rs),*)
(* posts the answer and the images (src/direct_application.rs,             *)
(* src/direct_delivery.rs); the coordinator shows and closes an approval   *)
(* card; /get captures a file and posts it (src/direct_artifacts.rs); and  *)
(* start-up reconciles what a previous process left pending.               *)
(*                                                                         *)
(* One request, its turn already over.  Stored files are immutable, so a   *)
(* slot of the answer, an image or an artifact has one content.            *)
(***************************************************************************)
EXTENDS Delivery

CONSTANTS
    Parts,      \* chunks of the answer
    Images,     \* image items of the turn, by ordinal
    Turns,      \* the ways the turn may have ended
    Gets,       \* Discord interactions that carry a /get of one path
    MaxCrashes  \* bound: restarts of the process

AnswerSlot(i) == <<"answer", i>>
ImageSlot(i)  == <<"image", i>>
GetSlot(g)    == <<"artifact", g>>
CardSlot      == <<"approval", 0>>
Answer        == <<"answer", 0>>       \* the file of the whole answer

ImageSlots == {ImageSlot(i) : i \in 1 .. Images}
GetSlots   == {GetSlot(g) : g \in Gets}
DirectSlots == {AnswerSlot(i) : i \in 1 .. Parts} \cup ImageSlots
               \cup GetSlots \cup {CardSlot}

ASSUME PartsAreSlots ==
    /\ Parts \in Nat /\ Images \in Nat /\ MaxCrashes \in Nat
    /\ Slots = DirectSlots /\ Media = ImageSlots \cup GetSlots
    /\ Callers = {"actor", "drive", "boot"} \cup Gets
    /\ {"actor", "drive", "boot"} \cap Gets = {}
    /\ {"saved", "asked", "closed"} \subseteq Contents

VARIABLES
    turn,       \* Codex: how the turn ended and what its items say
    request,    \* requests.state
    files,      \* answer, image and artifact files of the content store
    draft,      \* the records confirm_terminal is about to write
    inventory,  \* direct_image_inventories.state; "NONE": no row
    image,      \* direct_generated_images.state
    artifact,   \* direct_artifacts has the row of this call
    stage,      \* where each task is
    part,       \* part or ordinal the actor or start-up is at
    answered,   \* finish_and_deliver: what became of the answer
    event,      \* the event the actor ended with
    todo,       \* rows start-up has still to reconcile
    crashes

resultVars == <<request, files, draft, inventory, image>>
getVars    == <<artifact>>
taskVars   == <<stage, part, answered, event, todo>>
vars == <<deliveryVars, resultVars, getVars, taskVars, turn, crashes>>

Items   == [1 .. Images -> {"done", "failed", "open"}]
Turn    == [status : {"COMPLETED", "FAILED"}, legible : BOOLEAN, items : Items]
ImageState == {"NONE", "READY", "FAILED", "UNKNOWN"}
Terminal == {"COMPLETED", "FAILED"}

\* Every variable keeps its domain.
DeliveryTypeOK ==
    /\ DeliveryType
    /\ turn \in Turn
    /\ request \in Terminal \cup {"RUNNING", "UNKNOWN"}
    /\ files \subseteq {Answer} \cup Media
    /\ draft \in [1 .. Images -> ImageState]
    /\ inventory \in {"NONE", "UNKNOWN", "COMPLETE"}
    /\ image \in [1 .. Images -> ImageState]
    /\ artifact \in [Gets -> BOOLEAN]
    /\ stage \in [Callers -> {"images", "record", "answer", "finish",
                              "close", "post", "retry", "show", "expire",
                              "check", "capture", "sent", "texts",
                              "artifacts", "over"}]
    /\ part \in 1 .. Parts + Images + 1
    /\ answered \in {"none", "yes", "no", "error"}
    /\ event \in {"none", "terminal", "pending", "unknown"}
    /\ todo \subseteq Slots
    /\ crashes \in 0 .. MaxCrashes

ASSUME TurnsType == Turns \subseteq Turn

Init ==
    /\ DeliveryInit
    /\ turn \in Turns
    /\ request = "RUNNING"
    /\ files = {}
    /\ draft = [i \in 1 .. Images |-> "NONE"]
    /\ inventory = "NONE"
    /\ image = [i \in 1 .. Images |-> "NONE"]
    /\ artifact = [g \in Gets |-> FALSE]
    /\ stage = [p \in Callers |-> CASE p = "actor" -> "images"
                                    [] p = "drive" -> "show"
                                    [] p = "boot"  -> "over"
                                    [] OTHER       -> "check"]
    /\ part = 1
    /\ answered = "none"
    /\ event = "none"
    /\ todo = {}
    /\ crashes = 0

At(p, s) == stage[p] = s /\ Free(p)
Moves(p, s) == stage' = [stage EXCEPT ![p] = s]
Calls(p, s, w) == call' = [call EXCEPT ![p] = Called(s, w)]
Returns(p) == call' = [call EXCEPT ![p] = NoCall]
\* start-up is over: the loops and the run actor may work
Working == stage["boot"] = "over"

-----------------------------------------------------------------------------
\* confirm_terminal.  An error of any of its steps leaves the request as it
\* was; the actor tries again at its next tick, until sixty seconds passed.

Retries == Strikes /\ Moves("actor", "retry")

\* save_image: written aside, synced and linked into place whole; an
\* existing file must be the same.
FilesOf(I) == {ImageSlot(i) : i \in I}

\* inventory() and its images: an image whose file cannot be written is
\* recorded as unknown.
SavesImages ==
    /\ At("actor", "images")
    /\ IF turn.legible
       THEN LET made == {i \in 1 .. Images : turn.items[i] = "done"}
                State(i, saved) == CASE i \in saved -> "READY"
                                     [] turn.items[i] = "failed" -> "FAILED"
                                     [] OTHER -> "UNKNOWN"
            IN \/ /\ files' = files \cup FilesOf(made)
                  /\ draft' = [i \in 1 .. Images |-> State(i, made)]
                  /\ UNCHANGED faults
               \/ \E i \in made :
                     /\ Strikes
                     /\ files' = files \cup FilesOf(made \ {i})
                     /\ draft' = [j \in 1 .. Images |-> State(j, made \ {i})]
       ELSE UNCHANGED <<files, draft, faults>>
    /\ Moves("actor", "record")
    /\ UNCHANGED <<row, posts, shown, late, call, request, inventory, image,
                   getVars, part, answered, event, todo, turn, crashes>>

\* record_direct_images: a COMPLETE inventory and an image once READY or
\* FAILED must be found unchanged; mark_direct_image_unknown does nothing to
\* a COMPLETE one.
Settled(i) == image[i] \in {"READY", "FAILED"}
Agrees == /\ inventory = "COMPLETE" => \A i \in 1 .. Images : draft[i] # "UNKNOWN"
          /\ \A i \in 1 .. Images : Settled(i) => draft[i] = image[i]

RecordsImages ==
    /\ At("actor", "record")
    /\ \/ /\ turn.legible /\ Agrees
          /\ image' = draft
          /\ inventory' = IF \E i \in 1 .. Images : draft[i] = "UNKNOWN"
                          THEN "UNKNOWN" ELSE "COMPLETE"
          /\ Moves("actor", "answer")
          /\ UNCHANGED faults
       \/ /\ ~turn.legible
          /\ inventory' = IF inventory = "NONE" THEN "UNKNOWN" ELSE inventory
          /\ Moves("actor", "answer")
          /\ UNCHANGED <<image, faults>>
       \/ /\ turn.legible /\ ~Agrees
          /\ Moves("actor", "retry")
          /\ UNCHANGED <<image, inventory, faults>>
       \/ Retries /\ UNCHANGED <<image, inventory>>
    /\ UNCHANGED <<row, posts, shown, late, call, request, files, draft,
                   getVars, part, answered, event, todo, turn, crashes>>

\* Mutant: the request is finished though its answer could not be saved.
SavesAnswer_Ignored ==
    /\ At("actor", "answer")
    /\ \/ files' = files \cup {Answer} /\ UNCHANGED faults
       \/ Strikes /\ UNCHANGED files
    /\ Moves("actor", "finish")
    /\ UNCHANGED <<row, posts, shown, late, call, request, draft, inventory,
                   image, getVars, part, answered, event, todo, turn, crashes>>

\* save_answer: the link may be made and its directory's fsync still fail.
\* A failed turn may have no final text; it is then not saved.
SavesAnswer ==
    /\ At("actor", "answer")
    /\ \/ /\ files' = files \cup {Answer}
          /\ \/ Moves("actor", "finish") /\ UNCHANGED faults
             \/ Retries
       \/ /\ turn.status = "FAILED"
          /\ Moves("actor", "finish")
          /\ UNCHANGED <<files, faults>>
       \/ Retries /\ UNCHANGED files
    /\ UNCHANGED <<row, posts, shown, late, call, request, draft, inventory,
                   image, getVars, part, answered, event, todo, turn, crashes>>

FinishesDirect ==
    /\ At("actor", "finish")
    /\ \/ /\ request' = turn.status
          /\ Moves("actor", "close")
          /\ UNCHANGED faults
       \/ Retries /\ UNCHANGED request
    /\ UNCHANGED <<row, posts, shown, late, call, files, draft, inventory,
                   image, getVars, part, answered, event, todo, turn, crashes>>

\* The next tick, or sixty seconds after the first: terminal_content_unavailable.
RetriesOrGivesUp ==
    /\ At("actor", "retry")
    /\ \/ Moves("actor", "images") /\ UNCHANGED <<request, event>>
       \/ /\ request' = "UNKNOWN"
          /\ event' = "unknown"
          /\ Moves("actor", "over")
    /\ UNCHANGED <<deliveryVars, files, draft, inventory, image, getVars, part,
                   answered, todo, turn, crashes>>

\* close_direct_approvals.  If it fails the request is terminal already: the
\* actor reports a pending delivery and has tried to deliver nothing.
ClosesApprovals ==
    /\ At("actor", "close")
    /\ \/ Moves("actor", "post") /\ UNCHANGED <<faults, event>>
       \/ Strikes /\ Moves("actor", "over") /\ event' = "pending"
    /\ UNCHANGED <<row, posts, shown, late, call, resultVars, getVars, part,
                   answered, todo, turn, crashes>>

-----------------------------------------------------------------------------
\* finish_and_deliver.  The parts are posted in order, up to the first that
\* is not confirmed; the images are tried all the same, and an error of the
\* answer is returned only after them.  There is never a surplus part to trim.

\* the next slot of the actor's or start-up's walk over parts and images
ImageAt == part - Parts
PostsAnswer ==
    /\ At("actor", "post") /\ part <= Parts
    /\ \/ /\ request = "COMPLETED"
          /\ Calls("actor", AnswerSlot(part), "saved")
          /\ UNCHANGED <<part, answered, faults>>
       \/ /\ request = "COMPLETED"  \* the saved file cannot be read
          /\ part = 1 /\ Strikes
          /\ answered' = "error" /\ part' = Parts + 1
          /\ UNCHANGED call
       \/ /\ request = "FAILED"
          /\ answered' = "no" /\ part' = Parts + 1
          /\ UNCHANGED <<call, faults>>
    /\ UNCHANGED <<row, posts, shown, late, resultVars, getVars, stage, event,
                   todo, turn, crashes>>

\* Mutant: the parts after an unconfirmed one are posted too.
AnswerTold_GoesOn ==
    LET told == call["actor"].told
    IN /\ stage["actor"] = "post" /\ call["actor"].at = "told"
       /\ part <= Parts
       /\ part' = part + 1
       /\ answered' = IF part = Parts \/ told = "error" THEN told ELSE answered
       /\ Returns("actor")
       /\ UNCHANGED <<row, posts, shown, late, faults, resultVars, getVars,
                      stage, event, todo, turn, crashes>>

AnswerTold ==
    LET told == call["actor"].told
    IN /\ stage["actor"] = "post" /\ call["actor"].at = "told"
       /\ part <= Parts
       /\ IF told = "yes"
          THEN /\ part' = part + 1
               /\ answered' = IF part = Parts THEN "yes" ELSE answered
          ELSE /\ part' = Parts + 1
               /\ answered' = told
       /\ Returns("actor")
       /\ UNCHANGED <<row, posts, shown, late, faults, resultVars, getVars,
                      stage, event, todo, turn, crashes>>

\* direct_images, called by the actor and by start-up.
Walks(p) == \/ p = "actor" /\ At("actor", "post")
            \/ p = "boot"  /\ At("boot", "post")

PostsImage(p) ==
    /\ Walks(p) /\ part > Parts /\ ImageAt <= Images
    /\ IF image[ImageAt] = "READY"
       THEN Calls(p, ImageSlot(ImageAt), "saved") /\ UNCHANGED part
       ELSE part' = part + 1 /\ UNCHANGED call
    /\ UNCHANGED <<row, posts, shown, late, faults, resultVars, getVars,
                   stage, answered, event, todo, turn, crashes>>

\* An error ends the walk; an image that stays unconfirmed does not.
ImageTold(p) ==
    /\ stage[p] = "post" /\ call[p].at = "told" /\ part > Parts
    /\ IF call[p].told = "error"
       THEN IF p = "actor"
            THEN Moves(p, "over") /\ event' = "pending" /\ UNCHANGED part
            ELSE Moves(p, "artifacts") /\ UNCHANGED <<part, event>>
       ELSE part' = part + 1 /\ UNCHANGED <<stage, event>>
    /\ Returns(p)
    /\ UNCHANGED <<row, posts, shown, late, faults, resultVars, getVars,
                   answered, todo, turn, crashes>>

EndsRun ==
    /\ At("actor", "post") /\ ImageAt > Images
    /\ event' = IF answered = "error" THEN "pending" ELSE "terminal"
    /\ Moves("actor", "over")
    /\ UNCHANGED <<deliveryVars, resultVars, getVars, part, answered, todo,
                   turn, crashes>>

-----------------------------------------------------------------------------
\* The coordinator's loop: the card of an approval, and its closing text when
\* it is resolved or the run is over.  Only the first must succeed.

Shows ==
    /\ At("drive", "show")
    /\ \/ /\ Calls("drive", CardSlot, "asked")
          /\ UNCHANGED stage
       \/ Moves("drive", "over") /\ UNCHANGED call   \* no approval is asked
    /\ UNCHANGED <<row, posts, shown, late, faults, resultVars, getVars, part,
                   answered, event, todo, turn, crashes>>

\* What becomes of the request of a call that is dropped.
Dropped(p) ==
    {late} \cup IF call[p].at # "send" THEN {}
                ELSE {late \cup {[slot |-> call[p].slot,
                                  post |-> IsPost(call[p].slot),
                                  content |-> call[p].want]}}

\* drive() aborts the actor when show_approval fails.
ShowTold ==
    /\ stage["drive"] = "show" /\ call["drive"].at = "told"
    /\ IF call["drive"].told = "error" /\ stage["actor"] # "over"
       THEN /\ stage' = [stage EXCEPT !["drive"] = "expire",
                                      !["actor"] = "over"]
            /\ late' \in Dropped("actor")
            /\ call' = [call EXCEPT !["drive"] = NoCall, !["actor"] = NoCall]
            /\ request' = IF request = "RUNNING" THEN "UNKNOWN" ELSE request
       ELSE /\ Moves("drive", "expire")
            /\ Returns("drive")
            /\ UNCHANGED <<late, request>>
    /\ UNCHANGED <<row, posts, shown, faults, files, draft, inventory, image,
                   getVars, part, answered, event, todo, turn, crashes>>

Closes ==
    /\ At("drive", "expire")
    /\ Calls("drive", CardSlot, "closed")
    /\ UNCHANGED <<row, posts, shown, late, faults, resultVars, getVars,
                   taskVars, turn, crashes>>

CloseTold ==
    /\ stage["drive"] = "expire" /\ call["drive"].at = "told"
    /\ Moves("drive", "over")
    /\ Returns("drive")
    /\ UNCHANGED <<row, posts, shown, late, faults, resultVars, getVars, part,
                   answered, event, todo, turn, crashes>>

-----------------------------------------------------------------------------
\* /get: each press is a task of its own.

Unresolved == \E g \in Gets : artifact[g] /\ Pending(GetSlot(g))

\* capture refuses a path whose last delivery is unresolved; it looks first
\* and captures after.
ChecksGet(g) ==
    /\ At(g, "check") /\ Working
    /\ Moves(g, IF Unresolved THEN "over" ELSE "capture")
    /\ UNCHANGED <<deliveryVars, resultVars, getVars, part, answered, event,
                   todo, turn, crashes>>

Captures(g) ==
    /\ At(g, "capture")
    /\ \/ /\ files' = files \cup {GetSlot(g)}
          /\ artifact' = [artifact EXCEPT ![g] = TRUE]
          /\ Moves(g, "post")
          /\ Calls(g, GetSlot(g), "saved")
          /\ UNCHANGED faults
       \/ /\ \E saved \in {{}, {GetSlot(g)}} : files' = files \cup saved
          /\ Strikes
          /\ Moves(g, "over")
          /\ UNCHANGED <<call, artifact>>
    /\ UNCHANGED <<row, posts, shown, late, request, draft, inventory, image,
                   part, answered, event, todo, turn, crashes>>

\* "sent" or "not confirmed, not sent again" is what the user reads.
GetTold(g) ==
    /\ stage[g] = "post" /\ call[g].at = "told"
    /\ Moves(g, IF call[g].told = "yes" THEN "sent" ELSE "over")
    /\ Returns(g)
    /\ UNCHANGED <<row, posts, shown, late, faults, resultVars, getVars, part,
                   answered, event, todo, turn, crashes>>

-----------------------------------------------------------------------------
\* The process dies at any point; requests on their way may still arrive.
\* Start-up fences the request and reconciles before the loops start.

Crash ==
    /\ crashes < MaxCrashes
    /\ crashes' = crashes + 1
    /\ late' \in {UNION L : L \in SUBSET UNION {Dropped(p) : p \in Callers}}
    /\ late \subseteq late'
    /\ call' = [p \in Callers |-> NoCall]
    /\ request' = IF request = "RUNNING" THEN "UNKNOWN" ELSE request
    /\ stage' = [p \in Callers |->
                   IF p = "boot" THEN "texts"
                   ELSE IF p \in Gets /\ At(p, "check") THEN "check"
                   ELSE "over"]
    /\ todo' = {s \in Slots \ Media : Pending(s)}
    /\ part' = Parts + 1
    /\ UNCHANGED <<row, posts, shown, faults, files, draft, inventory, image,
                   getVars, answered, event, turn>>

\* recover: it looks for the pending texts and does nothing else with them.
RecoversText(s) ==
    /\ At("boot", "texts") /\ s \in todo
    /\ todo' = todo \ {s}
    /\ call' = [call EXCEPT !["boot"] = Looking(s)]
    /\ UNCHANGED <<row, posts, shown, late, faults, resultVars, getVars, stage,
                   part, answered, event, turn, crashes>>

TextTold ==
    /\ stage["boot"] \in {"texts", "artifacts"} /\ call["boot"].at = "told"
    /\ Returns("boot")
    /\ UNCHANGED <<row, posts, shown, late, faults, resultVars, getVars,
                   taskVars, turn, crashes>>

\* Mutant: only images that were tried are taken up.
ToDeliver_Tried == /\ request \in Terminal
                   /\ \E i \in 1 .. Images : Pending(ImageSlot(i))

\* recover_direct_images: terminal requests with a READY image that is not
\* confirmed, posted for the first time if no row says otherwise.
ToDeliver == /\ request \in Terminal
             /\ \E i \in 1 .. Images : /\ image[i] = "READY"
                                       /\ row[ImageSlot(i)].state # "CONFIRMED"

RecoversImages ==
    /\ At("boot", "texts") /\ todo = {}
    /\ Moves("boot", IF ToDeliver THEN "post" ELSE "artifacts")
    /\ todo' = {s \in GetSlots : Pending(s)}
    /\ UNCHANGED <<deliveryVars, resultVars, getVars, part, answered, event,
                   turn, crashes>>

ImagesRecovered ==
    /\ At("boot", "post") /\ ImageAt > Images
    /\ Moves("boot", "artifacts")
    /\ UNCHANGED <<deliveryVars, resultVars, getVars, part, answered, event,
                   todo, turn, crashes>>

\* recover_direct_artifacts takes up pending rows only.
RecoversArtifact(s) ==
    /\ At("boot", "artifacts") /\ s \in todo
    /\ todo' = todo \ {s}
    /\ Calls("boot", s, "saved")
    /\ UNCHANGED <<row, posts, shown, late, faults, resultVars, getVars, stage,
                   part, answered, event, turn, crashes>>

Started ==
    /\ At("boot", "artifacts") /\ todo = {}
    /\ Moves("boot", "over")
    /\ UNCHANGED <<deliveryVars, resultVars, getVars, part, answered, event,
                   todo, turn, crashes>>

-----------------------------------------------------------------------------
Deliver(p) == Steps(p) /\ UNCHANGED <<resultVars, getVars, taskVars, turn, crashes>>

Actor == \/ SavesImages \/ RecordsImages \/ SavesAnswer \/ FinishesDirect
         \/ RetriesOrGivesUp \/ ClosesApprovals \/ PostsAnswer \/ AnswerTold
         \/ PostsImage("actor") \/ ImageTold("actor") \/ EndsRun
         \/ Deliver("actor")
Drive == Shows \/ ShowTold \/ Closes \/ CloseTold \/ Deliver("drive")
Get(g) == ChecksGet(g) \/ Captures(g) \/ GetTold(g) \/ Deliver(g)
Boot == \/ \E s \in Slots : RecoversText(s) \/ RecoversArtifact(s)
        \/ TextTold \/ RecoversImages \/ PostsImage("boot")
        \/ ImageTold("boot") \/ ImagesRecovered \/ Started
        \/ Deliver("boot")
Arrives == /\ \E l \in late : Lands(l)
           /\ UNCHANGED <<resultVars, getVars, taskVars, turn, crashes>>

Next == \/ Actor \/ Drive \/ Boot \/ Arrives \/ Crash
        \/ \E g \in Gets : Get(g)

Spec == Init /\ [][Next]_vars

\* Every task runs on while the process is up; Discord owes a late request
\* nothing, and no crash is owed.
FairSpec == /\ Spec
            /\ WF_vars(Actor) /\ WF_vars(Drive) /\ WF_vars(Boot)
            /\ \A g \in Gets : WF_vars(Get(g))

-----------------------------------------------------------------------------
\* Properties (with PostedOnce and ConfirmedIsShown of Delivery).

\* The parts of an answer appear in order: none is posted, nor on its way,
\* before the one before it is confirmed, and an answer reported as delivered
\* is confirmed part by part.
AnswerInOrder ==
    /\ \A i \in 2 .. Parts :
          row[AnswerSlot(i)].state # "NONE" =>
              row[AnswerSlot(i - 1)].state = "CONFIRMED"
    /\ answered = "yes" =>
          \A i \in 1 .. Parts : row[AnswerSlot(i)].state = "CONFIRMED"

\* What is final or reported is so.  A request is completed only with its
\* answer and an image inventory saved, and no record speaks of a file that is
\* not there ("Persist final text before marking the request terminal",
\* src/direct_run.rs); a run that ends without a pending delivery has tried
\* every image it kept, even if the answer failed; and a file called sent is in
\* Discord.
OutcomeTrue ==
    /\ DeliveryTypeOK
    /\ request = "COMPLETED" => Answer \in files
    /\ request \in Terminal => inventory # "NONE"
    /\ \A i \in 1 .. Images :
          image[i] = "READY" =>
              /\ ImageSlot(i) \in files
              /\ event = "terminal" => row[ImageSlot(i)].state # "NONE"
    /\ \A g \in Gets :
          /\ row[GetSlot(g)].state # "NONE" => artifact[g]
          /\ artifact[g] => GetSlot(g) \in files
          /\ stage[g] = "sent" => posts[GetSlot(g)] = 1

\* A complete inventory, and an image once kept or known to have failed, are
\* never changed by a later reading of the same turn; and start-up posts an
\* image that a finished request kept and no process ever tried to post.
KeptImagesPosted ==
    /\ [][/\ inventory = "COMPLETE" => inventory' = "COMPLETE" /\ image' = image
          /\ \A i \in 1 .. Images : Settled(i) => image'[i] = image[i]]_vars
    /\ \A i \in 1 .. Images :
          (/\ stage["boot"] = "texts" /\ request \in Terminal
           /\ image[i] = "READY" /\ faults = MaxFaults)
              ~> row[ImageSlot(i)].state # "NONE"

\* direct_delivery.rs:1 "Delivery of the same saved answer after a Discord
\* failure or restart": every part of the saved answer of a completed request
\* is sent sooner or later.
SavedAnswerDelivered ==
    \A i \in 1 .. Parts :
        request = "COMPLETED" ~> row[AnswerSlot(i)].state # "NONE"
=============================================================================
