------------------------------ MODULE Delivery ------------------------------
(***************************************************************************)
(* Delivery of messages to Discord with a durable record                   *)
(* (src/delivery.rs, the deliveries table, the attachments of              *)
(* src/direct_delivery.rs): one row for each part of what a target shows.  *)
(*                                                                         *)
(* A call places its content in the row, sends it, and confirms the row    *)
(* with the receipt.  A POST is never repeated: once a row is pending, a   *)
(* later call can only look for the message in Discord and compare it.     *)
(* Discord may apply a request whose answer is lost, and apply one late,   *)
(* after the client has given up.                                          *)
(*                                                                         *)
(* The modules that extend this one make the calls: they set a caller's    *)
(* record with Called and read its "told".                                 *)
(***************************************************************************)
EXTENDS Naturals, FiniteSets

CONSTANTS
    Slots,      \* (target, kind, part)
    Media,      \* those that are attachments
    Contents,   \* versions of a message
    Callers,    \* tasks that call the delivery
    MaxFaults,  \* bound: faults of Discord, the store or the disk
    None

ASSUME SlotsType == /\ Media \subseteq Slots
                    /\ None \notin Slots /\ None \notin Contents
ASSUME MaxFaultsType == MaxFaults \in Nat

VARIABLES
    row,        \* deliveries, by slot
    posts,      \* Discord: messages posted for a slot
    shown,      \* Discord: what the slot's message shows
    late,       \* requests given up by the client that may still be applied
    call,       \* the call a task is in
    faults

deliveryVars == <<row, posts, shown, late, call, faults>>

NoRow  == [state |-> "NONE", confirmed |-> None, pending |-> None]
NoCall == [at |-> "idle", slot |-> None, want |-> None, told |-> "none"]

\* Only a confirmation gives a row its message id and its confirmed version.
Row  == {NoRow}
        \cup [state : {"POST_PENDING"}, confirmed : {None}, pending : Contents]
        \cup [state : {"PATCH_PENDING"}, confirmed : Contents,
             pending : Contents]
        \cup [state : {"CONFIRMED"}, confirmed : Contents, pending : {None}]
Call == [at   : {"idle", "place", "insert", "send", "receipt", "look",
                 "found", "told"},
         slot : Slots \cup {None},
         want : Contents \cup {None},
         told : {"none", "yes", "no", "error"}]
Late == [slot : Slots, post : BOOLEAN, content : Contents]

DeliveryType ==
    /\ row \in [Slots -> Row]
    /\ posts \in [Slots -> Nat]
    /\ shown \in [Slots -> Contents \cup {None}]
    /\ late \in SUBSET Late
    /\ call \in [Callers -> Call]
    /\ faults \in 0 .. MaxFaults

DeliveryInit ==
    /\ row = [s \in Slots |-> NoRow]
    /\ posts = [s \in Slots |-> 0]
    /\ shown = [s \in Slots |-> None]
    /\ late = {}
    /\ call = [p \in Callers |-> NoCall]
    /\ faults = 0

-----------------------------------------------------------------------------
\* A caller's side.

Called(s, w)   == [at |-> "place", slot |-> s, want |-> w, told |-> "none"]
Looking(s)     == [at |-> "look", slot |-> s, want |-> row[s].pending,
                   told |-> "none"]
Free(p)        == call[p].at = "idle"
Tells(p, v)    == call' = [call EXCEPT ![p].at = "told", ![p].told = v]
Goes(p, there) == call' = [call EXCEPT ![p].at = there]
Strikes        == faults < MaxFaults /\ faults' = faults + 1

Pending(s) == row[s].state \in {"POST_PENDING", "PATCH_PENDING"}
Posted(w)  == [state |-> "POST_PENDING", confirmed |-> None, pending |-> w]

-----------------------------------------------------------------------------
\* The steps of a call.

\* Mutant: a pending part is sent again.
Place_Retries(p) ==
    LET s == call[p].slot
    IN /\ call[p].at = "place" /\ s \notin Media
       /\ \/ /\ row[s].confirmed # call[p].want
             /\ row' = IF row[s].confirmed = None
                       THEN [row EXCEPT ![s] = Posted(call[p].want)]
                       ELSE [row EXCEPT ![s].state = "PATCH_PENDING",
                                        ![s].pending = call[p].want]
             /\ Goes(p, "send")
          \/ /\ row[s].confirmed = call[p].want
             /\ Tells(p, "yes")
             /\ UNCHANGED row
       /\ UNCHANGED <<posts, shown, late, faults>>

\* The transaction of text().  A pending row is never sent again, whatever
\* the new content is.
Place(p) ==
    LET s == call[p].slot
        w == call[p].want
    IN /\ call[p].at = "place" /\ s \notin Media
       /\ \/ /\ row[s].state = "NONE"
             /\ row' = [row EXCEPT ![s] = Posted(w)]
             /\ Goes(p, "send")
          \/ /\ row[s].state = "CONFIRMED" /\ row[s].confirmed # w
             /\ row' = [row EXCEPT ![s].state = "PATCH_PENDING",
                                   ![s].pending = w]
             /\ Goes(p, "send")
          \/ /\ row[s].state = "CONFIRMED" /\ row[s].confirmed = w
             /\ Tells(p, "yes")
             /\ UNCHANGED row
          \/ /\ Pending(s)
             /\ Goes(p, "look")
             /\ UNCHANGED row
       /\ UNCHANGED <<posts, shown, late, faults>>

\* An attachment is looked up first; its row is inserted only after the
\* permissions were checked and the saved bytes read.
PlaceMedia(p) ==
    LET s == call[p].slot
    IN /\ call[p].at = "place" /\ s \in Media
       /\ \/ row[s].state = "CONFIRMED" /\ Tells(p, "yes")
          \/ Pending(s) /\ Goes(p, "look")
          \/ row[s].state = "NONE" /\ Goes(p, "insert")
       /\ UNCHANGED <<row, posts, shown, late, faults>>

\* The bot may not attach files here, or that cannot be found out, or the
\* saved bytes are not what was saved.
Denied(p) == Strikes /\ Tells(p, "error")

Insert(p) ==
    LET s == call[p].slot
    IN /\ call[p].at = "insert"
       /\ \/ /\ row[s].state = "NONE"
             /\ row' = [row EXCEPT ![s] = Posted(call[p].want)]
             /\ Goes(p, "send")
             /\ UNCHANGED faults
          \/ Denied(p) /\ UNCHANGED row
       /\ UNCHANGED <<posts, shown, late>>

\* What a request does when Discord applies it: a PATCH goes to the message
\* whose receipt the row has kept.
Applies(s, post, w) ==
    /\ posts' = IF post THEN [posts EXCEPT ![s] = @ + 1] ELSE posts
    /\ shown' = [shown EXCEPT ![s] = w]

IsPost(s) == row[s].confirmed = None

\* The request and its answer.  Only a receipt leads to the confirmation;
\* any failure leaves the row pending, whether Discord applied it or not.
Send(p) ==
    LET s == call[p].slot
        w == call[p].want
    IN /\ call[p].at = "send"
       /\ \/ /\ Applies(s, IsPost(s), w)
             /\ Goes(p, "receipt")
             /\ UNCHANGED <<late, faults>>
          \/ /\ Strikes
             /\ \E v \in {"no", "error"} : Tells(p, v)
             /\ Applies(s, IsPost(s), w)
             /\ UNCHANGED late
          \/ /\ Strikes
             /\ Tells(p, "no")
             /\ \/ UNCHANGED late
                \/ late' = late \cup {[slot |-> s, post |-> IsPost(s),
                                       content |-> w]}
             /\ UNCHANGED <<posts, shown>>
       /\ UNCHANGED row

Lands(l) ==
    /\ l \in late
    /\ late' = late \ {l}
    /\ Applies(l.slot, l.post, l.content)
    /\ UNCHANGED <<row, call, faults>>

\* UPDATE ... SET confirmed_digest=pending_digest WHERE pending_digest=hash.
Confirmed(s, w) ==
    IF row[s].pending = w
    THEN [row EXCEPT ![s] = [state |-> "CONFIRMED", confirmed |-> w,
                             pending |-> None]]
    ELSE row

Receipt(p) ==
    /\ call[p].at = "receipt"
    /\ row' = Confirmed(call[p].slot, call[p].want)
    /\ Tells(p, "yes")
    /\ UNCHANGED <<posts, shown, late, faults>>

\* Mutant: what the message shows is not compared.
Found_Any(s) == posts[s] > 0

\* reconcile: the message is found by its id, or by its nonce among the last
\* hundred, and must show the pending version.  The look may fail, or the
\* message have moved out of reach.
Found(s) == posts[s] > 0 /\ shown[s] = row[s].pending

Look(p) ==
    /\ call[p].at = "look"
    /\ \/ Found(call[p].slot) /\ Goes(p, "found") /\ UNCHANGED faults
       \/ ~Found(call[p].slot) /\ Tells(p, "no") /\ UNCHANGED faults
       \/ Strikes /\ Tells(p, "no")
    /\ UNCHANGED <<row, posts, shown, late>>

\* It proves only the persisted version, not the one this caller wants.
Proves(p) ==
    LET s == call[p].slot
    IN /\ call[p].at = "found"
       /\ row' = Confirmed(s, row[s].pending)
       /\ Tells(p, IF row[s].pending = call[p].want THEN "yes" ELSE "no")
       /\ UNCHANGED <<posts, shown, late, faults>>

Steps(p) == \/ Place(p) \/ PlaceMedia(p) \/ Insert(p) \/ Send(p)
            \/ Receipt(p) \/ Look(p) \/ Proves(p)

-----------------------------------------------------------------------------
\* Properties.

\* Discord never gets a part twice, whatever is lost or late, however often
\* the process restarts and the delivery is called again
\* (delivery.rs: "No automatic POST retry").
PostedOnce ==
    \A s \in Slots :
        posts[s] + Cardinality({l \in late : l.slot = s /\ l.post}) <= 1

\* A confirmed version is what the message shows, and no request is under
\* way that could still replace it.
ConfirmedIsShown ==
    \A s \in Slots :
        row[s].state = "CONFIRMED" =>
            /\ posts[s] = 1 /\ shown[s] = row[s].confirmed
            /\ \A l \in late : l.slot # s

=============================================================================
