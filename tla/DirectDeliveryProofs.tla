------------------------ MODULE DirectDeliveryProofs ------------------------
(***************************************************************************)
(* Proofs about delivery to Discord, for any number of parts, images, /get *)
(* calls, faults and restarts.                                             *)
(***************************************************************************)
EXTENDS DirectDelivery, FiniteSetTheorems, TLAPS

-----------------------------------------------------------------------------
(***************************************************************************)
(* The invariant.                                                          *)
(***************************************************************************)

\* Nothing given up can still arrive for s.
Quiet(s) == \A l \in late : l.slot # s

\* What the row of a slot says of Discord.  While it is pending, either
\* nothing has arrived and at most the request of the row may still do so, or
\* the pending version is shown and nothing is under way.
Arrived(s)       == shown[s] = row[s].pending /\ Quiet(s)
OnlyLate(s, post) ==
    \A l \in late :
        l.slot = s => l = [slot |-> s, post |-> post, content |-> row[s].pending]

SlotSound(s) ==
    /\ row[s].state = "NONE" => posts[s] = 0 /\ Quiet(s)
    /\ row[s].state = "POST_PENDING" =>
          \/ posts[s] = 0 /\ OnlyLate(s, TRUE)
          \/ posts[s] = 1 /\ Arrived(s)
    /\ row[s].state = "PATCH_PENDING" =>
          /\ posts[s] = 1 /\ row[s].confirmed # row[s].pending
          /\ \/ shown[s] = row[s].confirmed /\ OnlyLate(s, FALSE)
             \/ Arrived(s)
    /\ row[s].state = "CONFIRMED" =>
          /\ posts[s] = 1 /\ shown[s] = row[s].confirmed /\ Quiet(s)

\* What a call knows of its slot at each of its steps.
Unsent(s) == /\ Quiet(s)
             /\ row[s].state = "POST_PENDING" => posts[s] = 0
             /\ row[s].state = "PATCH_PENDING" => shown[s] = row[s].confirmed

CallSound(p) ==
    LET s  == call[p].slot
        at == call[p].at
    IN /\ at # "idle" => s \in Slots /\ call[p].want \in Contents
       /\ at \in {"send", "receipt", "look", "found"} => Pending(s)
       /\ at \in {"send", "receipt"} => row[s].pending = call[p].want
       /\ at = "send" => Unsent(s)
       /\ at \in {"receipt", "found"} => posts[s] = 1 /\ Arrived(s)
       /\ at = "told" /\ call[p].told # "error" => row[s].state # "NONE"
       /\ at = "told" /\ call[p].told = "yes" => row[s].state = "CONFIRMED"

DeliverySound == /\ \A s \in Slots : SlotSound(s)
                 /\ \A p \in Callers : CallSound(p)

\* No two calls are ever about the same slot.
OneCaller ==
    \A p, q \in Callers :
        p # q /\ ~Free(p) /\ ~Free(q) => call[p].slot # call[q].slot

\* The slots a task calls for, and the stages in which it does.
AnswerSlots == {AnswerSlot(i) : i \in 1 .. Parts}
Reach(p) == CASE p = "actor" -> AnswerSlots \cup ImageSlots
              [] p = "drive" -> {CardSlot}
              [] p = "boot"  -> Slots
              [] OTHER       -> {GetSlot(p)}
CallingIn(p) == CASE p = "actor" -> {"post"}
                  [] p = "drive" -> {"show", "expire"}
                  [] p = "boot"  -> {"texts", "post", "artifacts"}
                  [] OTHER       -> {"post"}

Ownership ==
    /\ \A p \in Callers :
          ~Free(p) => call[p].slot \in Reach(p) /\ stage[p] \in CallingIn(p)
    /\ stage["boot"] # "over" =>
          \A p \in Callers \ {"boot"} : stage[p] \in {"over", "check"}

\* Where the walks over parts and images are.
Preparing == {"images", "record", "answer", "finish", "close", "retry"}
IsConfirmed(s) == row[s].state = "CONFIRMED"
Tried(i) == image[i] = "READY" => row[ImageSlot(i)].state # "NONE"

ActorWalk ==
    /\ stage["actor"] \in Preparing => part = 1
    /\ stage["actor"] = "post" =>
          \/ /\ part <= Parts
             /\ \A i \in 1 .. part - 1 : IsConfirmed(AnswerSlot(i))
             /\ ~Free("actor") => call["actor"].slot = AnswerSlot(part)
          \/ /\ part > Parts
             /\ \A i \in 1 .. Images : i < ImageAt => Tried(i)
             /\ ~Free("actor") => /\ ImageAt \in 1 .. Images
                                  /\ call["actor"].slot = ImageSlot(ImageAt)
BootWalk ==
    /\ stage["boot"] # "over" => part > Parts
    /\ stage["boot"] = "texts" =>
          /\ \A s \in todo : s \in Slots \ Media /\ Pending(s)
          /\ ~Free("boot") => /\ call["boot"].at \in {"look", "found", "told"}
                              /\ call["boot"].slot \notin Media \cup todo
    /\ stage["boot"] \in {"post", "artifacts"} =>
          \A s \in todo : s \in GetSlots /\ row[s].state # "NONE"
    /\ stage["boot"] = "post" /\ ~Free("boot") =>
          ImageAt \in 1 .. Images /\ call["boot"].slot = ImageSlot(ImageAt)
    /\ stage["boot"] = "artifacts" /\ ~Free("boot") =>
          call["boot"].slot \in GetSlots

\* An answer has one version.
OnlySaved(s) ==
    /\ row[s].pending \in {"saved", None} /\ row[s].confirmed \in {"saved", None}
    /\ \A p \in Callers : ~Free(p) /\ call[p].slot = s => call[p].want = "saved"
AnswerSound == /\ AnswerInOrder
               /\ \A i \in 1 .. Parts : OnlySaved(AnswerSlot(i))

\* What each stage of the actor has made sure of.
ResultSound ==
    /\ stage["actor"] = "finish" /\ turn.status = "COMPLETED" => Answer \in files
    /\ stage["actor"] \in {"answer", "finish"} => inventory # "NONE"
    /\ \A i \in 1 .. Images : draft[i] = "READY" => ImageSlot(i) \in files
    /\ event = "terminal" => stage["actor"] = "over"
    /\ \A g \in Gets : /\ stage[g] = "sent" => IsConfirmed(GetSlot(g))
                       /\ \A p \in Callers :
                             ~Free(p) /\ call[p].slot = GetSlot(g) => artifact[g]

DirectDeliveryInv ==
    /\ OutcomeTrue /\ DeliverySound /\ Ownership
    /\ ActorWalk /\ BootWalk /\ AnswerSound /\ ResultSound

-----------------------------------------------------------------------------
(***************************************************************************)
(* One row and the calls about it.                                         *)
(***************************************************************************)

\* The shapes of a row.
LEMMA RowShape ==
    ASSUME DeliveryType, NEW s \in Slots
    PROVE  /\ row[s].state \in {"NONE", "POST_PENDING", "PATCH_PENDING", "CONFIRMED"}
           /\ row[s].state = "NONE" => row[s].confirmed = None /\ row[s].pending = None
           /\ row[s].state = "POST_PENDING" => row[s].confirmed = None /\ row[s].pending \in Contents
           /\ row[s].state = "PATCH_PENDING" => row[s].confirmed \in Contents /\ row[s].pending \in Contents
           /\ row[s].state = "CONFIRMED" => row[s].confirmed \in Contents /\ row[s].pending = None
           /\ row[s] = [state |-> row[s].state, confirmed |-> row[s].confirmed, pending |-> row[s].pending]
  <1>1. row[s] \in Row
    BY DEF DeliveryType
  <1> QED
    BY <1>1 DEF Row, NoRow

LEMMA CallShape ==
    ASSUME DeliveryType, NEW p \in Callers
    PROVE  /\ call[p] \in Call
           /\ call[p] = [at |-> call[p].at, slot |-> call[p].slot,
                         want |-> call[p].want, told |-> call[p].told]
  <1>1. call[p] \in Call
    BY DEF DeliveryType
  <1> QED
    BY <1>1 DEF Call

\* A call goes on: what it is about stays the same.
Continues(p) ==
    /\ call' \in [Callers -> Call]
    /\ call'[p].at # "idle"
    /\ call'[p].slot = call[p].slot /\ call'[p].want = call[p].want
    /\ \A q \in Callers \ {p} : call'[q] = call[q]

LEMMA GoesEffect ==
    ASSUME DeliveryType, NEW p \in Callers,
           NEW there \in {"insert", "send", "receipt", "look", "found"}, Goes(p, there)
    PROVE  Continues(p) /\ call'[p].at = there
  <1>1. call \in [Callers -> Call]
    BY DEF DeliveryType
  <1> QED
    BY <1>1, CallShape DEF Goes, Call, Continues

LEMMA TellsEffect ==
    ASSUME DeliveryType, NEW p \in Callers, NEW v \in {"yes", "no", "error"}, Tells(p, v)
    PROVE  Continues(p) /\ call'[p].at = "told" /\ call'[p].told = v
  <1>1. call \in [Callers -> Call]
    BY DEF DeliveryType
  <1> QED
    BY <1>1, CallShape DEF Tells, Call, Continues

\* What a step of a call leaves alone: the other calls, what the call is
\* about, and every other slot.
LEMMA StepEffect ==
    ASSUME DeliveryType, NEW p \in Callers, Steps(p)
    PROVE  /\ call[p].at # "idle"
           /\ Continues(p)
           /\ \A t \in Slots : t # call[p].slot =>
                 row'[t] = row[t] /\ posts'[t] = posts[t] /\ shown'[t] = shown[t]
           /\ \A l : l.slot # call[p].slot => (l \in late' <=> l \in late)
  <1>1. /\ row \in [Slots -> Row] /\ posts \in [Slots -> Nat]
        /\ shown \in [Slots -> Contents \cup {None}]
    BY DEF DeliveryType
  <1>2. call[p].at # "idle"
    BY DEF Steps, Place, PlaceMedia, Insert, Send, Receipt, Look, Proves
  <1>3. \/ \E there \in {"insert", "send", "receipt", "look", "found"} : Goes(p, there)
        \/ \E v \in {"yes", "no", "error"} : Tells(p, v)
    BY DEF Steps, Place, PlaceMedia, Insert, Send, Receipt, Look, Proves, Denied
  <1>4. Continues(p)
    <2>1. ASSUME NEW there \in {"insert", "send", "receipt", "look", "found"},
                 Goes(p, there)
          PROVE  Continues(p)
      BY <2>1, GoesEffect
    <2>2. ASSUME NEW v \in {"yes", "no", "error"}, Tells(p, v)
          PROVE  Continues(p)
      BY <2>2, TellsEffect
    <2> QED
      BY <2>1, <2>2, <1>3, Zenon
  <1>5. \A t \in Slots : t # call[p].slot => row'[t] = row[t]
    BY <1>1 DEF Steps, Place, PlaceMedia, Insert, Send, Receipt, Look, Proves, Confirmed
  <1>6. \A t \in Slots : t # call[p].slot =>
           posts'[t] = posts[t] /\ shown'[t] = shown[t]
    BY <1>1 DEF Steps, Place, PlaceMedia, Insert, Send, Receipt, Look, Proves, Applies
  <1>7. \A l : l.slot # call[p].slot => (l \in late' <=> l \in late)
    <2>1. \A l : l = [slot |-> call[p].slot, post |-> IsPost(call[p].slot),
                      content |-> call[p].want] => l.slot = call[p].slot
      OBVIOUS
    <2>2. \/ late' = late
          \/ late' = late \cup {[slot |-> call[p].slot, post |-> IsPost(call[p].slot),
                                 content |-> call[p].want]}
      BY DEF Steps, Place, PlaceMedia, Insert, Send, Receipt, Look, Proves
    <2> QED
      BY <2>1, <2>2
  <1> QED
    BY <1>2, <1>4, <1>5, <1>6, <1>7

\* The transaction of text() and what it writes.
Patched(s, w) == [state |-> "PATCH_PENDING", confirmed |-> row[s].confirmed, pending |-> w]

LEMMA PlaceEffect ==
    ASSUME DeliveryType, NEW p \in Callers, call[p].slot \in Slots, Place(p)
    PROVE  LET s == call[p].slot
               w == call[p].want
           IN \/ /\ row[s].state = "NONE"
                 /\ row' = [row EXCEPT ![s] = Posted(w)]
                 /\ Goes(p, "send")
              \/ /\ row[s].state = "CONFIRMED" /\ row[s].confirmed # w
                 /\ row' = [row EXCEPT ![s] = Patched(s, w)]
                 /\ Goes(p, "send")
              \/ /\ row[s].state = "CONFIRMED" /\ row[s].confirmed = w
                 /\ Tells(p, "yes") /\ row' = row
              \/ Pending(s) /\ Goes(p, "look") /\ row' = row
  <1> DEFINE s == call[p].slot
             w == call[p].want
  <1>1. row \in [Slots -> Row]
    BY DEF DeliveryType
  <1>2. row[s] = [state |-> row[s].state, confirmed |-> row[s].confirmed,
                  pending |-> row[s].pending]
    BY RowShape
  <1>3. [row EXCEPT ![s].state = "PATCH_PENDING", ![s].pending = w]
        = [row EXCEPT ![s] = Patched(s, w)]
    <2> DEFINE one == [row[s] EXCEPT !.state = "PATCH_PENDING"]
               mid == [row EXCEPT ![s] = one]
               two == [mid[s] EXCEPT !.pending = w]
    <2>1. mid[s] = one /\ mid \in [Slots -> Row \cup {one}]
      BY <1>1
    <2>2. two = Patched(s, w)
      <3>1. one = [state |-> "PATCH_PENDING", confirmed |-> row[s].confirmed,
                   pending |-> row[s].pending]
        BY <1>2
      <3> QED
        BY <2>1, <3>1 DEF Patched
    <2>3. [mid EXCEPT ![s] = Patched(s, w)] = [row EXCEPT ![s] = Patched(s, w)]
      BY <1>1, <2>1
    <2> QED
      BY <2>2, <2>3
  <1> QED
    BY <1>3, Zenon DEF Place

LEMMA StepType ==
    ASSUME DeliveryType, NEW p \in Callers, CallSound(p), Steps(p)
    PROVE  DeliveryType'
  <1> DEFINE s == call[p].slot
             w == call[p].want
  <1> USE SlotsType, MaxFaultsType
  <1>1. /\ row \in [Slots -> Row] /\ posts \in [Slots -> Nat]
        /\ shown \in [Slots -> Contents \cup {None}] /\ late \in SUBSET Late
        /\ call \in [Callers -> Call] /\ faults \in 0 .. MaxFaults
    BY DEF DeliveryType
  <1>2. s \in Slots /\ w \in Contents
    BY StepEffect DEF CallSound
  <1>3. faults' \in 0 .. MaxFaults
    BY <1>1 DEF Steps, Place, PlaceMedia, Insert, Send, Receipt, Look, Proves,
       Strikes, Denied
  <1>4. call' \in [Callers -> Call]
    BY StepEffect DEF Continues
  <1>5. Posted(w) \in Row
    BY <1>2 DEF Posted, Row
  <1>6. row' \in [Slots -> Row]
    <2>1. CASE Place(p)
      <3>1. row[s].state = "CONFIRMED" => Patched(s, w) \in Row
        BY <1>2, RowShape DEF Row, Patched
      <3>2. \/ row' = row
            \/ row' = [row EXCEPT ![s] = Posted(w)]
            \/ row[s].state = "CONFIRMED" /\ row' = [row EXCEPT ![s] = Patched(s, w)]
        BY <2>1, <1>2, PlaceEffect
      <3> QED
        BY <1>1, <1>2, <1>5, <3>1, <3>2
    <2>2. CASE Receipt(p) \/ Proves(p)
      <3>1. row[s].pending \in Contents =>
               [state |-> "CONFIRMED", confirmed |-> row[s].pending, pending |-> None] \in Row
        BY DEF Row
      <3>2. Pending(s)
        BY <2>2 DEF CallSound, Receipt, Proves
      <3>3. row[s].pending \in Contents
        BY <3>2, <1>2, RowShape DEF Pending
      <3> QED
        BY <2>2, <1>1, <1>2, <3>1, <3>3 DEF Receipt, Proves, Confirmed
    <2> QED
      BY <2>1, <2>2, <1>1, <1>2, <1>5 DEF Steps, PlaceMedia, Insert, Send, Look
  <1>7. /\ posts' \in [Slots -> Nat] /\ shown' \in [Slots -> Contents \cup {None}]
    BY <1>1, <1>2 DEF Steps, Place, PlaceMedia, Insert, Send, Receipt, Look, Proves, Applies
  <1>8. late' \in SUBSET Late
    <2>1. [slot |-> s, post |-> IsPost(s), content |-> w] \in Late
      BY <1>2 DEF Late, IsPost
    <2> QED
      BY <1>1, <2>1 DEF Steps, Place, PlaceMedia, Insert, Send, Receipt, Look, Proves
  <1> QED
    BY <1>3, <1>4, <1>6, <1>7, <1>8 DEF DeliveryType

\* Nothing changes for the other slots and the other calls.
LEMMA Elsewhere ==
    ASSUME DeliveryType, DeliverySound, OneCaller, NEW p \in Callers, Steps(p)
    PROVE  /\ \A t \in Slots : t # call[p].slot => SlotSound(t)'
           /\ \A q \in Callers \ {p} : CallSound(q)'
  <1>1. \A t \in Slots : t # call[p].slot =>
           /\ row'[t] = row[t] /\ posts'[t] = posts[t] /\ shown'[t] = shown[t]
           /\ \A l : l.slot = t => (l \in late' <=> l \in late)
    BY StepEffect
  <1>2. ASSUME NEW t \in Slots, t # call[p].slot
        PROVE  SlotSound(t)'
    <2>1. SlotSound(t)
      BY DEF DeliverySound
    <2> QED
      BY <1>1, <1>2, <2>1 DEF SlotSound, Arrived, Quiet, OnlyLate
  <1>3. ASSUME NEW q \in Callers \ {p}
        PROVE  CallSound(q)'
    <2>1. call'[q] = call[q] /\ CallSound(q)
      BY StepEffect DEF Continues, DeliverySound
    <2>2. CASE call[q].at = "idle"
      BY <2>1, <2>2 DEF CallSound
    <2>3. CASE call[q].at # "idle"
      <3>1. PICK t \in Slots : t = call[q].slot
        BY <2>1, <2>3 DEF CallSound
      <3>2. t # call[p].slot
        BY <2>3, <3>1, StepEffect DEF OneCaller, Free
      <3>3. /\ Quiet(t) => Quiet(t)'
            /\ row'[t] = row[t] /\ posts'[t] = posts[t] /\ shown'[t] = shown[t]
        BY <1>1, <3>1, <3>2 DEF Quiet
      <3> QED
        BY <2>1, <3>1, <3>3 DEF CallSound, Pending, Unsent, Arrived
    <2> QED
      BY <2>2, <2>3
  <1> QED
    BY <1>2, <1>3

LEMMA PlaceSound ==
    ASSUME DeliveryType, DeliverySound, NEW p \in Callers, NEW s \in Slots, s = call[p].slot, Place(p)
    PROVE  SlotSound(s)' /\ CallSound(p)'
  <1> DEFINE w == call[p].want
  <1> USE SlotsType
  <1>1. /\ s \in Slots /\ w \in Contents
        /\ SlotSound(s) /\ CallSound(p) /\ Continues(p)
    BY StepEffect DEF DeliverySound, CallSound, Steps, Place
  <1>2. call'[p].slot = s /\ call'[p].want = w
    BY <1>1 DEF Continues
  <1>3. posts' = posts /\ shown' = shown /\ late' = late
    BY DEF Place
  <1>4. row \in [Slots -> Row]
    BY DEF DeliveryType
  <1>5. CASE row[s].state = "NONE" /\ row' = [row EXCEPT ![s] = Posted(w)] /\ Goes(p, "send")
    <2>1. call'[p].at = "send"
      BY <1>5, GoesEffect
    <2>2. row'[s] = Posted(w)
      BY <1>1, <1>4, <1>5
    <2>3. posts[s] = 0 /\ Quiet(s)
      BY <1>1, <1>5 DEF SlotSound
    <2> QED
      BY <1>1, <1>2, <1>3, <2>1, <2>2, <2>3
         DEF SlotSound, CallSound, OnlyLate, Quiet, Unsent, Posted, Pending
  <1>6. CASE /\ row[s].state = "CONFIRMED" /\ row[s].confirmed # w
             /\ row' = [row EXCEPT ![s] = Patched(s, w)]
             /\ Goes(p, "send")
    <2>1. call'[p].at = "send"
      BY <1>6, GoesEffect
    <2>2. row'[s] = Patched(s, w)
      BY <1>1, <1>4, <1>6
    <2>3. posts[s] = 1 /\ Quiet(s) /\ shown[s] = row[s].confirmed
      BY <1>1, <1>6 DEF SlotSound
    <2> QED
      BY <1>1, <1>2, <1>3, <1>6, <2>1, <2>2, <2>3
         DEF SlotSound, CallSound, OnlyLate, Quiet, Unsent, Patched, Pending
  <1>7. CASE row[s].state = "CONFIRMED" /\ Tells(p, "yes") /\ row' = row
    <2>1. call'[p].at = "told" /\ call'[p].told = "yes"
      BY <1>7, TellsEffect
    <2> QED
      BY <1>1, <1>2, <1>3, <1>7, <2>1
         DEF SlotSound, CallSound, OnlyLate, Quiet, Arrived
  <1>8. CASE Pending(s) /\ Goes(p, "look") /\ row' = row
    <2>1. call'[p].at = "look"
      BY <1>8, GoesEffect
    <2> QED
      BY <1>1, <1>2, <1>3, <1>8, <2>1
         DEF SlotSound, CallSound, OnlyLate, Quiet, Arrived, Pending
  <1> QED
    BY <1>1, <1>5, <1>6, <1>7, <1>8, PlaceEffect

LEMMA SendSound ==
    ASSUME DeliveryType, DeliverySound, NEW p \in Callers, NEW s \in Slots, s = call[p].slot, Send(p)
    PROVE  SlotSound(s)' /\ CallSound(p)'
  <1> DEFINE w == call[p].want
             mine == [slot |-> s, post |-> IsPost(s), content |-> w]
  <1> USE SlotsType
  <1>1. /\ s \in Slots /\ w \in Contents /\ call[p].at = "send"
        /\ SlotSound(s) /\ Continues(p)
    BY StepEffect DEF DeliverySound, CallSound, Steps, Send
  <1>2. Pending(s) /\ row[s].pending = w /\ Unsent(s) /\ row' = row
    BY <1>1 DEF DeliverySound, CallSound, Send
  <1>3. call'[p].slot = s /\ call'[p].want = w
    BY <1>1 DEF Continues
  <1>4. posts \in [Slots -> Nat] /\ shown \in [Slots -> Contents \cup {None}]
    BY DEF DeliveryType
  <1>5. /\ row[s].state = "POST_PENDING" => IsPost(s) /\ posts[s] = 0
        /\ row[s].state = "PATCH_PENDING" =>
              ~IsPost(s) /\ posts[s] = 1 /\ row[s].confirmed # w
    BY <1>1, <1>2, RowShape DEF IsPost, Unsent, SlotSound
  <1>6. CASE Applies(s, IsPost(s), w) /\ late' = late
    <2>1. posts'[s] = 1 /\ shown'[s] = w /\ Quiet(s)'
      BY <1>1, <1>2, <1>4, <1>5, <1>6 DEF Applies, Quiet, Unsent, Pending
    <2>2. SlotSound(s)'
      BY <1>2, <1>5, <2>1 DEF SlotSound, Arrived, Pending
    <2>3. \/ call'[p].at = "receipt"
          \/ call'[p].at = "told" /\ call'[p].told \in {"no", "error"}
      BY GoesEffect, TellsEffect, <1>1 DEF Send
    <2> QED
      BY <1>1, <1>2, <1>3, <2>1, <2>2, <2>3 DEF CallSound, Arrived, Pending
  <1>7. CASE /\ late' = late \/ late' = late \cup {mine}
             /\ Tells(p, "no") /\ UNCHANGED <<posts, shown>>
    <2>1. call'[p].at = "told" /\ call'[p].told = "no"
      BY <1>7, TellsEffect
    <2>2. \A l \in late' : l.slot = s => l = mine
      BY <1>2, <1>7 DEF Quiet, Unsent
    <2>3. SlotSound(s)'
      BY <1>2, <1>5, <1>7, <2>2 DEF SlotSound, OnlyLate, Unsent, Pending
    <2> QED
      BY <1>1, <1>2, <1>3, <2>1, <2>3 DEF CallSound, Pending
  <1> QED
    <2>1. \/ Applies(s, IsPost(s), w) /\ late' = late
          \/ /\ late' = late \/ late' = late \cup {mine}
             /\ Tells(p, "no") /\ UNCHANGED <<posts, shown>>
      BY DEF Send
    <2> QED
      BY <1>6, <1>7, <2>1

\* The confirmation of what is shown, on a receipt or when it was found.
LEMMA ConfirmSound ==
    ASSUME DeliveryType, DeliverySound, NEW p \in Callers, NEW s \in Slots, s = call[p].slot,
           Receipt(p) \/ Proves(p)
    PROVE  SlotSound(s)' /\ CallSound(p)'
  <1> USE SlotsType
  <1>1. /\ s \in Slots /\ call[p].want \in Contents
        /\ Pending(s) /\ posts[s] = 1 /\ Arrived(s)
        /\ Continues(p)
    BY StepEffect DEF DeliverySound, CallSound, Steps, Receipt, Proves
  <1>2. row' = [row EXCEPT ![s] = [state |-> "CONFIRMED", confirmed |-> row[s].pending,
                                  pending |-> None]]
    BY <1>1 DEF Receipt, Proves, Confirmed, DeliverySound, CallSound
  <1>3. row'[s] = [state |-> "CONFIRMED", confirmed |-> row[s].pending, pending |-> None]
    BY <1>1, <1>2 DEF DeliveryType
  <1>4. SlotSound(s)'
    BY <1>1, <1>3 DEF SlotSound, Arrived, Quiet, Receipt, Proves
  <1>5. call'[p].at = "told"
    BY TellsEffect DEF Receipt, Proves
  <1>6. CallSound(p)'
    BY <1>1, <1>3, <1>5 DEF CallSound, Continues
  <1> QED
    BY <1>4, <1>6

LEMMA LookSound ==
    ASSUME DeliveryType, DeliverySound, NEW p \in Callers, NEW s \in Slots, s = call[p].slot,
           Look(p) \/ PlaceMedia(p)
    PROVE  SlotSound(s)' /\ CallSound(p)'
  <1>1. /\ s \in Slots /\ call[p].want \in Contents
        /\ SlotSound(s) /\ CallSound(p) /\ Continues(p)
    BY StepEffect DEF DeliverySound, CallSound, Steps, Look, PlaceMedia
  <1>2. UNCHANGED <<row, posts, shown, late>>
    BY DEF Look, PlaceMedia
  <1>3. SlotSound(s)'
    BY <1>1, <1>2 DEF SlotSound, Arrived, Quiet, OnlyLate
  <1>4. CASE Look(p)
    <2>1. \/ Found(s) /\ call'[p].at = "found"
          \/ call'[p].at = "told" /\ call'[p].told = "no"
      BY <1>4, GoesEffect, TellsEffect DEF Look
    <2>2. Pending(s)
      BY <1>1, <1>4 DEF CallSound, Look
    <2>3. Found(s) => posts[s] = 1 /\ Arrived(s)
      <3>1. posts[s] \in Nat
        BY DEF DeliveryType
      <3>2. posts[s] > 0 => posts[s] # 0
        BY <3>1
      <3> QED
        BY <1>1, <2>2, <3>2 DEF SlotSound, Found, Pending, Arrived
    <2> QED
      BY <1>1, <1>2, <1>3, <2>1, <2>2, <2>3 DEF CallSound, Continues, Pending, Arrived, Quiet
  <1>5. CASE PlaceMedia(p)
    <2>1. \/ row[s].state = "CONFIRMED" /\ call'[p].at = "told" /\ call'[p].told = "yes"
          \/ Pending(s) /\ call'[p].at = "look"
          \/ call'[p].at = "insert"
      BY <1>5, GoesEffect, TellsEffect DEF PlaceMedia
    <2> QED
      BY <1>1, <1>2, <1>3, <2>1 DEF CallSound, Continues, Pending
  <1> QED
    BY <1>4, <1>5

LEMMA InsertSound ==
    ASSUME DeliveryType, DeliverySound, NEW p \in Callers, NEW s \in Slots, s = call[p].slot, Insert(p)
    PROVE  SlotSound(s)' /\ CallSound(p)'
  <1> DEFINE w == call[p].want
  <1> USE SlotsType
  <1>1. /\ s \in Slots /\ w \in Contents
        /\ SlotSound(s) /\ Continues(p)
    BY StepEffect DEF DeliverySound, CallSound, Steps, Insert
  <1>2. call'[p].slot = s /\ call'[p].want = w
    BY <1>1 DEF Continues
  <1>3. posts' = posts /\ shown' = shown /\ late' = late
    BY DEF Insert
  <1>4. CASE row[s].state = "NONE" /\ row' = [row EXCEPT ![s] = Posted(w)] /\ Goes(p, "send")
    <2>1. call'[p].at = "send"
      BY <1>4, GoesEffect
    <2>2. row'[s] = Posted(w)
      BY <1>1, <1>4 DEF DeliveryType
    <2>3. posts[s] = 0 /\ Quiet(s)
      BY <1>1, <1>4 DEF SlotSound
    <2> QED
      BY <1>1, <1>2, <1>3, <2>1, <2>2, <2>3
         DEF SlotSound, CallSound, OnlyLate, Quiet, Unsent, Posted, Pending
  <1>5. CASE Denied(p) /\ row' = row
    <2>1. call'[p].at = "told" /\ call'[p].told = "error"
      BY <1>5, TellsEffect DEF Denied
    <2> QED
      BY <1>1, <1>2, <1>3, <1>5, <2>1 DEF SlotSound, CallSound, OnlyLate, Quiet, Arrived
  <1> QED
    BY <1>4, <1>5 DEF Insert

LEMMA StepSound ==
    ASSUME DeliveryType, DeliverySound, OneCaller, NEW p \in Callers, Steps(p)
    PROVE  DeliverySound'
  <1>1. PICK s \in Slots : s = call[p].slot
    BY StepEffect DEF DeliverySound, CallSound
  <1>2. SlotSound(s)' /\ CallSound(p)'
    BY <1>1, PlaceSound, SendSound, ConfirmSound, LookSound, InsertSound DEF Steps
  <1> QED
    BY <1>1, <1>2, Elsewhere DEF DeliverySound

-----------------------------------------------------------------------------
(***************************************************************************)
(* Calls that begin, return or are dropped, and requests that land late.   *)
(***************************************************************************)

LEMMA BeginsSound ==
    ASSUME DeliveryType, DeliverySound, NEW p \in Callers, NEW c \in Call,
           c.slot \in Slots, c.want \in Contents,
           c.at = "place" \/ (c.at = "look" /\ Pending(c.slot)),
           call' = [call EXCEPT ![p] = c],
           UNCHANGED <<row, posts, shown, late, faults>>
    PROVE  DeliveryType' /\ DeliverySound'
  <1>1. call \in [Callers -> Call]
    BY DEF DeliveryType
  <1>2. call'[p] = c /\ \A q \in Callers \ {p} : call'[q] = call[q]
    BY <1>1
  <1>3. DeliveryType'
    BY <1>1 DEF DeliveryType
  <1>4. \A s \in Slots : SlotSound(s)'
    BY DEF DeliverySound, SlotSound, Arrived, OnlyLate, Quiet
  <1>5. \A q \in Callers \ {p} : CallSound(q)'
    BY <1>2 DEF DeliverySound, CallSound, Pending, Unsent, Arrived, Quiet
  <1>6. CallSound(p)'
    BY <1>2 DEF CallSound, Pending
  <1> QED
    BY <1>3, <1>4, <1>5, <1>6 DEF DeliverySound

\* The request of a call that is dropped may still arrive.
Orphan(p) == [slot |-> call[p].slot, post |-> IsPost(call[p].slot),
              content |-> call[p].want]
Drops(D) ==
    /\ call' = [p \in Callers |-> IF p \in D THEN NoCall ELSE call[p]]
    /\ late \subseteq late'
    /\ \A l \in late' \ late : \E p \in D : call[p].at = "send" /\ l = Orphan(p)

LEMMA DropsSound ==
    ASSUME DeliveryType, DeliverySound, OneCaller,
           NEW D \in SUBSET Callers, Drops(D),
           UNCHANGED <<row, posts, shown, faults>>
    PROVE  DeliveryType' /\ DeliverySound'
  <1> USE SlotsType DEF Drops
  <1>1. /\ call \in [Callers -> Call] /\ late \in SUBSET Late /\ NoCall \in Call
        /\ row \in [Slots -> Row]
    BY DEF DeliveryType, NoCall, Call
  <1>2. ASSUME NEW p \in Callers, call[p].at = "send"
        PROVE  /\ Orphan(p) \in Late /\ Orphan(p).slot = call[p].slot
               /\ call[p].slot \in Slots /\ Pending(call[p].slot)
               /\ Unsent(call[p].slot)
               /\ Orphan(p).content = row[call[p].slot].pending
               /\ Orphan(p).post = IsPost(call[p].slot)
    BY <1>2 DEF DeliverySound, CallSound, Orphan, Late, IsPost
  <1>3. DeliveryType'
    <2>1. late' \in SUBSET Late
      BY <1>1, <1>2
    <2>2. call' \in [Callers -> Call]
      BY <1>1
    <2> QED
      BY <2>1, <2>2 DEF DeliveryType
  <1>4. ASSUME NEW s \in Slots
        PROVE  SlotSound(s)'
    <2>1. SlotSound(s)
      BY DEF DeliverySound
    <2>2. CASE \A l \in late' \ late : l.slot # s
      BY <2>1, <2>2 DEF SlotSound, Arrived, OnlyLate, Quiet
    <2>3. CASE \E l \in late' \ late : l.slot = s
      <3>1. PICK p \in D : call[p].at = "send" /\ call[p].slot = s
        BY <1>2, <2>3
      <3>2. Pending(s) /\ Unsent(s)
        BY <1>2, <3>1
      <3>3. \A l \in late' : l.slot = s =>
               l = [slot |-> s, post |-> IsPost(s), content |-> row[s].pending]
        <4> SUFFICES ASSUME NEW l \in late', l.slot = s
                     PROVE  l = [slot |-> s, post |-> IsPost(s),
                                 content |-> row[s].pending]
          OBVIOUS
        <4>1. l \notin late
          BY <3>2 DEF Unsent, Quiet
        <4>2. PICK q \in D : call[q].at = "send" /\ l = Orphan(q)
          BY <4>1
        <4>3. call[q].slot = s /\ call[q].want = row[s].pending
          BY <1>2, <4>2 DEF Orphan
        <4> QED
          BY <4>2, <4>3 DEF Orphan
      <3>4. /\ row[s].state = "POST_PENDING" => posts[s] = 0 /\ IsPost(s)
            /\ row[s].state = "PATCH_PENDING" =>
                  /\ posts[s] = 1 /\ row[s].confirmed # row[s].pending
                  /\ shown[s] = row[s].confirmed /\ ~IsPost(s)
        BY <2>1, <3>2, RowShape DEF Unsent, SlotSound, IsPost
      <3> QED
        BY <3>2, <3>3, <3>4 DEF SlotSound, OnlyLate, Pending
    <2> QED
      BY <2>2, <2>3
  <1>5. ASSUME NEW q \in Callers
        PROVE  CallSound(q)'
    <2>1. CASE q \in D
      BY <2>1 DEF CallSound, NoCall
    <2>2. CASE call[q].at = "idle"
      BY <2>1, <2>2 DEF CallSound
    <2>3. CASE q \notin D /\ call[q].at # "idle"
      <3>1. PICK s \in Slots : s = call[q].slot
        BY <2>3 DEF DeliverySound, CallSound
      <3>2. Quiet(s) => Quiet(s)'
        BY <1>2, <2>3, <3>1 DEF Quiet, OneCaller, Free
      <3> QED
        BY <2>3, <3>1, <3>2 DEF DeliverySound, CallSound, Pending, Unsent, Arrived
    <2> QED
      BY <2>1, <2>2, <2>3
  <1> QED
    BY <1>3, <1>4, <1>5 DEF DeliverySound

LEMMA LandsSound ==
    ASSUME DeliveryType, DeliverySound, NEW l \in late, Lands(l)
    PROVE  DeliveryType' /\ DeliverySound'
  <1> USE SlotsType
  <1>1. /\ l \in Late /\ late \in SUBSET Late /\ posts \in [Slots -> Nat]
        /\ shown \in [Slots -> Contents \cup {None}]
    BY DEF DeliveryType
  <1>2. PICK t \in Slots : t = l.slot
    BY <1>1 DEF Late
  <1>3. l.post \in BOOLEAN /\ l.content \in Contents
    BY <1>1 DEF Late
  <1>4. DeliveryType'
    BY <1>1, <1>2, <1>3 DEF DeliveryType, Lands, Applies
  <1>5. /\ row' = row /\ call' = call
        /\ late' = late \ {l}
        /\ posts' = IF l.post THEN [posts EXCEPT ![t] = @ + 1] ELSE posts
        /\ shown' = [shown EXCEPT ![t] = l.content]
    BY <1>2 DEF Lands, Applies
  <1>6. ASSUME NEW s \in Slots, s # t
        PROVE  SlotSound(s)'
    BY <1>1, <1>2, <1>5, <1>6 DEF DeliverySound, SlotSound, Arrived, OnlyLate, Quiet
  <1>7. SlotSound(t)'
    <2>1. /\ SlotSound(t) /\ ~Quiet(t)
      BY <1>2 DEF DeliverySound, Quiet
    <2>2. /\ row[t].state = "POST_PENDING" =>
                posts[t] = 0 /\ OnlyLate(t, TRUE)
          /\ row[t].state = "PATCH_PENDING" =>
                /\ posts[t] = 1 /\ row[t].confirmed # row[t].pending
                /\ OnlyLate(t, FALSE)
          /\ Pending(t)
      BY <2>1, RowShape DEF SlotSound, Arrived, Pending
    <2>3. shown'[t] = row[t].pending /\ Quiet(t)'
      <3>1. \E b \in BOOLEAN : OnlyLate(t, b)
        BY <2>2 DEF Pending
      <3>2. /\ l.content = row[t].pending
            /\ \A k \in late : k.slot = t => k = l
        BY <3>1, <1>2 DEF OnlyLate
      <3> QED
        BY <1>1, <1>5, <3>2 DEF Quiet
    <2>4. posts'[t] = 1
      BY <1>1, <1>2, <1>5, <2>2 DEF OnlyLate, Pending
    <2> QED
      BY <1>5, <2>2, <2>3, <2>4 DEF SlotSound, Arrived, Pending
  <1>8. ASSUME NEW q \in Callers
        PROVE  CallSound(q)'
    <2>1. CASE call[q].at = "idle"
      BY <1>5, <2>1 DEF CallSound
    <2>2. CASE call[q].at # "idle"
      <3>1. PICK s \in Slots : s = call[q].slot
        BY <2>2 DEF DeliverySound, CallSound
      <3>2. Quiet(s) => s # t /\ Quiet(s)'
        BY <1>2, <1>5 DEF Quiet
      <3>3. s # t => posts'[s] = posts[s] /\ shown'[s] = shown[s]
        BY <1>1, <1>5
      <3> QED
        BY <1>5, <3>1, <3>2, <3>3
           DEF DeliverySound, CallSound, Pending, Unsent, Arrived
    <2> QED
      BY <2>1, <2>2
  <1> QED
    BY <1>4, <1>6, <1>7, <1>8 DEF DeliverySound

LEMMA SameSound ==
    ASSUME DeliveryType, DeliverySound, faults' \in 0 .. MaxFaults,
           UNCHANGED <<row, posts, shown, late, call>>
    PROVE  DeliveryType' /\ DeliverySound'
  BY DEF DeliveryType, DeliverySound, SlotSound, CallSound, Arrived, OnlyLate,
     Quiet, Pending, Unsent

-----------------------------------------------------------------------------
(***************************************************************************)
(* The tasks: every step of them keeps what Delivery relies on.            *)
(***************************************************************************)

LEMMA SlotsApart ==
    /\ AnswerSlots \subseteq Slots /\ ImageSlots \subseteq Slots
    /\ GetSlots \subseteq Slots /\ CardSlot \in Slots
    /\ \A i \in 1 .. Parts : AnswerSlot(i) \in Slots \ Media
    /\ \A i \in 1 .. Images : ImageSlot(i) \in Slots /\ ImageSlot(i) \in Media
    /\ \A g \in Gets : GetSlot(g) \in Slots /\ GetSlot(g) \in Media
    /\ CardSlot \notin Media
    /\ \A i, j : AnswerSlot(i) = AnswerSlot(j) => i = j
    /\ \A i, j : ImageSlot(i) = ImageSlot(j) => i = j
    /\ \A g, h : GetSlot(g) = GetSlot(h) => g = h
    /\ \A i, j : /\ AnswerSlot(i) # ImageSlot(j) /\ AnswerSlot(i) # GetSlot(j)
                 /\ AnswerSlot(i) # CardSlot /\ ImageSlot(i) # GetSlot(j)
                 /\ ImageSlot(i) # CardSlot /\ GetSlot(i) # CardSlot
  BY PartsAreSlots DEF AnswerSlots, ImageSlots, GetSlots, DirectSlots,
     AnswerSlot, ImageSlot, GetSlot, CardSlot

LEMMA OwnersDiffer ==
    ASSUME Ownership
    PROVE  OneCaller
  <1> SUFFICES ASSUME NEW p \in Callers, NEW q \in Callers, p # q,
                      ~Free(p), ~Free(q)
               PROVE  call[p].slot # call[q].slot
    BY DEF OneCaller
  <1>1. ASSUME NEW r \in Callers, NEW b \in Callers, b = "boot", r # b, ~Free(r)
        PROVE  Free(b)
    <2>1. stage[r] \notin {"over", "check"}
      BY <1>1, PartsAreSlots DEF Ownership, CallingIn
    <2>2. stage["boot"] = "over"
      BY <1>1, <2>1 DEF Ownership
    <2> QED
      BY <1>1, <2>2 DEF Ownership, CallingIn
  <1>2. p # "boot" /\ q # "boot"
    BY <1>1
  <1>3. call[p].slot \in Reach(p) /\ call[q].slot \in Reach(q)
    BY DEF Ownership
  <1>4. p \in {"actor", "drive"} \cup Gets /\ q \in {"actor", "drive"} \cup Gets
    BY <1>2, PartsAreSlots
  <1>5. \A r \in Gets : Reach(r) = {GetSlot(r)}
    BY PartsAreSlots DEF Reach
  <1>6. /\ Reach("actor") = AnswerSlots \cup ImageSlots
        /\ Reach("drive") = {CardSlot}
    BY DEF Reach
  <1>7. /\ \A s \in AnswerSlots : \E i : s = AnswerSlot(i)
        /\ \A s \in ImageSlots : \E i : s = ImageSlot(i)
    BY DEF AnswerSlots, ImageSlots
  <1> QED
    BY <1>3, <1>4, <1>5, <1>6, <1>7, SlotsApart

\* The steps that begin, end and make no call.
Silent == \/ SavesImages \/ RecordsImages \/ SavesAnswer \/ FinishesDirect
          \/ RetriesOrGivesUp \/ ClosesApprovals \/ EndsRun
          \/ RecoversImages \/ ImagesRecovered \/ Started
          \/ \E g \in Gets : ChecksGet(g)
\* The steps that may begin a call.
Begins(p) == \/ p = "actor" /\ (PostsAnswer \/ PostsImage(p))
             \/ p = "drive" /\ (Shows \/ Closes)
             \/ p \in Gets /\ Captures(p)
             \/ p = "boot" /\ (\/ PostsImage(p)
                               \/ \E s \in Slots : RecoversText(s) \/ RecoversArtifact(s))
\* The steps that take the answer of a call.
Takes(p) == \/ p = "actor" /\ (AnswerTold \/ ImageTold(p))
            \/ p = "drive" /\ (ShowTold \/ CloseTold)
            \/ p \in Gets /\ GetTold(p)
            \/ p = "boot" /\ (TextTold \/ ImageTold(p))

LEMMA NextCases ==
    Next => \/ Silent \/ Arrives \/ Crash
            \/ \E p \in Callers : Begins(p) \/ Takes(p) \/ Deliver(p)
  BY PartsAreSlots DEF Next, Actor, Drive, Boot, Get, Silent, Begins, Takes

LEMMA SilentKeeps ==
    ASSUME DeliveryTypeOK, Silent
    PROVE  /\ UNCHANGED <<row, posts, shown, late, call>>
           /\ faults' \in 0 .. MaxFaults
  <1> USE MaxFaultsType
  <1>1. faults \in 0 .. MaxFaults
    BY DEF DeliveryTypeOK, DeliveryType
  <1> QED
    BY <1>1 DEF Silent, SavesImages, RecordsImages, SavesAnswer, FinishesDirect,
       RetriesOrGivesUp, ClosesApprovals, EndsRun, RecoversImages,
       ImagesRecovered, Started, ChecksGet, deliveryVars, Retries, Strikes

Stages == {"images", "record", "answer", "finish", "close", "post", "retry",
           "show", "expire", "check", "capture", "sent", "texts", "artifacts",
           "over"}

LEMMA StageType == DeliveryTypeOK => stage \in [Callers -> Stages]
  BY DEF DeliveryTypeOK, Stages

\* A new call of p.
Fresh(p, c) ==
    /\ c \in Call /\ c.slot \in Slots /\ c.slot \in Reach(p)
    /\ c.want \in Contents
    /\ c.at = "place" \/ (c.at = "look" /\ Pending(c.slot))

\* What a step that may begin a call does to it.
LEMMA BeginsCall ==
    ASSUME DeliveryTypeOK, BootWalk, NEW p \in Callers, Begins(p)
    PROVE  /\ UNCHANGED <<row, posts, shown, late>>
           /\ Free(p)
           /\ \/ call' = call /\ faults' \in 0 .. MaxFaults
              \/ /\ faults' = faults
                 /\ \E c : /\ Fresh(p, c) /\ call' = [call EXCEPT ![p] = c]
                           /\ stage'[p] \in CallingIn(p)
  <1> USE MaxFaultsType
  <1>1. /\ faults \in 0 .. MaxFaults /\ part \in Nat
        /\ Parts \in Nat /\ Images \in Nat /\ stage \in [Callers -> Stages]
    BY PartsAreSlots, StageType DEF DeliveryTypeOK, DeliveryType
  <1>2. ASSUME NEW s \in Slots, s \in Reach(p), NEW w \in {"saved", "asked", "closed"}
        PROVE  Fresh(p, Called(s, w))
    BY <1>2, PartsAreSlots DEF Fresh, Called, Call
  <1>3. CASE p = "actor" /\ PostsAnswer
    <2>1. request = "COMPLETED" => part \in 1 .. Parts
      BY <1>3, <1>1 DEF PostsAnswer, DeliveryTypeOK
    <2>2. part \in 1 .. Parts =>
             AnswerSlot(part) \in Slots /\ AnswerSlot(part) \in Reach(p)
      BY <1>3, SlotsApart DEF Reach, AnswerSlots
    <2>3. \/ call' = call /\ faults' \in 0 .. MaxFaults
          \/ /\ part \in 1 .. Parts
             /\ faults' = faults
             /\ call' = [call EXCEPT ![p] = Called(AnswerSlot(part), "saved")]
      BY <1>3, <1>1, <2>1 DEF PostsAnswer, Calls, Strikes
    <2>4. /\ UNCHANGED <<row, posts, shown, late, stage>>
          /\ Free(p) /\ stage[p] \in CallingIn(p)
      BY <1>3 DEF PostsAnswer, At, CallingIn
    <2> QED
      BY <1>2, <2>2, <2>3, <2>4
  <1>4. CASE p \in {"actor", "boot"} /\ PostsImage(p)
    <2>1. part > Parts => ImageAt \in Nat \ {0}
      BY <1>1 DEF ImageAt
    <2>2. ImageAt \in 1 .. Images =>
             ImageSlot(ImageAt) \in Slots /\ ImageSlot(ImageAt) \in Reach(p)
      BY <1>4, SlotsApart DEF Reach, ImageSlots
    <2>3. /\ \/ call' = call
             \/ /\ ImageAt \in 1 .. Images
                /\ call' = [call EXCEPT ![p] = Called(ImageSlot(ImageAt), "saved")]
          /\ faults' = faults
      BY <1>4, <1>1, <2>1 DEF PostsImage, Calls
    <2>4. /\ UNCHANGED <<row, posts, shown, late, stage>>
          /\ Free(p) /\ stage[p] \in CallingIn(p)
      BY <1>4 DEF PostsImage, Walks, At, CallingIn
    <2> QED
      BY <1>1, <1>2, <2>2, <2>3, <2>4
  <1>5. CASE p = "drive" /\ (Shows \/ Closes)
    <2>1. CardSlot \in Slots /\ CardSlot \in Reach(p)
      BY <1>5, SlotsApart DEF Reach
    <2>2. /\ \/ call' = call
             \/ /\ stage' = stage
                /\ \E w \in {"asked", "closed"} :
                      call' = [call EXCEPT ![p] = Called(CardSlot, w)]
          /\ UNCHANGED <<row, posts, shown, late, faults>>
          /\ Free(p) /\ stage[p] \in CallingIn(p)
      BY <1>5 DEF Shows, Closes, At, Calls, CallingIn, taskVars
    <2> QED
      BY <1>1, <1>2, <2>1, <2>2
  <1>6. CASE p \in Gets /\ Captures(p)
    <2>1. GetSlot(p) \in Slots /\ GetSlot(p) \in Reach(p) /\ CallingIn(p) = {"post"}
      BY <1>6, PartsAreSlots, SlotsApart DEF Reach, CallingIn
    <2>2. /\ \/ call' = call /\ faults' \in 0 .. MaxFaults
             \/ /\ faults' = faults /\ stage'[p] = "post"
                /\ call' = [call EXCEPT ![p] = Called(GetSlot(p), "saved")]
          /\ UNCHANGED <<row, posts, shown, late>> /\ Free(p)
      BY <1>1, <1>6 DEF Captures, At, Calls, Moves, Strikes
    <2> QED
      BY <1>2, <2>1, <2>2
  <1>7. CASE p = "boot" /\ \E s \in Slots : RecoversArtifact(s)
    <2>1. PICK s \in Slots : RecoversArtifact(s)
      BY <1>7
    <2>2. /\ call' = [call EXCEPT ![p] = Called(s, "saved")]
          /\ UNCHANGED <<row, posts, shown, late, faults, stage>>
          /\ Free(p) /\ stage[p] \in CallingIn(p)
      BY <1>7, <2>1 DEF RecoversArtifact, At, Calls, CallingIn
    <2> QED
      BY <1>2, <1>7, <2>2 DEF Reach
  <1>8. CASE p = "boot" /\ \E s \in Slots : RecoversText(s)
    <2>1. PICK s \in Slots : RecoversText(s)
      BY <1>8
    <2>2. /\ call' = [call EXCEPT ![p] = Looking(s)]
          /\ UNCHANGED <<row, posts, shown, late, faults, stage>>
          /\ Free(p) /\ stage[p] = "texts" /\ Pending(s)
      BY <1>8, <2>1 DEF RecoversText, At, BootWalk
    <2>3. row[s].pending \in Contents
      BY <2>2, RowShape DEF Pending, DeliveryTypeOK
    <2>4. Fresh(p, Looking(s))
      BY <1>8, <2>2, <2>3 DEF Fresh, Looking, Call, Reach
    <2> QED
      BY <1>8, <2>2, <2>4 DEF CallingIn
  <1> QED
    BY <1>3, <1>4, <1>5, <1>6, <1>7, <1>8 DEF Begins

\* What a step that takes an answer drops: the call, and that of the actor
\* when drive() aborts it.
LEMMA TakesCall ==
    ASSUME DeliveryTypeOK, NEW p \in Callers, Takes(p)
    PROVE  /\ UNCHANGED <<row, posts, shown, faults>>
           /\ call[p].at = "told"
           /\ \E D \in SUBSET Callers :
                 /\ p \in D
                 /\ \/ D = {p}
                    \/ D = {p, "actor"} /\ p = "drive" /\ stage'["actor"] = "over"
                 /\ Drops(D)
                 /\ \A q \in Callers \ D : stage'[q] = stage[q]
  <1>1. call \in [Callers -> Call] /\ "actor" \in Callers /\ "drive" \in Callers
        /\ stage \in [Callers -> Stages]
    BY PartsAreSlots, StageType DEF DeliveryTypeOK, DeliveryType
  <1>2. CASE /\ call[p].at = "told" /\ Returns(p)
             /\ UNCHANGED <<row, posts, shown, faults, late>>
             /\ \A q \in Callers \ {p} : stage'[q] = stage[q]
    <2>1. Drops({p})
      BY <1>1, <1>2 DEF Returns, Drops
    <2> QED
      BY <1>2, <2>1
  <1>3. CASE p = "drive" /\ ShowTold
    <2>1. CASE call["drive"].told = "error" /\ stage["actor"] # "over"
      <3>1. /\ call' = [call EXCEPT !["drive"] = NoCall, !["actor"] = NoCall]
            /\ late' \in Dropped("actor")
            /\ stage' = [stage EXCEPT !["drive"] = "expire", !["actor"] = "over"]
            /\ UNCHANGED <<row, posts, shown, faults>>
            /\ call[p].at = "told"
        BY <1>3, <2>1 DEF ShowTold
      <3>2. call' = [q \in Callers |-> IF q \in {p, "actor"} THEN NoCall ELSE call[q]]
        BY <1>1, <1>3, <3>1
      <3>3. /\ \A l \in late' \ late : call["actor"].at = "send" /\ l = Orphan("actor")
            /\ late \subseteq late'
        BY <3>1 DEF Dropped, Orphan
      <3>4. Drops({p, "actor"})
        BY <3>2, <3>3 DEF Drops
      <3>5. /\ stage'["actor"] = "over"
            /\ \A q \in Callers \ {p, "actor"} : stage'[q] = stage[q]
        BY <1>1, <1>3, <3>1
      <3> QED
        BY <1>1, <1>3, <3>1, <3>4, <3>5
    <2>2. CASE ~(call["drive"].told = "error" /\ stage["actor"] # "over")
      BY <1>1, <1>2, <1>3, <2>2 DEF ShowTold, Moves
    <2> QED
      BY <2>1, <2>2
  <1> QED
    BY <1>1, <1>2, <1>3 DEF Takes, AnswerTold, ImageTold, CloseTold, GetTold,
       TextTold, Moves, taskVars

LEMMA CrashDrops ==
    ASSUME DeliveryTypeOK, Crash
    PROVE  /\ UNCHANGED <<row, posts, shown, faults>>
           /\ Drops(Callers)
  <1>1. PICK L \in SUBSET UNION {Dropped(p) : p \in Callers} : late' = UNION L
    BY DEF Crash
  <1>2. ASSUME NEW l \in late' \ late
        PROVE  \E q \in Callers : call[q].at = "send" /\ l = Orphan(q)
    <2>1. PICK d \in L : l \in d
      BY <1>1, <1>2
    <2>2. PICK q \in Callers : d \in Dropped(q)
      BY <1>1, <2>1
    <2> QED
      BY <1>2, <2>1, <2>2 DEF Dropped, Orphan
  <1> QED
    BY <1>2 DEF Crash, Drops

LEMMA DeliveryStep ==
    ASSUME DeliveryTypeOK, DeliverySound, Ownership, BootWalk, Next
    PROVE  DeliveryType' /\ DeliverySound'
  <1>1. OneCaller /\ DeliveryType
    BY OwnersDiffer DEF DeliveryTypeOK
  <1>2. CASE Silent
    BY <1>1, <1>2, SilentKeeps, SameSound
  <1>3. CASE Arrives
    BY <1>1, <1>3, LandsSound DEF Arrives
  <1>4. CASE Crash
    BY <1>1, <1>4, CrashDrops, DropsSound
  <1>5. ASSUME NEW p \in Callers, Begins(p)
        PROVE  DeliveryType' /\ DeliverySound'
    <2>1. CASE call' = call
      BY <1>1, <1>5, <2>1, BeginsCall, SameSound DEF DeliveryType
    <2>2. ASSUME NEW c, Fresh(p, c), call' = [call EXCEPT ![p] = c], faults' = faults
          PROVE  DeliveryType' /\ DeliverySound'
      BY <1>1, <1>5, <2>2, BeginsCall, BeginsSound DEF Fresh
    <2> QED
      BY <1>5, <2>1, <2>2, BeginsCall
  <1>6. ASSUME NEW p \in Callers, Takes(p)
        PROVE  DeliveryType' /\ DeliverySound'
    <2>1. PICK D \in SUBSET Callers : Drops(D)
      BY <1>6, TakesCall
    <2> QED
      BY <1>1, <1>6, <2>1, TakesCall, DropsSound
  <1>7. ASSUME NEW p \in Callers, Deliver(p)
        PROVE  DeliveryType' /\ DeliverySound'
    BY <1>1, <1>7, StepType, StepSound DEF Deliver, DeliverySound
  <1> QED
    BY <1>2, <1>3, <1>4, <1>5, <1>6, <1>7, NextCases

-----------------------------------------------------------------------------
(***************************************************************************)
(* Ownership: no slot is in two calls.                                     *)
(***************************************************************************)

\* Whose stage a step may change, and that start-up is over unless it is its
\* own.
LEMMA SilentMoves ==
    ASSUME DeliveryTypeOK, Ownership, Silent
    PROVE  \E p \in Callers :
              /\ p # "boot" <=> stage["boot"] = "over"
              /\ \A q \in Callers \ {p} : stage'[q] = stage[q]
              /\ Free(p)
  <1>1. /\ stage \in [Callers -> Stages] /\ {"actor", "boot"} \subseteq Callers
        /\ Gets \subseteq Callers /\ "boot" \notin Gets
    BY StageType, PartsAreSlots
  <1>2. stage["actor"] \notin {"over", "check"} => stage["boot"] = "over"
    BY <1>1 DEF Ownership
  <1>3. CASE \/ SavesImages \/ RecordsImages \/ SavesAnswer \/ FinishesDirect
             \/ RetriesOrGivesUp \/ ClosesApprovals \/ EndsRun
    <2>1. stage["actor"] \notin {"over", "check"} /\ Free("actor")
      BY <1>3 DEF SavesImages, RecordsImages, SavesAnswer, FinishesDirect,
         RetriesOrGivesUp, ClosesApprovals, EndsRun, At
    <2>2. \A q \in Callers \ {"actor"} : stage'[q] = stage[q]
      BY <1>1, <1>3 DEF SavesImages, RecordsImages, SavesAnswer, FinishesDirect,
         RetriesOrGivesUp, ClosesApprovals, EndsRun, Moves, Retries
    <2> QED
      BY <1>1, <1>2, <2>1, <2>2
  <1>4. CASE RecoversImages \/ ImagesRecovered \/ Started
    <2>1. /\ Free("boot") /\ stage["boot"] # "over"
          /\ \A q \in Callers \ {"boot"} : stage'[q] = stage[q]
      BY <1>1, <1>4 DEF RecoversImages, ImagesRecovered, Started, At, Moves
    <2> QED
      BY <1>1, <2>1
  <1>5. ASSUME NEW g \in Gets, ChecksGet(g)
        PROVE  /\ Free(g) /\ stage["boot"] = "over"
               /\ \A q \in Callers \ {g} : stage'[q] = stage[q]
    BY <1>1, <1>5 DEF ChecksGet, At, Moves, Working
  <1> QED
    BY <1>1, <1>3, <1>4, <1>5 DEF Silent

LEMMA BeginsMoves ==
    ASSUME DeliveryTypeOK, Ownership, NEW p \in Callers, Begins(p)
    PROVE  /\ p # "boot" => stage["boot"] = "over"
           /\ p = "boot" => stage["boot"] # "over" /\ stage' = stage
           /\ \A q \in Callers \ {p} : stage'[q] = stage[q]
  <1>1. stage \in [Callers -> Stages]
    BY StageType
  <1>2. /\ stage[p] \notin {"over", "check"}
        /\ p = "boot" => stage' = stage
        /\ \A q \in Callers \ {p} : stage'[q] = stage[q]
    BY <1>1, PartsAreSlots DEF Begins, PostsAnswer, PostsImage, Shows, Closes, Captures,
       RecoversText, RecoversArtifact, Walks, At, Moves, taskVars
  <1> QED
    BY <1>2 DEF Ownership

LEMMA TakesMoves ==
    ASSUME Ownership, NEW p \in Callers, Takes(p)
    PROVE  p # "boot" => stage["boot"] = "over"
  <1>1. stage[p] \notin {"over", "check"}
    BY PartsAreSlots DEF Takes, AnswerTold, ImageTold, ShowTold, CloseTold,
       GetTold, TextTold
  <1> QED
    BY <1>1 DEF Ownership

LEMMA OwnershipStep ==
    ASSUME DeliveryTypeOK, Ownership, BootWalk, Next
    PROVE  Ownership'
  <1>1. /\ stage \in [Callers -> Stages] /\ {"actor", "boot"} \subseteq Callers
        /\ call \in [Callers -> Call] /\ DeliveryType
    BY StageType, PartsAreSlots DEF DeliveryTypeOK, DeliveryType
  <1>2. CASE Silent
    <2>1. PICK p \in Callers : /\ p # "boot" <=> stage["boot"] = "over"
                               /\ \A q \in Callers \ {p} : stage'[q] = stage[q]
                               /\ Free(p)
      BY <1>2, SilentMoves
    <2>2. call' = call
      BY <1>2, SilentKeeps
    <2> QED
      BY <1>1, <2>1, <2>2 DEF Ownership, Free
  <1>3. CASE Arrives
    BY <1>3 DEF Ownership, Arrives, Lands, Free, taskVars
  <1>4. CASE Crash
    <2>1. \A p \in Callers : call'[p] = NoCall
      BY <1>4 DEF Crash
    <2>2. \A p \in Callers \ {"boot"} : stage'[p] \in {"over", "check"}
      BY <1>4 DEF Crash
    <2> QED
      BY <2>1, <2>2 DEF Ownership, Free, NoCall
  <1>5. ASSUME NEW p \in Callers, Begins(p)
        PROVE  Ownership'
    <2>1. /\ Free(p)
          /\ \/ call' = call
             \/ \E c : /\ Fresh(p, c) /\ call' = [call EXCEPT ![p] = c]
                       /\ stage'[p] \in CallingIn(p)
      BY <1>5, BeginsCall
    <2>2. \A q \in Callers :
             ~Free(q)' => call'[q].slot \in Reach(q) /\ stage'[q] \in CallingIn(q)
      BY <1>1, <1>5, <2>1, BeginsMoves DEF Ownership, Free, Fresh
    <2>3. stage'["boot"] # "over" =>
             \A q \in Callers \ {"boot"} : stage'[q] \in {"over", "check"}
      BY <1>1, <1>5, BeginsMoves DEF Ownership
    <2> QED
      BY <2>2, <2>3 DEF Ownership
  <1>6. ASSUME NEW p \in Callers, Takes(p)
        PROVE  Ownership'
    <2>1. PICK D \in SUBSET Callers :
             /\ p \in D
             /\ \/ D = {p}
                \/ D = {p, "actor"} /\ p = "drive" /\ stage'["actor"] = "over"
             /\ Drops(D)
             /\ \A q \in Callers \ D : stage'[q] = stage[q]
      BY <1>6, TakesCall
    <2>2. \A q \in Callers : ~Free(q)' => q \notin D /\ call'[q] = call[q]
      BY <2>1 DEF Drops, Free, NoCall
    <2>3. stage'["boot"] # "over" =>
             \A q \in Callers \ {"boot"} : stage'[q] \in {"over", "check"}
      <3>1. p # "boot" => "boot" \notin D
        BY <2>1
      <3>2. p = "boot" => stage["boot"] # "over" /\ D = {"boot"}
        BY <1>6, <2>1, PartsAreSlots DEF Takes, ImageTold, TextTold
      <3> QED
        BY <1>1, <1>6, <2>1, <3>1, <3>2, TakesMoves DEF Ownership
    <2> QED
      BY <2>1, <2>2, <2>3 DEF Ownership, Free
  <1>7. ASSUME NEW p \in Callers, Deliver(p)
        PROVE  Ownership'
    <2>1. stage' = stage /\ Continues(p) /\ call[p].at # "idle"
      BY <1>1, <1>7, StepEffect DEF Deliver, taskVars
    <2> QED
      BY <1>1, <2>1 DEF Ownership, Continues, Free
  <1> QED
    BY <1>2, <1>3, <1>4, <1>5, <1>6, <1>7, NextCases

-----------------------------------------------------------------------------
(***************************************************************************)
(* What steps do to the rows.                                              *)
(***************************************************************************)

LEMMA StepRows ==
    ASSUME DeliveryType, DeliverySound, NEW p \in Callers, Steps(p),
           NEW s \in Slots, s = call[p].slot
    PROVE  /\ row[s].state # "NONE" => row'[s].state # "NONE"
           /\ row[s].state = "NONE" /\ row'[s].state # "NONE" =>
                 call[p].at \in {"place", "insert"}
           /\ /\ IsConfirmed(s)
              /\ s \in Media \/ row[s].confirmed = call[p].want
              => row'[s] = row[s]
           /\ row'[s].pending \in {row[s].pending, call[p].want, None}
           /\ row'[s].confirmed \in {row[s].confirmed, row[s].pending, call[p].want, None}
           /\ call[p].at \in {"look", "found"} =>
                 call'[p].at \in {"look", "found", "told"}
  <1>1. row \in [Slots -> Row]
    BY DEF DeliveryType
  <1>2. CASE Place(p)
    <2>1. \/ row[s].state = "NONE" /\ row'[s] = Posted(call[p].want)
          \/ /\ row[s].state = "CONFIRMED" /\ row[s].confirmed # call[p].want
             /\ row'[s] = Patched(s, call[p].want)
          \/ row' = row
      BY <1>1, <1>2, PlaceEffect
    <2> QED
      BY <1>2, <2>1 DEF Place, Posted, Patched, IsConfirmed
  <1>3. CASE Insert(p)
    <2>1. \/ row[s].state = "NONE" /\ row'[s] = Posted(call[p].want)
          \/ row' = row
      BY <1>1, <1>3 DEF Insert
    <2> QED
      BY <1>3, <2>1 DEF Insert, Posted, IsConfirmed
  <1>4. CASE Receipt(p) \/ Proves(p)
    <2>1. /\ row'[s] = [state |-> "CONFIRMED", confirmed |-> row[s].pending,
                        pending |-> None]
          /\ Pending(s)
      BY <1>1, <1>4 DEF Receipt, Proves, Confirmed, DeliverySound, CallSound
    <2>2. call'[p].at = "told"
      BY <1>4, TellsEffect DEF Receipt, Proves
    <2> QED
      BY <1>4, <2>1, <2>2 DEF IsConfirmed, Pending
  <1>5. CASE PlaceMedia(p) \/ Send(p)
    BY <1>5 DEF PlaceMedia, Send
  <1>6. CASE Look(p)
    <2>1. call'[p].at \in {"found", "told"}
      BY <1>6, GoesEffect, TellsEffect DEF Look
    <2> QED
      BY <1>6, <2>1 DEF Look
  <1> QED
    BY <1>2, <1>3, <1>4, <1>5, <1>6 DEF Steps

\* Only a step of a call writes rows.
LEMMA RowsWritten ==
    ASSUME DeliveryTypeOK, DeliverySound, BootWalk, Next, row' # row
    PROVE  \E p \in Callers, s \in Slots :
              /\ Deliver(p) /\ Steps(p) /\ s = call[p].slot /\ ~Free(p)
              /\ \A t \in Slots \ {s} : row'[t] = row[t]
  <1>1. ~Silent /\ ~Arrives /\ ~Crash
    BY SilentKeeps DEF Arrives, Lands, Crash
  <1>2. \A p \in Callers : ~Begins(p) /\ ~Takes(p)
    BY BeginsCall, TakesCall
  <1>3. PICK p \in Callers : Deliver(p)
    BY <1>1, <1>2, NextCases
  <1>4. /\ Steps(p) /\ DeliveryType /\ CallSound(p)
    BY <1>3 DEF Deliver, DeliveryTypeOK, DeliverySound
  <1>5. /\ ~Free(p) /\ call[p].slot \in Slots
        /\ \A t \in Slots : t # call[p].slot => row'[t] = row[t]
    BY <1>4, StepEffect DEF Free, CallSound
  <1> QED
    BY <1>3, <1>4, <1>5

\* A row never goes, and what is confirmed of an answer or of a file stays.
LEMMA RowsKept ==
    ASSUME DeliveryTypeOK, DeliverySound, BootWalk, AnswerSound, Next
    PROVE  /\ \A s \in Slots : row[s].state # "NONE" => row'[s].state # "NONE"
           /\ \A s \in AnswerSlots \cup Media :
                 IsConfirmed(s) => row'[s] = row[s] /\ IsConfirmed(s)'
  <1>1. CASE row' = row
    BY <1>1 DEF IsConfirmed
  <1>2. CASE row' # row
    <2>1. PICK p \in Callers, s \in Slots :
             /\ Deliver(p) /\ Steps(p) /\ s = call[p].slot /\ ~Free(p)
             /\ \A t \in Slots \ {s} : row'[t] = row[t]
      BY <1>2, RowsWritten
    <2>2. DeliveryType
      BY DEF DeliveryTypeOK
    <2>3. s \in AnswerSlots /\ IsConfirmed(s) => row[s].confirmed = call[p].want
      <3>1. s \in AnswerSlots =>
               row[s].confirmed \in {"saved", None} /\ call[p].want = "saved"
        BY <2>1 DEF AnswerSound, OnlySaved, AnswerSlots
      <3>2. IsConfirmed(s) => row[s].confirmed # None
        BY <2>2, RowShape, SlotsType DEF IsConfirmed
      <3> QED
        BY <3>1, <3>2
    <2>4. /\ row[s].state # "NONE" => row'[s].state # "NONE"
          /\ s \in AnswerSlots \cup Media /\ IsConfirmed(s) => row'[s] = row[s]
      BY <2>1, <2>2, <2>3, StepRows
    <2>5. AnswerSlots \subseteq Slots /\ Media \subseteq Slots
      BY SlotsApart, SlotsType
    <2>6. \A t \in AnswerSlots \cup Media : IsConfirmed(t) => row'[t] = row[t]
      BY <2>1, <2>4, <2>5
    <2> QED
      BY <2>1, <2>4, <2>6 DEF IsConfirmed
  <1> QED
    BY <1>1, <1>2

LEMMA PartType ==
    DeliveryTypeOK => part \in Nat /\ Parts \in Nat /\ Images \in Nat /\ ImageAt \in Int
  BY PartsAreSlots DEF DeliveryTypeOK, ImageAt

\* Where the actor is in its walk, at each of its steps.
LEMMA ActorWalkStep ==
    ASSUME DirectDeliveryInv, Next
    PROVE  ActorWalk'
  <1>1. /\ DeliveryTypeOK /\ DeliverySound /\ Ownership /\ BootWalk /\ ActorWalk
        /\ AnswerSound /\ DeliveryType
    BY DEF DirectDeliveryInv, OutcomeTrue, DeliveryTypeOK
  <1>2. /\ stage \in [Callers -> Stages] /\ call \in [Callers -> Call]
        /\ {"actor", "drive", "boot"} \subseteq Callers
        /\ "actor" \notin Gets /\ "boot" \notin Gets /\ "drive" \notin Gets
    BY <1>1, StageType, PartsAreSlots DEF DeliveryType
  <1>3. part \in Nat /\ Parts \in Nat /\ Images \in Nat
    BY <1>1, PartType
  <1>4. /\ \A i \in 1 .. Parts : IsConfirmed(AnswerSlot(i)) => IsConfirmed(AnswerSlot(i))'
        /\ \A i \in 1 .. Images :
              row[ImageSlot(i)].state # "NONE" => row'[ImageSlot(i)].state # "NONE"
    <2>1. \A i \in 1 .. Parts : AnswerSlot(i) \in AnswerSlots
      BY DEF AnswerSlots
    <2> QED
      BY <1>1, <2>1, RowsKept, SlotsApart DEF AnswerSlot, ImageSlot
  <1>5. CASE /\ part' = part /\ stage'["actor"] = stage["actor"]
             /\ stage["actor"] = "post" => image' = image
             /\ ~Free("actor")' => /\ ~Free("actor")
                                   /\ call'["actor"].slot = call["actor"].slot
    BY <1>1, <1>3, <1>4, <1>5 DEF ActorWalk, ImageAt, Tried
  <1>6. CASE stage'["actor"] \in {"over", "check"}
    BY <1>6 DEF ActorWalk, Preparing
  <1>7. CASE stage["boot"] # "over" /\ stage'["actor"] = stage["actor"]
    BY <1>1, <1>2, <1>6, <1>7 DEF Ownership
  <1>8. CASE Silent
    <2>1. call' = call /\ part' = part
      BY <1>1, <1>8, SilentKeeps DEF Silent, SavesImages, RecordsImages, SavesAnswer,
         FinishesDirect, RetriesOrGivesUp, ClosesApprovals, EndsRun,
         RecoversImages, ImagesRecovered, Started, ChecksGet
    <2>2. CASE SavesImages \/ RecordsImages \/ SavesAnswer \/ FinishesDirect
               \/ RetriesOrGivesUp
      <3>1. stage["actor"] \in Preparing /\ stage'["actor"] \in Preparing \cup {"over"}
        BY <1>2, <2>2 DEF SavesImages, RecordsImages, SavesAnswer,
           FinishesDirect, RetriesOrGivesUp, At, Moves, Retries, Preparing
      <3> QED
        BY <1>1, <2>1, <3>1 DEF ActorWalk, Preparing
    <2>3. CASE ClosesApprovals
      <3>1. /\ stage["actor"] = "close" /\ Free("actor")
            /\ stage'["actor"] \in {"post", "over"}
        BY <1>2, <2>3 DEF ClosesApprovals, At, Moves
      <3>2. part = 1
        BY <1>1, <3>1 DEF ActorWalk, Preparing
      <3> QED
        BY <1>3, <2>1, <3>1, <3>2 DEF ActorWalk, Preparing, ImageAt, Free
    <2>4. CASE EndsRun
      BY <1>2, <1>6, <2>4 DEF EndsRun, Moves
    <2>5. CASE \/ RecoversImages \/ ImagesRecovered \/ Started
               \/ \E g \in Gets : ChecksGet(g)
      BY <1>2, <1>5, <2>1, <2>5 DEF RecoversImages, ImagesRecovered, Started,
         ChecksGet, Moves, Free, resultVars
    <2> QED
      BY <1>8, <2>2, <2>3, <2>4, <2>5 DEF Silent
  <1>9. CASE Arrives
    BY <1>5, <1>9 DEF Arrives, Lands, Free, taskVars, resultVars
  <1>10. CASE Crash
    BY <1>2, <1>6, <1>10 DEF Crash
  <1>11. ASSUME NEW p \in Callers, Deliver(p)
         PROVE  ActorWalk'
    <2>1. Continues(p) /\ ~Free(p)
      BY <1>1, <1>11, StepEffect DEF Deliver, Free
    <2> QED
      BY <1>2, <1>5, <1>11, <2>1 DEF Deliver, Continues, Free, taskVars, resultVars
  <1>12. CASE PostsAnswer
    <2>1. /\ stage["actor"] = "post" /\ stage' = stage /\ image' = image
          /\ Free("actor") /\ row' = row /\ part <= Parts
      BY <1>12 DEF PostsAnswer, At, resultVars
    <2>2. CASE /\ call' = [call EXCEPT !["actor"] = Called(AnswerSlot(part), "saved")]
               /\ part' = part
      <3>1. call'["actor"].slot = AnswerSlot(part)
        BY <1>2, <2>2 DEF Called
      <3> QED
        BY <1>1, <1>3, <1>4, <2>1, <2>2, <3>1 DEF ActorWalk, Preparing, AnswerSlot
    <2>3. CASE part' = Parts + 1 /\ call' = call
      BY <1>3, <2>1, <2>3 DEF ActorWalk, Preparing, ImageAt, Free
    <2> QED
      BY <1>12, <2>2, <2>3 DEF PostsAnswer, Calls
  <1>13. CASE AnswerTold
    <2>1. /\ stage["actor"] = "post" /\ stage' = stage /\ image' = image
          /\ ~Free("actor") /\ row' = row /\ part <= Parts /\ Free("actor")'
          /\ call["actor"].at = "told"
      BY <1>2, <1>13 DEF AnswerTold, resultVars, Returns, Free, NoCall
    <2>2. CASE call["actor"].told = "yes"
      <3>1. part' = part + 1
        BY <1>13, <2>2 DEF AnswerTold
      <3>2. IsConfirmed(AnswerSlot(part))
        BY <1>1, <1>2, <1>3, <2>1, <2>2 DEF ActorWalk, DeliverySound, CallSound,
           IsConfirmed
      <3>3. \A i \in 1 .. part : IsConfirmed(AnswerSlot(i))
        BY <1>1, <1>3, <2>1, <3>2 DEF ActorWalk
      <3> QED
        BY <1>3, <1>4, <2>1, <3>1, <3>3 DEF ActorWalk, Preparing, ImageAt
    <2>3. CASE call["actor"].told # "yes"
      <3>1. part' = Parts + 1
        BY <1>13, <2>3 DEF AnswerTold
      <3> QED
        BY <1>3, <2>1, <3>1 DEF ActorWalk, Preparing, ImageAt
    <2> QED
      BY <2>2, <2>3
  <1>14. CASE PostsImage("actor")
    <2>1. /\ stage["actor"] = "post" /\ stage' = stage /\ image' = image
          /\ Free("actor") /\ row' = row /\ part > Parts /\ ImageAt <= Images
      BY <1>14 DEF PostsImage, Walks, At, resultVars
    <2>2. CASE /\ call' = [call EXCEPT !["actor"] = Called(ImageSlot(ImageAt), "saved")]
               /\ part' = part
      <3>1. call'["actor"].slot = ImageSlot(ImageAt)
        BY <1>2, <2>2 DEF Called
      <3> QED
        BY <1>1, <1>3, <2>1, <2>2, <3>1
           DEF ActorWalk, Preparing, ImageAt, Tried, ImageSlot
    <2>3. CASE part' = part + 1 /\ call' = call /\ image[ImageAt] # "READY"
      BY <1>1, <1>3, <2>1, <2>3 DEF ActorWalk, Preparing, ImageAt, Tried, Free
    <2> QED
      BY <1>14, <2>2, <2>3 DEF PostsImage, Calls
  <1>15. CASE ImageTold("actor")
    <2>1. /\ stage["actor"] = "post" /\ image' = image
          /\ ~Free("actor") /\ row' = row /\ part > Parts /\ Free("actor")'
          /\ call["actor"].at = "told"
      BY <1>2, <1>15 DEF ImageTold, resultVars, Returns, Free, NoCall
    <2>2. CASE call["actor"].told = "error"
      BY <1>2, <1>6, <1>15, <2>2 DEF ImageTold, Moves
    <2>3. CASE call["actor"].told # "error"
      <3>1. part' = part + 1 /\ stage' = stage
        BY <1>15, <2>3 DEF ImageTold
      <3>2. ImageAt \in 1 .. Images /\ call["actor"].slot = ImageSlot(ImageAt)
        BY <1>1, <1>3, <2>1 DEF ActorWalk
      <3>3. row[ImageSlot(ImageAt)].state # "NONE"
        BY <1>1, <1>2, <2>1, <2>3, <3>2 DEF DeliverySound, CallSound, Call
      <3>4. \A i \in 1 .. Images : i < ImageAt + 1 => Tried(i)
        BY <1>1, <1>3, <2>1, <3>2, <3>3 DEF ActorWalk, Tried, ImageAt
      <3> QED
        BY <1>3, <2>1, <3>1, <3>4 DEF ActorWalk, Preparing, ImageAt, Tried
    <2> QED
      BY <2>2, <2>3
  <1>16. ASSUME NEW p \in Callers \ {"actor"}, Begins(p)
         PROVE  ActorWalk'
    <2>1. /\ stage'["actor"] = stage["actor"]
          /\ p = "boot" => stage["boot"] # "over"
      BY <1>1, <1>2, <1>16, BeginsMoves
    <2>2. p # "boot" => /\ part' = part /\ image' = image
                        /\ call'["actor"] = call["actor"]
      BY <1>2, <1>16 DEF Begins, Shows, Closes, Captures, resultVars, Calls, taskVars
    <2> QED
      BY <1>5, <1>7, <2>1, <2>2 DEF Free
  <1>17. ASSUME NEW p \in Callers \ {"actor"}, Takes(p)
         PROVE  ActorWalk'
    <2>1. PICK D \in SUBSET Callers :
             /\ \/ D = {p}
                \/ D = {p, "actor"} /\ p = "drive" /\ stage'["actor"] = "over"
             /\ Drops(D)
             /\ \A q \in Callers \ D : stage'[q] = stage[q]
      BY <1>1, <1>17, TakesCall
    <2>2. p # "boot" => part' = part /\ image' = image
      BY <1>17 DEF Takes, ShowTold, CloseTold, GetTold, resultVars
    <2>3. p = "boot" => stage["boot"] # "over"
      BY <1>2, <1>17 DEF Takes, ImageTold, TextTold
    <2>4. ~Free("actor")' => call'["actor"] = call["actor"]
      BY <1>2, <2>1 DEF Drops, Free, NoCall
    <2>5. \/ stage'["actor"] = stage["actor"]
          \/ stage'["actor"] = "over"
      BY <1>2, <1>17, <2>1
    <2>6. CASE p # "boot" /\ stage'["actor"] = stage["actor"]
      BY <1>5, <2>2, <2>4, <2>6 DEF Free
    <2> QED
      BY <1>6, <1>7, <2>3, <2>5, <2>6
  <1> QED
    <2>1. \A p \in Callers : Begins(p) =>
             (p = "actor" /\ (PostsAnswer \/ PostsImage("actor"))) \/ p # "actor"
      BY <1>2 DEF Begins
    <2>2. \A p \in Callers : Takes(p) =>
             (p = "actor" /\ (AnswerTold \/ ImageTold("actor"))) \/ p # "actor"
      BY <1>2 DEF Takes
    <2> QED
      BY <1>8, <1>9, <1>10, <1>11, <1>12, <1>13, <1>14, <1>15, <1>16, <1>17,
         <2>1, <2>2, NextCases

\* What start-up has still to look at.
LEMMA BootWalkStep ==
    ASSUME DirectDeliveryInv, Next
    PROVE  BootWalk'
  <1>1. /\ DeliveryTypeOK /\ DeliverySound /\ Ownership /\ BootWalk
        /\ DeliveryType /\ AnswerSound
    BY DEF DirectDeliveryInv, OutcomeTrue, DeliveryTypeOK
  <1>2. /\ stage \in [Callers -> Stages] /\ call \in [Callers -> Call]
        /\ {"actor", "drive", "boot"} \subseteq Callers
        /\ "actor" \notin Gets /\ "boot" \notin Gets /\ "drive" \notin Gets
    BY <1>1, StageType, PartsAreSlots DEF DeliveryType
  <1>3. part \in Nat /\ Parts \in Nat /\ Images \in Nat
    BY <1>1, PartType
  <1>4. \A s \in Slots : row[s].state # "NONE" => row'[s].state # "NONE"
    BY <1>1, RowsKept
  <1>5. CASE stage'["boot"] = "over"
    BY <1>5 DEF BootWalk
  <1>6. CASE Crash
    <2>1. /\ stage'["boot"] = "texts" /\ Free("boot")' /\ part' = Parts + 1
          /\ row' = row /\ todo' = {s \in Slots \ Media : Pending(s)}
      BY <1>2, <1>6 DEF Crash, Free, NoCall
    <2> QED
      BY <1>3, <2>1 DEF BootWalk, Pending
  <1>7. CASE Silent
    <2>1. PICK p \in Callers : /\ p # "boot" <=> stage["boot"] = "over"
                               /\ \A q \in Callers \ {p} : stage'[q] = stage[q]
                               /\ Free(p)
      BY <1>1, <1>7, SilentMoves
    <2>2. CASE p # "boot"
      BY <1>2, <1>5, <2>1, <2>2
    <2>3. CASE p = "boot"
      <3>1. RecoversImages \/ ImagesRecovered \/ Started
        <4>1. stage["actor"] \in {"over", "check"} /\ stage["boot"] # "over"
          BY <1>1, <1>2, <2>1, <2>3 DEF Ownership
        <4> QED
          BY <1>7, <4>1 DEF Silent, SavesImages, RecordsImages, SavesAnswer,
             FinishesDirect, RetriesOrGivesUp, ClosesApprovals, EndsRun,
             ChecksGet, At, Working
      <3>2. /\ call' = call /\ row' = row /\ part' = part /\ Free("boot")
        BY <1>1, <1>7, <3>1, <2>1, <2>3, SilentKeeps
           DEF RecoversImages, ImagesRecovered, Started
      <3>3. CASE RecoversImages
        <4>1. /\ stage["boot"] = "texts" /\ stage'["boot"] \in {"post", "artifacts"}
              /\ todo' = {s \in GetSlots : Pending(s)}
          BY <1>2, <3>3 DEF RecoversImages, At, Moves
        <4> QED
          BY <1>1, <3>2, <4>1 DEF BootWalk, Free, Pending
      <3>4. CASE ImagesRecovered
        <4>1. /\ stage["boot"] = "post" /\ stage'["boot"] = "artifacts" /\ todo' = todo
          BY <1>2, <3>4 DEF ImagesRecovered, At, Moves
        <4> QED
          BY <1>1, <3>2, <4>1 DEF BootWalk, Free
      <3>5. CASE Started
        BY <1>2, <1>5, <3>5 DEF Started, Moves
      <3> QED
        BY <3>1, <3>3, <3>4, <3>5
    <2> QED
      BY <2>2, <2>3
  <1>8. CASE Arrives
    BY <1>1, <1>8 DEF Arrives, Lands, BootWalk, taskVars, Free, Pending, ImageAt
  <1>9. ASSUME NEW p \in Callers \ {"boot"}, Begins(p) \/ Takes(p) \/ Deliver(p)
        PROVE  BootWalk'
    <2>1. stage["boot"] = "over"
      <3>1. Deliver(p) => ~Free(p)
        BY DEF Deliver, Steps, Place, PlaceMedia, Insert, Send, Receipt, Look,
           Proves, Free
      <3>2. ~Free(p) => stage[p] \notin {"over", "check"}
        BY <1>1, <1>9, PartsAreSlots DEF Ownership, CallingIn
      <3> QED
        BY <1>1, <1>9, <3>1, <3>2, BeginsMoves, TakesMoves DEF Ownership
    <2>2. stage'["boot"] = stage["boot"]
      <3>1. Takes(p) => stage'["boot"] = stage["boot"]
        BY <1>1, <1>2, <1>9, TakesCall
      <3> QED
        BY <1>1, <1>2, <1>9, <3>1, BeginsMoves DEF Deliver, taskVars
    <2> QED
      BY <1>5, <2>1, <2>2
  <1>10. CASE PostsImage("boot")
    <2>1. /\ stage["boot"] = "post" /\ stage' = stage /\ Free("boot")
          /\ row' = row /\ todo' = todo /\ ImageAt <= Images
      BY <1>10 DEF PostsImage, Walks, At
    <2>2. CASE /\ call' = [call EXCEPT !["boot"] = Called(ImageSlot(ImageAt), "saved")]
               /\ part' = part
      <3>1. call'["boot"].slot = ImageSlot(ImageAt)
        BY <1>2, <2>2 DEF Called
      <3> QED
        BY <1>1, <1>3, <2>1, <2>2, <3>1 DEF BootWalk, ImageAt, ImageSlot
    <2>3. CASE part' = part + 1 /\ call' = call
      BY <1>1, <1>3, <2>1, <2>3 DEF BootWalk, Free
    <2> QED
      BY <1>10, <2>2, <2>3 DEF PostsImage, Calls
  <1>11. ASSUME NEW s \in Slots, RecoversText(s)
         PROVE  BootWalk'
    <2>1. /\ stage["boot"] = "texts" /\ stage' = stage /\ s \in todo
          /\ row' = row /\ todo' = todo \ {s} /\ part' = part
          /\ call' = [call EXCEPT !["boot"] = Looking(s)]
      BY <1>11 DEF RecoversText, At
    <2>2. call'["boot"].slot = s /\ call'["boot"].at = "look"
      BY <1>2, <2>1 DEF Looking
    <2> QED
      BY <1>1, <2>1, <2>2 DEF BootWalk, Pending
  <1>12. ASSUME NEW s \in Slots, RecoversArtifact(s)
         PROVE  BootWalk'
    <2>1. /\ stage["boot"] = "artifacts" /\ stage' = stage /\ s \in todo
          /\ row' = row /\ todo' = todo \ {s} /\ part' = part
          /\ call' = [call EXCEPT !["boot"] = Called(s, "saved")]
      BY <1>12 DEF RecoversArtifact, At, Calls
    <2>2. call'["boot"].slot = s
      BY <1>2, <2>1 DEF Called
    <2> QED
      BY <1>1, <2>1, <2>2 DEF BootWalk
  <1>13. CASE TextTold
    <2>1. /\ Free("boot")' /\ stage' = stage /\ todo' = todo /\ part' = part /\ row' = row
          /\ stage["boot"] \in {"texts", "artifacts"}
      BY <1>2, <1>13 DEF TextTold, Returns, Free, NoCall, taskVars
    <2> QED
      BY <1>1, <2>1 DEF BootWalk, Pending
  <1>14. CASE ImageTold("boot")
    <2>1. /\ Free("boot")' /\ todo' = todo /\ row' = row
          /\ stage["boot"] = "post"
          /\ \/ stage' = stage /\ part' = part + 1
             \/ stage'["boot"] = "artifacts" /\ part' = part
      BY <1>2, <1>14 DEF ImageTold, Returns, Moves, Free, NoCall
    <2> QED
      BY <1>1, <1>3, <2>1 DEF BootWalk
  <1>15. CASE Deliver("boot")
    <2>1. /\ Steps("boot") /\ UNCHANGED <<stage, part, todo>> /\ CallSound("boot")
      BY <1>1, <1>2, <1>15 DEF Deliver, taskVars, DeliverySound
    <2>2. /\ Continues("boot") /\ ~Free("boot")
          /\ \A t \in Slots : t # call["boot"].slot => row'[t] = row[t]
      BY <1>1, <1>2, <2>1, StepEffect DEF Free
    <2>3. PICK s \in Slots : s = call["boot"].slot
      BY <2>1, <2>2 DEF CallSound, Free
    <2>4. /\ call["boot"].at \in {"look", "found"} =>
                call'["boot"].at \in {"look", "found", "told"}
          /\ call["boot"].at # "told"
      BY <1>1, <1>2, <2>1, <2>3, StepRows DEF Steps, Place, PlaceMedia, Insert,
         Send, Receipt, Look, Proves
    <2>5. call'["boot"].slot = s /\ ~Free("boot")'
      BY <2>2, <2>3 DEF Continues, Free
    <2> QED
      BY <1>1, <1>4, <2>1, <2>2, <2>3, <2>4, <2>5, SlotsApart
         DEF BootWalk, Pending, ImageAt
  <1> QED
    <2>1. \A p \in Callers : Begins(p) =>
             \/ p # "boot" \/ PostsImage("boot")
             \/ \E s \in Slots : RecoversText(s) \/ RecoversArtifact(s)
      BY <1>2 DEF Begins
    <2>2. \A p \in Callers : Takes(p) => p # "boot" \/ TextTold \/ ImageTold("boot")
      BY <1>2 DEF Takes
    <2> QED
      BY <1>6, <1>7, <1>8, <1>9, <1>10, <1>11, <1>12, <1>13, <1>14, <1>15,
         <2>1, <2>2, NextCases

\* A new call wants the saved version, is about the card, or wants what is
\* pending.
LEMMA BeginsWants ==
    ASSUME DeliveryTypeOK, BootWalk, NEW p \in Callers, Begins(p)
    PROVE  \/ call' = call
           \/ \E c : /\ call' = [call EXCEPT ![p] = c]
                     /\ \/ c.want = "saved"
                        \/ c.slot = CardSlot
                        \/ Pending(c.slot) /\ c.want = row[c.slot].pending
                     /\ c.slot \in GetSlots =>
                           /\ p \in Gets => c.slot = GetSlot(p) /\ artifact'[p]
                           /\ p = "boot" => c.slot \in todo
  <1>1. /\ "actor" \notin Gets /\ "drive" \notin Gets /\ "boot" \notin Gets
        /\ artifact \in [Gets -> BOOLEAN]
    BY PartsAreSlots DEF DeliveryTypeOK
  <1>2. ASSUME NEW s, NEW w
        PROVE  Called(s, w).slot = s /\ Called(s, w).want = w
    BY DEF Called
  <1>3. CASE \/ p = "actor" /\ PostsAnswer
             \/ p \in {"actor", "boot"} /\ PostsImage(p)
    <2>1. \/ call' = call
          \/ call' = [call EXCEPT ![p] = Called(AnswerSlot(part), "saved")]
          \/ call' = [call EXCEPT ![p] = Called(ImageSlot(ImageAt), "saved")]
      BY <1>3 DEF PostsAnswer, PostsImage, Calls
    <2>2. \A i : AnswerSlot(i) \notin GetSlots /\ ImageSlot(i) \notin GetSlots
      BY SlotsApart DEF GetSlots
    <2> QED
      BY <1>2, <2>1, <2>2
  <1>4. CASE p = "drive" /\ (Shows \/ Closes)
    <2>1. \/ call' = call
          \/ \E w : call' = [call EXCEPT ![p] = Called(CardSlot, w)]
      BY <1>4 DEF Shows, Closes, Calls
    <2> QED
      BY <1>1, <1>2, <1>4, <2>1
  <1>5. CASE p \in Gets /\ Captures(p)
    <2> DEFINE c == Called(GetSlot(p), "saved")
    <2>1. call' = call \/ (artifact'[p] /\ call' = [call EXCEPT ![p] = c])
      BY <1>1, <1>5 DEF Captures, Calls
    <2>2. c.slot = GetSlot(p) /\ c.want = "saved"
      BY <1>2
    <2>3. p # "boot"
      BY <1>1, <1>5
    <2> HIDE DEF c
    <2> QED
      BY <2>1, <2>2, <2>3
  <1>6. ASSUME NEW s \in Slots, p = "boot", RecoversText(s) \/ RecoversArtifact(s)
        PROVE  \E c : /\ call' = [call EXCEPT ![p] = c] /\ c.slot = s
                      /\ c.want = "saved" \/ (Pending(s) /\ c.want = row[s].pending)
                      /\ s \in todo
    <2>1. CASE RecoversText(s)
      <3>1. call' = [call EXCEPT ![p] = Looking(s)] /\ Pending(s) /\ s \in todo
        BY <1>6, <2>1 DEF RecoversText, BootWalk, At
      <3>2. Looking(s).slot = s /\ Looking(s).want = row[s].pending
        BY DEF Looking
      <3> QED
        BY <1>6, <3>1, <3>2
    <2>2. CASE RecoversArtifact(s)
      BY <1>2, <1>6, <2>2 DEF RecoversArtifact, Calls
    <2> QED
      BY <1>6, <2>1, <2>2
  <1> QED
    BY <1>1, <1>3, <1>4, <1>5, <1>6 DEF Begins

\* A step that takes an answer or crashes only drops calls, and no other
\* begins one.
LEMMA CallsKept ==
    ASSUME DeliveryTypeOK, BootWalk, Next, NEW q \in Callers, ~Free(q)'
    PROVE  \/ /\ ~Free(q) /\ call'[q].slot = call[q].slot
              /\ call'[q].want = call[q].want
           \/ Begins(q) /\ call' # call
  <1>1. call \in [Callers -> Call] /\ DeliveryType
    BY DEF DeliveryTypeOK, DeliveryType
  <1>2. CASE Silent \/ Arrives
    BY <1>2, SilentKeeps DEF Arrives, Lands, Free
  <1>3. ASSUME NEW D, Drops(D)
        PROVE  ~Free(q) /\ call'[q] = call[q]
    BY <1>3 DEF Drops, Free, NoCall
  <1>4. ASSUME NEW p \in Callers, Deliver(p)
        PROVE  /\ ~Free(q) /\ call'[q].slot = call[q].slot
               /\ call'[q].want = call[q].want
    <2>1. Continues(p) /\ ~Free(p)
      BY <1>1, <1>4, StepEffect DEF Deliver, Free
    <2> QED
      BY <1>1, <2>1 DEF Continues, Free
  <1>5. ASSUME NEW p \in Callers, Begins(p)
        PROVE  \/ ~Free(q) /\ call'[q] = call[q]
               \/ Begins(q) /\ call' # call
    <2>1. call' = call \/ \E c : call' = [call EXCEPT ![p] = c]
      BY <1>5, BeginsCall
    <2> QED
      BY <1>1, <1>5, <2>1 DEF Free
  <1> QED
    BY <1>2, <1>3, <1>4, <1>5, NextCases, CrashDrops, TakesCall

LEMMA AnswerStep ==
    ASSUME DirectDeliveryInv, Next
    PROVE  AnswerSound'
  <1>1. /\ DeliveryTypeOK /\ DeliverySound /\ Ownership /\ BootWalk /\ ActorWalk
        /\ DeliveryType /\ AnswerSound
    BY DEF DirectDeliveryInv, OutcomeTrue, DeliveryTypeOK
  <1>2. /\ call \in [Callers -> Call] /\ {"actor", "drive", "boot"} \subseteq Callers
        /\ "actor" \notin Gets /\ "boot" \notin Gets /\ "drive" \notin Gets
        /\ Parts \in Nat /\ part \in Nat
    BY <1>1, PartType, PartsAreSlots DEF DeliveryType
  <1>3. \A i \in 1 .. Parts : AnswerSlot(i) \in AnswerSlots /\ AnswerSlot(i) \in Slots
    BY SlotsApart DEF AnswerSlots
  <1>4. \A i \in 1 .. Parts : IsConfirmed(AnswerSlot(i)) => IsConfirmed(AnswerSlot(i))'
    BY <1>1, <1>3, RowsKept DEF AnswerSlot
  <1>5. ASSUME NEW i \in 1 .. Parts
        PROVE  OnlySaved(AnswerSlot(i))'
    <2>1. PICK t \in Slots : t = AnswerSlot(i)
      BY <1>3
    <2>2. OnlySaved(t)
      BY <1>1, <2>1 DEF AnswerSound
    <2>3. row'[t].pending \in {"saved", None} /\ row'[t].confirmed \in {"saved", None}
      <3>1. CASE row'[t] = row[t]
        BY <2>2, <3>1 DEF OnlySaved
      <3>2. CASE row'[t] # row[t]
        <4>1. PICK p \in Callers, s \in Slots :
                 /\ Deliver(p) /\ Steps(p) /\ s = call[p].slot /\ ~Free(p)
                 /\ \A u \in Slots \ {s} : row'[u] = row[u]
          BY <1>1, <3>2, RowsWritten
        <4>2. t = s /\ call[p].want = "saved"
          BY <2>2, <3>2, <4>1 DEF OnlySaved
        <4>3. /\ row'[t].pending \in {row[t].pending, "saved", None}
              /\ row'[t].confirmed \in {row[t].confirmed, row[t].pending, "saved", None}
          BY <1>1, <4>1, <4>2, StepRows
        <4> QED
          BY <2>2, <4>3 DEF OnlySaved
      <3> QED
        BY <3>1, <3>2
    <2>4. ASSUME NEW q \in Callers, ~Free(q)', call'[q].slot = t
          PROVE  call'[q].want = "saved"
      <3>1. CASE /\ ~Free(q) /\ call'[q].slot = call[q].slot
                 /\ call'[q].want = call[q].want
        BY <2>2, <2>4, <3>1 DEF OnlySaved
      <3>2. CASE Begins(q) /\ call' # call
        <4>1. PICK c : /\ call' = [call EXCEPT ![q] = c]
                       /\ \/ c.want = "saved"
                          \/ c.slot = CardSlot
                          \/ Pending(c.slot) /\ c.want = row[c.slot].pending
          BY <1>1, <3>2, BeginsWants
        <4>2. call'[q] = c
          BY <1>2, <4>1
        <4>3. Pending(t) => row[t].pending = "saved"
          BY <1>1, <2>2, SlotsType, RowShape DEF OnlySaved, Pending
        <4> QED
          BY <2>1, <2>4, <4>1, <4>2, <4>3, SlotsApart
      <3> QED
        BY <1>1, <2>4, <3>1, <3>2, CallsKept
    <2>5. OnlySaved(t)'
      BY <2>3, <2>4 DEF OnlySaved
    <2> QED
      BY <2>1, <2>5 DEF AnswerSlot
  <1>6. ASSUME NEW i \in 2 .. Parts, row'[AnswerSlot(i)].state # "NONE"
        PROVE  IsConfirmed(AnswerSlot(i - 1))'
    <2>1. i - 1 \in 1 .. Parts /\ i \in 1 .. Parts
      BY <1>2
    <2>2. CASE row[AnswerSlot(i)].state # "NONE"
      BY <1>1, <1>4, <2>1, <2>2 DEF AnswerSound, AnswerInOrder, IsConfirmed
    <2>3. CASE row[AnswerSlot(i)].state = "NONE"
      <3>1. PICK p \in Callers, s \in Slots :
               /\ Deliver(p) /\ Steps(p) /\ s = call[p].slot /\ ~Free(p)
               /\ \A u \in Slots \ {s} : row'[u] = row[u]
        BY <1>1, <1>6, <2>3, RowsWritten
      <3>2. s = AnswerSlot(i)
        BY <1>3, <1>6, <2>1, <2>3, <3>1
      <3>3. call[p].at \in {"place", "insert"}
        BY <1>1, <1>6, <2>3, <3>1, <3>2, StepRows
      <3>4. s \notin Media /\ s \notin GetSlots /\ s # CardSlot
            /\ \A j : s # ImageSlot(j)
        BY <2>1, <3>2, SlotsApart DEF GetSlots
      <3>5. p # "boot"
        BY <1>1, <3>1, <3>3, <3>4 DEF BootWalk, Ownership, CallingIn
      <3>6. p = "actor" /\ stage["actor"] = "post"
        <4>1. s \in Reach(p) /\ stage[p] \in CallingIn(p)
          BY <1>1, <3>1 DEF Ownership
        <4>2. p # "drive" /\ p \notin Gets
          BY <1>2, <3>4, <4>1 DEF Reach, GetSlots
        <4> QED
          BY <3>5, <4>1, <4>2, PartsAreSlots DEF CallingIn
      <3>7. i = part
        BY <1>1, <3>1, <3>2, <3>4, <3>6, SlotsApart DEF ActorWalk
      <3>8. IsConfirmed(AnswerSlot(i - 1))
        BY <1>1, <1>2, <2>1, <3>1, <3>4, <3>6, <3>7 DEF ActorWalk
      <3> QED
        BY <1>4, <2>1, <3>8
    <2> QED
      BY <2>2, <2>3
  <1>7. ASSUME answered' = "yes", NEW i \in 1 .. Parts
        PROVE  IsConfirmed(AnswerSlot(i))'
    <2>1. CASE answered = "yes"
      BY <1>1, <1>4, <2>1 DEF AnswerSound, AnswerInOrder, IsConfirmed
    <2>2. CASE answered # "yes"
      <3>1. AnswerTold
        BY <1>7, <2>2 DEF Next, Actor, Drive, Boot, Get, Arrives, Crash, Deliver,
           SavesImages, RecordsImages, SavesAnswer, FinishesDirect,
           RetriesOrGivesUp, ClosesApprovals, PostsAnswer, PostsImage, ImageTold,
           EndsRun, Shows, ShowTold, Closes, CloseTold, ChecksGet, Captures,
           GetTold, RecoversText, RecoversArtifact, TextTold, RecoversImages,
           ImagesRecovered, Started, taskVars
      <3>2. /\ call["actor"].told = "yes" /\ call["actor"].at = "told"
            /\ part = Parts /\ stage["actor"] = "post"
        BY <1>7, <2>2, <3>1 DEF AnswerTold
      <3>3. /\ call["actor"].slot = AnswerSlot(part)
            /\ \A j \in 1 .. part - 1 : IsConfirmed(AnswerSlot(j))
        BY <1>1, <1>2, <3>2 DEF ActorWalk, Free
      <3>4. IsConfirmed(AnswerSlot(part))
        BY <1>1, <1>2, <3>2, <3>3 DEF DeliverySound, CallSound, IsConfirmed
      <3> QED
        BY <1>2, <1>4, <3>2, <3>3, <3>4
    <2> QED
      BY <2>1, <2>2
  <1> QED
    BY <1>5, <1>6, <1>7 DEF AnswerSound, AnswerInOrder, IsConfirmed, AnswerSlot

-----------------------------------------------------------------------------
(***************************************************************************)
(* What is recorded and reported.                                          *)
(***************************************************************************)

\* Which steps write what.
LEMMA ResultFrame ==
    ASSUME Next
    PROVE  /\ turn' = turn
           /\ files \subseteq files'
           /\ UNCHANGED <<inventory, image>> \/ RecordsImages
           /\ draft' = draft \/ SavesImages
           /\ request' = request \/ request' = "UNKNOWN" \/ FinishesDirect
           /\ event' = event \/ event' # "terminal" \/ EndsRun
           /\ artifact' = artifact \/ \E g \in Gets : Captures(g)
           /\ crashes' = crashes \/ Crash
  <1> USE DEF Next, Actor, Drive, Boot, Get, Arrives, Crash, Deliver,
         SavesImages, RecordsImages, SavesAnswer, FinishesDirect,
         RetriesOrGivesUp, ClosesApprovals, PostsAnswer, AnswerTold, PostsImage,
         ImageTold, EndsRun, Shows, ShowTold, Closes, CloseTold, ChecksGet,
         Captures, GetTold, RecoversText, RecoversArtifact, TextTold,
         RecoversImages, ImagesRecovered, Started, resultVars, getVars
  <1>1. turn' = turn /\ (crashes' = crashes \/ Crash)
    OBVIOUS
  <1>2. files \subseteq files'
    OBVIOUS
  <1>3. UNCHANGED <<inventory, image>> \/ RecordsImages
    OBVIOUS
  <1>4. draft' = draft \/ SavesImages
    OBVIOUS
  <1>5. request' = request \/ request' = "UNKNOWN" \/ FinishesDirect
    OBVIOUS
  <1>6. event' = event \/ event' # "terminal" \/ EndsRun
    BY DEF taskVars
  <1>7. artifact' = artifact \/ \E g \in Gets : Captures(g)
    OBVIOUS
  <1> QED
    BY <1>1, <1>2, <1>3, <1>4, <1>5, <1>6, <1>7

\* How the stages go on.
LEMMA StageFrame ==
    ASSUME DeliveryTypeOK, Next
    PROVE  /\ stage'["actor"] \in {"answer", "finish"} =>
                 stage'["actor"] = stage["actor"] \/ RecordsImages \/ SavesAnswer
           /\ stage["actor"] = "over" => stage'["actor"] = "over"
           /\ \A g \in Gets : stage'[g] = "sent" => stage[g] = "sent" \/ GetTold(g)
           /\ stage' \in [Callers -> Stages]
  <1>1. /\ stage \in [Callers -> Stages]
        /\ {"actor", "drive", "boot"} \subseteq Callers
        /\ "actor" \notin Gets /\ "boot" \notin Gets /\ "drive" \notin Gets
        /\ Gets \subseteq Callers
    BY StageType, PartsAreSlots
  <1> USE DEF Next, Actor, Drive, Boot, Get, Arrives, Crash, Deliver,
         SavesImages, RecordsImages, SavesAnswer, FinishesDirect,
         RetriesOrGivesUp, ClosesApprovals, PostsAnswer, AnswerTold, PostsImage,
         ImageTold, EndsRun, Shows, ShowTold, Closes, CloseTold, ChecksGet,
         Captures, GetTold, RecoversText, RecoversArtifact, TextTold,
         RecoversImages, ImagesRecovered, Started, taskVars, Moves, Retries, At
  <1>2. stage'["actor"] \in {"answer", "finish"} =>
           stage'["actor"] = stage["actor"] \/ RecordsImages \/ SavesAnswer
    BY <1>1
  <1>3. stage["actor"] = "over" => stage'["actor"] = "over"
    BY <1>1 DEF Walks
  <1>4. \A g \in Gets : stage'[g] = "sent" => stage[g] = "sent" \/ GetTold(g)
    BY <1>1
  <1>5. stage' \in [Callers -> Stages]
    BY <1>1 DEF Stages
  <1> QED
    BY <1>2, <1>3, <1>4, <1>5

LEMMA DirectDeliveryTypeStep ==
    ASSUME DirectDeliveryInv, Next
    PROVE  DeliveryTypeOK'
  <1>1. /\ DeliveryTypeOK /\ DeliverySound /\ Ownership /\ BootWalk /\ ActorWalk
    BY DEF DirectDeliveryInv, OutcomeTrue
  <1>2. DeliveryType'
    BY <1>1, DeliveryStep
  <1>3. stage' \in [Callers -> {"images", "record", "answer", "finish",
                                "close", "post", "retry", "show", "expire",
                                "check", "capture", "sent", "texts",
                                "artifacts", "over"}]
    BY <1>1, StageFrame DEF Stages
  <1>4. turn' \in Turn /\ crashes' \in 0 .. MaxCrashes
    BY <1>1, ResultFrame, PartsAreSlots DEF DeliveryTypeOK, Crash
  <1>5. files' \subseteq {Answer} \cup Media /\ draft' \in [1 .. Images -> ImageState]
    <2>1. \A I \in SUBSET (1 .. Images) : FilesOf(I) \subseteq Media
      BY SlotsApart DEF FilesOf
    <2>2. CASE SavesImages
      BY <1>1, <2>1, <2>2 DEF SavesImages, DeliveryTypeOK, ImageState
    <2>3. CASE ~SavesImages
      <3>1. draft' = draft
        BY <2>3, ResultFrame
      <3>2. \/ files' \subseteq files \cup {Answer}
            \/ \E g \in Gets : files' \subseteq files \cup {GetSlot(g)}
        BY <2>3 DEF Next, Actor, Drive, Boot, Get, Arrives, Crash, Deliver,
           RecordsImages, SavesAnswer, FinishesDirect,
           RetriesOrGivesUp, ClosesApprovals, PostsAnswer, AnswerTold, PostsImage,
           ImageTold, EndsRun, Shows, ShowTold, Closes, CloseTold, ChecksGet,
           Captures, GetTold, RecoversText, RecoversArtifact, TextTold,
           RecoversImages, ImagesRecovered, Started, resultVars
      <3> QED
        BY <1>1, <3>1, <3>2, SlotsApart DEF DeliveryTypeOK
    <2> QED
      BY <2>2, <2>3
  <1>6. /\ image' \in [1 .. Images -> ImageState]
        /\ inventory' \in {"NONE", "UNKNOWN", "COMPLETE"}
        /\ request' \in Terminal \cup {"RUNNING", "UNKNOWN"}
        /\ artifact' \in [Gets -> BOOLEAN]
    <2>1. FinishesDirect => request' \in Terminal \cup {"RUNNING", "UNKNOWN"}
      BY <1>1 DEF FinishesDirect, DeliveryTypeOK, Turn, Terminal
    <2>2. \A g \in Gets : Captures(g) => artifact' \in [Gets -> BOOLEAN]
      BY <1>1 DEF Captures, DeliveryTypeOK
    <2>3. RecordsImages => /\ image' \in [1 .. Images -> ImageState]
                           /\ inventory' \in {"NONE", "UNKNOWN", "COMPLETE"}
      BY <1>1 DEF RecordsImages, DeliveryTypeOK
    <2> QED
      BY <1>1, <2>1, <2>2, <2>3, ResultFrame DEF DeliveryTypeOK
  <1>7. part' \in 1 .. Parts + Images + 1
    <2>1. part \in Nat /\ Parts \in Nat /\ Images \in Nat
          /\ part \in 1 .. Parts + Images + 1
      BY <1>1, PartType DEF DeliveryTypeOK
    <2>2. \A p : ImageTold(p) /\ p \in {"actor", "boot"} => part - Parts \in 1 .. Images
      <3>1. ImageTold("actor") => part - Parts \in 1 .. Images
        BY <1>1, <2>1 DEF ImageTold, ActorWalk, Free, ImageAt
      <3>2. ImageTold("boot") => part - Parts \in 1 .. Images
        BY <1>1, <2>1 DEF ImageTold, BootWalk, Free, ImageAt
      <3> QED
        BY <3>1, <3>2
    <2>3. \/ part' = part \/ part' = Parts + 1
          \/ part' = part + 1 /\ part <= Parts + Images
      BY <2>1, <2>2 DEF Next, Actor, Drive, Boot, Get, Arrives, Crash, Deliver,
         SavesImages, RecordsImages, SavesAnswer, FinishesDirect,
         RetriesOrGivesUp, ClosesApprovals, PostsAnswer, AnswerTold, PostsImage,
         ImageTold, EndsRun, Shows, ShowTold, Closes, CloseTold, ChecksGet,
         Captures, GetTold, RecoversText, RecoversArtifact, TextTold,
         RecoversImages, ImagesRecovered, Started, taskVars, ImageAt
    <2> QED
      BY <2>1, <2>3
  <1>8. answered' \in {"none", "yes", "no", "error"}
    <2>1. call["actor"].at = "told" => call["actor"].told \in {"none", "yes", "no", "error"}
      BY <1>1, PartsAreSlots DEF DeliveryTypeOK, DeliveryType, Call
    <2>2. answered' = answered \/ PostsAnswer \/ AnswerTold
      BY DEF Next, Actor, Drive, Boot, Get, Arrives, Crash, Deliver,
         SavesImages, RecordsImages, SavesAnswer, FinishesDirect,
         RetriesOrGivesUp, ClosesApprovals, PostsImage,
         ImageTold, EndsRun, Shows, ShowTold, Closes, CloseTold, ChecksGet,
         Captures, GetTold, RecoversText, RecoversArtifact, TextTold,
         RecoversImages, ImagesRecovered, Started, taskVars
    <2> QED
      BY <1>1, <2>1, <2>2 DEF DeliveryTypeOK, PostsAnswer, AnswerTold
  <1>9. event' \in {"none", "terminal", "pending", "unknown"}
    BY <1>1 DEF DeliveryTypeOK, Next, Actor, Drive, Boot, Get, Arrives, Crash, Deliver,
       SavesImages, RecordsImages, SavesAnswer, FinishesDirect,
       RetriesOrGivesUp, ClosesApprovals, PostsAnswer, AnswerTold, PostsImage,
       ImageTold, EndsRun, Shows, ShowTold, Closes, CloseTold, ChecksGet,
       Captures, GetTold, RecoversText, RecoversArtifact, TextTold,
       RecoversImages, ImagesRecovered, Started, taskVars
  <1>10. todo' \subseteq Slots
    BY <1>1, SlotsApart DEF DeliveryTypeOK, Next, Actor, Drive, Boot, Get, Arrives,
       Crash, Deliver, SavesImages, RecordsImages, SavesAnswer, FinishesDirect,
       RetriesOrGivesUp, ClosesApprovals, PostsAnswer, AnswerTold, PostsImage,
       ImageTold, EndsRun, Shows, ShowTold, Closes, CloseTold, ChecksGet,
       Captures, GetTold, RecoversText, RecoversArtifact, TextTold,
       RecoversImages, ImagesRecovered, Started, taskVars
  <1> QED
    BY <1>2, <1>3, <1>4, <1>5, <1>6, <1>7, <1>8, <1>9, <1>10 DEF DeliveryTypeOK

LEMMA ResultStep ==
    ASSUME DirectDeliveryInv, Next
    PROVE  ResultSound'
  <1>1. /\ DeliveryTypeOK /\ DeliverySound /\ Ownership /\ BootWalk /\ ActorWalk
        /\ DeliveryType /\ AnswerSound /\ ResultSound /\ OutcomeTrue
    BY DEF DirectDeliveryInv, OutcomeTrue, DeliveryTypeOK
  <1>2. /\ call \in [Callers -> Call] /\ {"actor", "drive", "boot"} \subseteq Callers
        /\ "actor" \notin Gets /\ "boot" \notin Gets /\ "drive" \notin Gets
        /\ Gets \subseteq Callers /\ stage \in [Callers -> Stages]
    BY <1>1, StageType, PartsAreSlots DEF DeliveryType
  <1>3. stage'["actor"] = "finish" /\ turn'.status = "COMPLETED" => Answer \in files'
    <2>1. stage'["actor"] # "finish" \/ stage["actor"] = "finish" \/ SavesAnswer
      BY <1>1, <1>2, StageFrame DEF RecordsImages, Moves, Retries
    <2>2. SavesAnswer /\ stage'["actor"] = "finish" /\ turn.status = "COMPLETED" =>
             Answer \in files'
      BY <1>2 DEF SavesAnswer, Moves, Retries
    <2> QED
      BY <1>1, <2>1, <2>2, ResultFrame DEF ResultSound
  <1>4. stage'["actor"] \in {"answer", "finish"} => inventory' # "NONE"
    <2>1. CASE RecordsImages
      BY <1>2, <2>1 DEF RecordsImages, Moves, Retries
    <2>2. CASE ~RecordsImages
      <3>1. inventory' = inventory
        BY <2>2, ResultFrame
      <3>2. SavesAnswer => stage["actor"] = "answer"
        BY DEF SavesAnswer, At
      <3> QED
        BY <1>1, <2>2, <3>1, <3>2, StageFrame DEF ResultSound
    <2> QED
      BY <2>1, <2>2
  <1>5. ASSUME NEW i \in 1 .. Images, draft'[i] = "READY"
        PROVE  ImageSlot(i) \in files'
    <2>1. CASE draft' = draft
      BY <1>1, <1>5, <2>1, ResultFrame DEF ResultSound
    <2>2. CASE draft' # draft
      <3> DEFINE made == {j \in 1 .. Images : turn.items[j] = "done"}
                 State(j, saved) == CASE j \in saved -> "READY"
                                      [] turn.items[j] = "failed" -> "FAILED"
                                      [] OTHER -> "UNKNOWN"
      <3>1. PICK saved \in SUBSET (1 .. Images) :
               /\ files' = files \cup FilesOf(saved)
               /\ draft' = [j \in 1 .. Images |-> State(j, saved)]
        BY <2>2, ResultFrame DEF SavesImages
      <3>2. i \in saved
        BY <1>5, <3>1
      <3> QED
        BY <3>1, <3>2 DEF FilesOf
    <2> QED
      BY <2>1, <2>2
  <1>6. event' = "terminal" => stage'["actor"] = "over"
    <2>1. EndsRun => stage'["actor"] = "over"
      BY <1>2 DEF EndsRun, Moves
    <2> QED
      BY <1>1, <2>1, ResultFrame, StageFrame DEF ResultSound
  <1>7. ASSUME NEW g \in Gets, stage'[g] = "sent"
        PROVE  IsConfirmed(GetSlot(g))'
    <2>1. GetSlot(g) \in Slots /\ GetSlot(g) \in Media
      BY SlotsApart
    <2>2. CASE stage[g] = "sent"
      BY <1>1, <2>1, <2>2, RowsKept DEF ResultSound, GetSlot
    <2>3. CASE GetTold(g)
      <3>1. call[g].at = "told" /\ call[g].told = "yes" /\ row' = row
        BY <1>2, <1>7, <2>3 DEF GetTold, Moves
      <3>2. call[g].slot = GetSlot(g)
        BY <1>1, <1>2, <3>1 DEF Ownership, Reach, Free
      <3> QED
        BY <1>1, <1>2, <3>1, <3>2 DEF DeliverySound, CallSound, IsConfirmed, GetSlot
    <2> QED
      BY <1>1, <1>7, <2>2, <2>3, StageFrame
  <1>8. ASSUME NEW g \in Gets, NEW q \in Callers, ~Free(q)', call'[q].slot = GetSlot(g)
        PROVE  artifact'[g]
    <2>1. artifact[g] => artifact'[g]
      BY <1>1, ResultFrame DEF Captures, DeliveryTypeOK
    <2>2. CASE ~Free(q) /\ call'[q].slot = call[q].slot
      BY <1>1, <1>8, <2>1, <2>2 DEF ResultSound
    <2>3. CASE Begins(q) /\ call' # call
      <3>1. PICK c : /\ call' = [call EXCEPT ![q] = c]
                     /\ c.slot \in GetSlots =>
                           /\ q \in Gets => c.slot = GetSlot(q) /\ artifact'[q]
                           /\ q = "boot" => c.slot \in todo
        BY <1>1, <2>3, BeginsWants
      <3>2. c.slot = GetSlot(g) /\ c.slot \in GetSlots
        BY <1>2, <1>8, <3>1 DEF GetSlots
      <3>3. call'[q].slot \in Reach(q)
        BY <1>1, <1>8, OwnershipStep DEF Ownership
      <3>4. q \in Gets \/ q = "boot"
        <4>1. \A i : GetSlot(g) # AnswerSlot(i) /\ GetSlot(g) # ImageSlot(i)
                     /\ GetSlot(g) # CardSlot
          BY SlotsApart
        <4> QED
          BY <1>8, <3>3, <4>1, PartsAreSlots DEF Reach, AnswerSlots, ImageSlots
      <3>5. CASE q \in Gets
        BY <3>1, <3>2, <3>5, SlotsApart
      <3>6. CASE q = "boot"
        <4>1. GetSlot(g) \in todo /\ stage["boot"] \in {"texts", "artifacts", "post"}
          BY <1>2, <2>3, <3>1, <3>2, <3>6
             DEF Begins, PostsImage, RecoversText, RecoversArtifact, Walks, At
        <4>2. row[GetSlot(g)].state # "NONE"
          BY <1>1, <4>1, SlotsApart DEF BootWalk
        <4> QED
          BY <1>1, <2>1, <4>2 DEF OutcomeTrue
      <3> QED
        BY <3>4, <3>5, <3>6
    <2> QED
      BY <1>1, <1>8, <2>2, <2>3, CallsKept
  <1> QED
    BY <1>3, <1>4, <1>5, <1>6, <1>7, <1>8 DEF ResultSound, GetSlot, ImageSlot, Answer

LEMMA OutcomeStep ==
    ASSUME DirectDeliveryInv, Next
    PROVE  OutcomeTrue'
  <1>1. /\ DeliveryTypeOK /\ DeliverySound /\ Ownership /\ BootWalk /\ ActorWalk
        /\ DeliveryType /\ AnswerSound /\ ResultSound /\ OutcomeTrue
    BY DEF DirectDeliveryInv, OutcomeTrue, DeliveryTypeOK
  <1>2. DeliveryTypeOK' /\ ResultSound' /\ DeliverySound'
    BY <1>1, DirectDeliveryTypeStep, ResultStep, DeliveryStep
  <1>3. request' = "COMPLETED" => Answer \in files'
    <2>1. FinishesDirect => stage["actor"] = "finish" /\ request' \in {turn.status, request}
      BY DEF FinishesDirect, At
    <2> QED
      BY <1>1, <2>1, ResultFrame DEF OutcomeTrue, ResultSound
  <1>4. request' \in Terminal => inventory' # "NONE"
    <2>1. inventory # "NONE" => inventory' # "NONE"
      BY ResultFrame DEF RecordsImages
    <2>2. FinishesDirect => stage["actor"] = "finish"
      BY DEF FinishesDirect, At
    <2> QED
      BY <1>1, <2>1, <2>2, ResultFrame DEF OutcomeTrue, ResultSound, Terminal
  <1>5. ASSUME NEW i \in 1 .. Images, image'[i] = "READY"
        PROVE  /\ ImageSlot(i) \in files'
               /\ event' = "terminal" => row'[ImageSlot(i)].state # "NONE"
    <2>1. ImageSlot(i) \in Slots
      BY SlotsApart
    <2>2. ImageSlot(i) \in files'
      BY <1>1, <1>5, ResultFrame DEF RecordsImages, OutcomeTrue, ResultSound
    <2>3. CASE event' = "terminal" /\ EndsRun
      <3>1. /\ stage["actor"] = "post" /\ ImageAt > Images /\ image' = image
            /\ row' = row
        BY <2>3 DEF EndsRun, At, resultVars, deliveryVars
      <3>2. part > Parts /\ i < ImageAt
        BY <1>1, <3>1, PartType DEF ImageAt
      <3>3. Tried(i)
        BY <1>1, <3>1, <3>2, PartType DEF ActorWalk
      <3> QED
        BY <1>5, <2>2, <3>1, <3>3 DEF Tried
    <2>4. CASE event' = "terminal" /\ ~EndsRun
      <3>1. event = "terminal" /\ stage["actor"] = "over"
        BY <1>1, <2>4, ResultFrame DEF ResultSound
      <3>2. image' = image
        BY <3>1, ResultFrame DEF RecordsImages, At
      <3> QED
        BY <1>1, <1>5, <2>1, <2>2, <3>1, <3>2, RowsKept DEF OutcomeTrue
    <2> QED
      BY <2>2, <2>3, <2>4
  <1>6. ASSUME NEW g \in Gets
        PROVE  /\ row'[GetSlot(g)].state # "NONE" => artifact'[g]
               /\ artifact'[g] => GetSlot(g) \in files'
               /\ stage'[g] = "sent" => posts'[GetSlot(g)] = 1
    <2>1. GetSlot(g) \in Slots
      BY SlotsApart
    <2>2. artifact[g] => artifact'[g]
      BY <1>1, ResultFrame DEF Captures, DeliveryTypeOK
    <2>3. row'[GetSlot(g)].state # "NONE" => artifact'[g]
      <3>1. CASE row[GetSlot(g)].state # "NONE"
        BY <1>1, <2>2, <3>1 DEF OutcomeTrue
      <3>2. CASE row'[GetSlot(g)] # row[GetSlot(g)]
        <4>1. PICK p \in Callers, s \in Slots :
                 /\ s = call[p].slot /\ ~Free(p)
                 /\ \A u \in Slots \ {s} : row'[u] = row[u]
          BY <1>1, <3>2, RowsWritten
        <4> QED
          BY <1>1, <2>1, <2>2, <3>2, <4>1 DEF ResultSound
      <3> QED
        BY <3>1, <3>2
    <2>4. artifact'[g] => GetSlot(g) \in files'
      <3>1. ASSUME NEW h \in Gets, Captures(h)
            PROVE  artifact'[g] => artifact[g] \/ GetSlot(g) \in files'
        BY <1>1, <3>1 DEF Captures, DeliveryTypeOK
      <3> QED
        BY <1>1, <3>1, ResultFrame DEF OutcomeTrue
    <2>5. stage'[g] = "sent" => posts'[GetSlot(g)] = 1
      BY <1>2, <2>1 DEF ResultSound, DeliverySound, SlotSound, IsConfirmed, GetSlot
    <2> QED
      BY <2>3, <2>4, <2>5
  <1> QED
    BY <1>2, <1>3, <1>4, <1>5, <1>6 DEF OutcomeTrue, GetSlot, ImageSlot, Answer

LEMMA DirectDeliveryInvInit == Init => DirectDeliveryInv
  <1> SUFFICES ASSUME Init
               PROVE  DirectDeliveryInv
    OBVIOUS
  <1> USE SlotsType, MaxFaultsType, PartsAreSlots, TurnsType
  <1>1. /\ row = [s \in Slots |-> NoRow] /\ posts = [s \in Slots |-> 0]
        /\ shown = [s \in Slots |-> None] /\ late = {}
        /\ call = [p \in Callers |-> NoCall] /\ faults = 0
    BY DEF Init, DeliveryInit
  <1>2. \A p \in Callers : Free(p)
    BY <1>1 DEF Free, NoCall
  <1>3. /\ stage["actor"] = "images" /\ stage["boot"] = "over"
        /\ \A g \in Gets : stage[g] = "check"
        /\ stage \in [Callers -> {"images", "show", "over", "check"}]
    BY DEF Init
  <1>4. DeliveryType
    BY <1>1 DEF DeliveryType, Row, NoRow, Call, NoCall
  <1>5. DeliveryTypeOK
    BY <1>3, <1>4 DEF DeliveryTypeOK, Init, ImageState
  <1>6. OutcomeTrue
    BY <1>1, <1>3, <1>5, SlotsApart DEF OutcomeTrue, Init, Terminal, NoRow
  <1>7. DeliverySound
    BY <1>1 DEF DeliverySound, SlotSound, CallSound, NoRow, NoCall, Quiet
  <1>8. Ownership
    BY <1>2, <1>3 DEF Ownership
  <1>9. ActorWalk /\ BootWalk
    BY <1>2, <1>3 DEF ActorWalk, BootWalk, Preparing, Init
  <1>10. AnswerSound
    BY <1>1, <1>2, SlotsApart DEF AnswerSound, AnswerInOrder, OnlySaved, NoRow, Init
  <1>11. ResultSound
    BY <1>2, <1>3 DEF ResultSound, Init
  <1> QED
    BY <1>6, <1>7, <1>8, <1>9, <1>10, <1>11 DEF DirectDeliveryInv

LEMMA DirectDeliveryInvStep == DirectDeliveryInv /\ [Next]_vars => DirectDeliveryInv'
  <1> SUFFICES ASSUME DirectDeliveryInv, [Next]_vars
               PROVE  DirectDeliveryInv'
    OBVIOUS
  <1>1. CASE Next
    <2>1. /\ DeliveryTypeOK /\ DeliverySound /\ Ownership /\ BootWalk
      BY DEF DirectDeliveryInv, OutcomeTrue
    <2> QED
      BY <1>1, <2>1, DeliveryStep, OwnershipStep, ActorWalkStep, BootWalkStep,
         AnswerStep, ResultStep, OutcomeStep DEF DirectDeliveryInv
  <1>2. CASE UNCHANGED vars
    BY <1>2 DEF vars, deliveryVars, resultVars, getVars, taskVars,
       DirectDeliveryInv, OutcomeTrue, DeliveryTypeOK, DeliveryType,
       DeliverySound, SlotSound, CallSound, Arrived, OnlyLate, Quiet, Pending, Unsent,
       Ownership, Free, ActorWalk, BootWalk, Tried, ImageAt, IsConfirmed,
       AnswerSound, AnswerInOrder, OnlySaved, ResultSound
  <1> QED
    BY <1>1, <1>2

-----------------------------------------------------------------------------
(***************************************************************************)
(* The theorems.                                                           *)
(***************************************************************************)

\* What the records say of Discord, who may call for which part and how far
\* the walks of the actor and of start-up are hold in every reachable state.
THEOREM DirectDeliveryInvariant == Spec => []DirectDeliveryInv
  <1>1. Init => DirectDeliveryInv
    BY DirectDeliveryInvInit
  <1>2. DirectDeliveryInv /\ [Next]_vars => DirectDeliveryInv'
    BY DirectDeliveryInvStep
  <1> QED
    BY <1>1, <1>2, PTL DEF Spec

\* The posts of a slot that may still arrive.
LatePosts(s) == {l \in late : l.slot = s /\ l.post}

LEMMA LatePostsFew ==
    ASSUME DeliveryType, DeliverySound, NEW s \in Slots
    PROVE  /\ posts[s] = 1 => LatePosts(s) = {}
           /\ posts[s] = 0 => \E x : LatePosts(s) \subseteq {x}
           /\ posts[s] \in {0, 1}
  <1>1. SlotSound(s)
    BY DEF DeliverySound
  <1>2. posts[s] = 0 /\ OnlyLate(s, TRUE) => \E x : LatePosts(s) \subseteq {x}
    <2>1. OnlyLate(s, TRUE) =>
            LatePosts(s) \subseteq {[slot |-> s, post |-> TRUE,
                                     content |-> row[s].pending]}
      BY DEF OnlyLate, LatePosts
    <2> QED
      BY <2>1
  <1>3. Quiet(s) => LatePosts(s) = {}
    BY DEF Quiet, LatePosts
  <1>4. OnlyLate(s, FALSE) => LatePosts(s) = {}
    <2>1. ASSUME OnlyLate(s, FALSE), NEW l \in late, l.slot = s
          PROVE  l.post = FALSE
      <3>1. l = [slot |-> s, post |-> FALSE, content |-> row[s].pending]
        BY <2>1 DEF OnlyLate
      <3> QED
        BY <3>1
    <2> QED
      BY <2>1 DEF LatePosts
  <1>5. \/ row[s].state = "NONE" \/ row[s].state = "POST_PENDING"
        \/ row[s].state = "PATCH_PENDING" \/ row[s].state = "CONFIRMED"
    BY RowShape
  <1>6. \/ posts[s] = 0 /\ (Quiet(s) \/ OnlyLate(s, TRUE))
        \/ posts[s] = 1 /\ (Quiet(s) \/ OnlyLate(s, FALSE))
    BY <1>1, <1>5 DEF SlotSound, Arrived
  <1>7. ASSUME LatePosts(s) = {}
        PROVE  \E x : LatePosts(s) \subseteq {x}
    <2>1. LatePosts(s) \subseteq {s}
      BY <1>7
    <2> QED
      BY <2>1
  <1>8. CASE posts[s] = 0 /\ (Quiet(s) \/ OnlyLate(s, TRUE))
    <2>1. \E x : LatePosts(s) \subseteq {x}
      BY <1>8, <1>2, <1>3, <1>7, Zenon
    <2>2. posts[s] # 1 /\ posts[s] \in {0, 1}
      BY <1>8
    <2> QED
      BY <2>1, <2>2, Zenon
  <1>9. CASE posts[s] = 1 /\ (Quiet(s) \/ OnlyLate(s, FALSE))
    BY <1>9, <1>3, <1>4
  <1> QED
    BY <1>6, <1>8, <1>9

LEMMA PostedOnceHolds ==
    ASSUME DeliveryType, DeliverySound
    PROVE  PostedOnce
  <1> SUFFICES ASSUME NEW s \in Slots
               PROVE  posts[s] + Cardinality(LatePosts(s)) <= 1
    BY DEF PostedOnce, LatePosts
  <1>1. CASE posts[s] = 1
    <2>1. Cardinality(LatePosts(s)) = 0
      BY <1>1, LatePostsFew, FS_EmptySet
    <2> QED
      BY <1>1, <2>1
  <1>2. CASE posts[s] = 0
    <2>1. PICK x : LatePosts(s) \subseteq {x}
      BY <1>2, LatePostsFew
    <2>2. IsFiniteSet({x}) /\ Cardinality({x}) = 1
      BY FS_Singleton
    <2>3. IsFiniteSet(LatePosts(s)) /\ Cardinality(LatePosts(s)) <= 1
      BY <2>1, <2>2, FS_Subset
    <2>4. Cardinality(LatePosts(s)) \in Nat
      BY <2>3, FS_CardinalityType
    <2> QED
      BY <1>2, <2>3, <2>4
  <1> QED
    BY <1>1, <1>2, LatePostsFew

\* Discord never gets a part twice, whatever is lost or late, however often
\* the process restarts and the delivery is called again (src/delivery.rs).
THEOREM PartsPostedOnce == Spec => []PostedOnce
  <1>1. DirectDeliveryInv => PostedOnce
    BY PostedOnceHolds DEF DirectDeliveryInv, OutcomeTrue, DeliveryTypeOK
  <1> QED
    BY <1>1, DirectDeliveryInvariant, PTL

\* A confirmed version is what the message shows, and no request is under way
\* that could still replace it (text and reconcile, src/delivery.rs).
THEOREM ConfirmedMeansShown == Spec => []ConfirmedIsShown
  <1>1. DirectDeliveryInv => ConfirmedIsShown
    <2> SUFFICES ASSUME DirectDeliveryInv, NEW s \in Slots,
                        row[s].state = "CONFIRMED"
                 PROVE  /\ posts[s] = 1 /\ shown[s] = row[s].confirmed
                        /\ \A l \in late : l.slot # s
      BY DEF ConfirmedIsShown
    <2>1. SlotSound(s)
      BY DEF DirectDeliveryInv, DeliverySound
    <2> QED
      BY <2>1 DEF SlotSound, Quiet
  <1> QED
    BY <1>1, DirectDeliveryInvariant, PTL

\* The parts of an answer appear in order, and an answer reported as
\* delivered is confirmed part by part (finish_and_deliver,
\* src/direct_application.rs).
THEOREM AnswersInOrder == Spec => []AnswerInOrder
  <1>1. DirectDeliveryInv => AnswerInOrder
    BY DEF DirectDeliveryInv, AnswerSound
  <1> QED
    BY <1>1, DirectDeliveryInvariant, PTL

\* A completed request has its answer and its inventory saved, no record
\* speaks of a file that is not there, a run that ended for good has tried
\* every image it kept, and a file called sent is in Discord
\* (confirm_terminal, src/direct_run.rs; src/direct_delivery.rs).
THEOREM OutcomesTrue == Spec => []OutcomeTrue
  <1>1. DirectDeliveryInv => OutcomeTrue
    BY DEF DirectDeliveryInv
  <1> QED
    BY <1>1, DirectDeliveryInvariant, PTL


\* A complete inventory knows of every image what became of it, and so does
\* the draft of a turn that could be read.
InventoryWhole ==
    /\ stage["actor"] = "record" /\ turn.legible =>
          \A i \in 1 .. Images : draft[i] # "NONE"
    /\ inventory = "COMPLETE" => \A i \in 1 .. Images : Settled(i)

\* Only the actor prepares what is recorded, and only at its stage.
LEMMA RecordFrame ==
    ASSUME DeliveryTypeOK, Next
    PROVE  stage'["actor"] = "record" => stage["actor"] = "record" \/ SavesImages
  <1>1. /\ stage \in [Callers -> Stages]
        /\ {"actor", "drive", "boot"} \subseteq Callers
        /\ "actor" \notin Gets
    BY StageType, PartsAreSlots
  <1> QED
    BY <1>1 DEF Next, Actor, Drive, Boot, Get, Arrives, Crash, Deliver,
       RecordsImages, SavesAnswer, FinishesDirect, RetriesOrGivesUp,
       ClosesApprovals, PostsAnswer, AnswerTold, PostsImage, ImageTold,
       EndsRun, Shows, ShowTold, Closes, CloseTold, ChecksGet, Captures,
       GetTold, RecoversText, RecoversArtifact, TextTold, RecoversImages,
       ImagesRecovered, Started, taskVars, Moves, Retries

LEMMA RecordsKept ==
    ASSUME DeliveryTypeOK, InventoryWhole, RecordsImages
    PROVE  /\ inventory' = "COMPLETE" => (\A i \in 1 .. Images : Settled(i))'
           /\ inventory = "COMPLETE" => inventory' = "COMPLETE" /\ image' = image
           /\ \A i \in 1 .. Images : Settled(i) => image'[i] = image[i]
  <1>1. /\ draft \in [1 .. Images -> ImageState] /\ image \in [1 .. Images -> ImageState]
    BY DEF DeliveryTypeOK
  <1>2. CASE turn.legible /\ Agrees /\ image' = draft
             /\ inventory' = IF \E i \in 1 .. Images : draft[i] = "UNKNOWN"
                             THEN "UNKNOWN" ELSE "COMPLETE"
    <2>1. \A i \in 1 .. Images : draft[i] # "NONE"
      BY <1>2 DEF InventoryWhole, RecordsImages, At
    <2>2. inventory' = "COMPLETE" => (\A i \in 1 .. Images : Settled(i))'
      BY <1>1, <1>2, <2>1 DEF Settled, ImageState
    <2>3. \A i \in 1 .. Images : Settled(i) => image'[i] = image[i]
      BY <1>2 DEF Agrees
    <2>4. ASSUME inventory = "COMPLETE"
          PROVE  inventory' = "COMPLETE" /\ image' = image
      <3>1. \A i \in 1 .. Images : draft[i] # "UNKNOWN" /\ draft[i] = image[i]
        BY <1>2, <2>4 DEF Agrees, InventoryWhole
      <3>2. inventory' = "COMPLETE"
        BY <1>2, <3>1
      <3>3. draft = image
        <4>1. /\ draft = [i \in 1 .. Images |-> draft[i]]
              /\ image = [i \in 1 .. Images |-> image[i]]
          BY <1>1
        <4>2. [i \in 1 .. Images |-> draft[i]] = [i \in 1 .. Images |-> image[i]]
          BY <3>1, Zenon
        <4> QED
          BY <4>1, <4>2
      <3> QED
        BY <1>2, <3>2, <3>3
    <2> QED
      BY <2>2, <2>3, <2>4
  <1>3. CASE /\ image' = image
             /\ \/ inventory' = inventory
                \/ inventory # "COMPLETE" /\ inventory' = "UNKNOWN"
    BY <1>3 DEF InventoryWhole, Settled
  <1>4. CASE ~turn.legible /\ image' = image
             /\ inventory' = IF inventory = "NONE" THEN "UNKNOWN" ELSE inventory
    <2>1. \/ inventory' = inventory
          \/ inventory # "COMPLETE" /\ inventory' = "UNKNOWN"
      BY <1>4
    <2> QED
      BY <1>3, <1>4, <2>1
  <1>5. \/ /\ turn.legible /\ Agrees /\ image' = draft
           /\ inventory' = IF \E i \in 1 .. Images : draft[i] = "UNKNOWN"
                           THEN "UNKNOWN" ELSE "COMPLETE"
        \/ /\ ~turn.legible /\ image' = image
           /\ inventory' = IF inventory = "NONE" THEN "UNKNOWN" ELSE inventory
        \/ image' = image /\ inventory' = inventory
    BY DEF RecordsImages
  <1> QED
    BY <1>2, <1>3, <1>4, <1>5

LEMMA InventoryWholeStep ==
    ASSUME DirectDeliveryInv, InventoryWhole, [Next]_vars
    PROVE  InventoryWhole'
  <1>1. DeliveryTypeOK
    BY DEF DirectDeliveryInv, OutcomeTrue
  <1>2. CASE Next
    <2>1. inventory' = "COMPLETE" => (\A i \in 1 .. Images : Settled(i))'
      <3>1. CASE UNCHANGED <<inventory, image>>
        BY <3>1 DEF InventoryWhole, Settled
      <3> QED
        BY <1>1, <1>2, <3>1, RecordsKept, ResultFrame
    <2>2. ASSUME stage'["actor"] = "record", turn'.legible
          PROVE  \A i \in 1 .. Images : draft'[i] # "NONE"
      <3>1. turn' = turn /\ (draft' = draft \/ SavesImages)
        BY <1>2, ResultFrame
      <3>2. CASE SavesImages
        BY <2>2, <3>1, <3>2 DEF SavesImages
      <3>3. CASE ~SavesImages
        BY <1>1, <1>2, <2>2, <3>1, <3>3, RecordFrame DEF InventoryWhole
      <3> QED
        BY <3>2, <3>3
    <2> QED
      BY <2>1, <2>2 DEF InventoryWhole
  <1>3. CASE UNCHANGED vars
    BY <1>3 DEF vars, resultVars, taskVars, InventoryWhole, Settled
  <1> QED
    BY <1>2, <1>3

\* A complete inventory, and an image once kept or known to have failed, are
\* never changed by a later reading of the same turn (record_direct_images,
\* src/direct_image_store.rs): the action part of KeptImagesPosted.
THEOREM SettledImagesStay ==
    Spec => [][/\ inventory = "COMPLETE" => inventory' = "COMPLETE" /\ image' = image
               /\ \A i \in 1 .. Images : Settled(i) => image'[i] = image[i]]_vars
  <1> DEFINE Stays ==
        /\ inventory = "COMPLETE" => inventory' = "COMPLETE" /\ image' = image
        /\ \A i \in 1 .. Images : Settled(i) => image'[i] = image[i]
  <1>1. Init => InventoryWhole
    BY PartsAreSlots DEF Init, InventoryWhole
  <1>2. DirectDeliveryInv /\ InventoryWhole /\ [Next]_vars => InventoryWhole'
    BY InventoryWholeStep
  <1>3. DirectDeliveryInv /\ InventoryWhole /\ [Next]_vars => [Stays]_vars
    <2> SUFFICES ASSUME DirectDeliveryInv, InventoryWhole, Next
                 PROVE  Stays
      OBVIOUS
    <2>1. DeliveryTypeOK
      BY DEF DirectDeliveryInv, OutcomeTrue
    <2>2. UNCHANGED <<inventory, image>> \/ RecordsImages
      BY ResultFrame
    <2> QED
      BY <2>1, <2>2, RecordsKept
  <1> QED
    BY <1>1, <1>2, <1>3, DirectDeliveryInvariant, PTL DEF Spec

=============================================================================
