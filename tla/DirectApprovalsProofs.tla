------------------------ MODULE DirectApprovalsProofs ------------------------
(***************************************************************************)
(* Proofs about the approvals of a running turn, for any number of         *)
(* requests, tools, workers, commands and faults, and any capacity of the  *)
(* channel to the coordinator.                                             *)
(***************************************************************************)
EXTENDS DirectApprovals, SequenceTheorems, TLAPS

-----------------------------------------------------------------------------
(***************************************************************************)
(* The invariant.                                                          *)
(***************************************************************************)

\* The events of a request, and whether one is in a queue.
Ev(k, r) == [kind |-> k, rpc |-> r]
In(q, e) == \E i \in 1 .. Len(q) : q[i] = e
Once(q, e) == \A i, j \in 1 .. Len(q) : q[i] = e /\ q[j] = e => i = j
Before(q, d, e) == \A i, j \in 1 .. Len(q) : q[i] = d /\ q[j] = e => i < j

\* What the child has told of request r, which it takes to be at "at" and of
\* kind k: it is asked once, after its call started and before it is over.
QueueSound(q, r, at, k) ==
    /\ at = "no" => k = "none" /\ ~In(q, Ev("started", r))
    /\ at = "started" => k \in Tools
    /\ at \in {"no", "started"} => ~In(q, Ev("request", r))
    /\ at \in {"no", "started", "waiting"} =>
          ~In(q, Ev("resolved", r)) /\ ~In(q, Ev("completed", r))
    /\ Once(q, Ev("request", r))
    /\ Before(q, Ev("started", r), Ev("request", r))
    /\ Before(q, Ev("request", r), Ev("completed", r))
InboxSound == \A r \in Rpcs : QueueSound(inbox, r, asked[r], kind[r])

\* A request the actor has not heard has left no trace.
Unheard(r) == asked[r] \in {"no", "started"} \/ In(inbox, Ev("request", r))
RowSound(r) ==
    /\ sent[r] <= 1
    /\ Unheard(r) => interaction[r] = "NONE" /\ sent[r] = 0 /\ evidence[r] = None
    /\ kind[r] = "unknown" => interaction[r] = "NONE"
    /\ kind[r] # "unknown" =>
          /\ interaction[r] \in {"NONE", "PENDING", "UNAVAILABLE"} => sent[r] = 0
          /\ interaction[r] = "SENT" => sent[r] = 1
          /\ interaction[r] = "RESOLVED" => asked[r] \in {"answered", "withdrawn"}

\* What the actor is in the middle of.
TaskSound ==
    /\ actor # "serving" => task = NoTask
    /\ task.step \in {"begin", "write", "record"} => task.rpc \in Rpcs
    /\ task.step = "begin" =>
          interaction[task.rpc] = "PENDING" /\ task.what = "grant"
    /\ task.step \in {"write", "record"} => interaction[task.rpc] = "SENDING"
    /\ task.step = "write" => sent[task.rpc] = 0
    /\ task.step \in {"begin", "write"} => ~task.ok
    /\ task.step = "record" /\ task.ok => sent[task.rpc] = 1

\* The run and its actor, and the run and its approvals.
LifeSound ==
    /\ actor = "serving" => request \in Active
    /\ actor = "confirmed" => request = "TERMINAL"
    /\ drive # "receiving" => actor \notin {"serving", "confirmed"}
    /\ request \in Active =>
          (request = "APPROVAL_REQUIRED" <=> InState(Open) # {})
    /\ \A w \in Workers :
          worker[w] # Idle => worker[w].rpc \in Rpcs /\ worker[w].action \in Actions

\* A card, a press and a command know no generation the actor does not; of
\* the current one they know only pages that were shown.
Accepts == {"accept", "run"}
Informed ==
    /\ \A r \in Rpcs :
          /\ shown[r] \subseteq Pages(r)
          /\ cards[r].generation <= generation
          /\ cards[r].generation = generation => 1 .. cards[r].viewed \subseteq shown[r]
    /\ \A w \in Workers :
          worker[w] # Idle =>
             /\ worker[w].generation <= generation
             /\ worker[w].generation = generation =>
                   1 .. worker[w].viewed \subseteq shown[worker[w].rpc]
    /\ \A i \in 1 .. Len(commands) :
          LET c == commands[i]
          IN  c.kind = "approval" =>
                 /\ c.generation <= generation
                 /\ c.generation = generation /\ c.action \in Accepts =>
                       Pages(c.rpc) \subseteq shown[c.rpc]
    /\ \A i \in 1 .. Len(events) :
          events[i].kind = "approval" => events[i].generation <= generation

\* A call in progress is there when its request is heard, so a request is
\* matched with its own call or with none; and what is granted was allowed.
ForRun(r) == r \in Rpcs /\ kind[r] \in Tools /\ evidence[r] = r
Scoped ==
    /\ \A r \in Rpcs :
          /\ /\ kind[r] \in Tools /\ Unheard(r) /\ asked[r] # "no"
             /\ ~In(inbox, Ev("started", r))
             => r \in items
          /\ evidence[r] \in {None, r}
    /\ \A t \in Tools : grants[t] # None => <<t, grants[t]>> \in mandate
    /\ \A w \in Workers : worker[w].action = "run" => ForRun(worker[w].rpc)
    /\ \A i \in 1 .. Len(commands) :
          LET c == commands[i]
          IN  c.kind = "approval" /\ c.action = "run" => ForRun(c.rpc)
    /\ task.what = "run" => ForRun(task.rpc)

DirectApprovalsInv ==
    /\ TypeOK /\ InboxSound /\ (\A r \in Rpcs : RowSound(r))
    /\ TaskSound /\ LifeSound
    /\ actor = "serving" => Informed /\ Scoped

-----------------------------------------------------------------------------
(***************************************************************************)
(* Queues.                                                                 *)
(***************************************************************************)

LEMMA AppendOne ==
    ASSUME NEW S, NEW q \in Seq(S), NEW e \in S
    PROVE  /\ Append(q, e) \in Seq(S)
           /\ Len(Append(q, e)) = Len(q) + 1 /\ Len(q) \in Nat
           /\ \A i \in 1 .. Len(q) : Append(q, e)[i] = q[i]
           /\ Append(q, e)[Len(q) + 1] = e
  OBVIOUS

LEMMA TailOne ==
    ASSUME NEW S, NEW q \in Seq(S), q # <<>>
    PROVE  /\ Tail(q) \in Seq(S) /\ Len(q) \in Nat \ {0}
           /\ Len(Tail(q)) = Len(q) - 1
           /\ \A i \in 1 .. Len(q) - 1 : Tail(q)[i] = q[i + 1]
           /\ Head(q) = q[1] /\ Head(q) \in S
  BY HeadTailProperties, EmptySeq

LEMMA TailSound ==
    ASSUME NEW q \in Seq(Upstream), q # <<>>, NEW r, NEW at, NEW k,
           QueueSound(q, r, at, k)
    PROVE  QueueSound(Tail(q), r, at, k)
  <1>1. /\ Len(q) \in Nat \ {0} /\ Len(Tail(q)) = Len(q) - 1
        /\ \A i \in 1 .. Len(q) - 1 : Tail(q)[i] = q[i + 1]
    BY TailOne
  <1>2. \A e : In(Tail(q), e) => In(q, e)
    BY <1>1 DEF In
  <1>3. \A d, e : Before(q, d, e) => Before(Tail(q), d, e)
    <2> SUFFICES ASSUME NEW d, NEW e, Before(q, d, e),
                        NEW i \in 1 .. Len(q) - 1, NEW j \in 1 .. Len(q) - 1,
                        Tail(q)[i] = d, Tail(q)[j] = e
                 PROVE  i < j
      BY <1>1 DEF Before
    <2>1. q[i + 1] = d /\ q[j + 1] = e /\ i + 1 \in 1 .. Len(q) /\ j + 1 \in 1 .. Len(q)
      BY <1>1
    <2>2. i + 1 < j + 1
      BY <2>1 DEF Before
    <2> QED
      BY <2>2
  <1>4. \A e : Once(q, e) => Once(Tail(q), e)
    <2> SUFFICES ASSUME NEW e, Once(q, e),
                        NEW i \in 1 .. Len(q) - 1, NEW j \in 1 .. Len(q) - 1,
                        Tail(q)[i] = e, Tail(q)[j] = e
                 PROVE  i = j
      BY <1>1 DEF Once
    <2>1. q[i + 1] = e /\ q[j + 1] = e /\ i + 1 \in 1 .. Len(q) /\ j + 1 \in 1 .. Len(q)
      BY <1>1
    <2>2. i + 1 = j + 1
      BY <2>1 DEF Once
    <2> QED
      BY <2>2
  <1> QED
    BY <1>2, <1>3, <1>4 DEF QueueSound

\* What an event at the end of a queue adds to it.
LEMMA AppendIn ==
    ASSUME NEW q \in Seq(Upstream), NEW e \in Upstream
    PROVE  /\ \A d : In(Append(q, e), d) <=> In(q, d) \/ d = e
           /\ \A c, d : Before(Append(q, e), c, d) <=>
                 /\ Before(q, c, d)
                 /\ c = e => d # e /\ ~In(q, d)
           /\ \A d : Once(q, d) /\ (d = e => ~In(q, d)) => Once(Append(q, e), d)
  <1> DEFINE p == Append(q, e)
  <1>1. /\ Len(p) = Len(q) + 1 /\ Len(q) \in Nat
        /\ \A i \in 1 .. Len(q) : p[i] = q[i]
        /\ p[Len(q) + 1] = e
    BY AppendOne
  <1> HIDE DEF p
  <1>2. \A i : i \in 1 .. Len(p) <=> i \in 1 .. Len(q) \/ i = Len(q) + 1
    BY <1>1
  <1>3. \A d : In(p, d) <=> In(q, d) \/ d = e
    BY <1>1, <1>2 DEF In
  <1>4. ASSUME NEW c, NEW d, Before(p, c, d)
        PROVE  Before(q, c, d) /\ (c = e => d # e /\ ~In(q, d))
    <2>1. Before(q, c, d)
      BY <1>1, <1>2, <1>4 DEF Before
    <2>2. ASSUME c = e, d = e
          PROVE  FALSE
      BY <1>1, <1>2, <1>4, <2>2 DEF Before
    <2>3. ASSUME c = e, NEW j \in 1 .. Len(q), q[j] = d
          PROVE  FALSE
      <3>1. p[Len(q) + 1] = c /\ p[j] = d
        BY <1>1, <2>3
      <3>2. Len(q) + 1 < j
        BY <1>2, <1>4, <3>1 DEF Before
      <3> QED
        BY <1>1, <3>2
    <2> QED
      BY <2>1, <2>2, <2>3 DEF In
  <1>5. ASSUME NEW c, NEW d, Before(q, c, d), c = e => d # e /\ ~In(q, d)
        PROVE  Before(p, c, d)
    <2> SUFFICES ASSUME NEW i \in 1 .. Len(p), NEW j \in 1 .. Len(p),
                        p[i] = c, p[j] = d
                 PROVE  i < j
      BY DEF Before
    <2>1. CASE i \in 1 .. Len(q) /\ j \in 1 .. Len(q)
      BY <1>1, <1>5, <2>1 DEF Before
    <2>2. CASE i \in 1 .. Len(q) /\ j = Len(q) + 1
      BY <1>1, <2>2
    <2>3. CASE i = Len(q) + 1
      BY <1>1, <1>2, <1>5, <2>3 DEF In
    <2> QED
      BY <1>2, <2>1, <2>2, <2>3
  <1>6. ASSUME NEW d, Once(q, d), d = e => ~In(q, d)
        PROVE  Once(p, d)
    BY <1>1, <1>2, <1>6 DEF Once, In
  <1> QED
    BY <1>3, <1>4, <1>5, <1>6 DEF p

LEMMA EvApart ==
    /\ \A j, k, r, s : Ev(j, r) = Ev(k, s) <=> j = k /\ r = s
    /\ \A k, r : k # "closed" => Ev(k, r) # [kind |-> "closed"]
    /\ \A r \in Rpcs : {Ev("request", r), Ev("resolved", r), Ev("started", r),
                        Ev("completed", r)} \subseteq Upstream
    /\ [kind |-> "closed"] \in Upstream
  <1>1. \A j, k, r, s : Ev(j, r).kind = j /\ Ev(j, r).rpc = r
    BY DEF Ev
  <1>2. \A r \in Rpcs : {Ev("request", r), Ev("resolved", r), Ev("started", r),
                         Ev("completed", r)} \subseteq Upstream
    BY DEF Ev, Upstream
  <1>3. [kind |-> "closed"].kind = "closed" /\ [kind |-> "closed"] \in Upstream
    BY DEF Upstream
  <1> QED
    BY <1>1, <1>2, <1>3

\* An event that says nothing of r, and the events of its life in turn.
LEMMA EventSound ==
    ASSUME NEW q \in Seq(Upstream), NEW r \in Rpcs, NEW at, NEW k,
           QueueSound(q, r, at, k)
    PROVE  /\ \A e \in Upstream :
                 e \notin {Ev("request", r), Ev("resolved", r), Ev("started", r),
                          Ev("completed", r)}
                 => QueueSound(Append(q, e), r, at, k)
           /\ at = "no" => \A t \in Tools :
                 QueueSound(Append(q, Ev("started", r)), r, "started", t)
           /\ at \in {"no", "started"} => \A j :
                 QueueSound(Append(q, Ev("request", r)), r, "waiting", j)
           /\ at = "waiting" => \A over \in {"answered", "withdrawn"} :
                 QueueSound(q, r, over, k)
           /\ at \in {"answered", "withdrawn"} =>
                 /\ QueueSound(Append(q, Ev("resolved", r)), r, at, k)
                 /\ QueueSound(Append(q, Ev("completed", r)), r, at, k)
  <1> DEFINE S == Ev("started", r)
             Q == Ev("request", r)
             R == Ev("resolved", r)
             C == Ev("completed", r)
  <1>1. /\ S # Q /\ S # R /\ S # C /\ Q # R /\ Q # C /\ R # C
        /\ S \in Upstream /\ Q \in Upstream /\ R \in Upstream /\ C \in Upstream
    BY EvApart
  <1>2. /\ at = "no" => k = "none" /\ ~In(q, S)
        /\ at = "started" => k \in Tools
        /\ at \in {"no", "started"} => ~In(q, Q)
        /\ at \in {"no", "started", "waiting"} => ~In(q, R) /\ ~In(q, C)
        /\ Once(q, Q) /\ Before(q, S, Q) /\ Before(q, Q, C)
    BY DEF QueueSound
  <1> HIDE DEF S, Q, R, C
  <1>3. \A p, a, j : QueueSound(p, r, a, j) <=>
           /\ a = "no" => j = "none" /\ ~In(p, S)
           /\ a = "started" => j \in Tools
           /\ a \in {"no", "started"} => ~In(p, Q)
           /\ a \in {"no", "started", "waiting"} => ~In(p, R) /\ ~In(p, C)
           /\ Once(p, Q) /\ Before(p, S, Q) /\ Before(p, Q, C)
    BY DEF QueueSound, S, Q, R, C
  <1>4. ASSUME NEW e \in Upstream, e \notin {Q, R, S, C}
        PROVE  QueueSound(Append(q, e), r, at, k)
    BY <1>1, <1>2, <1>3, <1>4, AppendIn
  <1>5. ASSUME at = "no", NEW t \in Tools
        PROVE  QueueSound(Append(q, S), r, "started", t)
    BY <1>1, <1>2, <1>3, <1>5, AppendIn
  <1>6. ASSUME at \in {"no", "started"}, NEW j
        PROVE  QueueSound(Append(q, Q), r, "waiting", j)
    BY <1>1, <1>2, <1>3, <1>6, AppendIn
  <1>7. ASSUME at = "waiting", NEW over \in {"answered", "withdrawn"}
        PROVE  QueueSound(q, r, over, k)
    BY <1>2, <1>3, <1>7
  <1>8. ASSUME at \in {"answered", "withdrawn"}
        PROVE  /\ QueueSound(Append(q, R), r, at, k)
               /\ QueueSound(Append(q, C), r, at, k)
    BY <1>1, <1>2, <1>3, <1>8, AppendIn
  <1> QED
    BY <1>4, <1>5, <1>6, <1>7, <1>8 DEF S, Q, R, C

\* What is over ends with one event or two.
LEMMA OverEvents ==
    ASSUME NEW q \in Seq(Upstream), NEW r \in Rpcs
    PROVE  q \o Over(r) = IF kind[r] \in Tools
                         THEN Append(Append(q, Ev("resolved", r)), Ev("completed", r))
                         ELSE Append(q, Ev("resolved", r))
  <1> DEFINE R == Ev("resolved", r)
             C == Ev("completed", r)
  <1>1. R \in Upstream /\ C \in Upstream
    BY EvApart
  <1>2. Over(r) = <<R>> \o (IF kind[r] \in Tools THEN <<C>> ELSE <<>>)
    BY DEF Over, Ev
  <1> HIDE DEF R, C
  <1>3. /\ <<R>> \in Seq(Upstream) /\ <<C>> \in Seq(Upstream)
        /\ Append(q, R) \in Seq(Upstream)
    BY <1>1
  <1>4. \A p \in Seq(Upstream), e \in Upstream : p \o <<e>> = Append(p, e)
    OBVIOUS
  <1>5. CASE kind[r] \in Tools
    <2>1. q \o (<<R>> \o <<C>>) = (q \o <<R>>) \o <<C>>
      BY <1>3, ConcatAssociative
    <2>2. (q \o <<R>>) \o <<C>> = Append(Append(q, R), C)
      BY <1>1, <1>3, <1>4
    <2> QED
      BY <1>2, <1>5, <2>1, <2>2 DEF R, C
  <1>6. CASE kind[r] \notin Tools
    <2>1. Over(r) = <<R>>
      BY <1>2, <1>3, <1>6, ConcatEmptySeq
    <2> QED
      BY <1>1, <1>4, <1>6, <2>1 DEF R
  <1> QED
    BY <1>5, <1>6

\* An emptied inbox.
LEMMA NoEvents ==
    ASSUME NEW q, NEW r, NEW at, NEW k, QueueSound(q, r, at, k)
    PROVE  QueueSound(<<>>, r, at, k)
  BY DEF QueueSound, In, Once, Before

-----------------------------------------------------------------------------
(***************************************************************************)
(* Who changes what.                                                       *)
(***************************************************************************)

\* The actor and all it knew are gone.
Gone == Dropped /\ actor' \in {"ended", "failed", "aborted"}

LEMMA Ending ==
    /\ EmitLast => Gone /\ (events' = events \/ Emit([kind |-> "ended"]))
    /\ Fails => Gone /\ events' = events
    /\ TypeOK /\ ActorGone => Gone /\ events' = <<>>
  BY DEF EmitLast, Fails, ActorGone, Gone, TypeOK

LEMMA CodexFrame ==
    ASSUME CodexNext
    PROVE  UNCHANGED <<sent, storeVars, actorVars, mailVars, coordVars, userVars>>
  BY DEF CodexNext, CallStarts, Asks, Withdraws, TurnEnds, ChildDies

LEMMA UserFrame ==
    ASSUME UserNext
    PROVE  /\ UNCHANGED <<codexVars, storeVars, actorVars, events, drive, live, mandate>>
           /\ \/ mailed' = mailed /\ commands' = commands
              \/ \E w \in Workers : MailsDecision(w)
              \/ \E s \in Steers : MailsSteer(s)
              \/ MailsInterrupt
  <1>1. ASSUME NEW r \in Rpcs, NEW k \in Pages(r), ReadsPage(r, k)
        PROVE  UNCHANGED <<codexVars, storeVars, actorVars, mailVars, drive, live, mandate>>
    BY <1>1 DEF ReadsPage
  <1>2. ASSUME NEW w \in Workers, GivesUp(w) \/ \E r \in Rpcs : Presses(w, r)
        PROVE  UNCHANGED <<codexVars, storeVars, actorVars, mailVars, drive, live, mandate>>
    BY <1>2 DEF Presses, GivesUp, userVars
  <1>3. ASSUME \/ \E w \in Workers : MailsDecision(w)
               \/ \E s \in Steers : MailsSteer(s)
               \/ MailsInterrupt
        PROVE  UNCHANGED <<codexVars, storeVars, actorVars, events, drive, live, mandate>>
    BY <1>3 DEF MailsDecision, MailsSteer, MailsInterrupt, Mail, userVars, coordVars
  <1>4. ASSUME EditsConfig
        PROVE  UNCHANGED <<codexVars, storeVars, actorVars, mailVars, drive, live, mandate>>
    BY <1>4 DEF EditsConfig, coordVars
  <1>5. UNCHANGED mailVars => mailed' = mailed /\ commands' = commands /\ events' = events
    BY DEF mailVars
  <1>6. /\ UNCHANGED <<codexVars, storeVars, actorVars, drive, live, mandate>>
        /\ UNCHANGED events
    BY <1>1, <1>2, <1>3, <1>4, <1>5 DEF UserNext
  <1>7. \/ UNCHANGED mailVars
        \/ \E w \in Workers : MailsDecision(w)
        \/ \E s \in Steers : MailsSteer(s)
        \/ MailsInterrupt
    BY <1>1, <1>2, <1>4 DEF UserNext
  <1> QED
    BY <1>5, <1>6, <1>7

LEMMA DriveFrame ==
    ASSUME TypeOK, DriveNext \/ Restarts
    PROVE  /\ UNCHANGED <<asked, kind, sent, steer, stopRequested, mailed, config>>
           /\ \/ Gone /\ events' = <<>>
              \/ UNCHANGED <<child, inbox, actorVars, commands, mandate, shown>>
           /\ interaction' = interaction \/ Restarts
           /\ request' = request \/ DriveSettles \/ Restarts
           /\ drive' # "receiving" => drive # "receiving" \/ Gone
           /\ drive' = "receiving" => drive = "receiving"
  <1>1. CASE DriveShows \/ DriveRemoves
    BY <1>1 DEF DriveShows, DriveRemoves, DriveTakes, codexVars, storeVars, userVars
  <1>2. CASE DriveFails \/ DriveEnds
    BY <1>2, Ending DEF DriveFails, DriveEnds, storeVars
  <1>3. CASE DriveCleans
    BY <1>3 DEF DriveCleans, codexVars, storeVars, mailVars, userVars
  <1>4. CASE DriveSettles
    BY <1>4 DEF DriveSettles, codexVars, storeVars, mailVars, userVars
  <1>5. CASE Restarts
    BY <1>5, Ending DEF Restarts
  <1> QED
    BY <1>1, <1>2, <1>3, <1>4, <1>5 DEF DriveNext

LEMMA ActorFrame ==
    ASSUME ActorNext
    PROVE  UNCHANGED <<kind, mailed, coordVars, config>>
  <1> USE DEF codexVars, mailVars, userVars
  <1>1. CASE TakesApproval \/ TakesInterrupt \/ TakesSteer \/ SteerBegins
             \/ SteerRefused \/ SteerEnds
    BY <1>1 DEF TakesApproval, TakesInterrupt, TakesSteer, SteerBegins,
       SteerRefused, SteerEnds
  <1>2. CASE ReplyWritten \/ WriteFails \/ ReplyRecorded \/ ReplyUnknown \/ GrantReplies
    BY <1>2 DEF ReplyWritten, WriteFails, ReplyRecorded, ReplyUnknown, GrantReplies
  <1>3. CASE HearsCall \/ LosesRuntime \/ Confirms \/ Closes
    BY <1>3 DEF HearsCall, LosesRuntime, Confirms, Closes
  <1>4. CASE HearsRequest
    BY <1>4 DEF HearsRequest
  <1>5. CASE HearsUnknown
    BY <1>5 DEF HearsUnknown
  <1>6. CASE HearsResolved
    BY <1>6 DEF HearsResolved
  <1> QED
    BY <1>1, <1>2, <1>3, <1>4, <1>5, <1>6 DEF ActorNext

\* An actor that has ended, or is done with its work, takes no step but the
\* last ones.
LEMMA ActorServes ==
    ASSUME ActorNext
    PROVE  actor = "serving" \/ Closes
  BY DEF ActorNext, TakesApproval, TakesInterrupt, TakesSteer, SteerBegins,
     SteerRefused, SteerEnds, ReplyWritten, WriteFails, ReplyRecorded,
     ReplyUnknown, GrantReplies, HearsCall, HearsRequest, HearsUnknown,
     HearsResolved, LosesRuntime, Confirms, Takes, Hears, Serving

-----------------------------------------------------------------------------
(***************************************************************************)
(* The child's events: what every step does to the inbox.                  *)
(***************************************************************************)

LEMMA TailIn ==
    ASSUME NEW q \in Seq(Upstream), q # <<>>
    PROVE  /\ \A e : In(q, e) <=> Head(q) = e \/ In(Tail(q), e)
           /\ \A e : Once(q, e) /\ Head(q) = e => ~In(Tail(q), e)
           /\ \A d, e : Before(q, d, e) /\ Head(q) = e => ~In(q, d)
  <1>1. /\ Len(q) \in Nat \ {0} /\ Len(Tail(q)) = Len(q) - 1
        /\ \A i \in 1 .. Len(q) - 1 : Tail(q)[i] = q[i + 1]
        /\ Head(q) = q[1]
    BY TailOne
  <1>2. \A i \in 1 .. Len(q) : i = 1 \/ i - 1 \in 1 .. Len(q) - 1
    BY <1>1
  <1>3. \A i \in 1 .. Len(q) - 1 : i + 1 \in 1 .. Len(q) /\ i + 1 # 1
    BY <1>1
  <1>4. ASSUME NEW e, In(q, e), Head(q) # e
        PROVE  In(Tail(q), e)
    <2>1. PICK i \in 1 .. Len(q) : q[i] = e
      BY <1>4 DEF In
    <2>2. i - 1 \in 1 .. Len(q) - 1 /\ Tail(q)[i - 1] = q[(i - 1) + 1]
      BY <1>1, <1>2, <1>4, <2>1
    <2> QED
      BY <1>1, <2>1, <2>2 DEF In
  <1>5. ASSUME NEW e, In(Tail(q), e)
        PROVE  \E i \in 1 .. Len(q) : i # 1 /\ q[i] = e
    BY <1>1, <1>3, <1>5 DEF In
  <1>6. 1 \in 1 .. Len(q)
    BY <1>1
  <1>7. \A e : Once(q, e) /\ Head(q) = e => ~In(Tail(q), e)
    BY <1>1, <1>5, <1>6 DEF Once
  <1>8. \A d, e : Before(q, d, e) /\ Head(q) = e => ~In(q, d)
    BY <1>1, <1>6 DEF Before, In
  <1> QED
    BY <1>1, <1>4, <1>5, <1>6, <1>7, <1>8 DEF In

LEMMA HeadEv ==
    ASSUME NEW q \in Seq(Upstream), NEW k, k # "closed", Has(q, k)
    PROVE  /\ Head(q).rpc \in Rpcs /\ Head(q) = Ev(k, Head(q).rpc)
           /\ k \in {"request", "resolved", "started", "completed"}
  <1>1. q # <<>> /\ Head(q).kind = k
    BY DEF Has
  <1>2. Head(q) \in Upstream
    BY <1>1, TailOne
  <1> QED
    BY <1>1, <1>2 DEF Upstream, Ev

\* What is over says nothing of any other request, nor that it was asked.
LEMMA OverIn ==
    ASSUME NEW q \in Seq(Upstream), NEW r \in Rpcs
    PROVE  /\ q \o Over(r) \in Seq(Upstream)
           /\ \A s \in Rpcs, k \in {"started", "request"} :
                 In(q \o Over(r), Ev(k, s)) <=> In(q, Ev(k, s))
  <1> DEFINE R == Ev("resolved", r)
             C == Ev("completed", r)
  <1>1. R \in Upstream /\ C \in Upstream
    BY EvApart
  <1>2. \A s \in Rpcs, k \in {"started", "request"} : Ev(k, s) # R /\ Ev(k, s) # C
    BY EvApart
  <1>3. q \o Over(r) = IF kind[r] \in Tools THEN Append(Append(q, R), C) ELSE Append(q, R)
    BY OverEvents
  <1> HIDE DEF R, C
  <1>4. Append(q, R) \in Seq(Upstream) /\ Append(Append(q, R), C) \in Seq(Upstream)
    BY <1>1
  <1>5. \A d : In(Append(q, R), d) <=> In(q, d) \/ d = R
    BY <1>1, AppendIn
  <1>6. \A d : In(Append(Append(q, R), C), d) <=> In(Append(q, R), d) \/ d = C
    BY <1>1, <1>4, AppendIn
  <1>7. ASSUME NEW s \in Rpcs, NEW k \in {"started", "request"}
        PROVE  In(q \o Over(r), Ev(k, s)) <=> In(q, Ev(k, s))
    <2>1. Ev(k, s) # R /\ Ev(k, s) # C
      BY <1>2
    <2> QED
      BY <1>3, <1>5, <1>6, <2>1
  <1> QED
    BY <1>3, <1>4, <1>7

LEMMA OverSound ==
    ASSUME NEW q \in Seq(Upstream), NEW r \in Rpcs, NEW s \in Rpcs, NEW at, NEW k,
           QueueSound(q, s, at, k),
           s = r => at \in {"answered", "withdrawn"}
    PROVE  QueueSound(q \o Over(r), s, at, k)
  <1> DEFINE R == Ev("resolved", r)
             C == Ev("completed", r)
  <1>1. R \in Upstream /\ C \in Upstream
    BY EvApart
  <1>2. q \o Over(r) = IF kind[r] \in Tools THEN Append(Append(q, R), C) ELSE Append(q, R)
    BY OverEvents
  <1>3. Append(q, R) \in Seq(Upstream)
    BY <1>1
  <1>4. CASE s = r
    <2>1. QueueSound(Append(q, R), s, at, k)
      BY <1>4, EventSound
    <2>2. QueueSound(Append(Append(q, R), C), s, at, k)
      BY <1>3, <1>4, <2>1, EventSound
    <2> QED
      BY <1>2, <2>1, <2>2
  <1>5. CASE s # r
    <2> DEFINE own == {Ev("request", s), Ev("resolved", s), Ev("started", s),
                       Ev("completed", s)}
    <2>1. R \notin own /\ C \notin own
      BY <1>5, EvApart
    <2>2. QueueSound(Append(q, R), s, at, k)
      BY <1>1, <2>1, EventSound
    <2>3. QueueSound(Append(Append(q, R), C), s, at, k)
      BY <1>1, <1>3, <2>1, <2>2, EventSound
    <2> QED
      BY <1>2, <2>2, <2>3
  <1> QED
    BY <1>4, <1>5

\* Taking the oldest event, a closed pipe, and the end of a request.
Loud == \E r \in Rpcs : CallStarts(r) \/ Asks(r)
Quiet == /\ kind' = kind /\ asked' = asked
         /\ \/ inbox' = inbox
            \/ Gone /\ inbox' = <<>>
            \/ inbox' = Append(inbox, [kind |-> "closed"])
            \/ inbox # <<>> /\ inbox' = Tail(inbox)
Ends(r) == /\ kind' = kind /\ asked[r] = "waiting"
           /\ \/ asked' = [asked EXCEPT ![r] = "answered"]
              \/ asked' = [asked EXCEPT ![r] = "withdrawn"]
           /\ \/ inbox' = inbox \o Over(r)
              \/ inbox # <<>> /\ inbox' = Tail(inbox) \o Over(r)
              \/ Gone /\ inbox' = <<>>

LEMMA InboxMoves ==
    ASSUME TypeOK, TaskSound, [Next]_vars
    PROVE  Loud \/ Quiet \/ \E r \in Rpcs : Ends(r)
  <1>1. CASE CodexNext
    <2>1. CASE \E r \in Rpcs : Withdraws(r)
      BY <2>1 DEF Withdraws, Ends
    <2>2. CASE TurnEnds \/ ChildDies
      BY <2>2 DEF TurnEnds, ChildDies, Quiet
    <2> QED
      BY <1>1, <2>1, <2>2 DEF CodexNext, Loud
  <1>2. CASE UserNext
    BY <1>2, UserFrame DEF Quiet, codexVars
  <1>3. CASE DriveNext \/ Restarts
    BY <1>3, DriveFrame DEF Quiet, Gone, Dropped
  <1>4. CASE ActorNext
    <2>1. kind' = kind
      BY <1>4, ActorFrame
    <2>2. CASE TakesApproval \/ TakesInterrupt \/ TakesSteer \/ SteerBegins
               \/ SteerRefused \/ SteerEnds
      BY <2>2, Ending DEF TakesApproval, TakesInterrupt, TakesSteer, SteerBegins,
         SteerRefused, SteerEnds, Quiet, Gone, Dropped, codexVars
    <2>3. CASE ReplyWritten
      BY <2>3 DEF ReplyWritten, Reaches, Quiet, Ends, TaskSound
    <2>4. CASE WriteFails \/ ReplyRecorded \/ ReplyUnknown \/ GrantReplies
      BY <2>4, Ending DEF WriteFails, ReplyRecorded, ReplyUnknown, GrantReplies,
         Quiet, Gone, Dropped, codexVars
    <2>5. CASE HearsCall \/ LosesRuntime \/ Confirms \/ Closes
      BY <2>5, Ending DEF HearsCall, Hears, Has, LosesRuntime, Confirms, Closes,
         Quiet, Gone, Dropped, codexVars
    <2>6. CASE HearsRequest \/ HearsResolved
      BY <2>6, Ending DEF HearsRequest, HearsResolved, Has, Learns, Quiet, Gone,
         Dropped
    <2>7. CASE HearsUnknown
      <3> DEFINE r == Head(inbox).rpc
                 waits == child = "running" /\ asked[r] = "waiting"
      <3>1. inbox # <<>> /\ r \in Rpcs /\ Tail(inbox) \in Seq(Upstream)
        BY <2>7, HeadEv, TailOne DEF HearsUnknown, Has, TypeOK
      <3>2. Tail(inbox) \o <<>> = Tail(inbox)
        BY <3>1, ConcatEmptySeq
      <3>3. \/ asked' = asked
            \/ waits /\ asked' = [asked EXCEPT ![r] = "answered"]
        BY <2>7, <3>1 DEF HearsUnknown, TypeOK
      <3>4. \/ Gone /\ inbox' = <<>>
            \/ /\ inbox' = Tail(inbox) \o (IF waits THEN Over(r) ELSE <<>>)
               /\ asked' = [asked EXCEPT ![r] = IF waits THEN "answered" ELSE @]
        BY <2>7, Ending DEF HearsUnknown, Gone, Dropped
      <3>5. CASE waits
        <4>1. \/ asked' = asked
              \/ asked' = [asked EXCEPT ![r] = "answered"]
          BY <3>3
        <4>2. \/ Gone /\ inbox' = <<>>
              \/ /\ inbox' = Tail(inbox) \o Over(r)
                 /\ asked' = [asked EXCEPT ![r] = "answered"]
          BY <3>4, <3>5
        <4> QED
          BY <2>1, <3>1, <3>5, <4>1, <4>2 DEF Quiet, Ends
      <3>6. CASE ~waits
        BY <2>1, <3>1, <3>2, <3>3, <3>4, <3>6 DEF Quiet
      <3> QED
        BY <3>5, <3>6
    <2> QED
      BY <1>4, <2>2, <2>3, <2>4, <2>5, <2>6, <2>7 DEF ActorNext
  <1>5. CASE UNCHANGED vars
    BY <1>5 DEF vars, codexVars, Quiet
  <1> QED
    BY <1>1, <1>2, <1>3, <1>4, <1>5 DEF Next

\* The shape of the inbox, and what the actor has heard, over any step.
LEMMA InboxStep ==
    ASSUME TypeOK, TaskSound, InboxSound, [Next]_vars
    PROVE  /\ inbox' \in Seq(Upstream)
           /\ asked' \in [Rpcs -> {"no", "started", "waiting", "answered", "withdrawn"}]
           /\ kind' \in [Rpcs -> Kind \cup {"none"}]
           /\ InboxSound'
           /\ \A r \in Rpcs :
                 /\ Unheard(r)' => Unheard(r)
                 /\ asked[r] \in {"answered", "withdrawn"} =>
                       asked'[r] \in {"answered", "withdrawn"}
                 /\ asked'[r] = "no" => asked[r] = "no"
                 /\ kind'[r] = kind[r] \/ asked[r] = "no"
                 /\ kind'[r] \in Tools /\ asked[r] = "no" =>
                       asked'[r] = "no" \/ In(inbox', Ev("started", r))
                 /\ In(inbox, Ev("started", r)) =>
                       \/ In(inbox', Ev("started", r))
                       \/ inbox # <<>> /\ Head(inbox) = Ev("started", r)
                       \/ Gone
  <1> USE DEF TypeOK
  <1>1. \A r \in Rpcs : QueueSound(inbox, r, asked[r], kind[r])
    BY DEF InboxSound
  <1>2. \A r \in Rpcs : asked[r] = "no" => kind[r] = "none"
    BY <1>1 DEF QueueSound
  <1>3. "none" \notin Tools
    BY KindsType
  <1>4. CASE \E r \in Rpcs : CallStarts(r)
    <2>1. PICK r \in Rpcs, t \in Tools :
             /\ asked[r] = "no" /\ kind' = [kind EXCEPT ![r] = t]
             /\ asked' = [asked EXCEPT ![r] = "started"]
             /\ inbox' = Append(inbox, Ev("started", r))
      BY <1>4 DEF CallStarts, Tells, Ev
    <2>2. Ev("started", r) \in Upstream
      BY EvApart
    <2>3. \A d : In(inbox', d) <=> In(inbox, d) \/ d = Ev("started", r)
      BY <2>1, <2>2, AppendIn
    <2>4. ASSUME NEW s \in Rpcs
          PROVE  QueueSound(inbox', s, asked'[s], kind'[s])
      <3>1. CASE s = r
        <4>1. asked'[s] = "started" /\ kind'[s] = t
          BY <2>1, <3>1
        <4> QED
          BY <1>1, <2>1, <3>1, <4>1, EventSound
      <3>2. CASE s # r
        <4>1. asked'[s] = asked[s] /\ kind'[s] = kind[s]
          BY <2>1, <3>2
        <4>2. Ev("started", r) \notin {Ev("request", s), Ev("resolved", s),
                                       Ev("started", s), Ev("completed", s)}
          BY <3>2, EvApart
        <4> QED
          BY <1>1, <2>1, <2>2, <4>1, <4>2, EventSound
      <3> QED
        BY <3>1, <3>2
    <2>5. /\ inbox' \in Seq(Upstream)
          /\ asked' \in [Rpcs -> {"no", "started", "waiting", "answered", "withdrawn"}]
          /\ kind' \in [Rpcs -> Kind \cup {"none"}]
      BY <2>1, <2>2, AppendOne DEF Kind
    <2>6. \A s \in Rpcs : Ev("request", s) # Ev("started", r)
      BY EvApart
    <2>7. ASSUME NEW s \in Rpcs
          PROVE  /\ Unheard(s)' => Unheard(s)
                 /\ asked[s] \in {"answered", "withdrawn"} =>
                       asked'[s] \in {"answered", "withdrawn"}
                 /\ asked'[s] = "no" => asked[s] = "no"
                 /\ kind'[s] = kind[s] \/ asked[s] = "no"
                 /\ kind'[s] \in Tools /\ asked[s] = "no" =>
                       asked'[s] = "no" \/ In(inbox', Ev("started", s))
                 /\ In(inbox, Ev("started", s)) => In(inbox', Ev("started", s))
      BY <1>2, <1>3, <2>1, <2>3, <2>6 DEF Unheard
    <2> QED
      BY <2>4, <2>5, <2>7 DEF InboxSound
  <1>5. CASE \E r \in Rpcs : Asks(r)
    <2>1. PICK r \in Rpcs :
             /\ asked[r] \in {"no", "started"}
             /\ \/ asked[r] = "started" /\ kind' = kind
                \/ asked[r] = "no" /\ \E k \in Kind \ Tools : kind' = [kind EXCEPT ![r] = k]
             /\ asked' = [asked EXCEPT ![r] = "waiting"]
             /\ inbox' = Append(inbox, Ev("request", r))
      BY <1>5, KindsType DEF Asks, Tells, Ev
    <2>2. Ev("request", r) \in Upstream
      BY EvApart
    <2>3. \A d : In(inbox', d) <=> In(inbox, d) \/ d = Ev("request", r)
      BY <2>1, <2>2, AppendIn
    <2>4. ASSUME NEW s \in Rpcs
          PROVE  QueueSound(inbox', s, asked'[s], kind'[s])
      <3>1. CASE s = r
        <4>1. asked'[s] = "waiting"
          BY <2>1, <3>1
        <4> QED
          BY <1>1, <2>1, <3>1, <4>1, EventSound
      <3>2. CASE s # r
        <4>1. asked'[s] = asked[s] /\ kind'[s] = kind[s]
          BY <2>1, <3>2
        <4>2. Ev("request", r) \notin {Ev("request", s), Ev("resolved", s),
                                       Ev("started", s), Ev("completed", s)}
          BY <3>2, EvApart
        <4> QED
          BY <1>1, <2>1, <2>2, <4>1, <4>2, EventSound
      <3> QED
        BY <3>1, <3>2
    <2>5. /\ inbox' \in Seq(Upstream)
          /\ asked' \in [Rpcs -> {"no", "started", "waiting", "answered", "withdrawn"}]
          /\ kind' \in [Rpcs -> Kind \cup {"none"}]
      <3>1. inbox' \in Seq(Upstream)
        BY <2>1, <2>2
      <3>2. kind' \in [Rpcs -> Kind \cup {"none"}]
        BY <2>1
      <3> QED
        BY <2>1, <3>1, <3>2
    <2>6. \A s \in Rpcs : Ev("request", s) = Ev("request", r) <=> s = r
      BY EvApart
    <2>7. ASSUME NEW s \in Rpcs
          PROVE  /\ Unheard(s)' => Unheard(s)
                 /\ asked[s] \in {"answered", "withdrawn"} =>
                       asked'[s] \in {"answered", "withdrawn"}
                 /\ asked'[s] = "no" => asked[s] = "no"
                 /\ kind'[s] = kind[s] \/ asked[s] = "no"
                 /\ kind'[s] \in Tools /\ asked[s] = "no" => asked'[s] = "no"
                 /\ In(inbox, Ev("started", s)) => In(inbox', Ev("started", s))
      BY <1>2, <1>3, <2>1, <2>3, <2>6 DEF Unheard
    <2> QED
      BY <2>4, <2>5, <2>7 DEF InboxSound
  <1>6. CASE Quiet
    <2>1. inbox' \in Seq(Upstream)
      <3>1. inbox # <<>> => Tail(inbox) \in Seq(Upstream)
        BY TailOne
      <3>2. Append(inbox, [kind |-> "closed"]) \in Seq(Upstream)
        BY EvApart
      <3>3. inbox \in Seq(Upstream) /\ <<>> \in Seq(Upstream)
        OBVIOUS
      <3> HIDE DEF TypeOK
      <3> QED
        BY <1>6, <3>1, <3>2, <3>3 DEF Quiet
    <2>2. ASSUME NEW s \in Rpcs
          PROVE  QueueSound(inbox', s, asked[s], kind[s])
      <3>1. QueueSound(<<>>, s, asked[s], kind[s])
        BY <1>1, NoEvents
      <3>2. inbox # <<>> => QueueSound(Tail(inbox), s, asked[s], kind[s])
        BY <1>1, TailSound
      <3>3. [kind |-> "closed"] \notin {Ev("request", s), Ev("resolved", s),
                                        Ev("started", s), Ev("completed", s)}
        BY EvApart
      <3>4. QueueSound(Append(inbox, [kind |-> "closed"]), s, asked[s], kind[s])
        BY <1>1, <3>3, EvApart, EventSound
      <3> QED
        BY <1>1, <1>6, <3>1, <3>2, <3>4 DEF Quiet
    <2>3. \A d : In(Append(inbox, [kind |-> "closed"]), d) <=>
                    In(inbox, d) \/ d = [kind |-> "closed"]
      BY EvApart, AppendIn
    <2>4. \A s \in Rpcs, k \in {"started", "request"} : Ev(k, s) # [kind |-> "closed"]
      BY EvApart
    <2>5. inbox # <<>> =>
             \A d : In(inbox, d) <=> Head(inbox) = d \/ In(Tail(inbox), d)
      BY TailIn
    <2>6. \A d : ~In(<<>>, d)
      BY DEF In
    <2>7. ASSUME NEW s \in Rpcs, NEW k \in {"started", "request"}
          PROVE  /\ In(inbox', Ev(k, s)) => In(inbox, Ev(k, s))
                 /\ In(inbox, Ev(k, s)) =>
                       \/ In(inbox', Ev(k, s))
                       \/ inbox # <<>> /\ Head(inbox) = Ev(k, s)
                       \/ Gone
      <3>1. Ev(k, s) # [kind |-> "closed"]
        BY <2>4
      <3>2. CASE inbox' = inbox
        BY <3>2
      <3>3. CASE Gone /\ inbox' = <<>>
        BY <2>6, <3>3
      <3>4. CASE inbox' = Append(inbox, [kind |-> "closed"])
        BY <2>3, <3>1, <3>4
      <3>5. CASE inbox # <<>> /\ inbox' = Tail(inbox)
        BY <2>5, <3>5
      <3> QED
        BY <1>6, <3>2, <3>3, <3>4, <3>5 DEF Quiet
    <2>8. \A s \in Rpcs : Unheard(s)' => Unheard(s)
      BY <1>6, <2>7 DEF Unheard, Quiet
    <2> QED
      BY <1>2, <1>3, <1>6, <2>1, <2>2, <2>7, <2>8 DEF InboxSound, Quiet
  <1>7. CASE \E r \in Rpcs : Ends(r)
    <2>1. PICK r \in Rpcs : Ends(r)
      BY <1>7
    <2>2. PICK over \in {"answered", "withdrawn"} : asked' = [asked EXCEPT ![r] = over]
      BY <2>1 DEF Ends
    <2>3. asked[r] = "waiting" /\ kind' = kind
      BY <2>1 DEF Ends
    <2>4. inbox # <<>> => Tail(inbox) \in Seq(Upstream)
      BY TailOne
    <2>5. inbox' \in Seq(Upstream)
      <3>1. inbox \o Over(r) \in Seq(Upstream)
        BY OverIn
      <3>2. inbox # <<>> => Tail(inbox) \o Over(r) \in Seq(Upstream)
        BY <2>4, OverIn
      <3>3. <<>> \in Seq(Upstream)
        OBVIOUS
      <3> HIDE DEF TypeOK
      <3> QED
        BY <2>1, <3>1, <3>2, <3>3 DEF Ends
    <2>6. ASSUME NEW s \in Rpcs
          PROVE  QueueSound(inbox', s, asked'[s], kind[s])
      <3>1. s = r => asked'[s] = over
        BY <2>2
      <3>2. s # r => asked'[s] = asked[s]
        BY <2>2
      <3>3. QueueSound(inbox, s, asked[s], kind[s])
        BY <1>1
      <3>4. QueueSound(inbox, s, asked'[s], kind[s])
        <4>1. CASE s = r
          BY <2>3, <3>1, <3>3, <4>1, EventSound
        <4> QED
          BY <3>2, <3>3, <4>1
      <3>5. QueueSound(<<>>, s, asked'[s], kind[s])
        BY <3>4, NoEvents
      <3>6. inbox # <<>> => QueueSound(Tail(inbox), s, asked'[s], kind[s])
        BY <3>4, TailSound
      <3>7. QueueSound(inbox \o Over(r), s, asked'[s], kind[s])
        BY <3>1, <3>4, OverSound
      <3>8. inbox # <<>> => QueueSound(Tail(inbox) \o Over(r), s, asked'[s], kind[s])
        BY <2>4, <3>1, <3>6, OverSound
      <3> QED
        BY <2>1, <3>5, <3>7, <3>8 DEF Ends
    <2>7. ASSUME NEW s \in Rpcs, NEW k \in {"started", "request"}
          PROVE  /\ In(inbox', Ev(k, s)) => In(inbox, Ev(k, s))
                 /\ In(inbox, Ev(k, s)) =>
                       \/ In(inbox', Ev(k, s))
                       \/ inbox # <<>> /\ Head(inbox) = Ev(k, s)
                       \/ Gone
      <3>1. In(inbox \o Over(r), Ev(k, s)) <=> In(inbox, Ev(k, s))
        BY OverIn
      <3>2. ASSUME inbox # <<>>
            PROVE  In(Tail(inbox) \o Over(r), Ev(k, s)) <=> In(Tail(inbox), Ev(k, s))
        BY <2>4, <3>2, OverIn
      <3>3. ASSUME inbox # <<>>
            PROVE  In(inbox, Ev(k, s)) <=>
                      Head(inbox) = Ev(k, s) \/ In(Tail(inbox), Ev(k, s))
        BY <3>3, TailIn
      <3>4. ~In(<<>>, Ev(k, s))
        BY DEF In
      <3>5. CASE inbox' = inbox \o Over(r)
        BY <3>1, <3>5
      <3>6. CASE inbox # <<>> /\ inbox' = Tail(inbox) \o Over(r)
        BY <3>2, <3>3, <3>6
      <3>7. CASE Gone /\ inbox' = <<>>
        BY <3>4, <3>7
      <3> QED
        BY <2>1, <3>5, <3>6, <3>7 DEF Ends
    <2>8. asked' \in [Rpcs -> {"no", "started", "waiting", "answered", "withdrawn"}]
      BY <2>2
    <2>9. \A s \in Rpcs : asked'[s] = asked[s] \/ (s = r /\ asked'[s] = over)
      BY <2>2
    <2>10. \A s \in Rpcs : Unheard(s)' => Unheard(s)
      BY <2>7, <2>9 DEF Unheard
    <2> QED
      BY <1>2, <1>3, <2>3, <2>5, <2>6, <2>7, <2>8, <2>9, <2>10 DEF InboxSound
  <1> QED
    BY <1>4, <1>5, <1>6, <1>7, InboxMoves DEF Loud

-----------------------------------------------------------------------------
(***************************************************************************)
(* The task of the actor.                                                  *)
(***************************************************************************)

ATask(s, r, a, c, k) == [step |-> s, rpc |-> r, what |-> a, config |-> c, ok |-> k]

LEMMA ATaskType ==
    /\ \A s, r, a, c, k :
          /\ ATask(s, r, a, c, k).step = s /\ ATask(s, r, a, c, k).rpc = r
          /\ ATask(s, r, a, c, k).what = a /\ ATask(s, r, a, c, k).config = c
          /\ ATask(s, r, a, c, k).ok = k
    /\ \A s, r, a, c, k : ATask(s, r, a, c, k) \in Task <=>
          /\ s \in {"none", "begin", "write", "record", "steer", "steering"}
          /\ r \in Rpcs \cup Steers \cup {None}
          /\ a \in Actions \cup {"none", "grant"}
          /\ c \in Config /\ k \in BOOLEAN
    /\ \A t \in Task : t = ATask(t.step, t.rpc, t.what, t.config, t.ok)
    /\ NoTask = ATask("none", None, "none", 0, FALSE)
    /\ NoTask \in Task
  BY DEF Task, ATask, NoTask, Config

\* What the steps of the actor make of its task.
LEMMA TaskForms ==
    /\ \A r, a, c : [[NoTask EXCEPT !.rpc = r, !.what = a, !.config = c]
                        EXCEPT !.step = "write"] = ATask("write", r, a, c, FALSE)
    /\ \A r, a, c : [NoTask EXCEPT !.rpc = r, !.what = a, !.config = c].rpc = r
    /\ \A r, a : [NoTask EXCEPT !.step = "begin", !.rpc = r, !.what = a] =
                    ATask("begin", r, a, 0, FALSE)
    /\ \A s : [NoTask EXCEPT !.step = "steer", !.rpc = s] =
                 ATask("steer", s, "none", 0, FALSE)
    /\ \A t \in Task :
          /\ \A s : [t EXCEPT !.step = s] = ATask(s, t.rpc, t.what, t.config, t.ok)
          /\ \A s, k : [t EXCEPT !.step = s, !.ok = k] =
                          ATask(s, t.rpc, t.what, t.config, k)
  <1>1. ASSUME NEW r, NEW a, NEW c
        PROVE  /\ [[NoTask EXCEPT !.rpc = r, !.what = a, !.config = c]
                      EXCEPT !.step = "write"] = ATask("write", r, a, c, FALSE)
               /\ [NoTask EXCEPT !.rpc = r, !.what = a, !.config = c].rpc = r
    <2>1. PICK one : one = [NoTask EXCEPT !.rpc = r]
      OBVIOUS
    <2>2. one = ATask("none", r, "none", 0, FALSE)
      BY <2>1, ATaskType DEF ATask
    <2>3. PICK two : two = [one EXCEPT !.what = a]
      OBVIOUS
    <2>4. two = ATask("none", r, a, 0, FALSE)
      BY <2>2, <2>3 DEF ATask
    <2>5. PICK three : three = [two EXCEPT !.config = c]
      OBVIOUS
    <2>6. three = ATask("none", r, a, c, FALSE)
      BY <2>4, <2>5 DEF ATask
    <2>7. PICK four : four = [three EXCEPT !.step = "write"]
      OBVIOUS
    <2>8. four = ATask("write", r, a, c, FALSE)
      BY <2>6, <2>7 DEF ATask
    <2>9. three.rpc = r
      BY <2>6 DEF ATask
    <2>10. three = [NoTask EXCEPT !.rpc = r, !.what = a, !.config = c]
      BY <2>1, <2>3, <2>5, Zenon
    <2> QED
      BY <2>7, <2>8, <2>9, <2>10, Zenon
  <1>2. ASSUME NEW r, NEW a
        PROVE  [NoTask EXCEPT !.step = "begin", !.rpc = r, !.what = a] =
                  ATask("begin", r, a, 0, FALSE)
    <2>1. PICK one : one = [NoTask EXCEPT !.step = "begin"]
      OBVIOUS
    <2>2. one = ATask("begin", None, "none", 0, FALSE)
      BY <2>1, ATaskType DEF ATask
    <2>3. PICK two : two = [one EXCEPT !.rpc = r]
      OBVIOUS
    <2>4. two = ATask("begin", r, "none", 0, FALSE)
      BY <2>2, <2>3 DEF ATask
    <2>5. PICK three : three = [two EXCEPT !.what = a]
      OBVIOUS
    <2>6. three = ATask("begin", r, a, 0, FALSE)
      BY <2>4, <2>5 DEF ATask
    <2> QED
      BY <2>1, <2>3, <2>5, <2>6, Zenon
  <1>3. ASSUME NEW s
        PROVE  [NoTask EXCEPT !.step = "steer", !.rpc = s] =
                  ATask("steer", s, "none", 0, FALSE)
    <2>1. PICK one : one = [NoTask EXCEPT !.step = "steer"]
      OBVIOUS
    <2>2. one = ATask("steer", None, "none", 0, FALSE)
      BY <2>1, ATaskType DEF ATask
    <2>3. PICK two : two = [one EXCEPT !.rpc = s]
      OBVIOUS
    <2>4. two = ATask("steer", s, "none", 0, FALSE)
      BY <2>2, <2>3 DEF ATask
    <2> QED
      BY <2>1, <2>3, <2>4, Zenon
  <1>4. ASSUME NEW t \in Task, NEW s
        PROVE  [t EXCEPT !.step = s] = ATask(s, t.rpc, t.what, t.config, t.ok)
    BY ATaskType DEF ATask
  <1>5. ASSUME NEW t \in Task, NEW s, NEW k
        PROVE  [t EXCEPT !.step = s, !.ok = k] =
                  ATask(s, t.rpc, t.what, t.config, k)
    <2>1. PICK one : one = [t EXCEPT !.step = s]
      OBVIOUS
    <2>2. one = ATask(s, t.rpc, t.what, t.config, t.ok)
      BY <1>4, <2>1
    <2>3. [one EXCEPT !.ok = k] = ATask(s, t.rpc, t.what, t.config, k)
      BY <2>2 DEF ATask
    <2> QED
      BY <2>1, <2>3, Zenon
  <1> QED
    BY <1>1, <1>2, <1>3, <1>4, <1>5

-----------------------------------------------------------------------------
(***************************************************************************)
(* The record of a request, and what was written to the child.             *)
(***************************************************************************)

\* What a step may do with request r.
SameRow(r)  == sent'[r] = sent[r] /\ interaction'[r] = interaction[r]
Begun(r)    == /\ sent'[r] = sent[r] /\ interaction[r] = "PENDING"
               /\ interaction'[r] = "SENDING"
Written(r)  == /\ sent[r] = 0 /\ sent'[r] = 1
               /\ interaction[r] = "SENDING" /\ interaction'[r] = "SENDING"
Marked(r)   == /\ sent'[r] = sent[r] /\ interaction[r] = "SENDING"
               /\ \/ interaction'[r] = "SENT" /\ sent[r] = 1
                  \/ interaction'[r] = "UNKNOWN"
Heard(r)    == /\ sent'[r] = sent[r] /\ interaction[r] = "NONE" /\ Unheard(r)
               /\ interaction'[r] = "PENDING" /\ kind[r] # "unknown"
               /\ ~Unheard(r)'
Rejected(r) == /\ sent'[r] \in {sent[r], sent[r] + 1} /\ Unheard(r)
               /\ interaction'[r] = interaction[r] /\ kind[r] = "unknown"
               /\ ~Unheard(r)'
Resolved(r) == /\ sent'[r] = sent[r]
               /\ interaction[r] \in {"SENDING", "SENT", "UNKNOWN"}
               /\ interaction'[r] = "RESOLVED"
               /\ asked[r] \in {"answered", "withdrawn"}
Fenced(r)   == /\ sent'[r] = sent[r] /\ interaction'[r] = Closed[r]
RowMove(r) ==
    /\ evidence'[r] \in {evidence[r], None} \/ ~Unheard(r)'
    /\ \/ SameRow(r)
       \/ /\ kind'[r] = kind[r]
          /\ \/ Begun(r) \/ Written(r) \/ Marked(r) \/ Heard(r) \/ Rejected(r)
             \/ Resolved(r) \/ Fenced(r)

LEMMA RowKept ==
    ASSUME TypeOK, InboxSound, TaskSound, [Next]_vars,
           NEW r \in Rpcs, RowSound(r), RowMove(r)
    PROVE  RowSound(r)'
  <1>1. /\ Unheard(r)' => Unheard(r)
        /\ asked[r] \in {"answered", "withdrawn"} => asked'[r] \in {"answered", "withdrawn"}
        /\ kind'[r] = kind[r] \/ asked[r] = "no"
    BY InboxStep
  <1>2. sent[r] \in Nat /\ interaction[r] \in State
    BY DEF TypeOK
  <1>3. asked[r] = "no" => Unheard(r)
    BY DEF Unheard
  <1>4. Unheard(r)' => evidence'[r] = None
    BY <1>1 DEF RowMove, RowSound
  <1>5. CASE SameRow(r)
    <2>1. CASE kind'[r] = kind[r]
      BY <1>1, <1>4, <1>5, <2>1 DEF SameRow, RowSound
    <2>2. CASE asked[r] = "no"
      <3>1. interaction[r] = "NONE" /\ sent[r] = 0
        BY <1>3, <2>2 DEF RowSound
      <3> QED
        BY <1>4, <1>5, <3>1 DEF SameRow, RowSound
    <2> QED
      BY <1>1, <2>1, <2>2
  <1>6. ASSUME kind'[r] = kind[r], Begun(r) \/ Written(r) \/ Marked(r)
        PROVE  RowSound(r)'
    BY <1>1, <1>4, <1>6 DEF Begun, Written, Marked, RowSound
  <1>7. ASSUME kind'[r] = kind[r], Heard(r) \/ Rejected(r) \/ Resolved(r)
        PROVE  RowSound(r)'
    BY <1>1, <1>2, <1>4, <1>7 DEF Heard, Rejected, Resolved, RowSound
  <1>8. ASSUME kind'[r] = kind[r], Fenced(r)
        PROVE  RowSound(r)'
    BY <1>1, <1>2, <1>4, <1>8 DEF Fenced, Closed, RowSound, State, Open
  <1> QED
    BY <1>5, <1>6, <1>7, <1>8 DEF RowMove

\* The request at the head of the inbox has not been heard, and then has.
LEMMA RequestHeard ==
    ASSUME TypeOK, InboxSound, Has(inbox, "request")
    PROVE  LET r == Head(inbox).rpc
           IN  /\ r \in Rpcs /\ Head(inbox) = Ev("request", r) /\ Unheard(r)
               /\ asked[r] \notin {"no", "started"}
               /\ ~In(Tail(inbox), Ev("request", r))
               /\ ~In(inbox, Ev("started", r))
               /\ Tail(inbox) \in Seq(Upstream)
  <1> DEFINE r == Head(inbox).rpc
  <1>1. inbox \in Seq(Upstream) /\ inbox # <<>>
    BY DEF TypeOK, Has
  <1>2. r \in Rpcs /\ Head(inbox) = Ev("request", r)
    BY <1>1, HeadEv
  <1> HIDE DEF r
  <1>3. QueueSound(inbox, r, asked[r], kind[r])
    BY <1>2 DEF InboxSound
  <1>4. In(inbox, Ev("request", r)) /\ Tail(inbox) \in Seq(Upstream)
    BY <1>1, <1>2, TailIn, TailOne
  <1>5. asked[r] \notin {"no", "started"}
    BY <1>3, <1>4 DEF QueueSound
  <1>6. ~In(Tail(inbox), Ev("request", r)) /\ ~In(inbox, Ev("started", r))
    BY <1>1, <1>2, <1>3, TailIn DEF QueueSound
  <1> QED
    BY <1>2, <1>4, <1>5, <1>6 DEF Unheard, r

\* The end at the head of the inbox is the end of its request.
LEMMA EndHeard ==
    ASSUME TypeOK, InboxSound, NEW k \in {"resolved", "completed"}, Has(inbox, k)
    PROVE  LET r == Head(inbox).rpc
           IN  /\ r \in Rpcs /\ Head(inbox) = Ev(k, r)
               /\ asked[r] \in {"answered", "withdrawn"}
               /\ k = "completed" => ~Unheard(r)
  <1> DEFINE r == Head(inbox).rpc
  <1>1. inbox \in Seq(Upstream) /\ inbox # <<>>
    BY DEF TypeOK, Has
  <1>2. r \in Rpcs /\ Head(inbox) = Ev(k, r)
    BY <1>1, HeadEv
  <1> HIDE DEF r
  <1>3. QueueSound(inbox, r, asked[r], kind[r])
    BY <1>2 DEF InboxSound
  <1>4. In(inbox, Ev(k, r))
    BY <1>1, <1>2, TailIn
  <1>5. asked[r] \in {"answered", "withdrawn"}
    BY <1>2, <1>3, <1>4 DEF QueueSound, TypeOK
  <1>6. k = "completed" => ~In(inbox, Ev("request", r))
    BY <1>1, <1>2, <1>3, TailIn DEF QueueSound
  <1> QED
    BY <1>2, <1>5, <1>6 DEF Unheard, r

LEMMA RowMoves ==
    ASSUME TypeOK, InboxSound, TaskSound, \A r \in Rpcs : RowSound(r), [Next]_vars
    PROVE  \A r \in Rpcs : RowMove(r)
  <1>1. /\ interaction \in [Rpcs -> State] /\ sent \in [Rpcs -> Nat]
        /\ evidence \in [Rpcs -> Rpcs \cup {None}] /\ inbox \in Seq(Upstream)
        /\ commands \in Seq(Command) /\ task \in Task
    BY DEF TypeOK
  <1>2. /\ task.step \in {"begin", "write", "record"} => task.rpc \in Rpcs
        /\ task.step = "begin" => interaction[task.rpc] = "PENDING"
        /\ task.step \in {"write", "record"} => interaction[task.rpc] = "SENDING"
        /\ task.step = "write" => sent[task.rpc] = 0
        /\ task.step = "record" /\ task.ok => sent[task.rpc] = 1
    BY DEF TaskSound
  <1>3. Gone => \A r \in Rpcs : evidence'[r] = None
    BY DEF Gone, Dropped
  <1>4. ASSUME sent' = sent, interaction' = interaction, evidence' = evidence \/ Gone
        PROVE  \A r \in Rpcs : RowMove(r)
    BY <1>3, <1>4 DEF RowMove, SameRow
  <1>5. ASSUME sent' = sent, interaction' = Closed, kind' = kind, Gone
        PROVE  \A r \in Rpcs : RowMove(r)
    BY <1>3, <1>5 DEF RowMove, Fenced
  <1>6. CASE CodexNext
    BY <1>4, <1>6, CodexFrame DEF storeVars, actorVars
  <1>7. CASE UserNext
    BY <1>4, <1>7, UserFrame DEF codexVars, storeVars, actorVars
  <1>8. CASE DriveNext \/ Restarts
    <2>1. CASE Restarts
      BY <1>5, <1>8, <2>1, Ending, DriveFrame DEF Restarts
    <2>2. CASE ~Restarts
      BY <1>4, <1>8, <2>2, DriveFrame DEF actorVars
    <2> QED
      BY <2>1, <2>2
  <1>9. CASE ActorNext
    <2>1. kind' = kind
      BY <1>9, ActorFrame
    <2>2. CASE TakesApproval
      <3> DEFINE c == Head(commands)
                 t == [NoTask EXCEPT !.rpc = c.rpc, !.what = c.action, !.config = config]
      <3>1. sent' = sent /\ evidence' = evidence
        BY <2>2 DEF TakesApproval, codexVars
      <3>2. CASE Current(c) /\ Replyable(c.rpc)
        <4>1. interaction' = [interaction EXCEPT ![t.rpc] = "SENDING"]
          BY <2>2, <3>2 DEF TakesApproval, Intends, Mark
        <4>2. t.rpc = c.rpc
          <5>1. \A r, a, k : [NoTask EXCEPT !.rpc = r, !.what = a, !.config = k].rpc = r
            BY TaskForms, Zenon
          <5> QED
            BY <5>1, Zenon
        <4>3. interaction[c.rpc] = "PENDING"
          BY <3>2 DEF Replyable
        <4> HIDE DEF t, c
        <4> QED
          BY <1>1, <2>1, <3>1, <4>1, <4>2, <4>3 DEF RowMove, SameRow, Begun
      <3>3. CASE ~(Current(c) /\ Replyable(c.rpc))
        BY <1>4, <2>2, <3>1, <3>3 DEF TakesApproval
      <3> QED
        BY <3>2, <3>3
    <2>3. CASE TakesInterrupt \/ TakesSteer \/ SteerBegins \/ SteerRefused \/ SteerEnds
      BY <1>4, <2>3, Ending DEF TakesInterrupt, TakesSteer, SteerBegins,
         SteerRefused, SteerEnds, codexVars, storeVars
    <2>4. CASE ReplyWritten \/ WriteFails
      <3>1. /\ interaction' = interaction /\ evidence' = evidence
            /\ task.step = "write"
            /\ sent' = sent \/ sent' = [sent EXCEPT ![task.rpc] = @ + 1]
        BY <2>4 DEF ReplyWritten, WriteFails, Reaches, storeVars
      <3>2. task.rpc \in Rpcs /\ interaction[task.rpc] = "SENDING" /\ sent[task.rpc] = 0
        BY <1>2, <3>1
      <3>3. CASE sent' = sent
        BY <1>4, <3>1, <3>3
      <3>4. CASE sent' = [sent EXCEPT ![task.rpc] = @ + 1]
        <4>1. sent'[task.rpc] = 1 /\ \A r \in Rpcs \ {task.rpc} : sent'[r] = sent[r]
          BY <1>1, <3>2, <3>4
        <4> QED
          BY <2>1, <3>1, <3>2, <4>1 DEF RowMove, SameRow, Written
      <3> QED
        BY <3>1, <3>3, <3>4
    <2>5. CASE ReplyRecorded \/ ReplyUnknown
      <3>1. /\ sent' = sent
            /\ evidence' = evidence \/ Gone
            /\ task.step = "record"
            /\ \/ interaction' = [interaction EXCEPT ![task.rpc] = "UNKNOWN"]
               \/ /\ interaction' = [interaction EXCEPT ![task.rpc] = "SENT"]
                  /\ task.ok
        BY <2>5, Ending DEF ReplyRecorded, ReplyUnknown, Mark, codexVars
      <3>2. task.rpc \in Rpcs /\ interaction[task.rpc] = "SENDING"
        BY <1>2, <3>1
      <3>3. task.ok => sent[task.rpc] = 1
        BY <1>2, <3>1
      <3>4. \A r \in Rpcs \ {task.rpc} : interaction'[r] = interaction[r]
        BY <1>1, <3>1
      <3>5. \/ interaction'[task.rpc] = "UNKNOWN"
            \/ interaction'[task.rpc] = "SENT" /\ task.ok
        BY <1>1, <3>1, <3>2
      <3> QED
        BY <1>3, <2>1, <3>1, <3>2, <3>3, <3>4, <3>5 DEF RowMove, SameRow, Marked
    <2>6. CASE GrantReplies
      <3>1. /\ sent' = sent /\ evidence' = evidence /\ task.step = "begin"
            /\ interaction' = [interaction EXCEPT ![task.rpc] = "SENDING"]
        BY <2>6 DEF GrantReplies, Intends, Mark, codexVars
      <3> QED
        BY <1>1, <1>2, <2>1, <3>1 DEF RowMove, SameRow, Begun
    <2>7. CASE HearsCall \/ LosesRuntime \/ Confirms
      BY <1>4, <2>7, Ending DEF HearsCall, LosesRuntime, Confirms, codexVars, storeVars
    <2>8. CASE HearsRequest
      <3>0. PICK r \in Rpcs : r = Head(inbox).rpc
        BY <2>8, RequestHeard DEF HearsRequest
      <3>1. /\ sent' = sent /\ asked' = asked /\ kind[r] # "unknown"
            /\ interaction' = [interaction EXCEPT ![r] = "PENDING"]
            /\ \/ /\ inbox' = Tail(inbox)
                  /\ evidence' = [evidence EXCEPT ![r] = Match(r)]
               \/ Gone /\ inbox' = <<>>
        BY <2>8, <3>0, Ending DEF HearsRequest, Mark, Learns, Gone, Dropped
      <3>2. /\ r \in Rpcs /\ Unheard(r) /\ asked[r] \notin {"no", "started"}
            /\ ~In(Tail(inbox), Ev("request", r))
        BY <2>8, <3>0, RequestHeard DEF HearsRequest
      <3>3. ~Unheard(r)'
        BY <3>1, <3>2 DEF Unheard, In
      <3>4. interaction[r] = "NONE"
        BY <3>2 DEF RowSound
      <3>5. /\ interaction'[r] = "PENDING"
            /\ \A s \in Rpcs \ {r} : interaction'[s] = interaction[s]
        BY <1>1, <3>1, <3>2
      <3>6. \A s \in Rpcs \ {r} : evidence'[s] \in {evidence[s], None}
        BY <1>1, <1>3, <3>1
      <3> QED
        BY <2>1, <3>1, <3>2, <3>3, <3>4, <3>5, <3>6 DEF RowMove, SameRow, Heard
    <2>9. CASE HearsUnknown
      <3>0. PICK r \in Rpcs : r = Head(inbox).rpc
        BY <2>9, RequestHeard DEF HearsUnknown
      <3> DEFINE waits == child = "running" /\ asked[r] = "waiting"
      <3>1. /\ interaction' = interaction /\ kind[r] = "unknown"
            /\ sent' = [sent EXCEPT ![r] = IF child = "gone" THEN @ ELSE @ + 1]
            /\ \/ asked' = asked
               \/ asked' = [asked EXCEPT ![r] = IF waits THEN "answered" ELSE @]
            /\ \/ /\ inbox' = Tail(inbox) \o (IF waits THEN Over(r) ELSE <<>>)
                  /\ evidence' = evidence
               \/ Gone /\ inbox' = <<>>
        BY <2>9, <3>0, Ending DEF HearsUnknown, Gone, Dropped, actorVars
      <3>2. /\ r \in Rpcs /\ Unheard(r) /\ asked[r] \notin {"no", "started"}
            /\ ~In(Tail(inbox), Ev("request", r)) /\ Tail(inbox) \in Seq(Upstream)
        BY <2>9, <3>0, RequestHeard DEF HearsUnknown
      <3>3. asked'[r] \notin {"no", "started"}
        BY <3>1, <3>2 DEF TypeOK
      <3>4. Tail(inbox) \o <<>> = Tail(inbox)
        BY <3>2, ConcatEmptySeq
      <3>5. ~In(Tail(inbox) \o Over(r), Ev("request", r))
        BY <3>2, OverIn
      <3>6. ~In(<<>>, Ev("request", r))
        BY DEF In
      <3>7. ~In(inbox', Ev("request", r))
        BY <3>1, <3>2, <3>4, <3>5, <3>6
      <3>8. ~Unheard(r)'
        BY <3>3, <3>7 DEF Unheard
      <3>9. /\ sent'[r] \in {sent[r], sent[r] + 1}
            /\ \A s \in Rpcs \ {r} : sent'[s] = sent[s]
        BY <1>1, <3>1, <3>2
      <3>10. \A s \in Rpcs : evidence'[s] \in {evidence[s], None}
        BY <1>3, <3>1
      <3> QED
        BY <2>1, <3>1, <3>2, <3>8, <3>9, <3>10 DEF RowMove, SameRow, Rejected
    <2>10. CASE HearsResolved
      <3> DEFINE r == Head(inbox).rpc
      <3>1. /\ sent' = sent
            /\ evidence' = evidence \/ Gone
            /\ \/ interaction' = interaction
               \/ /\ interaction[r] \in {"SENDING", "SENT", "UNKNOWN"}
                  /\ interaction' = [interaction EXCEPT ![r] = "RESOLVED"]
        BY <2>10, Ending DEF HearsResolved, Mark
      <3>2. r \in Rpcs /\ asked[r] \in {"answered", "withdrawn"}
        BY <2>10, EndHeard DEF HearsResolved
      <3> HIDE DEF r
      <3>3. CASE interaction' = interaction
        BY <1>4, <3>1, <3>3
      <3>4. CASE /\ interaction[r] \in {"SENDING", "SENT", "UNKNOWN"}
                 /\ interaction' = [interaction EXCEPT ![r] = "RESOLVED"]
        <4>1. /\ interaction'[r] = "RESOLVED"
              /\ \A s \in Rpcs \ {r} : interaction'[s] = interaction[s]
          BY <1>1, <3>2, <3>4
        <4> QED
          BY <1>3, <2>1, <3>1, <3>2, <3>4, <4>1 DEF RowMove, SameRow, Resolved
      <3> QED
        BY <3>1, <3>3, <3>4
    <2>11. CASE Closes
      BY <1>5, <2>1, <2>11, Ending DEF Closes
    <2> QED
      BY <1>9, <2>2, <2>3, <2>4, <2>5, <2>6, <2>7, <2>8, <2>9, <2>10, <2>11 DEF ActorNext
  <1>10. CASE UNCHANGED vars
    BY <1>4, <1>10 DEF vars, codexVars, storeVars, actorVars
  <1> QED
    BY <1>6, <1>7, <1>8, <1>9, <1>10 DEF Next

LEMMA TaskStep ==
    ASSUME TypeOK, InboxSound, TaskSound, LifeSound, \A r \in Rpcs : RowSound(r),
           [Next]_vars
    PROVE  TaskSound'
  <1>1. /\ interaction \in [Rpcs -> State] /\ sent \in [Rpcs -> Nat]
        /\ commands \in Seq(Command) /\ task \in Task
    BY DEF TypeOK
  <1>2. /\ task.step \in {"begin", "write", "record"} => task.rpc \in Rpcs
        /\ task.step = "begin" => interaction[task.rpc] = "PENDING" /\ task.what = "grant"
        /\ task.step \in {"write", "record"} => interaction[task.rpc] = "SENDING"
        /\ task.step = "write" => sent[task.rpc] = 0
        /\ task.step \in {"begin", "write"} => ~task.ok
        /\ task.step = "record" /\ task.ok => sent[task.rpc] = 1
    BY DEF TaskSound
  <1>3. NoTask.step = "none"
    BY DEF NoTask
  <1>4. ASSUME task' = NoTask
        PROVE  TaskSound'
    BY <1>3, <1>4 DEF TaskSound
  <1>5. Gone => TaskSound'
    BY <1>4 DEF Gone, Dropped
  <1>6. ASSUME UNCHANGED <<task, actor, interaction, sent>>
        PROVE  TaskSound'
    BY <1>6 DEF TaskSound
  <1>7. ASSUME actor' = "serving", NEW s, NEW r, NEW a, NEW c, NEW k,
               task' = ATask(s, r, a, c, k),
               s \in {"begin", "write", "record"} => r \in Rpcs,
               s = "begin" => interaction'[r] = "PENDING" /\ a = "grant",
               s \in {"write", "record"} => interaction'[r] = "SENDING",
               s = "write" => sent'[r] = 0,
               s \in {"begin", "write"} => ~k,
               s = "record" /\ k => sent'[r] = 1
        PROVE  TaskSound'
    <2>1. task'.step = s /\ task'.rpc = r /\ task'.what = a /\ task'.ok = k
      BY <1>7, ATaskType
    <2> QED
      BY <1>7, <2>1 DEF TaskSound
  <1>8. CASE CodexNext
    BY <1>6, <1>8, CodexFrame DEF storeVars, actorVars
  <1>9. CASE UserNext
    BY <1>6, <1>9, UserFrame DEF codexVars, storeVars, actorVars
  <1>10. CASE DriveNext \/ Restarts
    <2>1. CASE Gone
      BY <1>5, <2>1
    <2>2. CASE ~Gone
      <3>1. ~Restarts
        BY <2>2, Ending DEF Restarts
      <3> QED
        BY <1>6, <1>10, <2>2, <3>1, DriveFrame DEF actorVars
    <2> QED
      BY <2>1, <2>2
  <1>11. CASE ActorNext
    <2>1. CASE TakesApproval
      <3> DEFINE c == Head(commands)
                 t == [NoTask EXCEPT !.rpc = c.rpc, !.what = c.action, !.config = config]
      <3>1. /\ actor' = "serving" /\ actor = "serving" /\ sent' = sent
            /\ commands # <<>> /\ c.kind = "approval"
        BY <2>1 DEF TakesApproval, Takes, Has, Serving, codexVars
      <3>2. CASE Current(c) /\ Replyable(c.rpc)
        <4>1. /\ interaction' = [interaction EXCEPT ![t.rpc] = "SENDING"]
              /\ task' = [t EXCEPT !.step = "write"]
          BY <2>1, <3>2 DEF TakesApproval, Intends, Mark
        <4>2. \A r, a, k : [NoTask EXCEPT !.rpc = r, !.what = a, !.config = k].rpc = r
          BY TaskForms, Zenon
        <4>3. t.rpc = c.rpc
          BY <4>2, Zenon
        <4>4. \A r, a, k : [[NoTask EXCEPT !.rpc = r, !.what = a, !.config = k]
                              EXCEPT !.step = "write"] = ATask("write", r, a, k, FALSE)
          BY TaskForms, Zenon
        <4>5. [t EXCEPT !.step = "write"] = ATask("write", c.rpc, c.action, config, FALSE)
          BY <4>4, Zenon
        <4> HIDE DEF t
        <4>6. c \in Command
          BY <1>1, <3>1, TailOne
        <4>7. c.rpc \in Rpcs
          BY <3>1, <4>6 DEF Command
        <4> HIDE DEF c
        <4>8. interaction[c.rpc] = "PENDING"
          BY <3>2 DEF Replyable
        <4>9. sent[c.rpc] = 0
          BY <4>7, <4>8 DEF RowSound
        <4>10. interaction'[c.rpc] = "SENDING" /\ sent'[c.rpc] = 0
          BY <1>1, <3>1, <4>1, <4>3, <4>7, <4>9
        <4>11. task' = ATask("write", c.rpc, c.action, config, FALSE)
          BY <4>1, <4>5, Zenon
        <4> QED
          BY <1>7, <3>1, <4>7, <4>10, <4>11
      <3>3. CASE ~(Current(c) /\ Replyable(c.rpc))
        BY <1>6, <2>1, <3>1, <3>3 DEF TakesApproval
      <3> QED
        BY <3>2, <3>3
    <2>2. CASE TakesInterrupt \/ Confirms
      <3>1. task' = NoTask
        BY <2>2 DEF TakesInterrupt, Confirms, Takes, Serving
      <3> QED
        BY <1>4, <3>1
    <2>3. CASE TakesSteer
      <3>1. \/ Gone
            \/ /\ actor' = "serving"
               /\ task' = [NoTask EXCEPT !.step = "steer", !.rpc = Head(commands).steer]
        BY <2>3, Ending DEF TakesSteer, Serving
      <3>2. \A s : [NoTask EXCEPT !.step = "steer", !.rpc = s] =
                      ATask("steer", s, "none", 0, FALSE)
        BY TaskForms, Zenon
      <3>3. [NoTask EXCEPT !.step = "steer", !.rpc = Head(commands).steer] =
               ATask("steer", Head(commands).steer, "none", 0, FALSE)
        BY <3>2, Zenon
      <3> QED
        BY <1>5, <1>7, <3>1, <3>3
    <2>4. CASE SteerBegins
      <3>1. actor' = "serving" /\ task' = [task EXCEPT !.step = "steering"]
        BY <2>4 DEF SteerBegins
      <3>2. [task EXCEPT !.step = "steering"] =
               ATask("steering", task.rpc, task.what, task.config, task.ok)
        BY <1>1, TaskForms
      <3> QED
        BY <1>7, <3>1, <3>2
    <2>5. CASE SteerRefused \/ SteerEnds \/ ReplyRecorded
      <3>1. task' = NoTask
        BY <2>5 DEF SteerRefused, SteerEnds, ReplyRecorded
      <3> QED
        BY <1>4, <3>1
    <2>6. CASE ReplyUnknown \/ LosesRuntime \/ Closes
      <3>1. task' = NoTask \/ Gone
        BY <2>6, Ending DEF ReplyUnknown, LosesRuntime, Closes
      <3> QED
        BY <1>4, <1>5, <3>1
    <2>7. CASE ReplyWritten
      <3>1. /\ actor' = "serving" /\ task.step = "write" /\ interaction' = interaction
            /\ sent' = [sent EXCEPT ![task.rpc] = @ + 1]
            /\ task' = [task EXCEPT !.step = "record", !.ok = TRUE]
        BY <2>7 DEF ReplyWritten, Reaches, storeVars
      <3>2. \A t \in Task : \A s, k : [t EXCEPT !.step = s, !.ok = k] =
                                         ATask(s, t.rpc, t.what, t.config, k)
        BY TaskForms, Zenon
      <3>3. [task EXCEPT !.step = "record", !.ok = TRUE] =
               ATask("record", task.rpc, task.what, task.config, TRUE)
        BY <1>1, <3>2, Zenon
      <3>4. /\ task.rpc \in Rpcs /\ sent'[task.rpc] = 1
            /\ interaction'[task.rpc] = "SENDING"
        BY <1>1, <1>2, <3>1
      <3>5. task' = ATask("record", task.rpc, task.what, task.config, TRUE)
        BY <3>1, <3>3, Zenon
      <3>6. actor' = "serving"
        BY <3>1
      <3> QED
        BY <1>7, <3>4, <3>5, <3>6
    <2>8. CASE WriteFails
      <3>1. /\ actor' = "serving" /\ task.step = "write" /\ interaction' = interaction
            /\ task' = [task EXCEPT !.step = "record"]
        BY <2>8 DEF WriteFails, storeVars
      <3>2. [task EXCEPT !.step = "record"] =
               ATask("record", task.rpc, task.what, task.config, task.ok)
        BY <1>1, TaskForms
      <3> QED
        BY <1>2, <1>7, <3>1, <3>2
    <2>9. CASE GrantReplies
      <3>1. /\ actor' = "serving" /\ task.step = "begin" /\ sent' = sent
            /\ interaction' = [interaction EXCEPT ![task.rpc] = "SENDING"]
            /\ task' = [task EXCEPT !.step = "write"]
        BY <2>9 DEF GrantReplies, Intends, Mark, codexVars
      <3>2. [task EXCEPT !.step = "write"] =
               ATask("write", task.rpc, task.what, task.config, task.ok)
        BY <1>1, TaskForms
      <3>3. task.rpc \in Rpcs /\ interaction[task.rpc] = "PENDING"
        BY <1>2, <3>1
      <3>4. interaction'[task.rpc] = "SENDING" /\ sent'[task.rpc] = 0
        BY <1>1, <3>1, <3>3 DEF RowSound
      <3> QED
        BY <1>2, <1>7, <3>1, <3>2, <3>3, <3>4
    <2>10. CASE HearsCall
      BY <1>6, <2>10 DEF HearsCall, storeVars
    <2>11. CASE HearsRequest
      <3>0. PICK r \in Rpcs : r = Head(inbox).rpc
        BY <2>11, RequestHeard DEF HearsRequest
      <3>1. /\ actor = "serving" /\ task = NoTask
            /\ interaction' = [interaction EXCEPT ![r] = "PENDING"]
            /\ \/ Gone
               \/ task' = NoTask
               \/ /\ actor' = actor
                  /\ task' = [NoTask EXCEPT !.step = "begin", !.rpc = r, !.what = "grant"]
        BY <2>11, <3>0, Ending DEF HearsRequest, Learns, Mark, Serving
      <3>2. \A s, a : [NoTask EXCEPT !.step = "begin", !.rpc = s, !.what = a] =
                         ATask("begin", s, a, 0, FALSE)
        BY TaskForms, Zenon
      <3>3. [NoTask EXCEPT !.step = "begin", !.rpc = r, !.what = "grant"] =
               ATask("begin", r, "grant", 0, FALSE)
        BY <3>2, Zenon
      <3>4. interaction'[r] = "PENDING"
        BY <1>1, <3>1
      <3>5. \/ Gone
            \/ task' = NoTask
            \/ actor' = "serving" /\ task' = ATask("begin", r, "grant", 0, FALSE)
        BY <3>1, <3>3, Zenon
      <3> QED
        BY <1>4, <1>5, <1>7, <3>4, <3>5
    <2>12. CASE HearsUnknown \/ HearsResolved
      <3>1. task' = NoTask \/ Gone
        BY <2>12, Ending DEF HearsUnknown, HearsResolved, Serving, actorVars
      <3> QED
        BY <1>4, <1>5, <3>1
    <2> QED
      BY <1>11, <2>1, <2>2, <2>3, <2>4, <2>5, <2>6, <2>7, <2>8, <2>9, <2>10,
         <2>11, <2>12 DEF ActorNext
  <1>12. CASE UNCHANGED vars
    BY <1>6, <1>12 DEF vars, codexVars, storeVars, actorVars
  <1> QED
    BY <1>8, <1>9, <1>10, <1>11, <1>12 DEF Next

-----------------------------------------------------------------------------
(***************************************************************************)
(* The run, its actor and what it waits for.                               *)
(***************************************************************************)

\* The run waits for an approval exactly while one is open.
Waiting == request \in Active =>
              (request = "APPROVAL_REQUIRED" <=> InState(Open) # {})

LEMMA WaitingStep ==
    ASSUME TypeOK, InboxSound, TaskSound, LifeSound, \A r \in Rpcs : RowSound(r),
           [Next]_vars
    PROVE  Waiting'
  <1>1. /\ interaction \in [Rpcs -> State] /\ commands \in Seq(Command) /\ task \in Task
        /\ request \in Active \cup {"UNKNOWN", "TERMINAL"}
    BY DEF TypeOK
  <1>2. /\ task.step \in {"begin", "write", "record"} => task.rpc \in Rpcs
        /\ task.step = "begin" => interaction[task.rpc] = "PENDING"
        /\ task.step \in {"write", "record"} => interaction[task.rpc] = "SENDING"
    BY DEF TaskSound
  <1>3. Waiting
    BY DEF LifeSound, Waiting
  <1>4. ASSUME request' \notin Active
        PROVE  Waiting'
    BY <1>4 DEF Waiting
  <1>5. ASSUME request' = request, interaction' = interaction
        PROVE  Waiting'
    BY <1>3, <1>5 DEF Waiting, InState
  <1>6. ASSUME NEW r \in Rpcs, NEW v \in Open, request' = request,
               interaction[r] \in Open, interaction' = [interaction EXCEPT ![r] = v]
        PROVE  Waiting'
    <2>1. \A s \in Rpcs : interaction'[s] \in Open <=> interaction[s] \in Open
      BY <1>1, <1>6
    <2>2. InState(Open)' = InState(Open)
      BY <2>1 DEF InState
    <2> QED
      BY <1>3, <1>6, <2>2 DEF Waiting
  <1>7. CASE CodexNext
    BY <1>5, <1>7, CodexFrame DEF storeVars
  <1>8. CASE UserNext
    BY <1>5, <1>8, UserFrame DEF storeVars
  <1>9. CASE DriveNext \/ Restarts
    <2>1. CASE DriveSettles \/ Restarts
      <3>1. request' = IF request \in Active THEN "UNKNOWN" ELSE request
        BY <2>1 DEF DriveSettles, Restarts
      <3> QED
        BY <1>4, <3>1 DEF Active
    <2>2. CASE ~(DriveSettles \/ Restarts)
      BY <1>5, <1>9, <2>2, DriveFrame
    <2> QED
      BY <2>1, <2>2
  <1>10. CASE ActorNext
    <2>1. CASE TakesApproval
      <3> DEFINE c == Head(commands)
                 t == [NoTask EXCEPT !.rpc = c.rpc, !.what = c.action, !.config = config]
      <3>1. /\ request' = request /\ commands # <<>> /\ c.kind = "approval"
        BY <2>1 DEF TakesApproval, Takes, Has
      <3>2. CASE Current(c) /\ Replyable(c.rpc)
        <4>1. interaction' = [interaction EXCEPT ![t.rpc] = "SENDING"]
          BY <2>1, <3>2 DEF TakesApproval, Intends, Mark
        <4>2. \A r, a, k : [NoTask EXCEPT !.rpc = r, !.what = a, !.config = k].rpc = r
          BY TaskForms, Zenon
        <4>3. t.rpc = c.rpc
          BY <4>2, Zenon
        <4> HIDE DEF t
        <4>4. c \in Command
          BY <1>1, <3>1, TailOne
        <4>5. c.rpc \in Rpcs
          BY <3>1, <4>4 DEF Command
        <4>6. interaction[c.rpc] = "PENDING"
          BY <3>2 DEF Replyable
        <4> HIDE DEF c
        <4> QED
          BY <1>6, <3>1, <4>1, <4>3, <4>5, <4>6 DEF Open
      <3>3. CASE ~(Current(c) /\ Replyable(c.rpc))
        BY <1>5, <2>1, <3>1, <3>3 DEF TakesApproval
      <3> QED
        BY <3>2, <3>3
    <2>2. CASE TakesInterrupt \/ TakesSteer \/ SteerBegins \/ SteerRefused
               \/ SteerEnds \/ ReplyWritten \/ WriteFails \/ HearsCall
      BY <1>5, <2>2 DEF TakesInterrupt, TakesSteer, SteerBegins, SteerRefused,
         SteerEnds, ReplyWritten, WriteFails, HearsCall, storeVars
    <2>3. CASE ReplyRecorded \/ ReplyUnknown
      <3>1. /\ task.step = "record" /\ request' \in {request, "UNKNOWN"}
            /\ \/ interaction' = [interaction EXCEPT ![task.rpc] = "SENT"]
               \/ interaction' = [interaction EXCEPT ![task.rpc] = "UNKNOWN"]
        BY <2>3 DEF ReplyRecorded, ReplyUnknown, Mark
      <3>2. task.rpc \in Rpcs /\ interaction[task.rpc] = "SENDING"
        BY <1>2, <3>1
      <3> QED
        BY <1>4, <1>6, <3>1, <3>2 DEF Open, Active
    <2>4. CASE GrantReplies
      <3>1. /\ task.step = "begin" /\ request' = request
            /\ interaction' = [interaction EXCEPT ![task.rpc] = "SENDING"]
        BY <2>4 DEF GrantReplies, Intends, Mark
      <3>2. task.rpc \in Rpcs /\ interaction[task.rpc] = "PENDING"
        BY <1>2, <3>1
      <3> QED
        BY <1>6, <3>1, <3>2 DEF Open
    <2>5. CASE LosesRuntime \/ Confirms
      BY <1>4, <2>5 DEF LosesRuntime, Confirms, Active
    <2>6. CASE Closes
      <3>1. request' = request /\ request = "TERMINAL"
        BY <2>6 DEF Closes, LifeSound
      <3> QED
        BY <1>4, <3>1 DEF Active
    <2>7. CASE HearsRequest
      <3>1. PICK r \in Rpcs : r = Head(inbox).rpc
        BY <2>7, RequestHeard DEF HearsRequest
      <3>2. /\ interaction' = [interaction EXCEPT ![r] = "PENDING"]
            /\ request' = "APPROVAL_REQUIRED"
        BY <2>7, <3>1 DEF HearsRequest, Mark
      <3>3. interaction'[r] = "PENDING"
        BY <1>1, <3>2
      <3> QED
        BY <3>2, <3>3 DEF Waiting, InState, Open
    <2>8. CASE HearsUnknown
      <3>1. interaction' = interaction /\ request' \in {request, "UNKNOWN"}
        BY <2>8 DEF HearsUnknown
      <3> QED
        BY <1>4, <1>5, <3>1 DEF Active
    <2>9. CASE HearsResolved
      <3>1. PICK r \in Rpcs : r = Head(inbox).rpc
        BY <2>9, EndHeard DEF HearsResolved
      <3>2. \/ interaction' = interaction /\ request' = request
            \/ /\ interaction[r] \in {"SENDING", "SENT", "UNKNOWN"}
               /\ interaction' = [interaction EXCEPT ![r] = "RESOLVED"]
               /\ request' = IF StillOpen(r) = {} THEN "RUNNING" ELSE request
        BY <2>9, <3>1 DEF HearsResolved, Mark
      <3>3. CASE interaction' = interaction /\ request' = request
        BY <1>5, <3>3
      <3>4. CASE /\ interaction[r] \in {"SENDING", "SENT", "UNKNOWN"}
                 /\ interaction' = [interaction EXCEPT ![r] = "RESOLVED"]
                 /\ request' = IF StillOpen(r) = {} THEN "RUNNING" ELSE request
        <4>1. \A s \in Rpcs : interaction'[s] \in Open <=> interaction[s] \in Open /\ s # r
          BY <1>1, <3>4 DEF Open
        <4>2. InState(Open)' = StillOpen(r)
          BY <4>1 DEF InState, StillOpen
        <4>3. InState(Open) # {}
          BY <3>4 DEF InState, Open
        <4> QED
          BY <1>3, <3>4, <4>2, <4>3 DEF Waiting, Active
      <3> QED
        BY <3>2, <3>3, <3>4
    <2> QED
      BY <1>10, <2>1, <2>2, <2>3, <2>4, <2>5, <2>6, <2>7, <2>8, <2>9 DEF ActorNext
  <1>11. CASE UNCHANGED vars
    BY <1>5, <1>11 DEF vars, storeVars
  <1> QED
    BY <1>7, <1>8, <1>9, <1>10, <1>11 DEF Next

LEMMA WorkerStep ==
    ASSUME TypeOK, LifeSound, [Next]_vars
    PROVE  \A w \in Workers :
              worker'[w] # Idle => worker'[w].rpc \in Rpcs /\ worker'[w].action \in Actions
  <1>1. /\ worker \in [Workers -> [rpc : Rpcs \cup {None}, action : Actions \cup {"none"},
                                   generation : Nat, viewed : Nat]]
        /\ \A w \in Workers :
              worker[w] # Idle => worker[w].rpc \in Rpcs /\ worker[w].action \in Actions
    BY DEF TypeOK, LifeSound
  <1>2. CASE worker' = worker
    BY <1>1, <1>2
  <1>3. CASE worker' = [w \in Workers |-> Idle]
    BY <1>3
  <1>4. CASE \E w \in Workers : worker' = [worker EXCEPT ![w] = Idle]
    BY <1>1, <1>4
  <1>5. ASSUME NEW w \in Workers, NEW r \in Rpcs, Presses(w, r)
        PROVE  \A v \in Workers :
                  worker'[v] # Idle => worker'[v].rpc \in Rpcs /\ worker'[v].action \in Actions
    <2>1. PICK a \in Buttons(r) :
             worker' = [worker EXCEPT ![w] = [rpc |-> r, action |-> a,
                                              generation |-> cards[r].generation,
                                              viewed |-> cards[r].viewed]]
      BY <1>5 DEF Presses
    <2>2. a \in Actions
      BY <2>1 DEF Buttons, Rejection, Actions, Decisions
    <2> QED
      BY <1>1, <2>1, <2>2
  <1>6. CASE CodexNext
    BY <1>2, <1>6, CodexFrame DEF coordVars
  <1>7. CASE UserNext
    <2>1. ASSUME NEW w \in Workers, GivesUp(w) \/ MailsDecision(w)
          PROVE  worker' = [worker EXCEPT ![w] = Idle]
      BY <2>1 DEF GivesUp, MailsDecision, Leaves
    <2>2. ASSUME NEW r \in Rpcs, NEW k \in Pages(r), ReadsPage(r, k)
          PROVE  worker' = worker
      BY <2>2 DEF ReadsPage
    <2>3. ASSUME MailsInterrupt \/ EditsConfig \/ \E s \in Steers : MailsSteer(s)
          PROVE  worker' = worker
      BY <2>3 DEF MailsInterrupt, EditsConfig, MailsSteer, coordVars
    <2> QED
      BY <1>2, <1>4, <1>5, <1>7, <2>1, <2>2, <2>3 DEF UserNext
  <1>8. CASE DriveNext \/ Restarts
    <2>1. worker' = worker \/ worker' = [w \in Workers |-> Idle]
      BY <1>8 DEF DriveNext, DriveShows, DriveFails, DriveRemoves, DriveEnds,
         DriveCleans, DriveSettles, Restarts
    <2> QED
      BY <1>2, <1>3, <2>1
  <1>9. CASE ActorNext
    BY <1>2, <1>9, ActorFrame DEF coordVars
  <1>10. CASE UNCHANGED vars
    BY <1>2, <1>10 DEF vars, coordVars
  <1> QED
    BY <1>6, <1>7, <1>8, <1>9, <1>10 DEF Next

LEMMA LifeStep ==
    ASSUME TypeOK, InboxSound, TaskSound, LifeSound, \A r \in Rpcs : RowSound(r),
           [Next]_vars
    PROVE  LifeSound'
  <1>1. /\ actor = "serving" => request \in Active
        /\ actor = "confirmed" => request = "TERMINAL"
        /\ drive # "receiving" => actor \notin {"serving", "confirmed"}
    BY DEF LifeSound
  <1>2. Waiting' /\ \A w \in Workers :
           worker'[w] # Idle => worker'[w].rpc \in Rpcs /\ worker'[w].action \in Actions
    BY WaitingStep, WorkerStep
  <1>3. ASSUME actor' = "serving" => request' \in Active,
               actor' = "confirmed" => request' = "TERMINAL",
               drive' # "receiving" => actor' \notin {"serving", "confirmed"}
        PROVE  LifeSound'
    BY <1>2, <1>3 DEF LifeSound, Waiting
  <1>4. Gone => LifeSound'
    BY <1>3 DEF Gone
  <1>5. UNCHANGED <<actor, request, drive>> => LifeSound'
    BY <1>1, <1>3
  <1>6. CASE CodexNext
    BY <1>5, <1>6, CodexFrame DEF storeVars, actorVars, coordVars
  <1>7. CASE UserNext
    BY <1>5, <1>7, UserFrame DEF storeVars, actorVars
  <1>8. CASE DriveNext \/ Restarts
    <2>1. CASE Gone
      BY <1>4, <2>1
    <2>2. CASE ~Gone
      <3>1. ~Restarts
        BY <2>2, Ending DEF Restarts
      <3>2. actor' = actor /\ (drive' # "receiving" => drive # "receiving")
        BY <1>8, <2>2, DriveFrame DEF actorVars
      <3>3. request' = request \/ DriveSettles
        BY <1>8, <3>1, DriveFrame
      <3>4. DriveSettles => drive # "receiving"
        BY DEF DriveSettles
      <3> QED
        BY <1>1, <1>3, <3>2, <3>3, <3>4
    <2> QED
      BY <2>1, <2>2
  <1>9. CASE ActorNext
    <2>1. drive' = drive
      BY <1>9, ActorFrame DEF coordVars
    <2>2. CASE TakesApproval \/ TakesInterrupt \/ TakesSteer \/ SteerBegins
               \/ SteerRefused \/ SteerEnds \/ ReplyWritten \/ WriteFails
               \/ ReplyRecorded \/ GrantReplies \/ HearsCall
      <3>1. UNCHANGED <<actor, request>> \/ Gone
        BY <2>2, Ending DEF TakesApproval, TakesInterrupt, TakesSteer, SteerBegins,
           SteerRefused, SteerEnds, ReplyWritten, WriteFails, ReplyRecorded,
           GrantReplies, HearsCall, storeVars
      <3> QED
        BY <1>4, <1>5, <2>1, <3>1
    <2>3. CASE ReplyUnknown \/ HearsUnknown
      <3>1. Gone \/ UNCHANGED <<actor, request>>
        BY <2>3, Ending DEF ReplyUnknown, HearsUnknown, actorVars
      <3> QED
        BY <1>4, <1>5, <2>1, <3>1
    <2>4. CASE HearsRequest \/ HearsResolved
      <3>1. Gone \/ actor' = actor
        BY <2>4, Ending DEF HearsRequest, HearsResolved, Learns
      <3>2. actor = "serving" /\ request' \in Active \cup {request}
        BY <2>4 DEF HearsRequest, HearsResolved, Serving, Active
      <3> QED
        BY <1>1, <1>3, <1>4, <2>1, <3>1, <3>2
    <2>5. CASE Confirms
      <3>1. actor = "serving" /\ actor' = "confirmed" /\ request' = "TERMINAL"
        BY <2>5 DEF Confirms, Serving
      <3> QED
        BY <1>1, <1>3, <2>1, <3>1
    <2>6. CASE LosesRuntime \/ Closes
      BY <1>4, <2>6, Ending DEF LosesRuntime, Closes
    <2> QED
      BY <1>9, <2>2, <2>3, <2>4, <2>5, <2>6 DEF ActorNext
  <1>10. CASE UNCHANGED vars
    BY <1>5, <1>10 DEF vars, storeVars, actorVars, coordVars
  <1> QED
    BY <1>6, <1>7, <1>8, <1>9, <1>10 DEF Next

-----------------------------------------------------------------------------
(***************************************************************************)
(* Types.                                                                  *)
(***************************************************************************)

\* What a vanished actor, and what every other step may leave behind.
ActorTyped == /\ actor \in {"serving", "confirmed", "ended", "failed", "aborted"}
              /\ task \in Task /\ generation \in Nat
              /\ grants \in [Tools -> Config \cup {None}]
              /\ items \subseteq Rpcs
              /\ evidence \in [Rpcs -> Rpcs \cup {None}]
              /\ known \subseteq Rpcs
StoreTyped == /\ interaction \in [Rpcs -> State]
              /\ request \in Active \cup {"UNKNOWN", "TERMINAL"}
              /\ steer \in [Steers -> {"NONE", "SENDING", "SENT", "UNKNOWN"}]
              /\ stopRequested \in BOOLEAN
MailTyped  == /\ commands \in Seq(Command) /\ mailed \in 0 .. MaxCommands
EventTyped == /\ events \in Seq(Event) /\ Len(events) <= EventCapacity
CoordTyped == /\ drive \in {"receiving", "ending", "settling", "done", "down"}
              /\ cards \in [Rpcs -> [generation : Nat, viewed : Nat, up : BOOLEAN]]
              /\ live \in BOOLEAN
              /\ worker \in [Workers ->
                     [rpc : Rpcs \cup {None}, action : Actions \cup {"none"},
                      generation : Nat, viewed : Nat]]
UserTyped  == /\ config \in Config
              /\ shown \in [Rpcs -> SUBSET Nat]
              /\ mandate \subseteq Tools \X Config
ChildTyped == /\ child \in {"running", "ended", "gone"}
              /\ sent \in [Rpcs -> Nat]

LEMMA TypeParts ==
    /\ TypeOK => /\ ChildTyped /\ StoreTyped /\ ActorTyped /\ MailTyped
                 /\ EventTyped /\ CoordTyped /\ UserTyped
    /\ /\ asked' \in [Rpcs -> {"no", "started", "waiting", "answered", "withdrawn"}]
       /\ kind' \in [Rpcs -> Kind \cup {"none"}]
       /\ inbox' \in Seq(Upstream)
       /\ ChildTyped' /\ StoreTyped' /\ ActorTyped' /\ MailTyped'
       /\ EventTyped' /\ CoordTyped' /\ UserTyped'
       => TypeOK'
  BY DEF TypeOK, ChildTyped, StoreTyped, ActorTyped, MailTyped, EventTyped,
     CoordTyped, UserTyped

LEMMA GoneTypes ==
    ASSUME TypeOK, Gone
    PROVE  /\ child' \in {"running", "ended", "gone"} /\ ActorTyped'
           /\ commands' \in Seq(Command)
           /\ shown' \in [Rpcs -> SUBSET Nat]
           /\ mandate' \subseteq Tools \X Config
  <1>1. NoTask \in Task
    BY ATaskType
  <1>2. /\ child' = "gone" /\ commands' = <<>> /\ task' = NoTask /\ generation' = 0
        /\ items' = {} /\ known' = {} /\ evidence' = [r \in Rpcs |-> None]
        /\ grants' = NoGrants /\ mandate' = {} /\ shown' = [r \in Rpcs |-> {}]
        /\ actor' \in {"ended", "failed", "aborted"}
    BY DEF Gone, Dropped, Forgets
  <1> QED
    BY <1>1, <1>2 DEF NoGrants, ActorTyped

LEMMA EmitType ==
    ASSUME TypeOK, NEW e \in Event, Emit(e)
    PROVE  EventTyped'
  <1>1. /\ events \in Seq(Event) /\ Len(events) < EventCapacity
        /\ events' = Append(events, e)
    BY DEF TypeOK, Emit, Room
  <1>2. /\ Append(events, e) \in Seq(Event)
        /\ Len(Append(events, e)) = Len(events) + 1 /\ Len(events) \in Nat
    BY <1>1, AppendOne
  <1>3. Len(events') <= EventCapacity
    BY <1>1, <1>2, LimitsType
  <1> QED
    BY <1>1, <1>2, <1>3 DEF EventTyped

LEMMA UserTypes ==
    ASSUME TypeOK, LifeSound, UserNext
    PROVE  TypeOK'
  <1>1. /\ cards \in [Rpcs -> [generation : Nat, viewed : Nat, up : BOOLEAN]]
        /\ worker \in [Workers ->
                 [rpc : Rpcs \cup {None}, action : Actions \cup {"none"},
                  generation : Nat, viewed : Nat]]
        /\ commands \in Seq(Command) /\ mailed \in 0 .. MaxCommands
        /\ shown \in [Rpcs -> SUBSET Nat] /\ config \in Config
        /\ mandate \subseteq Tools \X Config
    BY DEF TypeOK
  <1>2. UNCHANGED <<codexVars, storeVars, actorVars, events, drive, live, mandate>>
    BY UserFrame
  <1>3. ASSUME CoordTyped', MailTyped', config' \in Config,
               shown' \in [Rpcs -> SUBSET Nat]
        PROVE  TypeOK'
    <2>1. /\ asked' = asked /\ kind' = kind /\ inbox' = inbox
          /\ ChildTyped' /\ StoreTyped' /\ ActorTyped' /\ EventTyped'
      BY <1>2, TypeParts DEF ChildTyped, StoreTyped, ActorTyped, EventTyped,
         codexVars, storeVars, actorVars
    <2>2. UserTyped'
      BY <1>1, <1>2, <1>3 DEF UserTyped
    <2>3. /\ asked' \in [Rpcs -> {"no", "started", "waiting", "answered", "withdrawn"}]
          /\ kind' \in [Rpcs -> Kind \cup {"none"}] /\ inbox' \in Seq(Upstream)
      BY <2>1 DEF TypeOK
    <2> QED
      BY <1>3, <2>1, <2>2, <2>3, TypeParts
  <1>4. UNCHANGED <<cards, worker>> => CoordTyped'
    BY <1>2 DEF CoordTyped, TypeOK
  <1>5. UNCHANGED mailVars => MailTyped'
    BY DEF mailVars, MailTyped, TypeOK
  <1>6. Idle \in [rpc : Rpcs \cup {None}, action : Actions \cup {"none"},
                  generation : Nat, viewed : Nat]
    BY DEF Idle
  <1>7. ASSUME NEW w \in Workers, Leaves(w), cards' = cards
        PROVE  CoordTyped'
    <2>1. worker' = [worker EXCEPT ![w] = Idle]
      BY <1>7 DEF Leaves
    <2>2. worker' \in [Workers ->
                 [rpc : Rpcs \cup {None}, action : Actions \cup {"none"},
                  generation : Nat, viewed : Nat]]
      BY <1>1, <1>6, <2>1
    <2> QED
      BY <1>2, <1>7, <2>2 DEF CoordTyped, TypeOK
  <1>8. ASSUME NEW c \in Command, Mail(c)
        PROVE  MailTyped'
    BY <1>1, <1>8, LimitsType DEF Mail, MailTyped
  <1>9. ASSUME NEW r \in Rpcs, NEW k \in Pages(r), ReadsPage(r, k)
        PROVE  TypeOK'
    <2>1. k \in Nat
      BY RequestsType DEF Pages
    <2>2. shown' \in [Rpcs -> SUBSET Nat] /\ config' \in Config
      BY <1>1, <1>9, <2>1 DEF ReadsPage
    <2>3. PICK v \in Nat : cards' = [cards EXCEPT ![r].viewed = v]
      <3>1. cards[r].viewed \in Nat
        BY <1>1
      <3> QED
        BY <1>9, <2>1, <3>1 DEF ReadsPage
    <2>4. cards' \in [Rpcs -> [generation : Nat, viewed : Nat, up : BOOLEAN]]
      BY <1>1, <2>3
    <2>5. worker' = worker /\ UNCHANGED mailVars
      BY <1>9 DEF ReadsPage
    <2>6. CoordTyped'
      BY <1>2, <2>4, <2>5 DEF CoordTyped, TypeOK
    <2> QED
      BY <1>3, <1>5, <2>2, <2>5, <2>6
  <1>10. ASSUME NEW w \in Workers, NEW r \in Rpcs, Presses(w, r)
         PROVE  TypeOK'
    <2>1. PICK a \in Buttons(r) :
             worker' = [worker EXCEPT ![w] = [rpc |-> r, action |-> a,
                                              generation |-> cards[r].generation,
                                              viewed |-> cards[r].viewed]]
      BY <1>10 DEF Presses
    <2>2. a \in Actions
      BY <2>1 DEF Buttons, Rejection, Actions, Decisions
    <2>3. worker' \in [Workers ->
                 [rpc : Rpcs \cup {None}, action : Actions \cup {"none"},
                  generation : Nat, viewed : Nat]]
      BY <1>1, <2>1, <2>2
    <2>4. UNCHANGED <<cards, mailVars, userVars>>
      BY <1>10 DEF Presses
    <2>5. CoordTyped'
      BY <1>2, <2>3, <2>4 DEF CoordTyped, TypeOK
    <2> QED
      BY <1>1, <1>3, <1>5, <2>4, <2>5 DEF userVars
  <1>11. ASSUME NEW w \in Workers, GivesUp(w)
         PROVE  TypeOK'
    BY <1>1, <1>3, <1>5, <1>7, <1>11 DEF GivesUp, userVars
  <1>12. ASSUME NEW w \in Workers, MailsDecision(w)
         PROVE  TypeOK'
    <2>1. worker[w].rpc \in Rpcs /\ worker[w].action \in Actions
          /\ worker[w].generation \in Nat
      BY <1>1, <1>12 DEF MailsDecision, LifeSound
    <2>2. [kind |-> "approval", rpc |-> worker[w].rpc, action |-> worker[w].action,
           generation |-> worker[w].generation] \in Command
      BY <2>1 DEF Command
    <2>3. MailTyped'
      BY <1>8, <1>12, <2>2 DEF MailsDecision
    <2>4. Leaves(w) /\ cards' = cards /\ UNCHANGED userVars
      BY <1>12 DEF MailsDecision
    <2> QED
      BY <1>1, <1>3, <1>7, <2>3, <2>4 DEF userVars
  <1>13. ASSUME MailsInterrupt \/ \E s \in Steers : MailsSteer(s)
         PROVE  TypeOK'
    <2>1. /\ [kind |-> "interrupt"] \in Command
          /\ \A s \in Steers : [kind |-> "steer", steer |-> s] \in Command
      BY DEF Command
    <2>2. MailTyped'
      BY <1>8, <1>13, <2>1 DEF MailsInterrupt, MailsSteer
    <2>3. UNCHANGED <<coordVars, userVars>>
      BY <1>13 DEF MailsInterrupt, MailsSteer
    <2> QED
      BY <1>1, <1>3, <1>4, <2>2, <2>3 DEF coordVars, userVars
  <1>14. ASSUME EditsConfig
         PROVE  TypeOK'
    BY <1>1, <1>3, <1>4, <1>5, <1>14 DEF EditsConfig, coordVars, Config
  <1> QED
    BY <1>9, <1>10, <1>11, <1>12, <1>13, <1>14 DEF UserNext

LEMMA DriveTypes ==
    ASSUME TypeOK, TaskSound, InboxSound, DriveNext \/ Restarts
    PROVE  TypeOK'
  <1>1. /\ UNCHANGED <<asked, kind, sent, steer, stopRequested, mailed, config>>
        /\ \/ Gone /\ events' = <<>>
           \/ UNCHANGED <<child, inbox, actorVars, commands, mandate, shown>>
    BY DriveFrame
  <1>2. inbox' \in Seq(Upstream)
    BY InboxStep DEF Next
  <1>3. ChildTyped' /\ ActorTyped' /\ MailTyped' /\ UserTyped'
    <2>1. CASE Gone
      BY <1>1, <2>1, GoneTypes DEF TypeOK, ChildTyped, MailTyped, UserTyped
    <2>2. CASE UNCHANGED <<child, inbox, actorVars, commands, mandate, shown>>
      BY <1>1, <2>2 DEF TypeOK, ChildTyped, ActorTyped, MailTyped, UserTyped, actorVars
    <2> QED
      BY <1>1, <2>1, <2>2
  <1>4. StoreTyped'
    <2>1. interaction' = interaction \/ interaction' = Closed
      BY DriveFrame DEF Restarts
    <2>2. request' = request \/ request' = "UNKNOWN"
      BY DriveFrame DEF DriveSettles, Restarts
    <2>3. \A r \in Rpcs : Closed[r] \in State
      BY DEF Closed, State, Open, TypeOK
    <2>4. Closed \in [Rpcs -> State]
      BY <2>3 DEF Closed
    <2> QED
      BY <1>1, <2>1, <2>2, <2>4 DEF TypeOK, StoreTyped
  <1>5. NoCard \in [generation : Nat, viewed : Nat, up : BOOLEAN]
    BY DEF NoCard
  <1>6. Idle \in [rpc : Rpcs \cup {None}, action : Actions \cup {"none"},
                  generation : Nat, viewed : Nat]
    BY DEF Idle
  <1>7. events \in Seq(Event) /\ Len(events) <= EventCapacity
    BY DEF TypeOK
  <1>8. \A k : DriveTakes(k) =>
           /\ EventTyped' /\ Head(events) \in Event /\ Head(events).kind = k
           /\ drive' = drive => drive' \in {"receiving"}
    <2> SUFFICES ASSUME NEW k, DriveTakes(k)
                 PROVE  /\ EventTyped' /\ Head(events) \in Event
                        /\ Head(events).kind = k
                        /\ drive' = drive => drive' \in {"receiving"}
      OBVIOUS
    <2>1. events # <<>> /\ Head(events).kind = k /\ events' = Tail(events)
      BY DEF DriveTakes, Has
    <2>2. /\ Tail(events) \in Seq(Event) /\ Head(events) \in Event
          /\ Len(Tail(events)) = Len(events) - 1 /\ Len(events) \in Nat
      BY <1>7, <2>1, TailOne
    <2>3. Len(events') <= EventCapacity
      BY <1>7, <2>1, <2>2, LimitsType
    <2> QED
      BY <2>1, <2>2, <2>3 DEF EventTyped, DriveTakes
  <1>9. EventTyped' /\ CoordTyped'
    <2>1. ASSUME DriveShows
          PROVE  EventTyped' /\ CoordTyped'
      <3> DEFINE e == Head(events)
      <3>1. /\ DriveTakes("approval") /\ UNCHANGED <<drive, live, worker>>
            /\ cards' = [cards EXCEPT ![e.rpc] = [generation |-> e.generation,
                                                  viewed |-> 0, up |-> TRUE]]
        BY <2>1 DEF DriveShows
      <3>2. e \in Event /\ e.kind = "approval" /\ EventTyped'
        BY <1>8, <3>1
      <3> HIDE DEF e
      <3>3. e.generation \in Nat
        BY <3>2 DEF Event
      <3>4. cards' \in [Rpcs -> [generation : Nat, viewed : Nat, up : BOOLEAN]]
        BY <3>1, <3>3 DEF TypeOK
      <3> QED
        BY <3>1, <3>2, <3>4 DEF CoordTyped, TypeOK
    <2>2. ASSUME DriveRemoves
          PROVE  EventTyped' /\ CoordTyped'
      <3> DEFINE e == Head(events)
      <3>1. EventTyped'
        BY <1>8, <2>2 DEF DriveRemoves
      <3>2. \/ cards' = cards
            \/ cards' = [cards EXCEPT ![e.rpc] = NoCard]
            \/ cards' = [r \in Rpcs |-> IF cards[r].generation < e.generation
                                        THEN NoCard ELSE cards[r]]
        BY <2>2 DEF DriveRemoves
      <3> HIDE DEF e
      <3>3. cards \in [Rpcs -> [generation : Nat, viewed : Nat, up : BOOLEAN]]
        BY DEF TypeOK
      <3>4. cards' \in [Rpcs -> [generation : Nat, viewed : Nat, up : BOOLEAN]]
        BY <1>5, <3>2, <3>3
      <3>5. UNCHANGED <<drive, live, worker>>
        BY <2>2 DEF DriveRemoves
      <3> QED
        BY <3>1, <3>4, <3>5 DEF CoordTyped, TypeOK
    <2>3. ASSUME DriveFails \/ DriveEnds
          PROVE  EventTyped' /\ CoordTyped'
      <3>1. /\ events' = <<>> /\ drive' = "ending"
            /\ UNCHANGED <<cards, live, worker>>
        BY <2>3 DEF DriveFails, DriveEnds, ActorGone
      <3> QED
        BY <3>1, LimitsType DEF CoordTyped, EventTyped, TypeOK
    <2>4. ASSUME DriveCleans \/ DriveSettles \/ Restarts
          PROVE  EventTyped' /\ CoordTyped'
      <3>1. /\ events' = events \/ events' = <<>>
            /\ drive' \in {"settling", "done", "down"}
            /\ live' \in {live, FALSE}
            /\ cards' = cards \/ cards' = NoCards
            /\ worker' = worker \/ worker' = [w \in Workers |-> Idle]
        BY <2>4 DEF DriveCleans, DriveSettles, Restarts, ActorGone, mailVars
      <3>2. EventTyped'
        <4>1. CASE events' = events
          BY <1>7, <4>1 DEF EventTyped
        <4>2. CASE events' = <<>>
          BY <4>2, LimitsType DEF EventTyped
        <4> QED
          BY <3>1, <4>1, <4>2
      <3>3. cards' \in [Rpcs -> [generation : Nat, viewed : Nat, up : BOOLEAN]]
        BY <1>5, <3>1 DEF NoCards, TypeOK
      <3>4. worker' \in [Workers ->
                     [rpc : Rpcs \cup {None}, action : Actions \cup {"none"},
                      generation : Nat, viewed : Nat]]
        BY <1>6, <3>1 DEF TypeOK
      <3> QED
        BY <3>1, <3>2, <3>3, <3>4 DEF CoordTyped, TypeOK
    <2> QED
      BY <2>1, <2>2, <2>3, <2>4 DEF DriveNext
  <1>10. /\ asked' \in [Rpcs -> {"no", "started", "waiting", "answered", "withdrawn"}]
         /\ kind' \in [Rpcs -> Kind \cup {"none"}]
    BY <1>1 DEF TypeOK
  <1> QED
    BY <1>2, <1>3, <1>4, <1>9, <1>10, TypeParts

\* The actor: the child it writes to, its record, its memory, its channels.
LEMMA ActorSends ==
    ASSUME TypeOK, InboxSound, TaskSound, ActorNext
    PROVE  ChildTyped'
  <1>1. sent \in [Rpcs -> Nat] /\ child \in {"running", "ended", "gone"}
    BY DEF TypeOK
  <1>2. CASE TakesApproval \/ TakesInterrupt \/ TakesSteer \/ SteerBegins
             \/ SteerRefused \/ SteerEnds
    <2>1. sent' = sent /\ child' \in {child, "gone"}
      BY <1>2, Ending DEF TakesApproval, TakesInterrupt, TakesSteer, SteerBegins,
         SteerRefused, SteerEnds, codexVars, Gone, Dropped
    <2> QED
      BY <1>1, <2>1 DEF ChildTyped
  <1>3. CASE ReplyWritten \/ WriteFails
    <2>1. /\ child' \in {child, "gone"} /\ task.step = "write"
          /\ sent' = sent \/ sent' = [sent EXCEPT ![task.rpc] = @ + 1]
      BY <1>3 DEF ReplyWritten, WriteFails, Reaches
    <2>2. task.rpc \in Rpcs
      BY <2>1 DEF TaskSound
    <2> QED
      BY <1>1, <2>1, <2>2 DEF ChildTyped
  <1>4. CASE ReplyRecorded \/ ReplyUnknown \/ GrantReplies \/ HearsCall
             \/ LosesRuntime \/ Confirms \/ Closes
    <2>1. sent' = sent /\ child' \in {child, "gone"}
      BY <1>4, Ending DEF ReplyRecorded, ReplyUnknown, GrantReplies, HearsCall,
         LosesRuntime, Confirms, Closes, codexVars, Gone, Dropped
    <2> QED
      BY <1>1, <2>1 DEF ChildTyped
  <1>5. CASE HearsRequest \/ HearsResolved
    <2>1. sent' = sent /\ child' \in {child, "gone"}
      BY <1>5, Ending DEF HearsRequest, HearsResolved, Learns, Gone, Dropped
    <2> QED
      BY <1>1, <2>1 DEF ChildTyped
  <1>6. CASE HearsUnknown
    <2>1. PICK r \in Rpcs : r = Head(inbox).rpc
      BY <1>6, RequestHeard DEF HearsUnknown
    <2>2. /\ child' \in {child, "gone"}
          /\ sent' = [sent EXCEPT ![r] = IF child = "gone" THEN @ ELSE @ + 1]
      BY <1>6, <2>1, Ending DEF HearsUnknown, Gone, Dropped
    <2> QED
      BY <1>1, <2>1, <2>2 DEF ChildTyped
  <1> QED
    BY <1>2, <1>3, <1>4, <1>5, <1>6 DEF ActorNext

LEMMA ActorRecords ==
    ASSUME TypeOK, InboxSound, TaskSound, ActorNext
    PROVE  StoreTyped'
  <1>1. /\ interaction \in [Rpcs -> State]
        /\ request \in Active \cup {"UNKNOWN", "TERMINAL"}
        /\ steer \in [Steers -> {"NONE", "SENDING", "SENT", "UNKNOWN"}]
        /\ stopRequested \in BOOLEAN
    BY DEF TypeOK
  <1>2. UNCHANGED storeVars => StoreTyped'
    BY <1>1 DEF storeVars, StoreTyped
  <1>3. ASSUME \/ interaction' = interaction
               \/ \E r, v : /\ v \in {"SENDING", "SENT", "UNKNOWN", "PENDING", "RESOLVED"}
                            /\ interaction' = [interaction EXCEPT ![r] = v],
               request' \in {request, "UNKNOWN", "TERMINAL", "APPROVAL_REQUIRED", "RUNNING"},
               steer' = steer, stopRequested' \in {stopRequested, TRUE}
        PROVE  StoreTyped'
    <2>1. interaction' \in [Rpcs -> State]
      BY <1>1, <1>3 DEF State, Open
    <2>2. request' \in Active \cup {"UNKNOWN", "TERMINAL"}
      BY <1>1, <1>3 DEF Active
    <2>3. stopRequested' \in BOOLEAN
      BY <1>1, <1>3
    <2> QED
      BY <1>1, <1>3, <2>1, <2>2, <2>3 DEF StoreTyped
  <1>4. CASE TakesApproval
    <2>1. UNCHANGED <<request, steer, stopRequested>>
      BY <1>4 DEF TakesApproval
    <2>2. \/ interaction' = interaction
          \/ \E r : interaction' = [interaction EXCEPT ![r] = "SENDING"]
      BY <1>4 DEF TakesApproval, Intends, Mark
    <2> QED
      BY <1>3, <2>1, <2>2
  <1>5. CASE TakesInterrupt
    BY <1>3, <1>5 DEF TakesInterrupt
  <1>6. CASE TakesSteer \/ SteerRefused \/ ReplyWritten \/ WriteFails \/ HearsCall
    BY <1>2, <1>6 DEF TakesSteer, SteerRefused, ReplyWritten, WriteFails, HearsCall
  <1>7. CASE SteerBegins \/ SteerEnds
    <2>1. /\ UNCHANGED <<interaction, request, stopRequested>>
          /\ \E v \in {"SENDING", "SENT", "UNKNOWN"} :
                steer' = [steer EXCEPT ![task.rpc] = v]
      BY <1>7 DEF SteerBegins, SteerEnds
    <2>2. steer' \in [Steers -> {"NONE", "SENDING", "SENT", "UNKNOWN"}]
      BY <1>1, <2>1
    <2> QED
      BY <1>1, <2>1, <2>2 DEF StoreTyped
  <1>8. CASE ReplyRecorded \/ ReplyUnknown \/ GrantReplies
    BY <1>3, <1>8 DEF ReplyRecorded, ReplyUnknown, GrantReplies, Intends, Mark
  <1>9. CASE HearsRequest
    BY <1>3, <1>9 DEF HearsRequest, Mark
  <1>10. CASE HearsUnknown \/ LosesRuntime \/ Confirms
    BY <1>3, <1>10 DEF HearsUnknown, LosesRuntime, Confirms
  <1>11. CASE HearsResolved
    <2>1. /\ UNCHANGED <<steer, stopRequested>>
          /\ request' \in {request, "RUNNING"}
          /\ \/ interaction' = interaction
             \/ \E r : interaction' = [interaction EXCEPT ![r] = "RESOLVED"]
      BY <1>11 DEF HearsResolved, Mark
    <2> QED
      BY <1>3, <2>1
  <1>12. CASE Closes
    <2>1. UNCHANGED <<request, steer, stopRequested>> /\ interaction' = Closed
      BY <1>12 DEF Closes
    <2>2. \A r \in Rpcs : Closed[r] \in State
      BY <1>1 DEF Closed, State, Open
    <2>3. Closed \in [Rpcs -> State]
      BY <2>2 DEF Closed
    <2> QED
      BY <1>1, <2>1, <2>3 DEF StoreTyped
  <1> QED
    BY <1>4, <1>5, <1>6, <1>7, <1>8, <1>9, <1>10, <1>11, <1>12 DEF ActorNext

LEMMA ActorEmits ==
    ASSUME TypeOK, InboxSound, ActorNext
    PROVE  EventTyped'
  <1>1. generation \in Nat /\ EventTyped
    BY TypeParts DEF TypeOK
  <1>2. events' = events => EventTyped'
    BY <1>1 DEF EventTyped
  <1>3. \A e \in Event : Emit(e) => EventTyped'
    BY EmitType
  <1>4. /\ [kind |-> "ended"] \in Event /\ [kind |-> "unsupported"] \in Event
        /\ [kind |-> "invalidated", generation |-> generation + 1] \in Event
        /\ \A r \in Rpcs : /\ [kind |-> "approval", rpc |-> r,
                               generation |-> generation] \in Event
                           /\ [kind |-> "resolved", rpc |-> r] \in Event
    BY <1>1 DEF Event
  <1>5. CASE TakesApproval \/ TakesInterrupt \/ SteerBegins \/ SteerRefused
             \/ SteerEnds \/ ReplyWritten \/ WriteFails \/ ReplyRecorded
             \/ GrantReplies \/ HearsCall \/ Confirms
    BY <1>2, <1>5 DEF TakesApproval, TakesInterrupt, SteerBegins, SteerRefused,
       SteerEnds, ReplyWritten, WriteFails, ReplyRecorded, GrantReplies, HearsCall,
       Confirms, mailVars
  <1>6. CASE TakesSteer
    <2>1. \/ events' = events
          \/ Emit([kind |-> "invalidated", generation |-> generation + 1])
      BY <1>6, Ending DEF TakesSteer
    <2> QED
      BY <1>2, <1>3, <1>4, <2>1
  <1>7. CASE ReplyUnknown \/ LosesRuntime \/ Closes
    <2>1. events' = events \/ Emit([kind |-> "ended"])
      BY <1>7, Ending DEF ReplyUnknown, LosesRuntime, Closes
    <2> QED
      BY <1>2, <1>3, <1>4, <2>1
  <1>8. CASE HearsRequest
    <2>1. PICK r \in Rpcs : r = Head(inbox).rpc
      BY <1>8, RequestHeard DEF HearsRequest
    <2>2. \/ events' = events
          \/ Emit([kind |-> "approval", rpc |-> r, generation |-> generation])
      BY <1>8, <2>1, Ending DEF HearsRequest
    <2> QED
      BY <1>2, <1>3, <1>4, <2>2
  <1>9. CASE HearsUnknown
    <2>1. \/ events' = events
          \/ Emit([kind |-> "unsupported"]) \/ Emit([kind |-> "ended"])
      BY <1>9, Ending DEF HearsUnknown
    <2> QED
      BY <1>2, <1>3, <1>4, <2>1
  <1>10. CASE HearsResolved
    <2>1. PICK r \in Rpcs : r = Head(inbox).rpc
      BY <1>10, EndHeard DEF HearsResolved
    <2>2. events' = events \/ Emit([kind |-> "resolved", rpc |-> r])
      BY <1>10, <2>1, Ending DEF HearsResolved
    <2> QED
      BY <1>2, <1>3, <1>4, <2>2
  <1> QED
    BY <1>5, <1>6, <1>7, <1>8, <1>9, <1>10 DEF ActorNext

Kept == /\ commands' \in Seq(Command)
        /\ shown' \in [Rpcs -> SUBSET Nat] /\ mandate' \subseteq Tools \X Config

LEMMA ActorKeeps ==
    ASSUME TypeOK, InboxSound, TaskSound, actor = "serving" => Scoped, ActorNext
    PROVE  ActorTyped' /\ Kept
  <1>1. /\ actor \in {"serving", "confirmed", "ended", "failed", "aborted"}
        /\ task \in Task /\ generation \in Nat
        /\ grants \in [Tools -> Config \cup {None}]
        /\ items \subseteq Rpcs
        /\ evidence \in [Rpcs -> Rpcs \cup {None}]
        /\ known \subseteq Rpcs
        /\ commands \in Seq(Command) /\ config \in Config
        /\ shown \in [Rpcs -> SUBSET Nat] /\ mandate \subseteq Tools \X Config
    BY DEF TypeOK
  <1>2. Gone => ActorTyped' /\ Kept
    BY GoneTypes DEF Kept
  <1>3. UNCHANGED <<commands, shown, mandate>> => Kept
    BY <1>1 DEF Kept
  <1>4. commands # <<>> => Tail(commands) \in Seq(Command) /\ Head(commands) \in Command
    BY <1>1, TailOne
  <1>5. NoGrants \in [Tools -> Config \cup {None}]
    BY DEF NoGrants
  <1>6. ASSUME task' \in Task, UNCHANGED <<actor, generation, grants, items, evidence, known>>
        PROVE  ActorTyped'
    BY <1>1, <1>6 DEF ActorTyped
  <1>7. NoTask \in Task
    BY ATaskType
  <1>8. CASE TakesApproval
    <2> DEFINE c == Head(commands)
               t == [NoTask EXCEPT !.rpc = c.rpc, !.what = c.action, !.config = config]
    <2>1. /\ UNCHANGED <<actor, generation, grants, items, evidence, known, shown, mandate>>
          /\ commands # <<>> /\ commands' = Tail(commands) /\ c.kind = "approval"
          /\ task' = task \/ task' = [t EXCEPT !.step = "write"]
      BY <1>8 DEF TakesApproval, Takes, Has, Intends, userVars
    <2>2. \A r, a, k : [[NoTask EXCEPT !.rpc = r, !.what = a, !.config = k]
                          EXCEPT !.step = "write"] = ATask("write", r, a, k, FALSE)
      BY TaskForms, Zenon
    <2>3. [t EXCEPT !.step = "write"] = ATask("write", c.rpc, c.action, config, FALSE)
      BY <2>2, Zenon
    <2> HIDE DEF t
    <2>4. c.rpc \in Rpcs /\ c.action \in Actions
      BY <1>4, <2>1 DEF Command
    <2> HIDE DEF c
    <2>5. ATask("write", c.rpc, c.action, config, FALSE) \in Task
      BY <1>1, <2>4, ATaskType
    <2>6. task' \in Task
      BY <1>1, <2>1, <2>3, <2>5
    <2> QED
      BY <1>1, <1>4, <1>6, <2>1, <2>6 DEF Kept
  <1>9. CASE TakesInterrupt
    <2>1. /\ UNCHANGED <<actor, task, generation, items, evidence, known, shown>>
          /\ grants' = NoGrants /\ mandate' = {}
          /\ commands # <<>> /\ commands' = Tail(commands)
      BY <1>9 DEF TakesInterrupt, Takes, Has, Forgets
    <2> QED
      BY <1>1, <1>4, <1>5, <2>1 DEF ActorTyped, Kept
  <1>10. CASE TakesSteer
    <2>1. CASE Gone
      BY <1>2, <2>1
    <2>2. CASE ~Gone
      <3>1. /\ UNCHANGED <<actor, items, evidence, known>>
            /\ grants' = NoGrants /\ mandate' = {} /\ generation' = generation + 1
            /\ commands # <<>> /\ commands' = Tail(commands)
            /\ Head(commands).kind = "steer"
            /\ shown' = [r \in Rpcs |-> {}]
            /\ task' = [NoTask EXCEPT !.step = "steer", !.rpc = Head(commands).steer]
        BY <1>10, <2>2, Ending DEF TakesSteer, Has, Forgets
      <3>2. \A s : [NoTask EXCEPT !.step = "steer", !.rpc = s] =
                      ATask("steer", s, "none", 0, FALSE)
        BY TaskForms, Zenon
      <3>3. task' = ATask("steer", Head(commands).steer, "none", 0, FALSE)
        BY <3>1, <3>2, Zenon
      <3>4. Head(commands).steer \in Steers
        BY <1>4, <3>1 DEF Command
      <3>5. task' \in Task
        BY <3>3, <3>4, ATaskType DEF Config
      <3>6. Tail(commands) \in Seq(Command)
        BY <1>4, <3>1
      <3>7. Kept
        BY <3>1, <3>6 DEF Kept
      <3> QED
        BY <1>1, <1>5, <3>1, <3>5, <3>7 DEF ActorTyped
    <2> QED
      BY <2>1, <2>2
  <1>11. CASE SteerBegins \/ WriteFails
    <2>1. /\ UNCHANGED <<actor, generation, grants, items, evidence, known>>
          /\ UNCHANGED <<commands, shown, mandate>>
          /\ \E s \in {"steering", "record"} : task' = [task EXCEPT !.step = s]
      BY <1>11 DEF SteerBegins, WriteFails, mailVars, userVars
    <2>2. \A s : [task EXCEPT !.step = s] =
                    ATask(s, task.rpc, task.what, task.config, task.ok)
      BY <1>1, TaskForms
    <2>3. \A s \in {"steering", "record"} :
             ATask(s, task.rpc, task.what, task.config, task.ok) \in Task
      BY <1>1, ATaskType
    <2> QED
      BY <1>3, <1>6, <2>1, <2>2, <2>3
  <1>12. CASE SteerRefused \/ SteerEnds
    <2>1. /\ UNCHANGED <<actor, generation, grants, items, evidence, known>>
          /\ UNCHANGED <<commands, shown, mandate>> /\ task' = NoTask
      BY <1>12 DEF SteerRefused, SteerEnds, mailVars, userVars
    <2> QED
      BY <1>3, <1>6, <1>7, <2>1
  <1>13. CASE ReplyWritten
    <2>1. /\ UNCHANGED <<actor, generation, grants, items, evidence, known>>
          /\ UNCHANGED <<commands, shown, mandate>>
          /\ task' = [task EXCEPT !.step = "record", !.ok = TRUE]
      BY <1>13 DEF ReplyWritten, mailVars, userVars
    <2>2. \A t \in Task : \A s, k : [t EXCEPT !.step = s, !.ok = k] =
                                       ATask(s, t.rpc, t.what, t.config, k)
      BY TaskForms, Zenon
    <2>3. task' = ATask("record", task.rpc, task.what, task.config, TRUE)
      BY <1>1, <2>1, <2>2, Zenon
    <2>4. task' \in Task
      BY <1>1, <2>3 DEF ATask, Task
    <2> QED
      BY <1>3, <1>6, <2>1, <2>4
  <1>14. CASE ReplyRecorded
    <2>1. /\ UNCHANGED <<actor, generation, items, evidence, known, commands, shown>>
          /\ task' = NoTask /\ task.step = "record" /\ actor = "serving"
          /\ \/ UNCHANGED <<grants, mandate>>
             \/ /\ task.what = "run"
                /\ grants' = [grants EXCEPT ![GrantTool(task.rpc)] = task.config]
                /\ mandate' = mandate \cup {<<kind[task.rpc], task.config>>}
      BY <1>14 DEF ReplyRecorded, mailVars
    <2>2. task.config \in Config
      BY <1>1, ATaskType
    <2>3. grants' \in [Tools -> Config \cup {None}]
      BY <1>1, <2>1, <2>2
    <2>4. task.what = "run" => kind[task.rpc] \in Tools
      BY <2>1 DEF Scoped, ForRun
    <2>5. mandate' \subseteq Tools \X Config
      BY <1>1, <2>1, <2>2, <2>4
    <2> QED
      BY <1>1, <1>7, <2>1, <2>3, <2>5 DEF ActorTyped, Kept
  <1>15. CASE ReplyUnknown
    <2>1. \/ Gone
          \/ /\ UNCHANGED <<actor, generation, grants, items, evidence, known>>
             /\ UNCHANGED <<commands, shown, mandate>> /\ task' = NoTask
      BY <1>15, Ending DEF ReplyUnknown
    <2> QED
      BY <1>2, <1>3, <1>6, <1>7, <2>1
  <1>16. CASE GrantReplies
    <2>1. /\ UNCHANGED <<actor, generation, grants, items, evidence, known>>
          /\ UNCHANGED <<commands, shown, mandate>>
          /\ task' = [task EXCEPT !.step = "write"]
      BY <1>16 DEF GrantReplies, Intends, mailVars, userVars
    <2>2. [task EXCEPT !.step = "write"] =
             ATask("write", task.rpc, task.what, task.config, task.ok)
      BY <1>1, TaskForms
    <2>3. ATask("write", task.rpc, task.what, task.config, task.ok) \in Task
      BY <1>1, ATaskType
    <2> QED
      BY <1>3, <1>6, <2>1, <2>2, <2>3
  <1>17. CASE HearsCall
    <2>1. Has(inbox, "started") \/ Has(inbox, "completed")
      BY <1>17 DEF HearsCall, Hears
    <2>2. Head(inbox).rpc \in Rpcs
      BY <2>1, HeadEv DEF TypeOK
    <2>3. /\ UNCHANGED <<actor, task, generation, grants, evidence, known>>
          /\ UNCHANGED <<commands, shown, mandate>>
          /\ items' \subseteq items \cup {Head(inbox).rpc}
      BY <1>17 DEF HearsCall, mailVars, userVars
    <2> QED
      BY <1>1, <1>3, <2>2, <2>3 DEF ActorTyped
  <1>18. CASE HearsRequest
    <2>1. PICK r \in Rpcs : r = Head(inbox).rpc
      BY <1>18, RequestHeard DEF HearsRequest
    <2>2. CASE Gone
      BY <1>2, <2>2
    <2>3. CASE ~Gone
      <3>1. /\ UNCHANGED <<actor, generation, commands, mandate, shown>>
            /\ known' = known \cup {r} /\ grants' = Standing
            /\ evidence' = [evidence EXCEPT ![r] = Match(r)]
            /\ items' \subseteq items
            /\ \/ task' = task
               \/ task' = [NoTask EXCEPT !.step = "begin", !.rpc = r, !.what = "grant"]
        BY <1>18, <2>1, <2>3, Ending DEF HearsRequest, Learns
      <3>2. \A s, a : [NoTask EXCEPT !.step = "begin", !.rpc = s, !.what = a] =
                         ATask("begin", s, a, 0, FALSE)
        BY TaskForms, Zenon
      <3>3. task' = task \/ task' = ATask("begin", r, "grant", 0, FALSE)
        BY <3>1, <3>2, Zenon
      <3>4. ATask("begin", r, "grant", 0, FALSE) \in Task
        BY ATaskType DEF Config
      <3>5. task' \in Task
        BY <1>1, <3>3, <3>4
      <3>6. Match(r) \in Rpcs \cup {None}
        BY DEF Match
      <3>7. Standing \in [Tools -> Config \cup {None}]
        BY <1>1, <1>5 DEF Standing
      <3> QED
        BY <1>1, <1>3, <3>1, <3>5, <3>6, <3>7 DEF ActorTyped
    <2> QED
      BY <2>2, <2>3
  <1>19. CASE HearsUnknown
    <2>1. \/ Gone
          \/ UNCHANGED <<actorVars, commands, mandate, shown>>
      BY <1>19, Ending DEF HearsUnknown
    <2> QED
      BY <1>1, <1>2, <1>3, <1>6, <2>1 DEF actorVars
  <1>20. CASE HearsResolved
    <2>1. \/ Gone
          \/ /\ UNCHANGED <<actor, task, generation, grants, items, evidence>>
             /\ UNCHANGED <<commands, shown, mandate>> /\ known' \subseteq known
      BY <1>20, Ending DEF HearsResolved
    <2> QED
      BY <1>1, <1>2, <1>3, <2>1 DEF ActorTyped
  <1>21. CASE LosesRuntime \/ Closes
    BY <1>2, <1>21, Ending DEF LosesRuntime, Closes
  <1>22. CASE Confirms
    <2>1. /\ UNCHANGED <<task, generation, grants, items, evidence, known>>
          /\ UNCHANGED <<commands, shown, mandate>> /\ actor' = "confirmed"
      BY <1>22 DEF Confirms, mailVars, userVars
    <2> QED
      BY <1>1, <1>3, <2>1 DEF ActorTyped
  <1> QED
    BY <1>8, <1>9, <1>10, <1>11, <1>12, <1>13, <1>14, <1>15, <1>16, <1>17, <1>18,
       <1>19, <1>20, <1>21, <1>22 DEF ActorNext

LEMMA TypeStep ==
    ASSUME TypeOK, InboxSound, TaskSound, LifeSound, actor = "serving" => Scoped,
           [Next]_vars
    PROVE  TypeOK'
  <1>1. /\ asked' \in [Rpcs -> {"no", "started", "waiting", "answered", "withdrawn"}]
        /\ kind' \in [Rpcs -> Kind \cup {"none"}]
        /\ inbox' \in Seq(Upstream)
    BY InboxStep
  <1>2. /\ ChildTyped /\ StoreTyped /\ ActorTyped /\ MailTyped /\ EventTyped
        /\ CoordTyped /\ UserTyped
    BY TypeParts
  <1>3. CASE CodexNext
    <2>1. UNCHANGED <<sent, storeVars, actorVars, mailVars, coordVars, userVars>>
      BY <1>3, CodexFrame
    <2>2. child' \in {child, "ended", "gone"}
      BY <1>3 DEF CodexNext, CallStarts, Asks, Withdraws, TurnEnds, ChildDies
    <2>3. ChildTyped' /\ StoreTyped' /\ ActorTyped'
      BY <1>2, <2>1, <2>2 DEF ChildTyped, StoreTyped, ActorTyped, storeVars, actorVars
    <2>4. MailTyped' /\ EventTyped' /\ CoordTyped' /\ UserTyped'
      BY <1>2, <2>1 DEF MailTyped, EventTyped, CoordTyped, UserTyped, mailVars,
         coordVars, userVars
    <2> QED
      BY <1>1, <2>3, <2>4, TypeParts
  <1>4. CASE ActorNext
    <2>1. UNCHANGED <<mailed, coordVars, config>>
      BY <1>4, ActorFrame
    <2>2. MailTyped' /\ CoordTyped' /\ UserTyped'
      BY <1>2, <1>4, <2>1, ActorKeeps DEF Kept, MailTyped, CoordTyped, UserTyped, coordVars
    <2> QED
      BY <1>1, <1>4, <2>2, ActorSends, ActorRecords, ActorEmits, ActorKeeps, TypeParts
  <1>5. CASE UNCHANGED vars
    <2>1. ChildTyped' /\ StoreTyped' /\ ActorTyped'
      BY <1>2, <1>5 DEF vars, ChildTyped, StoreTyped, ActorTyped, codexVars,
         storeVars, actorVars
    <2>2. MailTyped' /\ EventTyped' /\ CoordTyped' /\ UserTyped'
      BY <1>2, <1>5 DEF vars, MailTyped, EventTyped, CoordTyped, UserTyped, mailVars,
         coordVars, userVars
    <2> QED
      BY <1>1, <2>1, <2>2, TypeParts
  <1> QED
    BY <1>3, <1>4, <1>5, UserTypes, DriveTypes DEF Next

-----------------------------------------------------------------------------
(***************************************************************************)
(* Who accepts has seen all of it.                                         *)
(***************************************************************************)

Old(q, x) == \E j \in 1 .. Len(q) : q[j] = x

LEMMA Moved ==
    ASSUME NEW S, NEW q \in Seq(S)
    PROVE  /\ \A i \in 1 .. Len(q) : Old(q, q[i])
           /\ q # <<>> => /\ Old(q, Head(q))
                          /\ \A i \in 1 .. Len(Tail(q)) : Old(q, Tail(q)[i])
           /\ \A e \in S : \A i \in 1 .. Len(Append(q, e)) :
                 Append(q, e)[i] = e \/ Old(q, Append(q, e)[i])
  <1>1. \A i \in 1 .. Len(q) : Old(q, q[i])
    BY DEF Old
  <1>2. ASSUME q # <<>>
        PROVE  /\ Old(q, Head(q))
               /\ \A i \in 1 .. Len(Tail(q)) : Old(q, Tail(q)[i])
    <2>1. /\ Len(q) \in Nat \ {0} /\ Len(Tail(q)) = Len(q) - 1
          /\ \A i \in 1 .. Len(q) - 1 : Tail(q)[i] = q[i + 1]
          /\ Head(q) = q[1]
      BY <1>2, TailOne
    <2>2. 1 \in 1 .. Len(q) /\ \A i \in 1 .. Len(q) - 1 : i + 1 \in 1 .. Len(q)
      BY <2>1
    <2> QED
      BY <2>1, <2>2 DEF Old
  <1>3. ASSUME NEW e \in S, NEW i \in 1 .. Len(Append(q, e))
        PROVE  Append(q, e)[i] = e \/ Old(q, Append(q, e)[i])
    <2>1. /\ Len(Append(q, e)) = Len(q) + 1 /\ Len(q) \in Nat
          /\ \A j \in 1 .. Len(q) : Append(q, e)[j] = q[j]
          /\ Append(q, e)[Len(q) + 1] = e
      BY AppendOne
    <2>2. i \in 1 .. Len(q) \/ i = Len(q) + 1
      BY <2>1
    <2> QED
      BY <1>1, <2>1, <2>2
  <1> QED
    BY <1>1, <1>2, <1>3

\* What a step may leave in the channels, given what is shown and which
\* generation it is.
FitCommand(c, g, pages) ==
    c.kind = "approval" =>
       /\ c.generation <= g
       /\ c.generation = g /\ c.action \in Accepts => Pages(c.rpc) \subseteq pages[c.rpc]
FitEvent(e, g) == e.kind = "approval" => e.generation <= g

LEMMA ActorOnly ==
    ASSUME TypeOK, [Next]_vars, actor' = "serving"
    PROVE  actor = "serving" /\ ~Gone
  <1>1. ~Gone
    BY DEF Gone
  <1>2. CASE CodexNext
    BY <1>1, <1>2, CodexFrame DEF actorVars
  <1>3. CASE UserNext
    BY <1>1, <1>3, UserFrame DEF actorVars
  <1>4. CASE DriveNext \/ Restarts
    BY <1>1, <1>4, DriveFrame DEF actorVars
  <1>5. CASE ActorNext
    BY <1>1, <1>5, ActorServes, Ending DEF Closes
  <1>6. CASE UNCHANGED vars
    BY <1>1, <1>6 DEF vars, actorVars
  <1> QED
    BY <1>1, <1>2, <1>3, <1>4, <1>5, <1>6 DEF Next

LEMMA InformedKept ==
    ASSUME TypeOK, Informed, generation' = generation, shown' = shown,
           \A r \in Rpcs : \/ cards'[r] = cards[r]
                           \/ cards'[r].generation <= generation /\ cards'[r].viewed = 0,
           \A w \in Workers :
              \/ worker'[w] \in {worker[w], Idle}
              \/ \E r \in Rpcs : /\ worker'[w].rpc = r
                                 /\ worker'[w].generation = cards[r].generation
                                 /\ worker'[w].viewed = cards[r].viewed,
           \A i \in 1 .. Len(commands') :
              Old(commands, commands'[i]) \/ FitCommand(commands'[i], generation, shown),
           \A i \in 1 .. Len(events') :
              Old(events, events'[i]) \/ FitEvent(events'[i], generation)
    PROVE  Informed'
  <1>1. /\ \A r \in Rpcs :
              /\ shown[r] \subseteq Pages(r)
              /\ cards[r].generation <= generation
              /\ cards[r].generation = generation => 1 .. cards[r].viewed \subseteq shown[r]
        /\ \A w \in Workers :
              worker[w] # Idle =>
                 /\ worker[w].generation <= generation
                 /\ worker[w].generation = generation =>
                       1 .. worker[w].viewed \subseteq shown[worker[w].rpc]
    BY DEF Informed
  <1>2. /\ \A i \in 1 .. Len(commands) : FitCommand(commands[i], generation, shown)
        /\ \A i \in 1 .. Len(events) : FitEvent(events[i], generation)
    BY DEF Informed, FitCommand, FitEvent
  <1>3. /\ \A i \in 1 .. Len(commands') : FitCommand(commands'[i], generation, shown)
        /\ \A i \in 1 .. Len(events') : FitEvent(events'[i], generation)
    BY <1>2 DEF Old
  <1>4. ASSUME NEW r \in Rpcs
        PROVE  /\ shown'[r] \subseteq Pages(r)
               /\ cards'[r].generation <= generation
               /\ cards'[r].generation = generation => 1 .. cards'[r].viewed \subseteq shown'[r]
    BY <1>1
  <1>5. ASSUME NEW w \in Workers, worker'[w] # Idle
        PROVE  /\ worker'[w].generation <= generation
               /\ worker'[w].generation = generation =>
                     1 .. worker'[w].viewed \subseteq shown'[worker'[w].rpc]
    BY <1>1, <1>5
  <1> QED
    BY <1>3, <1>4, <1>5 DEF Informed, FitCommand, FitEvent, Pages

LEMMA InformedStep ==
    ASSUME TypeOK, InboxSound, LifeSound, actor = "serving" => Informed,
           [Next]_vars, actor' = "serving"
    PROVE  Informed'
  <1>1. actor = "serving" /\ ~Gone /\ Informed
    BY ActorOnly
  <1>2. /\ commands \in Seq(Command) /\ events \in Seq(Event) /\ generation \in Nat
        /\ cards \in [Rpcs -> [generation : Nat, viewed : Nat, up : BOOLEAN]]
        /\ worker \in [Workers ->
                 [rpc : Rpcs \cup {None}, action : Actions \cup {"none"},
                  generation : Nat, viewed : Nat]]
        /\ shown \in [Rpcs -> SUBSET Nat]
    BY DEF TypeOK
  <1>3. /\ \A i \in 1 .. Len(commands) : Old(commands, commands[i])
        /\ commands # <<>> => \A i \in 1 .. Len(Tail(commands)) :
                                 Old(commands, Tail(commands)[i])
        /\ \A c \in Command : \A i \in 1 .. Len(Append(commands, c)) :
              Append(commands, c)[i] = c \/ Old(commands, Append(commands, c)[i])
    BY <1>2, Moved
  <1>4. /\ \A i \in 1 .. Len(events) : Old(events, events[i])
        /\ events # <<>> => /\ Old(events, Head(events))
                            /\ \A i \in 1 .. Len(Tail(events)) : Old(events, Tail(events)[i])
        /\ \A e \in Event : \A i \in 1 .. Len(Append(events, e)) :
              Append(events, e)[i] = e \/ Old(events, Append(events, e)[i])
    BY <1>2, Moved
  <1>5. ASSUME UNCHANGED <<generation, shown, cards, worker>>,
               commands' = commands \/ (commands # <<>> /\ commands' = Tail(commands)),
               \/ events' = events
               \/ \E e \in Event : FitEvent(e, generation) /\ Emit(e)
        PROVE  Informed'
    <2>1. \A i \in 1 .. Len(commands') : Old(commands, commands'[i])
      BY <1>3, <1>5
    <2>2. \A i \in 1 .. Len(events') :
             Old(events, events'[i]) \/ FitEvent(events'[i], generation)
      BY <1>4, <1>5 DEF Emit
    <2> QED
      BY <1>1, <1>5, <2>1, <2>2, InformedKept
  <1>6. CASE CodexNext \/ UNCHANGED vars
    <2>1. UNCHANGED <<actorVars, mailVars, coordVars, userVars>>
      BY <1>6, CodexFrame DEF vars
    <2> QED
      BY <1>5, <2>1 DEF actorVars, mailVars, coordVars, userVars
  <1>7. CASE UserNext
    <2>1. generation' = generation /\ events' = events
      BY <1>7, UserFrame DEF actorVars
    <2>2. ASSUME NEW r \in Rpcs, NEW k \in Pages(r), ReadsPage(r, k)
          PROVE  Informed'
      <3>1. /\ UNCHANGED <<commands, worker>> /\ k <= cards[r].viewed + 1
            /\ shown' = [shown EXCEPT ![r] = @ \cup {k}]
            /\ cards' = [cards EXCEPT ![r].viewed = IF @ < k THEN k ELSE @]
        BY <2>2 DEF ReadsPage, mailVars
      <3>2. k \in Nat
        BY RequestsType DEF Pages
      <3>3. \A s \in Rpcs : shown[s] \subseteq shown'[s] /\ shown'[s] \subseteq shown[s] \cup {k}
        BY <1>2, <3>1
      <3>4. \A s \in Rpcs : /\ cards'[s].generation = cards[s].generation
                            /\ s # r => cards'[s] = cards[s]
        BY <1>2, <3>1
      <3>5. cards'[r].viewed = IF cards[r].viewed < k THEN k ELSE cards[r].viewed
        BY <1>2, <3>1
      <3>6. k \in shown'[r] /\ shown'[r] = shown[r] \cup {k}
            /\ \A s \in Rpcs \ {r} : shown'[s] = shown[s]
        BY <1>2, <3>1
      <3>7. ASSUME NEW s \in Rpcs
            PROVE  /\ shown'[s] \subseteq Pages(s)
                   /\ cards'[s].generation <= generation
                   /\ cards'[s].generation = generation =>
                         1 .. cards'[s].viewed \subseteq shown'[s]
        <4>1. /\ shown[s] \subseteq Pages(s) /\ cards[s].generation <= generation
              /\ cards[s].generation = generation => 1 .. cards[s].viewed \subseteq shown[s]
          BY <1>1 DEF Informed
        <4>2. CASE s # r
          BY <3>3, <3>4, <3>6, <4>1, <4>2
        <4>3. CASE s = r
          <5>1. cards[r].viewed \in Nat
            BY <1>2
          <5>2. \A i \in 1 .. cards'[r].viewed : i = k \/ i \in 1 .. cards[r].viewed
            BY <3>1, <3>2, <3>5, <5>1
          <5> QED
            BY <3>3, <3>4, <3>6, <4>1, <4>3, <5>2
        <4> QED
          BY <4>2, <4>3
      <3>8. ASSUME NEW w \in Workers, worker'[w] # Idle
            PROVE  /\ worker'[w].generation <= generation
                   /\ worker'[w].generation = generation =>
                         1 .. worker'[w].viewed \subseteq shown'[worker'[w].rpc]
        <4>1. worker[w].rpc \in Rpcs
          BY <3>1, <3>8 DEF LifeSound
        <4> QED
          BY <1>1, <3>1, <3>3, <3>8, <4>1 DEF Informed
      <3>9. ASSUME NEW i \in 1 .. Len(commands)
            PROVE  FitCommand(commands[i], generation, shown')
        <4>1. commands[i] \in Command
          BY <1>2
        <4>2. FitCommand(commands[i], generation, shown)
          BY <1>1 DEF Informed, FitCommand
        <4>3. commands[i].kind = "approval" => commands[i].rpc \in Rpcs
          BY <4>1 DEF Command
        <4> QED
          BY <3>3, <4>2, <4>3 DEF FitCommand
      <3>10. \A i \in 1 .. Len(events) : FitEvent(events[i], generation)
        BY <1>1 DEF Informed, FitEvent
      <3> QED
        BY <2>1, <3>1, <3>7, <3>8, <3>9, <3>10 DEF Informed, FitCommand, FitEvent, Pages
    <2>3. ASSUME NEW w \in Workers, NEW r \in Rpcs, Presses(w, r)
          PROVE  Informed'
      <3>1. /\ UNCHANGED <<shown, cards, commands>>
            /\ \E a : worker' = [worker EXCEPT ![w] =
                        [rpc |-> r, action |-> a, generation |-> cards[r].generation,
                         viewed |-> cards[r].viewed]]
        BY <2>3 DEF Presses, userVars, mailVars
      <3>2. \A v \in Workers :
              \/ worker'[v] \in {worker[v], Idle}
              \/ \E s \in Rpcs : /\ worker'[v].rpc = s
                                 /\ worker'[v].generation = cards[s].generation
                                 /\ worker'[v].viewed = cards[s].viewed
        BY <1>2, <3>1
      <3> QED
        BY <1>1, <1>3, <1>4, <2>1, <3>1, <3>2, InformedKept
    <2>4. ASSUME NEW w \in Workers, GivesUp(w) \/ MailsDecision(w)
          PROVE  Informed'
      <3>1. /\ UNCHANGED <<shown, cards>> /\ worker[w] # Idle
            /\ worker' = [worker EXCEPT ![w] = Idle]
        BY <2>4 DEF GivesUp, MailsDecision, Leaves, userVars
      <3>2. \A v \in Workers : worker'[v] \in {worker[v], Idle}
        BY <1>2, <3>1
      <3>3. CASE GivesUp(w)
        <4>1. commands' = commands
          BY <3>3 DEF GivesUp, mailVars
        <4> QED
          BY <1>1, <1>3, <1>4, <2>1, <3>1, <3>2, <4>1, InformedKept
      <3>4. CASE MailsDecision(w)
        <4> DEFINE c == [kind |-> "approval", rpc |-> worker[w].rpc,
                         action |-> worker[w].action, generation |-> worker[w].generation]
        <4>1. /\ commands' = Append(commands, c)
              /\ worker[w].action \in Accepts => worker[w].viewed = PagesOf[worker[w].rpc]
          BY <3>4 DEF MailsDecision, Mail, ReadAll, Accepts
        <4>2. worker[w].rpc \in Rpcs /\ worker[w].action \in Actions
          BY <3>1 DEF LifeSound
        <4>3. c \in Command
          BY <1>2, <4>2 DEF Command
        <4>4. /\ worker[w].generation <= generation
              /\ worker[w].generation = generation =>
                    1 .. worker[w].viewed \subseteq shown[worker[w].rpc]
          BY <1>1, <3>1 DEF Informed
        <4>5. FitCommand(c, generation, shown)
          BY <4>1, <4>4 DEF FitCommand, Pages
        <4> HIDE DEF c
        <4>6. \A i \in 1 .. Len(commands') :
                 Old(commands, commands'[i]) \/ FitCommand(commands'[i], generation, shown)
          BY <1>3, <4>1, <4>3, <4>5
        <4> QED
          BY <1>1, <1>4, <2>1, <3>1, <3>2, <4>6, InformedKept
      <3> QED
        BY <2>4, <3>3, <3>4
    <2>5. ASSUME MailsInterrupt \/ \E s \in Steers : MailsSteer(s)
          PROVE  Informed'
      <3>1. PICK c \in Command : c.kind # "approval" /\ Mail(c)
        <4>1. /\ [kind |-> "interrupt"] \in Command /\ [kind |-> "interrupt"].kind = "interrupt"
              /\ \A s \in Steers : /\ [kind |-> "steer", steer |-> s] \in Command
                                   /\ [kind |-> "steer", steer |-> s].kind = "steer"
          BY DEF Command
        <4> QED
          BY <2>5, <4>1 DEF MailsInterrupt, MailsSteer
      <3>2. commands' = Append(commands, c) /\ FitCommand(c, generation, shown)
        BY <3>1 DEF Mail, FitCommand
      <3>3. \A i \in 1 .. Len(commands') :
               Old(commands, commands'[i]) \/ FitCommand(commands'[i], generation, shown)
        BY <1>3, <3>2
      <3>4. UNCHANGED <<shown, cards, worker>>
        BY <2>5 DEF MailsInterrupt, MailsSteer, coordVars, userVars
      <3> QED
        BY <1>1, <1>4, <2>1, <3>3, <3>4, InformedKept
    <2>6. ASSUME EditsConfig
          PROVE  Informed'
      BY <1>5, <2>1, <2>6 DEF EditsConfig, coordVars, mailVars
    <2> QED
      BY <1>7, <2>2, <2>3, <2>4, <2>5, <2>6 DEF UserNext
  <1>8. CASE DriveNext \/ Restarts
    <2>1. UNCHANGED <<actorVars, commands, shown>>
      BY <1>1, <1>8, DriveFrame
    <2>2. generation' = generation
      BY <2>1 DEF actorVars
    <2>3. \A i \in 1 .. Len(commands') : Old(commands, commands'[i])
      BY <1>3, <2>1
    <2>4. ASSUME DriveShows
          PROVE  Informed'
      <3> DEFINE e == Head(events)
      <3>1. /\ events # <<>> /\ events' = Tail(events) /\ e.kind = "approval"
            /\ worker' = worker
            /\ cards' = [cards EXCEPT ![e.rpc] = [generation |-> e.generation,
                                                  viewed |-> 0, up |-> TRUE]]
        BY <2>4 DEF DriveShows, DriveTakes, Has
      <3>2. e.generation <= generation
        BY <1>1, <1>4, <3>1 DEF Informed, Old
      <3>3. \A i \in 1 .. Len(events') : Old(events, events'[i])
        BY <1>4, <3>1
      <3> HIDE DEF e
      <3>4. \A r \in Rpcs : \/ cards'[r] = cards[r]
                            \/ cards'[r].generation <= generation /\ cards'[r].viewed = 0
        BY <1>2, <3>1, <3>2
      <3> QED
        BY <1>1, <2>1, <2>2, <2>3, <3>1, <3>3, <3>4, InformedKept
    <2>5. ASSUME DriveRemoves
          PROVE  Informed'
      <3> DEFINE e == Head(events)
      <3>1. /\ events # <<>> /\ events' = Tail(events) /\ worker' = worker
            /\ \/ cards' = cards
               \/ cards' = [cards EXCEPT ![e.rpc] = NoCard]
               \/ cards' = [r \in Rpcs |-> IF cards[r].generation < e.generation
                                           THEN NoCard ELSE cards[r]]
        BY <2>5 DEF DriveRemoves, DriveTakes, Has
      <3>2. \A i \in 1 .. Len(events') : Old(events, events'[i])
        BY <1>4, <3>1
      <3> HIDE DEF e
      <3>3. \A r \in Rpcs : cards'[r] = cards[r] \/ cards'[r] = NoCard
        BY <1>2, <3>1
      <3>4. NoCard.generation <= generation /\ NoCard.viewed = 0
        BY <1>2 DEF NoCard
      <3>5. \A r \in Rpcs : \/ cards'[r] = cards[r]
                            \/ cards'[r].generation <= generation /\ cards'[r].viewed = 0
        BY <3>3, <3>4
      <3> QED
        BY <1>1, <2>1, <2>2, <2>3, <3>1, <3>2, <3>5, InformedKept
    <2>6. ASSUME DriveFails \/ DriveEnds \/ Restarts \/ DriveCleans
          PROVE  FALSE
      <3>1. ActorGone \/ drive # "receiving"
        BY <2>6 DEF DriveFails, DriveEnds, Restarts, DriveCleans
      <3> QED
        BY <1>1, <3>1, Ending DEF LifeSound
    <2>7. ASSUME DriveSettles
          PROVE  FALSE
      <3>1. drive # "receiving"
        BY <2>7 DEF DriveSettles
      <3> QED
        BY <1>1, <3>1 DEF LifeSound
    <2> QED
      BY <1>8, <2>4, <2>5, <2>6, <2>7 DEF DriveNext
  <1>9. CASE ActorNext
    <2>1. UNCHANGED <<cards, worker>>
      BY <1>9, ActorFrame DEF coordVars
    <2>2. /\ [kind |-> "unsupported"] \in Event
          /\ FitEvent([kind |-> "unsupported"], generation)
          /\ \A r \in Rpcs :
                /\ [kind |-> "approval", rpc |-> r, generation |-> generation] \in Event
                /\ FitEvent([kind |-> "approval", rpc |-> r,
                             generation |-> generation], generation)
                /\ [kind |-> "resolved", rpc |-> r] \in Event
                /\ FitEvent([kind |-> "resolved", rpc |-> r], generation)
      BY <1>2 DEF Event, FitEvent
    <2>3. CASE TakesApproval \/ TakesInterrupt
      <3>1. /\ UNCHANGED <<generation, shown, events>>
            /\ commands # <<>> /\ commands' = Tail(commands)
        BY <2>3 DEF TakesApproval, TakesInterrupt, Takes, Has, userVars
      <3> QED
        BY <1>5, <2>1, <3>1
    <2>4. CASE TakesSteer
      <3>1. /\ Emit([kind |-> "invalidated", generation |-> generation + 1])
            /\ commands # <<>> /\ commands' = Tail(commands)
            /\ shown' = [r \in Rpcs |-> {}]
            /\ generation' = generation + 1
        BY <1>1, <2>4, Ending DEF TakesSteer, Has
      <3> DEFINE e == [kind |-> "invalidated", generation |-> generation + 1]
      <3>2. e \in Event /\ e.kind = "invalidated"
        BY <1>2 DEF Event
      <3>3. events' = Append(events, e)
        BY <3>1 DEF Emit
      <3> HIDE DEF e
      <3>4. \A i \in 1 .. Len(events) : FitEvent(events[i], generation)
        BY <1>1 DEF Informed, FitEvent
      <3>5. \A i \in 1 .. Len(events') :
               events'[i].kind = "approval" => events'[i].generation <= generation
        BY <1>4, <3>2, <3>3, <3>4 DEF Old, FitEvent
      <3>6. \A i \in 1 .. Len(events') : events'[i] \in Event
        <4>1. Append(events, e) \in Seq(Event)
          BY <1>2, <3>2
        <4> QED
          BY <3>3, <4>1
      <3>7. \A i \in 1 .. Len(events') :
               events'[i].kind = "approval" => events'[i].generation <= generation'
        <4> SUFFICES ASSUME NEW i \in 1 .. Len(events'), events'[i].kind = "approval"
                     PROVE  events'[i].generation <= generation'
          OBVIOUS
        <4>1. events'[i].generation \in Nat
          BY <3>6 DEF Event
        <4> QED
          BY <1>2, <3>1, <3>5, <4>1
      <3>8. \A i \in 1 .. Len(commands') :
               commands'[i].kind = "approval" => commands'[i].generation < generation'
        <4> SUFFICES ASSUME NEW i \in 1 .. Len(commands'), commands'[i].kind = "approval"
                     PROVE  commands'[i].generation < generation'
          OBVIOUS
        <4>1. PICK j \in 1 .. Len(commands) : commands'[i] = commands[j]
          BY <1>3, <3>1 DEF Old
        <4>2. commands[j].generation \in Nat
          BY <1>2, <4>1 DEF Command
        <4>3. commands[j].generation <= generation
          BY <1>1, <4>1 DEF Informed
        <4> QED
          BY <1>2, <3>1, <4>1, <4>2, <4>3
      <3>9. \A r \in Rpcs : cards'[r].generation < generation' /\ shown'[r] \subseteq Pages(r)
        BY <1>1, <1>2, <2>1, <3>1 DEF Informed
      <3>10. \A w \in Workers : worker'[w] # Idle => worker'[w].generation < generation'
        BY <1>1, <1>2, <2>1, <3>1 DEF Informed
      <3>11. \A i \in 1 .. Len(commands') :
                commands'[i].kind = "approval" => commands'[i].generation \in Nat
        <4>1. Tail(commands) \in Seq(Command)
          BY <1>2, <3>1, TailOne
        <4>2. \A i \in 1 .. Len(commands') : commands'[i] \in Command
          BY <3>1, <4>1
        <4> QED
          BY <4>2 DEF Command
      <3>12. generation' \in Nat
        BY <1>2, <3>1
      <3>13. \A r \in Rpcs : cards'[r].generation \in Nat
        BY <1>2, <2>1
      <3>14. \A w \in Workers : worker'[w].generation \in Nat
        BY <1>2, <2>1
      <3> QED
        BY <3>7, <3>8, <3>9, <3>10, <3>11, <3>12, <3>13, <3>14 DEF Informed, Pages
    <2>5. CASE SteerBegins \/ SteerRefused \/ SteerEnds \/ ReplyWritten \/ WriteFails
               \/ ReplyRecorded \/ GrantReplies \/ HearsCall \/ Confirms
      <3>1. UNCHANGED <<generation, shown, events, commands>>
        BY <2>5 DEF SteerBegins, SteerRefused, SteerEnds, ReplyWritten, WriteFails,
           ReplyRecorded, GrantReplies, HearsCall, Confirms, mailVars, userVars
      <3> QED
        BY <1>5, <2>1, <3>1
    <2>6. CASE ReplyUnknown \/ LosesRuntime \/ Closes
      <3>1. UNCHANGED <<generation, shown, events, commands>>
        BY <1>1, <2>6, Ending DEF ReplyUnknown, LosesRuntime, Closes
      <3> QED
        BY <1>5, <2>1, <3>1
    <2>7. CASE HearsRequest
      <3>1. PICK r \in Rpcs : r = Head(inbox).rpc
        BY <2>7, RequestHeard DEF HearsRequest
      <3>2. /\ UNCHANGED <<generation, shown, commands>>
            /\ \/ events' = events
               \/ Emit([kind |-> "approval", rpc |-> r, generation |-> generation])
        BY <1>1, <2>7, <3>1, Ending DEF HearsRequest, Learns
      <3> QED
        BY <1>5, <2>1, <2>2, <3>2
    <2>8. CASE HearsUnknown
      <3>1. /\ UNCHANGED <<generation, shown, commands>>
            /\ Emit([kind |-> "unsupported"])
        BY <1>1, <2>8, Ending DEF HearsUnknown, actorVars
      <3> QED
        BY <1>5, <2>1, <2>2, <3>1
    <2>9. CASE HearsResolved
      <3>1. PICK r \in Rpcs : r = Head(inbox).rpc
        BY <2>9, EndHeard DEF HearsResolved
      <3>2. /\ UNCHANGED <<generation, shown, commands>>
            /\ events' = events \/ Emit([kind |-> "resolved", rpc |-> r])
        BY <1>1, <2>9, <3>1, Ending DEF HearsResolved
      <3> QED
        BY <1>5, <2>1, <2>2, <3>2
    <2> QED
      BY <1>9, <2>3, <2>4, <2>5, <2>6, <2>7, <2>8, <2>9 DEF ActorNext
  <1> QED
    BY <1>6, <1>7, <1>8, <1>9 DEF Next

-----------------------------------------------------------------------------
(***************************************************************************)
(* What is accepted without asking was allowed.                            *)
(***************************************************************************)

\* A request is matched with its own call or with none.
LEMMA MatchOwn ==
    ASSUME TypeOK, InboxSound, Scoped, Has(inbox, "request"),
           NEW r \in Rpcs, r = Head(inbox).rpc
    PROVE  /\ Match(r) \in {None, r}
           /\ Match(r) = r => kind[r] \in Tools
           /\ Match(r) # None => items = {r}
  <1>1. /\ Unheard(r) /\ asked[r] # "no" /\ ~In(inbox, Ev("started", r))
    BY RequestHeard
  <1>2. kind[r] \in Tools => r \in items
    BY <1>1 DEF Scoped
  <1>3. None # r
    BY NoneIsNull
  <1>4. CASE kind[r] \in Tools /\ \E i \in Rpcs : items = {i}
    <2>1. Match(r) = CHOOSE i \in Rpcs : items = {i}
      BY <1>4 DEF Match
    <2>2. items = {Match(r)}
      BY <1>4, <2>1
    <2> QED
      BY <1>2, <1>4, <2>2
  <1>5. CASE ~(kind[r] \in Tools /\ \E i \in Rpcs : items = {i})
    BY <1>3, <1>5 DEF Match
  <1> QED
    BY <1>4, <1>5

\* The start of a call is heard only by the step that takes it.
LEMMA StartedStays ==
    ASSUME TypeOK, InboxSound, TaskSound, [Next]_vars, ~Gone,
           NEW r \in Rpcs, In(inbox, Ev("started", r))
    PROVE  \/ In(inbox', Ev("started", r))
           \/ HearsCall /\ Head(inbox) = Ev("started", r)
  <1> DEFINE S == Ev("started", r)
  <1>1. inbox \in Seq(Upstream)
    BY DEF TypeOK
  <1>2. inbox' = inbox => In(inbox', S)
    OBVIOUS
  <1>3. \A e \in Upstream : inbox' = Append(inbox, e) => In(inbox', S)
    BY <1>1, AppendIn
  <1>4. \A s \in Rpcs : inbox' = inbox \o Over(s) => In(inbox', S)
    BY <1>1, OverIn
  <1>5. ASSUME NEW k, k # "closed", k # "started", Has(inbox, k)
        PROVE  inbox # <<>> /\ Tail(inbox) \in Seq(Upstream) /\ In(Tail(inbox), S)
    <2>1. Head(inbox).kind = k /\ inbox # <<>>
      BY <1>5 DEF Has
    <2>2. S.kind = "started"
      BY DEF Ev
    <2> QED
      BY <1>1, <1>5, <2>1, <2>2, TailIn, TailOne
  <1> HIDE DEF S
  <1>6. CASE CodexNext
    <2>1. \/ inbox' = inbox
          \/ \E e \in Upstream : inbox' = Append(inbox, e)
          \/ \E s \in Rpcs : inbox' = inbox \o Over(s)
      <3>1. ASSUME NEW s \in Rpcs, CallStarts(s) \/ Asks(s)
            PROVE  \E e \in Upstream : inbox' = Append(inbox, e)
        BY <3>1, EvApart DEF CallStarts, Asks, Tells, Ev
      <3>2. ASSUME ChildDies
            PROVE  \E e \in Upstream : inbox' = Append(inbox, e)
        BY <3>2, EvApart DEF ChildDies
      <3> QED
        BY <1>6, <3>1, <3>2 DEF CodexNext, Withdraws, TurnEnds
    <2> QED
      BY <1>2, <1>3, <1>4, <2>1 DEF S
  <1>7. CASE UserNext
    BY <1>2, <1>7, UserFrame DEF codexVars, S
  <1>8. CASE DriveNext \/ Restarts
    BY <1>2, <1>8, DriveFrame DEF S
  <1>9. CASE ActorNext
    <2>1. CASE TakesApproval \/ TakesInterrupt \/ TakesSteer \/ SteerBegins
               \/ SteerRefused \/ SteerEnds
      <3>1. inbox' = inbox
        BY <2>1, Ending DEF TakesApproval, TakesInterrupt, TakesSteer, SteerBegins,
           SteerRefused, SteerEnds, codexVars
      <3> QED
        BY <1>2, <3>1 DEF S
    <2>2. CASE ReplyWritten
      <3>1. task.rpc \in Rpcs
        BY <2>2 DEF ReplyWritten, TaskSound
      <3>2. inbox' = inbox \/ inbox' = inbox \o Over(task.rpc)
        BY <2>2 DEF ReplyWritten, Reaches
      <3> QED
        BY <1>2, <1>4, <3>1, <3>2 DEF S
    <2>3. CASE WriteFails
      <3>1. inbox' = inbox \/ inbox' = Append(inbox, [kind |-> "closed"])
        BY <2>3 DEF WriteFails
      <3> QED
        BY <1>2, <1>3, <3>1, EvApart DEF S
    <2>4. CASE ReplyRecorded \/ ReplyUnknown \/ GrantReplies \/ LosesRuntime
               \/ Confirms \/ Closes
      <3>1. inbox' = inbox
        BY <2>4, Ending DEF ReplyRecorded, ReplyUnknown, GrantReplies, LosesRuntime,
           Confirms, Closes, codexVars
      <3> QED
        BY <1>2, <3>1 DEF S
    <2>5. CASE HearsCall
      <3>1. inbox # <<>> /\ inbox' = Tail(inbox)
        BY <2>5 DEF HearsCall, Hears, Has
      <3>2. Head(inbox) = S \/ In(Tail(inbox), S)
        BY <1>1, <3>1, TailIn DEF S
      <3> QED
        BY <2>5, <3>1, <3>2 DEF S
    <2>6. CASE HearsRequest
      <3>1. Has(inbox, "request") /\ inbox' = Tail(inbox)
        BY <2>6, Ending DEF HearsRequest, Learns
      <3> QED
        BY <1>5, <3>1 DEF S
    <2>7. CASE HearsUnknown
      <3>1. PICK s \in Rpcs : s = Head(inbox).rpc
        BY <2>7, RequestHeard DEF HearsUnknown
      <3>2. /\ Has(inbox, "request")
            /\ inbox' = Tail(inbox) \o
                 (IF child = "running" /\ asked[s] = "waiting" THEN Over(s) ELSE <<>>)
        BY <2>7, <3>1, Ending DEF HearsUnknown
      <3>3. Tail(inbox) \in Seq(Upstream) /\ In(Tail(inbox), S)
        BY <1>5, <3>2
      <3>4. Tail(inbox) \o <<>> = Tail(inbox)
        BY <3>3, ConcatEmptySeq
      <3>5. In(Tail(inbox) \o Over(s), S)
        BY <3>3, OverIn DEF S
      <3> QED
        BY <3>2, <3>3, <3>4, <3>5 DEF S
    <2>8. CASE HearsResolved
      <3>1. Has(inbox, "resolved") /\ inbox' = Tail(inbox)
        BY <2>8, Ending DEF HearsResolved
      <3> QED
        BY <1>5, <3>1 DEF S
    <2> QED
      BY <1>9, <2>1, <2>2, <2>3, <2>4, <2>5, <2>6, <2>7, <2>8 DEF ActorNext
  <1>10. CASE UNCHANGED vars
    BY <1>2, <1>10 DEF vars, codexVars, S
  <1> QED
    BY <1>6, <1>7, <1>8, <1>9, <1>10 DEF Next

\* A call in progress is there when its request is heard.
CallThere == \A r \in Rpcs :
    kind[r] \in Tools /\ Unheard(r) /\ asked[r] # "no" /\ ~In(inbox, Ev("started", r))
    => r \in items

LEMMA CallStep ==
    ASSUME TypeOK, InboxSound, TaskSound, Scoped, [Next]_vars, ~Gone
    PROVE  CallThere'
  <1> SUFFICES ASSUME NEW r \in Rpcs, kind'[r] \in Tools, Unheard(r)', asked'[r] # "no",
                      ~In(inbox', Ev("started", r))
               PROVE  r \in items'
    BY DEF CallThere
  <1>1. /\ Unheard(r) /\ asked[r] # "no"
        /\ kind'[r] = kind[r]
    BY InboxStep
  <1>2. In(inbox, Ev("started", r)) => HearsCall /\ Head(inbox) = Ev("started", r)
    BY StartedStays
  <1>3. r \in items \/ (HearsCall /\ Head(inbox) = Ev("started", r))
    BY <1>1, <1>2 DEF Scoped
  <1>4. CASE HearsCall
    <2>1. CASE Has(inbox, "started") /\ items' = items \cup {Head(inbox).rpc}
      <3>1. Ev("started", r).rpc = r
        BY DEF Ev
      <3> QED
        BY <1>3, <2>1, <3>1
    <2>2. CASE Has(inbox, "completed") /\ items' = items \ {Head(inbox).rpc}
      <3>1. Head(inbox).rpc # r
        BY <1>1, <2>2, EndHeard
      <3>2. Head(inbox).kind = "completed" /\ Ev("started", r).kind = "started"
        BY <2>2 DEF Has, Ev
      <3> QED
        BY <1>3, <2>2, <3>1, <3>2
    <2> QED
      BY <1>4, <2>1, <2>2 DEF HearsCall, Hears
  <1>5. CASE HearsRequest
    <2>1. PICK s \in Rpcs : s = Head(inbox).rpc
      BY <1>5, RequestHeard DEF HearsRequest
    <2>2. /\ Has(inbox, "request") /\ inbox' = Tail(inbox) /\ asked' = asked
          /\ items' = items \ {Match(s)}
      BY <1>5, <2>1, Ending DEF HearsRequest, Learns
    <2>3. Match(s) \in {None, s}
      BY <2>1, <2>2, MatchOwn
    <2>4. asked[s] \notin {"no", "started"} /\ ~In(Tail(inbox), Ev("request", s))
      BY <2>1, <2>2, RequestHeard
    <2>5. r # s
      BY <2>2, <2>4 DEF Unheard
    <2>6. Head(inbox).kind = "request" /\ Ev("started", r).kind = "started"
      BY <2>2 DEF Has, Ev
    <2>7. r \in items
      BY <1>3, <2>6
    <2> QED
      BY <2>2, <2>3, <2>5, <2>7, NoneIsNull
  <1>6. ASSUME ~HearsCall, ~HearsRequest
        PROVE  items' = items
    <2>1. CASE CodexNext
      BY <2>1, CodexFrame DEF actorVars
    <2>2. CASE UserNext
      BY <2>2, UserFrame DEF actorVars
    <2>3. CASE DriveNext \/ Restarts
      BY <2>3, DriveFrame DEF actorVars
    <2>4. CASE ActorNext
      <3>1. CASE TakesApproval \/ TakesInterrupt \/ TakesSteer \/ SteerBegins
                 \/ SteerRefused \/ SteerEnds \/ Confirms
        BY <3>1, Ending DEF TakesApproval, TakesInterrupt, TakesSteer, SteerBegins,
           SteerRefused, SteerEnds, Confirms
      <3>2. CASE ReplyWritten \/ WriteFails \/ ReplyRecorded \/ ReplyUnknown
                 \/ GrantReplies \/ LosesRuntime \/ Closes
        BY <3>2, Ending DEF ReplyWritten, WriteFails, ReplyRecorded, ReplyUnknown,
           GrantReplies, LosesRuntime, Closes
      <3>3. CASE HearsUnknown \/ HearsResolved
        BY <3>3, Ending DEF HearsUnknown, HearsResolved, actorVars
      <3> QED
        BY <1>6, <2>4, <3>1, <3>2, <3>3 DEF ActorNext
    <2>5. CASE UNCHANGED vars
      BY <2>5 DEF vars, actorVars
    <2> QED
      BY <2>1, <2>2, <2>3, <2>4, <2>5 DEF Next
  <1> QED
    BY <1>3, <1>4, <1>5, <1>6

\* What was matched stays matched.
LEMMA OwnCall ==
    ASSUME TypeOK, InboxSound, TaskSound, Scoped, \A r \in Rpcs : RowSound(r),
           [Next]_vars, ~Gone
    PROVE  /\ \A r \in Rpcs : evidence'[r] \in {None, r}
           /\ \A r : ForRun(r) => ForRun(r)'
  <1>1. evidence \in [Rpcs -> Rpcs \cup {None}] /\ \A r \in Rpcs : evidence[r] \in {None, r}
    BY DEF TypeOK, Scoped
  <1>2. CASE HearsRequest
    <2>1. PICK s \in Rpcs : s = Head(inbox).rpc
      BY <1>2, RequestHeard DEF HearsRequest
    <2>2. /\ Has(inbox, "request") /\ kind' = kind
          /\ evidence' = [evidence EXCEPT ![s] = Match(s)]
      BY <1>2, <2>1, Ending DEF HearsRequest, Learns
    <2>3. Match(s) \in {None, s}
      BY <2>1, <2>2, MatchOwn
    <2>4. Unheard(s)
      BY <2>1, <2>2, RequestHeard
    <2>5. evidence[s] = None
      BY <2>4 DEF RowSound
    <2>6. \A r \in Rpcs \ {s} : evidence'[r] = evidence[r]
      BY <1>1, <2>2
    <2>7. evidence'[s] = Match(s)
      BY <1>1, <2>2
    <2> QED
      BY <1>1, <2>2, <2>3, <2>5, <2>6, <2>7, NoneIsNull DEF ForRun
  <1>3. CASE ~HearsRequest
    <2>1. evidence' = evidence
      <3>1. CASE CodexNext
        BY <3>1, CodexFrame DEF actorVars
      <3>2. CASE UserNext
        BY <3>2, UserFrame DEF actorVars
      <3>3. CASE DriveNext \/ Restarts
        BY <3>3, DriveFrame DEF actorVars
      <3>4. CASE ActorNext
        <4>1. CASE TakesApproval \/ TakesInterrupt \/ TakesSteer \/ SteerBegins
                   \/ SteerRefused \/ SteerEnds \/ Confirms \/ HearsCall
          BY <4>1, Ending DEF TakesApproval, TakesInterrupt, TakesSteer, SteerBegins,
             SteerRefused, SteerEnds, Confirms, HearsCall
        <4>2. CASE ReplyWritten \/ WriteFails \/ ReplyRecorded \/ ReplyUnknown
                   \/ GrantReplies \/ LosesRuntime \/ Closes
          BY <4>2, Ending DEF ReplyWritten, WriteFails, ReplyRecorded, ReplyUnknown,
             GrantReplies, LosesRuntime, Closes
        <4>3. CASE HearsUnknown \/ HearsResolved
          BY <4>3, Ending DEF HearsUnknown, HearsResolved, actorVars
        <4> QED
          BY <1>3, <3>4, <4>1, <4>2, <4>3 DEF ActorNext
      <3>5. CASE UNCHANGED vars
        BY <3>5 DEF vars, actorVars
      <3> QED
        BY <3>1, <3>2, <3>3, <3>4, <3>5 DEF Next
    <2>2. \A r \in Rpcs : asked[r] = "no" => kind[r] = "none"
      BY DEF InboxSound, QueueSound
    <2>3. \A r \in Rpcs : kind[r] \in Tools => kind'[r] = kind[r]
      BY <2>2, InboxStep, KindsType
    <2> QED
      BY <1>1, <2>1, <2>3 DEF ForRun
  <1> QED
    BY <1>2, <1>3

\* Where the tool to grant comes from.
LEMMA RunTask ==
    ASSUME TypeOK, InboxSound, TaskSound, [Next]_vars, ~Gone, task'.what = "run"
    PROVE  \/ task.what = "run" /\ task'.rpc = task.rpc
           \/ \E i \in 1 .. Len(commands) :
                 /\ commands[i].kind = "approval" /\ commands[i].action = "run"
                 /\ task'.rpc = commands[i].rpc
  <1>1. task \in Task /\ commands \in Seq(Command)
    BY DEF TypeOK
  <1>2. NoTask.what = "none"
    BY DEF NoTask
  <1>3. task' # NoTask
    BY <1>2
  <1>4. ASSUME NEW s, NEW k, task' = ATask(s, task.rpc, task.what, task.config, k)
        PROVE  task.what = "run" /\ task'.rpc = task.rpc
    BY <1>4, ATaskType
  <1>5. CASE task' = task
    BY <1>5
  <1>6. CASE ActorNext /\ task' # task
    <2>1. CASE TakesApproval
      <3> DEFINE c == Head(commands)
                 t == [NoTask EXCEPT !.rpc = c.rpc, !.what = c.action, !.config = config]
      <3>1. /\ commands # <<>> /\ c.kind = "approval"
            /\ task' = [t EXCEPT !.step = "write"]
        BY <1>6, <2>1 DEF TakesApproval, Takes, Has, Intends
      <3>2. \A r, a, k : [[NoTask EXCEPT !.rpc = r, !.what = a, !.config = k]
                            EXCEPT !.step = "write"] = ATask("write", r, a, k, FALSE)
        BY TaskForms, Zenon
      <3>3. task' = ATask("write", c.rpc, c.action, config, FALSE)
        BY <3>1, <3>2, Zenon
      <3>4. task'.what = c.action /\ task'.rpc = c.rpc
        BY <3>3 DEF ATask
      <3>5. 1 \in 1 .. Len(commands) /\ c = commands[1]
        BY <1>1, <3>1, TailOne
      <3> HIDE DEF c, t
      <3> QED
        BY <3>1, <3>4, <3>5
    <2>2. CASE SteerBegins \/ WriteFails \/ GrantReplies
      <3>1. \E s : task' = [task EXCEPT !.step = s]
        BY <2>2 DEF SteerBegins, WriteFails, GrantReplies, Intends
      <3>2. \A s : [task EXCEPT !.step = s] =
                      ATask(s, task.rpc, task.what, task.config, task.ok)
        BY <1>1, TaskForms, Zenon
      <3> QED
        BY <1>4, <3>1, <3>2
    <2>3. CASE ReplyWritten
      <3>1. task' = [task EXCEPT !.step = "record", !.ok = TRUE]
        BY <2>3 DEF ReplyWritten
      <3>2. \A t \in Task : \A s, k : [t EXCEPT !.step = s, !.ok = k] =
                                         ATask(s, t.rpc, t.what, t.config, k)
        BY TaskForms, Zenon
      <3>3. task' = ATask("record", task.rpc, task.what, task.config, TRUE)
        BY <1>1, <3>1, <3>2, Zenon
      <3> QED
        BY <1>4, <3>3
    <2>4. CASE TakesSteer
      <3>1. task' = [NoTask EXCEPT !.step = "steer", !.rpc = Head(commands).steer]
        BY <2>4, Ending DEF TakesSteer
      <3>2. \A s : [NoTask EXCEPT !.step = "steer", !.rpc = s] =
                      ATask("steer", s, "none", 0, FALSE)
        BY TaskForms, Zenon
      <3>3. task' = ATask("steer", Head(commands).steer, "none", 0, FALSE)
        BY <3>1, <3>2, Zenon
      <3>4. task'.what = "none"
        BY <3>3 DEF ATask
      <3> QED
        BY <3>4
    <2>5. CASE HearsRequest
      <3>1. task' = [NoTask EXCEPT !.step = "begin", !.rpc = Head(inbox).rpc,
                                   !.what = "grant"]
        BY <1>6, <2>5, Ending DEF HearsRequest
      <3>2. \A s, a : [NoTask EXCEPT !.step = "begin", !.rpc = s, !.what = a] =
                         ATask("begin", s, a, 0, FALSE)
        BY TaskForms, Zenon
      <3>3. task' = ATask("begin", Head(inbox).rpc, "grant", 0, FALSE)
        BY <3>1, <3>2, Zenon
      <3>4. task'.what = "grant"
        BY <3>3 DEF ATask
      <3> QED
        BY <3>4
    <2>6. CASE TakesInterrupt \/ SteerRefused \/ SteerEnds \/ ReplyRecorded
               \/ ReplyUnknown \/ HearsCall
      BY <1>3, <1>6, <2>6, Ending DEF TakesInterrupt, SteerRefused, SteerEnds,
         ReplyRecorded, ReplyUnknown, HearsCall
    <2>7. CASE HearsUnknown \/ HearsResolved \/ LosesRuntime \/ Confirms \/ Closes
      BY <1>6, <2>7, Ending DEF HearsUnknown, HearsResolved, LosesRuntime, Confirms,
         Closes, actorVars
    <2> QED
      BY <1>6, <2>1, <2>2, <2>3, <2>4, <2>5, <2>6, <2>7 DEF ActorNext
  <1>7. CASE ~ActorNext
    <2>1. task' = task
      BY <1>7, CodexFrame, UserFrame, DriveFrame DEF Next, actorVars, vars
    <2> QED
      BY <1>5, <2>1
  <1> QED
    BY <1>5, <1>6, <1>7

\* What is granted was allowed.
Granted == \A t \in Tools : grants[t] # None => <<t, grants[t]>> \in mandate

LEMMA GrantsStep ==
    ASSUME TypeOK, InboxSound, TaskSound, Scoped, [Next]_vars, ~Gone
    PROVE  Granted'
  <1>1. /\ grants \in [Tools -> Config \cup {None}] /\ task \in Task
        /\ \A t \in Tools : grants[t] # None => <<t, grants[t]>> \in mandate
    BY DEF TypeOK, Scoped
  <1>2. ASSUME grants' = grants, mandate' = mandate
        PROVE  Granted'
    BY <1>1, <1>2 DEF Granted
  <1>3. grants' = NoGrants => Granted'
    BY DEF Granted, NoGrants
  <1>4. CASE CodexNext
    BY <1>2, <1>4, CodexFrame DEF actorVars, userVars
  <1>5. CASE UserNext
    BY <1>2, <1>5, UserFrame DEF actorVars
  <1>6. CASE DriveNext \/ Restarts
    BY <1>2, <1>6, DriveFrame DEF actorVars
  <1>7. CASE UNCHANGED vars
    BY <1>2, <1>7 DEF vars, actorVars, userVars
  <1>8. CASE ActorNext
    <2>1. CASE TakesInterrupt \/ TakesSteer
      BY <1>3, <2>1, Ending DEF TakesInterrupt, TakesSteer, Forgets
    <2>2. CASE ReplyRecorded
      <3>1. CASE task.what = "run"
        <4>1. /\ grants' = [grants EXCEPT ![GrantTool(task.rpc)] = task.config]
              /\ mandate' = mandate \cup {<<kind[task.rpc], task.config>>}
          BY <2>2, <3>1 DEF ReplyRecorded
        <4>2. GrantTool(task.rpc) = kind[task.rpc]
          BY <3>1 DEF Scoped, ForRun, GrantTool
        <4> QED
          BY <1>1, <4>1, <4>2 DEF Granted
      <3>2. CASE task.what # "run"
        BY <1>2, <2>2, <3>2 DEF ReplyRecorded
      <3> QED
        BY <3>1, <3>2
    <2>3. CASE HearsRequest
      <3>1. mandate' = mandate /\ grants' \in {grants, NoGrants}
        BY <2>3, Ending DEF HearsRequest, Learns, Standing
      <3> QED
        BY <1>2, <1>3, <3>1
    <2>4. CASE TakesApproval \/ SteerBegins \/ SteerRefused \/ SteerEnds \/ Confirms
               \/ HearsCall
      BY <1>2, <2>4 DEF TakesApproval, SteerBegins, SteerRefused, SteerEnds, Confirms,
         HearsCall, userVars
    <2>5. CASE ReplyWritten \/ WriteFails \/ ReplyUnknown \/ GrantReplies
               \/ LosesRuntime \/ Closes
      BY <1>2, <2>5, Ending DEF ReplyWritten, WriteFails, ReplyUnknown, GrantReplies,
         LosesRuntime, Closes, userVars
    <2>6. CASE HearsUnknown \/ HearsResolved
      BY <1>2, <2>6, Ending DEF HearsUnknown, HearsResolved, actorVars
    <2> QED
      BY <1>8, <2>1, <2>2, <2>3, <2>4, <2>5, <2>6 DEF ActorNext
  <1> QED
    BY <1>4, <1>5, <1>6, <1>7, <1>8 DEF Next

\* The same of kinds and matches to come.
RunOf(r, k, e) == r \in Rpcs /\ k[r] \in Tools /\ e[r] = r

\* Who may ask for a tool to be granted: a press under the card of a call that
\* was matched, and the command made of it.
RunsAsked ==
    /\ \A w \in Workers : worker[w].action = "run" => ForRun(worker[w].rpc)
    /\ \A i \in 1 .. Len(commands) :
          commands[i].kind = "approval" /\ commands[i].action = "run"
          => ForRun(commands[i].rpc)

LEMMA RunsStep ==
    ASSUME TypeOK, InboxSound, TaskSound, LifeSound, Scoped, [Next]_vars, ~Gone,
           \A r : ForRun(r) => ForRun(r)'
    PROVE  RunsAsked'
  <1>1. /\ commands \in Seq(Command)
        /\ worker \in [Workers ->
                 [rpc : Rpcs \cup {None}, action : Actions \cup {"none"},
                  generation : Nat, viewed : Nat]]
        /\ \A r \in Rpcs : evidence[r] \in {None, r}
    BY DEF TypeOK, Scoped
  <1>2. RunsAsked
    BY DEF Scoped, RunsAsked
  <1>3. /\ \A i \in 1 .. Len(commands) : Old(commands, commands[i])
        /\ commands # <<>> => \A i \in 1 .. Len(Tail(commands)) :
                                 Old(commands, Tail(commands)[i])
        /\ \A c \in Command : \A i \in 1 .. Len(Append(commands, c)) :
              Append(commands, c)[i] = c \/ Old(commands, Append(commands, c)[i])
    BY <1>1, Moved
  <1>4. ASSUME \A w \in Workers : \/ worker'[w] \in {worker[w], Idle}
                                  \/ worker'[w].action = "run" => ForRun(worker'[w].rpc),
               \A i \in 1 .. Len(commands') :
                  \/ Old(commands, commands'[i])
                  \/ commands'[i].kind = "approval" /\ commands'[i].action = "run"
                     => ForRun(commands'[i].rpc)
        PROVE  RunsAsked'
    <2>1. Idle.action = "none"
      BY DEF Idle
    <2>2. \A w \in Workers : worker'[w].action = "run" => ForRun(worker'[w].rpc)
      BY <1>2, <1>4, <2>1 DEF RunsAsked
    <2>3. \A i \in 1 .. Len(commands') :
             commands'[i].kind = "approval" /\ commands'[i].action = "run"
             => ForRun(commands'[i].rpc)
      BY <1>2, <1>4 DEF RunsAsked, Old
    <2>4. \A r : ForRun(r) => RunOf(r, kind', evidence')
      BY DEF ForRun, RunOf
    <2>5. /\ \A w \in Workers :
                worker'[w].action = "run" => RunOf(worker'[w].rpc, kind', evidence')
          /\ \A i \in 1 .. Len(commands') :
                commands'[i].kind = "approval" /\ commands'[i].action = "run"
                => RunOf(commands'[i].rpc, kind', evidence')
      BY <2>2, <2>3, <2>4
    <2> QED
      BY <2>5 DEF RunsAsked, ForRun, RunOf
  <1>5. \A w \in Workers : worker'[w] = worker[w] => worker'[w] \in {worker[w], Idle}
    OBVIOUS
  <1>6. CASE CodexNext \/ UNCHANGED vars
    <2>1. UNCHANGED <<commands, worker>>
      BY <1>6, CodexFrame DEF vars, mailVars, coordVars
    <2> QED
      BY <1>3, <1>4, <2>1
  <1>7. CASE ActorNext
    <2>1. worker' = worker
      BY <1>7, ActorFrame DEF coordVars
    <2>2. CASE TakesApproval \/ TakesInterrupt \/ TakesSteer
      <3>1. commands # <<>> /\ commands' = Tail(commands)
        BY <2>2, Ending DEF TakesApproval, TakesInterrupt, TakesSteer, Takes, Has
      <3> QED
        BY <1>3, <1>4, <2>1, <3>1
    <2>3. CASE SteerBegins \/ SteerRefused \/ SteerEnds \/ ReplyWritten \/ WriteFails
               \/ ReplyRecorded \/ GrantReplies \/ HearsCall \/ Confirms
      <3>1. commands' = commands
        BY <2>3 DEF SteerBegins, SteerRefused, SteerEnds, ReplyWritten, WriteFails,
           ReplyRecorded, GrantReplies, HearsCall, Confirms, mailVars
      <3> QED
        BY <1>3, <1>4, <2>1, <3>1
    <2>4. CASE ReplyUnknown \/ LosesRuntime \/ Closes \/ HearsRequest \/ HearsUnknown
               \/ HearsResolved
      <3>1. commands' = commands
        BY <2>4, Ending DEF ReplyUnknown, LosesRuntime, Closes, HearsRequest, Learns,
           HearsUnknown, HearsResolved
      <3> QED
        BY <1>3, <1>4, <2>1, <3>1
    <2> QED
      BY <1>7, <2>2, <2>3, <2>4 DEF ActorNext
  <1>8. CASE DriveNext \/ Restarts
    <2>1. commands' = commands
      BY <1>8, DriveFrame
    <2>2. \A w \in Workers : worker'[w] \in {worker[w], Idle}
      <3>1. worker' = worker \/ worker' = [w \in Workers |-> Idle]
        BY <1>8 DEF DriveNext, DriveShows, DriveFails, DriveRemoves, DriveEnds,
           DriveCleans, DriveSettles, Restarts, coordVars
      <3> QED
        BY <3>1
    <2> QED
      BY <1>3, <1>4, <2>1, <2>2
  <1>9. CASE UserNext
    <2>1. ASSUME NEW r \in Rpcs, NEW k \in Pages(r), ReadsPage(r, k)
          PROVE  RunsAsked'
      <3>1. UNCHANGED <<commands, worker>>
        BY <2>1 DEF ReadsPage, mailVars
      <3> QED
        BY <1>3, <1>4, <3>1
    <2>2. ASSUME NEW w \in Workers, NEW r \in Rpcs, Presses(w, r)
          PROVE  RunsAsked'
      <3>1. PICK a \in Buttons(r) :
               worker' = [worker EXCEPT ![w] =
                            [rpc |-> r, action |-> a, generation |-> cards[r].generation,
                             viewed |-> cards[r].viewed]]
        BY <2>2 DEF Presses
      <3>2. commands' = commands
        BY <2>2 DEF Presses, mailVars
      <3>3. a = "run" => ForRun(r)
        <4>1. a = "run" => Grantable(r)
          BY DEF Buttons, Offer, Rejection
        <4> QED
          BY <1>1, <4>1 DEF Grantable, Eligible, ForRun
      <3>4. \A v \in Workers : v # w => worker'[v] = worker[v]
        BY <1>1, <3>1
      <3>5. worker'[w].rpc = r /\ worker'[w].action = a
        BY <1>1, <3>1
      <3> QED
        BY <1>3, <1>4, <3>2, <3>3, <3>4, <3>5
    <2>3. ASSUME NEW w \in Workers, GivesUp(w) \/ MailsDecision(w)
          PROVE  RunsAsked'
      <3>1. worker[w] # Idle /\ worker' = [worker EXCEPT ![w] = Idle]
        BY <2>3 DEF GivesUp, MailsDecision, Leaves
      <3>2. \A v \in Workers : worker'[v] \in {worker[v], Idle}
        BY <1>1, <3>1
      <3>3. CASE GivesUp(w)
        <4>1. commands' = commands
          BY <3>3 DEF GivesUp, mailVars
        <4> QED
          BY <1>3, <1>4, <3>2, <4>1
      <3>4. CASE MailsDecision(w)
        <4> DEFINE c == [kind |-> "approval", rpc |-> worker[w].rpc,
                         action |-> worker[w].action, generation |-> worker[w].generation]
        <4>1. commands' = Append(commands, c)
          BY <3>4 DEF MailsDecision, Mail
        <4>2. worker[w].rpc \in Rpcs /\ worker[w].action \in Actions
          BY <3>1 DEF LifeSound
        <4>3. c \in Command /\ c.rpc = worker[w].rpc /\ c.action = worker[w].action
          BY <1>1, <4>2 DEF Command
        <4>4. c.action = "run" => ForRun(c.rpc)
          BY <4>3 DEF Scoped
        <4> HIDE DEF c
        <4> QED
          BY <1>3, <1>4, <3>2, <4>1, <4>3, <4>4
      <3> QED
        BY <2>3, <3>3, <3>4
    <2>4. ASSUME MailsInterrupt \/ \E s \in Steers : MailsSteer(s)
          PROVE  RunsAsked'
      <3>1. PICK c \in Command : c.kind # "approval" /\ Mail(c)
        <4>1. /\ [kind |-> "interrupt"] \in Command /\ [kind |-> "interrupt"].kind = "interrupt"
              /\ \A s \in Steers : /\ [kind |-> "steer", steer |-> s] \in Command
                                   /\ [kind |-> "steer", steer |-> s].kind = "steer"
          BY DEF Command
        <4> QED
          BY <2>4, <4>1 DEF MailsInterrupt, MailsSteer
      <3>2. commands' = Append(commands, c)
        BY <3>1 DEF Mail
      <3>3. worker' = worker
        BY <2>4 DEF MailsInterrupt, MailsSteer, coordVars
      <3> QED
        BY <1>3, <1>4, <3>1, <3>2, <3>3
    <2>5. ASSUME EditsConfig
          PROVE  RunsAsked'
      <3>1. UNCHANGED <<commands, worker>>
        BY <2>5 DEF EditsConfig, mailVars, coordVars
      <3> QED
        BY <1>3, <1>4, <3>1
    <2> QED
      BY <1>9, <2>1, <2>2, <2>3, <2>4, <2>5 DEF UserNext
  <1> QED
    BY <1>6, <1>7, <1>8, <1>9 DEF Next

LEMMA ScopedStep ==
    ASSUME TypeOK, InboxSound, TaskSound, LifeSound, \A r \in Rpcs : RowSound(r),
           actor = "serving" => Scoped, [Next]_vars, actor' = "serving"
    PROVE  Scoped'
  <1>1. ~Gone /\ Scoped
    BY ActorOnly
  <1>2. /\ \A r \in Rpcs : evidence'[r] \in {None, r}
        /\ \A r : ForRun(r) => ForRun(r)'
    BY <1>1, OwnCall
  <1>3. CallThere' /\ Granted' /\ RunsAsked'
    BY <1>1, <1>2, CallStep, GrantsStep, RunsStep
  <1>4. task'.what = "run" => ForRun(task'.rpc)
    <2>1. task.what = "run" => ForRun(task.rpc)
      BY <1>1 DEF Scoped
    <2>2. \A i \in 1 .. Len(commands) :
             commands[i].kind = "approval" /\ commands[i].action = "run"
             => ForRun(commands[i].rpc)
      BY <1>1 DEF Scoped
    <2> QED
      BY <1>1, <2>1, <2>2, RunTask
  <1>5. task'.what = "run" => RunOf(task'.rpc, kind', evidence')
    BY <1>2, <1>4 DEF ForRun, RunOf
  <1> QED
    BY <1>2, <1>3, <1>5 DEF Scoped, CallThere, Granted, RunsAsked, ForRun, RunOf

-----------------------------------------------------------------------------
(***************************************************************************)
(* The theorems.                                                           *)
(***************************************************************************)

LEMMA InvInit ==
    ASSUME Init
    PROVE  DirectApprovalsInv
  <1>1. TypeOK
    <2>1. NoCard \in [generation : Nat, viewed : Nat, up : BOOLEAN]
      BY DEF NoCard
    <2>2. Idle \in [rpc : Rpcs \cup {None}, action : Actions \cup {"none"},
                    generation : Nat, viewed : Nat]
      BY DEF Idle
    <2>3. NoTask \in Task
      BY ATaskType
    <2>4. ChildTyped /\ StoreTyped /\ EventTyped /\ MailTyped
      <3>1. ChildTyped /\ StoreTyped
        BY DEF Init, ChildTyped, StoreTyped, Active, State
      <3>2. events = <<>> /\ commands = <<>> /\ mailed = 0
        BY DEF Init
      <3>3. Len(events) = 0 /\ events \in Seq(Event) /\ commands \in Seq(Command)
        BY <3>2
      <3> QED
        BY <3>1, <3>2, <3>3, LimitsType DEF EventTyped, MailTyped
    <2>5. ActorTyped
      BY <2>3 DEF Init, ActorTyped
    <2>6. CoordTyped
      BY <2>1, <2>2 DEF Init, CoordTyped
    <2>7. UserTyped
      BY DEF Init, UserTyped, Config
    <2>8. /\ asked \in [Rpcs -> {"no", "started", "waiting", "answered", "withdrawn"}]
          /\ kind \in [Rpcs -> Kind \cup {"none"}]
          /\ inbox \in Seq(Upstream)
      BY DEF Init
    <2> QED
      BY <2>4, <2>5, <2>6, <2>7, <2>8 DEF TypeOK, ChildTyped, StoreTyped, ActorTyped,
         MailTyped, EventTyped, CoordTyped, UserTyped
  <1>2. InboxSound
    BY DEF Init, InboxSound, QueueSound, In, Once, Before
  <1>3. \A r \in Rpcs : RowSound(r)
    BY DEF Init, RowSound
  <1>4. TaskSound
    BY DEF Init, TaskSound, NoTask
  <1>5. LifeSound
    BY DEF Init, LifeSound, InState, Open, Active
  <1>6. Informed
    BY DEF Init, Informed, NoCard, Idle
  <1>7. Scoped
    BY DEF Init, Scoped, Unheard, Idle, NoTask, NoGrants
  <1> QED
    BY <1>1, <1>2, <1>3, <1>4, <1>5, <1>6, <1>7 DEF DirectApprovalsInv

LEMMA InvStep ==
    ASSUME DirectApprovalsInv, [Next]_vars
    PROVE  DirectApprovalsInv'
  <1>1. /\ TypeOK /\ InboxSound /\ (\A r \in Rpcs : RowSound(r))
        /\ TaskSound /\ LifeSound
        /\ actor = "serving" => Informed
        /\ actor = "serving" => Scoped
    BY DEF DirectApprovalsInv
  <1>2. TypeOK' /\ InboxSound'
    BY <1>1, TypeStep, InboxStep
  <1>3. \A r \in Rpcs : RowMove(r)
    BY <1>1, RowMoves
  <1>4. ASSUME NEW r \in Rpcs
        PROVE  RowSound(r)'
    BY <1>1, <1>3, RowKept
  <1>5. TaskSound' /\ LifeSound'
    BY <1>1, TaskStep, LifeStep
  <1>6. actor' = "serving" => Informed' /\ Scoped'
    BY <1>1, InformedStep, ScopedStep
  <1> QED
    BY <1>2, <1>4, <1>5, <1>6 DEF DirectApprovalsInv

\* The inductive invariant: what the child has told of a request, its record,
\* what the actor is in the middle of, what the cards and the commands may
\* know of the generation, and what grants rest on, in every reachable state.
THEOREM DirectApprovalsInvariant == Spec => []DirectApprovalsInv
  <1>1. DirectApprovalsInv /\ [Next]_vars => DirectApprovalsInv'
    BY InvStep
  <1> QED
    BY <1>1, InvInit, PTL DEF Spec

\* DA-R06: over presses that are repeated, withdrawals, grants, the child's
\* death and restarts, no request of the App Server is answered twice.
THEOREM RepliedOnce == Spec => []AnsweredOnce
  <1>1. DirectApprovalsInv => AnsweredOnce
    BY DEF DirectApprovalsInv, RowSound, AnsweredOnce
  <1> QED
    BY <1>1, DirectApprovalsInvariant, PTL

\* What direct_interactions and requests say of a request never claims less
\* than was done: no reply is written that the record calls unanswered, and
\* the run waits exactly as long as an approval is open.
THEOREM RecordTrue == Spec => []RecordTellsTruth
  <1>1. DirectApprovalsInv => RecordTellsTruth
    BY DEF DirectApprovalsInv, RowSound, LifeSound, RecordTellsTruth
  <1> QED
    BY <1>1, DirectApprovalsInvariant, PTL

\* Only the actor moves a request to SENDING, to serve a command or a grant.
LEMMA WhoSends ==
    ASSUME TypeOK, InboxSound, TaskSound, [Next]_vars, NEW r \in Rpcs,
           interaction[r] # "SENDING", interaction'[r] = "SENDING"
    PROVE  TakesApproval \/ GrantReplies
  <1>1. interaction \in [Rpcs -> State]
    BY DEF TypeOK
  <1>2. interaction' # interaction
    OBVIOUS
  <1>3. interaction' # Closed
    BY DEF Closed
  <1>4. CASE CodexNext
    BY <1>2, <1>4, CodexFrame DEF storeVars
  <1>5. CASE UserNext
    BY <1>2, <1>5, UserFrame DEF storeVars
  <1>6. CASE DriveNext \/ Restarts
    BY <1>2, <1>3, <1>6, DriveFrame DEF Restarts
  <1>7. CASE UNCHANGED vars
    BY <1>2, <1>7 DEF vars, storeVars
  <1>8. CASE ActorNext
    <2>1. \A s, v : v # "SENDING" => interaction' # [interaction EXCEPT ![s] = v]
      BY <1>1
    <2>2. ~(ReplyRecorded \/ ReplyUnknown \/ HearsRequest \/ Closes)
      BY <1>3, <2>1 DEF ReplyRecorded, ReplyUnknown, HearsRequest, Closes, Mark
    <2>3. ~HearsResolved
      BY <1>2, <2>1 DEF HearsResolved, Mark
    <2>4. ~(TakesInterrupt \/ TakesSteer \/ SteerBegins \/ SteerRefused \/ SteerEnds)
      BY <1>2 DEF TakesInterrupt, TakesSteer, SteerBegins, SteerRefused, SteerEnds,
         storeVars
    <2>5. ~(ReplyWritten \/ WriteFails \/ HearsCall \/ HearsUnknown \/ LosesRuntime
              \/ Confirms)
      BY <1>2 DEF ReplyWritten, WriteFails, HearsCall, HearsUnknown, LosesRuntime,
         Confirms, storeVars
    <2> QED
      BY <1>8, <2>2, <2>3, <2>4, <2>5 DEF ActorNext
  <1> QED
    BY <1>4, <1>5, <1>6, <1>7, <1>8 DEF Next

\* DA-R10: when the actor records that it will send an accept for a press,
\* every page of the request's details had been shown since the last /steer.
THEOREM AcceptsInformed == Spec => AcceptInformed
  <1>1. ASSUME DirectApprovalsInv, [Next]_vars, NEW r \in Rpcs,
               interaction[r] # "SENDING", interaction'[r] = "SENDING",
               task'.what \in {"accept", "run"}
        PROVE  shown[r] = Pages(r)
    <2>1. /\ TypeOK /\ InboxSound /\ TaskSound /\ LifeSound
          /\ actor = "serving" => Informed
      BY <1>1 DEF DirectApprovalsInv
    <2>2. /\ interaction \in [Rpcs -> State] /\ commands \in Seq(Command)
          /\ task \in Task
      BY <2>1 DEF TypeOK
    <2>3. CASE GrantReplies
      <3>1. task.what = "grant" /\ task' = [task EXCEPT !.step = "write"]
        BY <2>1, <2>3 DEF GrantReplies, Intends, TaskSound
      <3>2. task'.what = "grant"
        BY <2>2, <3>1 DEF Task
      <3> QED
        BY <1>1, <3>2
    <2>4. CASE TakesApproval
      <3> DEFINE c == Head(commands)
                 t == [NoTask EXCEPT !.rpc = c.rpc, !.what = c.action, !.config = config]
      <3>1. /\ commands # <<>> /\ c.kind = "approval" /\ actor = "serving"
            /\ c.generation = generation
            /\ Mark(t.rpc, "SENDING") /\ task' = [t EXCEPT !.step = "write"]
        BY <1>1, <2>4 DEF TakesApproval, Takes, Serving, Has, Current, Intends
      <3>2. \A x, a, k : [NoTask EXCEPT !.rpc = x, !.what = a, !.config = k].rpc = x
        BY TaskForms, Zenon
      <3>3. t.rpc = c.rpc
        BY <3>2, Zenon
      <3>4. \A x, a, k : [[NoTask EXCEPT !.rpc = x, !.what = a, !.config = k]
                            EXCEPT !.step = "write"] = ATask("write", x, a, k, FALSE)
        BY TaskForms, Zenon
      <3>5. task' = ATask("write", c.rpc, c.action, config, FALSE)
        BY <3>1, <3>4, Zenon
      <3>6. c \in Command /\ c = commands[1] /\ 1 \in 1 .. Len(commands)
        BY <2>2, <3>1, TailOne
      <3> HIDE DEF t, c
      <3>7. task'.what = c.action
        BY <3>5 DEF ATask
      <3>8. r = c.rpc
        BY <1>1, <2>2, <3>1, <3>3 DEF Mark
      <3>9. Pages(r) \subseteq shown[r] /\ shown[r] \subseteq Pages(r)
        BY <1>1, <2>1, <3>1, <3>6, <3>7, <3>8 DEF Informed, Accepts
      <3> QED
        BY <3>9
    <2> QED
      BY <1>1, <2>1, <2>3, <2>4, WhoSends
  <1>2. DirectApprovalsInv /\ [Next]_vars =>
        [\A r \in Rpcs :
           /\ interaction[r] # "SENDING" /\ interaction'[r] = "SENDING"
           /\ task'.what \in {"accept", "run"}
           => shown[r] = Pages(r)]_vars
    BY <1>1
  <1> QED
    BY <1>2, DirectApprovalsInvariant, PTL DEF Spec, AcceptInformed

\* Only hearing a request begins the reply of a grant.
LEMMA WhoBegins ==
    ASSUME TypeOK, TaskSound, InboxSound, [Next]_vars,
           task'.step = "begin", task.step # "begin"
    PROVE  HearsRequest
  <1>1. task' # task /\ task' # NoTask /\ task \in Task
    BY DEF NoTask, TypeOK
  <1>2. ~Gone
    BY <1>1 DEF Gone, Dropped
  <1>3. \A s, a, b, k, o : task' = ATask(s, a, b, k, o) => s = "begin"
    BY DEF ATask
  <1>4. CASE CodexNext
    BY <1>1, <1>4, CodexFrame DEF actorVars
  <1>5. CASE UserNext
    BY <1>1, <1>5, UserFrame DEF actorVars
  <1>6. CASE DriveNext \/ Restarts
    BY <1>1, <1>2, <1>6, DriveFrame DEF actorVars
  <1>7. CASE UNCHANGED vars
    BY <1>1, <1>7 DEF vars, actorVars
  <1>8. CASE ActorNext
    <2>1. ASSUME TakesApproval
          PROVE  FALSE
      <3>1. task' = [[NoTask EXCEPT !.rpc = Head(commands).rpc,
                                    !.what = Head(commands).action, !.config = config]
                       EXCEPT !.step = "write"]
        BY <1>1, <2>1 DEF TakesApproval, Intends
      <3>2. \A x, a, k : [[NoTask EXCEPT !.rpc = x, !.what = a, !.config = k]
                            EXCEPT !.step = "write"] = ATask("write", x, a, k, FALSE)
        BY TaskForms, Zenon
      <3>3. task' = ATask("write", Head(commands).rpc, Head(commands).action, config, FALSE)
        BY <3>1, <3>2, Zenon
      <3> QED
        BY <3>3 DEF ATask
    <2>2. ASSUME TakesSteer
          PROVE  FALSE
      <3>1. task' = [NoTask EXCEPT !.step = "steer", !.rpc = Head(commands).steer]
        BY <1>2, <2>2, Ending DEF TakesSteer
      <3>2. \A s : [NoTask EXCEPT !.step = "steer", !.rpc = s] =
                      ATask("steer", s, "none", 0, FALSE)
        BY TaskForms, Zenon
      <3>3. task' = ATask("steer", Head(commands).steer, "none", 0, FALSE)
        BY <3>1, <3>2, Zenon
      <3> QED
        BY <1>3, <3>3
    <2>3. ~(SteerBegins \/ WriteFails \/ GrantReplies)
      <3>1. ASSUME NEW s, s # "begin", task' = [task EXCEPT !.step = s]
            PROVE  FALSE
        BY <1>1, <3>1 DEF Task
      <3> QED
        BY <3>1 DEF SteerBegins, WriteFails, GrantReplies, Intends
    <2>4. ASSUME ReplyWritten
          PROVE  FALSE
      <3>1. task' = [task EXCEPT !.step = "record", !.ok = TRUE]
        BY <2>4 DEF ReplyWritten
      <3>2. \A t \in Task : \A s, k : [t EXCEPT !.step = s, !.ok = k] =
                                         ATask(s, t.rpc, t.what, t.config, k)
        BY TaskForms, Zenon
      <3>3. task' = ATask("record", task.rpc, task.what, task.config, TRUE)
        BY <1>1, <3>1, <3>2, Zenon
      <3> QED
        BY <3>3 DEF ATask
    <2>5. ~(TakesInterrupt \/ SteerRefused \/ SteerEnds \/ ReplyRecorded
              \/ ReplyUnknown \/ HearsCall)
      BY <1>1, <1>2, Ending DEF TakesInterrupt, SteerRefused, SteerEnds, ReplyRecorded,
         ReplyUnknown, HearsCall
    <2>6. ~(HearsUnknown \/ HearsResolved \/ LosesRuntime \/ Confirms \/ Closes)
      BY <1>1, <1>2, Ending DEF HearsUnknown, HearsResolved, LosesRuntime, Confirms,
         Closes, actorVars
    <2> QED
      BY <1>8, <2>1, <2>2, <2>3, <2>4, <2>5, <2>6 DEF ActorNext
  <1> QED
    BY <1>4, <1>5, <1>6, <1>7, <1>8 DEF Next

\* DA-R24: a request is accepted without asking only if the user allowed the
\* very tool that asks, for this run and under the configuration in force,
\* and took back nothing since.
THEOREM GrantsInScope == Spec => GrantInScope
  <1>1. ASSUME DirectApprovalsInv, [Next]_vars, NEW r \in Rpcs,
               task'.step = "begin", task'.rpc = r, task.step # "begin"
        PROVE  <<kind[r], config>> \in mandate
    <2>1. /\ TypeOK /\ InboxSound /\ TaskSound
          /\ actor = "serving" => Scoped
      BY <1>1 DEF DirectApprovalsInv
    <2>2. HearsRequest
      BY <1>1, <2>1, WhoBegins
    <2>3. /\ actor = "serving" /\ Scoped /\ Has(inbox, "request")
          /\ grants \in [Tools -> Config \cup {None}]
      BY <2>1, <2>2 DEF HearsRequest, Serving, TypeOK
    <2>4. PICK s \in Rpcs : s = Head(inbox).rpc
      BY <2>1, <2>2, RequestHeard DEF HearsRequest
    <2>5. NoTask.step = "none" /\ task.step = "none"
      BY <2>2 DEF HearsRequest, Serving, NoTask
    <2>6. task' # NoTask /\ task' # task
      BY <1>1, <2>5
    <2>7. /\ Eligible(s, Match(s)) /\ Standing[kind[Match(s)]] # None
          /\ task' = [NoTask EXCEPT !.step = "begin", !.rpc = s, !.what = "grant"]
      BY <2>2, <2>4, <2>6, Ending DEF HearsRequest, Gone, Dropped
    <2>8. \A x, a : [NoTask EXCEPT !.step = "begin", !.rpc = x, !.what = a] =
                       ATask("begin", x, a, 0, FALSE)
      BY TaskForms, Zenon
    <2>9. task' = ATask("begin", s, "grant", 0, FALSE)
      BY <2>7, <2>8, Zenon
    <2>10. r = s
      BY <1>1, <2>9 DEF ATask
    <2>11. Match(s) = s /\ kind[s] \in Tools
      BY <2>1, <2>3, <2>4, <2>7, MatchOwn DEF Eligible
    <2>12. /\ Standing = grants /\ grants[kind[s]] # None
           /\ grants[kind[s]] \in {None, config}
      BY <2>7, <2>11 DEF Standing, NoGrants
    <2>13. <<kind[s], grants[kind[s]]>> \in mandate
      BY <2>3, <2>11, <2>12 DEF Scoped
    <2> QED
      BY <2>10, <2>12, <2>13
  <1>2. DirectApprovalsInv /\ [Next]_vars =>
        [\A r \in Rpcs :
           task'.step = "begin" /\ task'.rpc = r /\ task.step # "begin"
           => <<kind[r], config>> \in mandate]_vars
    BY <1>1
  <1> QED
    BY <1>2, DirectApprovalsInvariant, PTL DEF Spec, GrantInScope

=============================================================================
