-------------------------- MODULE InputFilesProofs --------------------------
(***************************************************************************)
(* Proofs about InputFiles, for any messages, limits and numbers of        *)
(* attachments: what Codex is given is what was admitted, no message       *)
(* sleeps through the release of a budget it fits in, and the counter of   *)
(* the budget is what the live leases took.  The sum over the leases is a  *)
(* fold, so it is counted instead: a set of leases takes as many bytes as  *)
(* there are pairs of a lease and one of its bytes (TakenIsBytes).         *)
(***************************************************************************)
EXTENDS InputFiles, FiniteSetTheorems, WellFoundedInduction, TLAPS

USE DEF Goes, Becomes, GivesBack, outside

-----------------------------------------------------------------------------
\* Types.

LEMMA InputTypeInit == Init => InputTypeOK
  <1> SUFFICES ASSUME Init
               PROVE  InputTypeOK
    OBVIOUS
  <1>1. Nothing \in Seen
    BY DEF Nothing, Seen
  <1>2. \A m \in Messages : files[m] \in [FileParts(m) -> Nat]
    BY InputAssumption DEF Init, Absent
  <1>3. \A m \in Messages : post[m].meta \in Nat /\ post[m].bytes \in [Parts(m) -> Nat]
    BY DEF Init
  <1> QED
    BY <1>1, <1>2, <1>3 DEF Init, InputTypeOK, Stage, JobStep, NotSent

\* A preparation that begins, and one that ends.
LEMMA BeginsType ==
    ASSUME InputTypeOK, NEW m \in Messages, Begins(m)
    PROVE  /\ job' \in [Messages -> JobStep]
           /\ had' \in [Messages -> Seen]
  <1>1. [meta |-> post[m].meta, read |-> <<>>, placed |-> {}] \in Seen
    BY DEF InputTypeOK, Seen
  <1>2. had' \in [Messages -> Seen]
    BY <1>1 DEF InputTypeOK, Begins
  <1>3. job' \in [Messages -> JobStep]
    BY DEF InputTypeOK, Begins, JobStep
  <1> QED
    BY <1>2, <1>3

LEMMA PrepareType ==
    ASSUME InputTypeOK, NEW m \in Messages,
           \/ Admit(m) \/ StartQueued(m) \/ TakeSlot(m) \/ Arm(m) \/ Reserve(m)
           \/ Sleeps(m) \/ Wakes(m) \/ ReadAttachment(m) \/ Prepared(m)
           \/ PrepareFails(m) \/ Notify(m)
    PROVE  InputTypeOK'
  <1>1. CASE Admit(m)
    BY <1>1, BeginsType DEF Admit, InputTypeOK, Stage
  <1>2. CASE StartQueued(m)
    BY <1>2, BeginsType DEF StartQueued, InputTypeOK, Stage
  <1>3. CASE TakeSlot(m) \/ Arm(m) \/ Sleeps(m) \/ Wakes(m) \/ Prepared(m)
    BY <1>3 DEF TakeSlot, Arm, Sleeps, Wakes, Prepared, InputTypeOK, JobStep
  <1>4. CASE Reserve(m)
    <2>1. used' \in Int /\ woken' \subseteq Messages
      BY <1>4, InputAssumption DEF Reserve, InputTypeOK
    <2>2. job' \in [Messages -> JobStep]
      BY <1>4 DEF Reserve, InputTypeOK, JobStep
    <2> QED
      BY <1>4, <2>1, <2>2 DEF Reserve, InputTypeOK
  <1>5. CASE ReadAttachment(m)
    <2>1. had[m] \in Seen /\ had[m].read \in Seq(Nat)
      BY DEF InputTypeOK, Seen
    <2>2. Len(had[m].read) + 1 \in Parts(m)
      <3>1. Len(had[m].read) \in Nat /\ Len(Kinds[m]) \in Nat
        BY <2>1, InputAssumption
      <3>2. Len(had[m].read) < Len(Kinds[m])
        BY <1>5 DEF ReadAttachment
      <3> QED
        BY <3>1, <3>2 DEF Parts
    <2>3. post[m].bytes[Len(had[m].read) + 1] \in Nat
      BY <2>2 DEF InputTypeOK
    <2>4. Append(had[m].read, post[m].bytes[Len(had[m].read) + 1]) \in Seq(Nat)
      BY <2>1, <2>3
    <2>5. had' \in [Messages -> Seen]
      BY <1>5, <2>1, <2>4 DEF ReadAttachment, InputTypeOK, Seen
    <2> QED
      BY <1>5, <2>5 DEF ReadAttachment, InputTypeOK
  <1>6. CASE PrepareFails(m)
    <2>1. used' \in Int
      BY <1>6, InputAssumption DEF PrepareFails, InputTypeOK
    <2>2. job' \in [Messages -> JobStep]
      BY <1>6 DEF PrepareFails, InputTypeOK, JobStep
    <2> QED
      BY <1>6, <2>1, <2>2 DEF PrepareFails, InputTypeOK
  <1>7. CASE Notify(m)
    <2>1. had' \in [Messages -> Seen]
      BY <1>7 DEF Notify, InputTypeOK, Seen, Nothing
    <2>2. job' \in [Messages -> JobStep] /\ stage' \in [Messages -> Stage]
      BY <1>7 DEF Notify, InputTypeOK, JobStep, Stage
    <2> QED
      BY <1>7, <2>1, <2>2 DEF Notify, InputTypeOK, Listening
  <1> QED
    BY <1>1, <1>2, <1>3, <1>4, <1>5, <1>6, <1>7

\* A preparation is over once every attachment was read.
ReadWhole ==
    \A m \in Messages :
        job[m] \in {"prepared", "writing"} => Len(had[m].read) = Len(Kinds[m])

LEMMA SendType ==
    ASSUME InputTypeOK, ReadWhole, NEW m \in Messages,
           \/ ValidationExpires(m) \/ Finalize(m) \/ SendFails(m) \/ WriteUpload(m)
           \/ PublishUpload(m) \/ StartTurn(m) \/ StartReturns(m) \/ TurnEnds(m)
    PROVE  InputTypeOK'
  <1>0. used - Input[m] \in Int
    BY InputAssumption DEF InputTypeOK
  <1>1. CASE ValidationExpires(m) \/ TurnEnds(m)
    BY <1>1 DEF ValidationExpires, TurnEnds, InputTypeOK, Stage
  <1>2. CASE Finalize(m)
    <2>1. job' \in [Messages -> JobStep] /\ stage' \in [Messages -> Stage]
      BY <1>2 DEF Finalize, InputTypeOK, JobStep, Stage
    <2>2. accepted' \in [Messages -> Seen]
      BY <1>2 DEF Finalize, InputTypeOK
    <2> QED
      BY <1>0, <1>2, <2>1, <2>2 DEF Finalize, InputTypeOK
  <1>3. CASE SendFails(m)
    <2>1. job' \in [Messages -> JobStep] /\ stage' \in [Messages -> Stage]
      BY <1>3 DEF SendFails, InputTypeOK, JobStep, Stage
    <2> QED
      BY <1>0, <1>3, <2>1 DEF SendFails, InputTypeOK
  <1>4. CASE WriteUpload(m)
    BY <1>4 DEF WriteUpload, InputTypeOK, JobStep
  <1>5. CASE PublishUpload(m)
    <2>1. job' \in [Messages -> JobStep] /\ stage' \in [Messages -> Stage]
      BY <1>5 DEF PublishUpload, InputTypeOK, JobStep, Stage
    <2>2. used' \in Int
      BY <1>0, <1>5 DEF PublishUpload, InputTypeOK
    <2>3. PICK i \in FileParts(m) \ had[m].placed :
             /\ files' = [files EXCEPT ![m][i] = had[m].read[i]]
             /\ had' = [had EXCEPT ![m].placed = @ \cup {i}]
      BY <1>5 DEF PublishUpload
    <2>4. i \in Nat /\ i \in 1 .. Len(had[m].read)
      BY <1>5, <2>3, InputAssumption DEF FileParts, Parts, PublishUpload, ReadWhole
    <2>5. had[m].read \in Seq(Nat) /\ had[m].read[i] \in Nat
      BY <2>4 DEF InputTypeOK, Seen
    <2>6. had' \in [Messages -> Seen]
      <3>1. had[m] \in Seen /\ had[m].placed \cup {i} \in SUBSET Nat
        BY <2>4 DEF InputTypeOK, Seen
      <3>2. [had[m] EXCEPT !.placed = @ \cup {i}] \in Seen
        BY <3>1 DEF Seen
      <3> QED
        BY <2>3, <3>2 DEF InputTypeOK
    <2>7. DOMAIN files' = Messages /\ \A n \in Messages : files'[n] \in [FileParts(n) -> Nat]
      BY <2>3, <2>5 DEF InputTypeOK
    <2> QED
      BY <1>5, <2>1, <2>2, <2>6, <2>7 DEF PublishUpload, InputTypeOK
  <1>6. CASE StartTurn(m)
    <2>1. job' \in [Messages -> JobStep] /\ stage' \in [Messages -> Stage]
      BY <1>6 DEF StartTurn, InputTypeOK, JobStep, Stage
    <2>2. DOMAIN sent' = Messages /\ \A n \in Messages : sent'[n].times \in Nat
      BY <1>6 DEF StartTurn, InputTypeOK
    <2> QED
      BY <1>6, <2>1, <2>2 DEF StartTurn, InputTypeOK
  <1>7. CASE StartReturns(m)
    BY <1>0, <1>7 DEF StartReturns, InputTypeOK, JobStep
  <1> QED
    BY <1>1, <1>2, <1>3, <1>4, <1>5, <1>6, <1>7

LEMMA WorldType ==
    ASSUME InputTypeOK, (\E m \in Messages : Edited(m) \/ CodexWrites(m)) \/ Restart
    PROVE  InputTypeOK'
  <1>1. ASSUME NEW m \in Messages, Edited(m)
        PROVE  InputTypeOK'
    <2>1. DOMAIN post' = Messages
      BY <1>1 DEF Edited, InputTypeOK
    <2>2. ASSUME NEW n \in Messages
          PROVE  post'[n].meta \in Nat /\ post'[n].bytes \in [Parts(n) -> Nat]
      <3>1. CASE post' = [post EXCEPT ![m].meta = @ + 1]
        BY <2>2, <3>1 DEF InputTypeOK
      <3>2. ASSUME NEW i \in Parts(m), post' = [post EXCEPT ![m].bytes[i] = @ + 1]
            PROVE  post'[n].meta \in Nat /\ post'[n].bytes \in [Parts(n) -> Nat]
        <4>1. post[m].bytes \in [Parts(m) -> Nat] /\ post[m].bytes[i] + 1 \in Nat
          BY <3>2 DEF InputTypeOK
        <4>2. [post[m].bytes EXCEPT ![i] = @ + 1] \in [Parts(m) -> Nat]
          BY <3>2, <4>1
        <4> QED
          BY <2>2, <3>2, <4>2 DEF InputTypeOK
      <3> QED
        BY <1>1, <3>1, <3>2 DEF Edited
    <2> QED
      BY <1>1, <2>1, <2>2 DEF Edited, InputTypeOK
  <1>2. ASSUME NEW m \in Messages, CodexWrites(m)
        PROVE  InputTypeOK'
    <2>1. Foreign \in Nat
      BY InputAssumption DEF Foreign
    <2> QED
      BY <1>2, <2>1 DEF CodexWrites, InputTypeOK
  <1>3. CASE Restart
    <2>1. had' \in [Messages -> Seen]
      BY <1>3 DEF Restart, Nothing, Seen
    <2>2. stage' \in [Messages -> Stage]
      BY <1>3 DEF Restart, InputTypeOK, Stage
    <2> QED
      BY <1>3, <2>1, <2>2 DEF Restart, InputTypeOK, JobStep
  <1> QED
    BY <1>1, <1>2, <1>3

LEMMA InputTypeStep ==
    ASSUME InputTypeOK, ReadWhole, [Next]_vars
    PROVE  InputTypeOK'
  <1>1. CASE Next
    BY <1>1, PrepareType, SendType, WorldType DEF Next
  <1>2. CASE UNCHANGED vars
    BY <1>2 DEF vars, InputTypeOK
  <1> QED
    BY <1>1, <1>2

-----------------------------------------------------------------------------
\* The invariant.

\* One message of a conversation is under way to Codex, or with it.
Exclusive ==
    \A m, n \in Messages :
        /\ m # n /\ ThreadOf[m] = ThreadOf[n]
        /\ stage[m] \in {"sending", "running"}
        => stage[n] \notin {"sending", "running"}

\* A file that was placed for a message that is still to be sent holds what
\* the second reading found.
PlacedHolds ==
    \A m \in Messages : stage[m] = "sending" =>
        \A i \in had[m].placed :
            /\ i \in FileParts(m) /\ i \in 1 .. Len(had[m].read)
            /\ files[m][i] = had[m].read[i]

\* What was sent is not sent again.
SentOver ==
    \A m \in Messages : sent[m].times = 1 => stage[m] \in {"running", "over"}

InputInv ==
    InputTypeOK /\ ReadWhole /\ Exclusive /\ PlacedHolds /\ SentOver /\ SentAsAdmitted

LEMMA InputInvInit == Init => InputInv
  <1> SUFFICES ASSUME Init
               PROVE  InputInv
    OBVIOUS
  <1>1. InputTypeOK
    BY InputTypeInit
  <1> QED
    BY <1>1 DEF Init, InputInv, ReadWhole, Exclusive, PlacedHolds, SentOver,
               SentAsAdmitted, NotSent, Nothing

LEMMA ReadWholeStep ==
    ASSUME InputInv, Next
    PROVE  ReadWhole'
  <1> USE DEF InputInv
  <1>1. ASSUME NEW m \in Messages,
               \/ Admit(m) \/ StartQueued(m) \/ TakeSlot(m) \/ Arm(m) \/ Reserve(m)
               \/ Sleeps(m) \/ Wakes(m) \/ Prepared(m) \/ PrepareFails(m)
        PROVE  ReadWhole'
    BY <1>1 DEF Admit, StartQueued, Begins, TakeSlot, Arm, Reserve, Sleeps, Wakes,
               Prepared, PrepareFails, ReadWhole, InputTypeOK
  <1>2. ASSUME NEW m \in Messages, ReadAttachment(m)
        PROVE  ReadWhole'
    BY <1>2 DEF ReadAttachment, ReadWhole, InputTypeOK
  <1>3. ASSUME NEW m \in Messages,
               \/ Notify(m) \/ ValidationExpires(m) \/ Finalize(m) \/ SendFails(m)
               \/ WriteUpload(m) \/ StartTurn(m) \/ StartReturns(m) \/ TurnEnds(m)
        PROVE  ReadWhole'
    BY <1>3 DEF Notify, ValidationExpires, Finalize, SendFails, WriteUpload, StartTurn,
               StartReturns, TurnEnds, ReadWhole, InputTypeOK
  <1>4. ASSUME NEW m \in Messages, PublishUpload(m)
        PROVE  ReadWhole'
    <2>1. PICK i \in FileParts(m) \ had[m].placed :
             had' = [had EXCEPT ![m].placed = @ \cup {i}]
      BY <1>4 DEF PublishUpload
    <2>2. \A n \in Messages : had'[n].read = had[n].read
      BY <2>1 DEF InputTypeOK, Seen
    <2>3. job[m] = "writing" /\ \A n \in Messages \ {m} : job'[n] = job[n]
      BY <1>4 DEF PublishUpload, InputTypeOK
    <2> QED
      BY <2>2, <2>3 DEF ReadWhole
  <1>5. ASSUME NEW m \in Messages, Edited(m) \/ CodexWrites(m)
        PROVE  ReadWhole'
    BY <1>5 DEF Edited, CodexWrites, ReadWhole
  <1>6. CASE Restart
    BY <1>6 DEF Restart, ReadWhole
  <1> QED
    BY <1>1, <1>2, <1>3, <1>4, <1>5, <1>6 DEF Next

LEMMA ExclusiveStep ==
    ASSUME InputInv, Next
    PROVE  Exclusive'
  <1> USE DEF InputInv
  <1>1. ASSUME NEW m \in Messages, StartQueued(m)
        PROVE  Exclusive'
    BY <1>1 DEF StartQueued, Exclusive, InputTypeOK
  <1>2. ASSUME NEW m \in Messages,
               \/ Admit(m) \/ Notify(m) \/ ValidationExpires(m) \/ Finalize(m)
               \/ SendFails(m) \/ PublishUpload(m) \/ StartTurn(m) \/ TurnEnds(m)
        PROVE  Exclusive'
    BY <1>2 DEF Admit, Notify, ValidationExpires, Finalize, SendFails, PublishUpload,
               StartTurn, TurnEnds, Confirmed, Exclusive, InputTypeOK
  <1>3. ASSUME NEW m \in Messages,
               \/ TakeSlot(m) \/ Arm(m) \/ Reserve(m) \/ Sleeps(m) \/ Wakes(m)
               \/ ReadAttachment(m) \/ Prepared(m) \/ PrepareFails(m) \/ WriteUpload(m)
               \/ StartReturns(m) \/ Edited(m) \/ CodexWrites(m)
        PROVE  Exclusive'
    BY <1>3 DEF TakeSlot, Arm, Reserve, Sleeps, Wakes, ReadAttachment, Prepared,
               PrepareFails, WriteUpload, StartReturns, Edited, CodexWrites, Exclusive
  <1>4. CASE Restart
    BY <1>4 DEF Restart, Exclusive
  <1> QED
    BY <1>1, <1>2, <1>3, <1>4 DEF Next

\* The steps that leave the workspace and the reading of every message alone,
\* and let no message be sent that was not.
LEMMA PlacedStays ==
    ASSUME InputInv, UNCHANGED <<had, files>>,
           \A m \in Messages : stage'[m] = "sending" => stage[m] = "sending"
    PROVE  PlacedHolds'
  BY DEF InputInv, PlacedHolds

LEMMA PlacedHoldsStep ==
    ASSUME InputInv, Next
    PROVE  PlacedHolds'
  <1> USE DEF InputInv
  <1>1. ASSUME NEW m \in Messages, Admit(m) \/ StartQueued(m) \/ Notify(m)
        PROVE  PlacedHolds'
    BY <1>1 DEF Admit, StartQueued, Begins, Notify, Nothing, PlacedHolds, InputTypeOK
  <1>2. ASSUME NEW m \in Messages,
               \/ TakeSlot(m) \/ Arm(m) \/ Reserve(m) \/ Sleeps(m) \/ Wakes(m)
               \/ Prepared(m) \/ PrepareFails(m) \/ WriteUpload(m) \/ StartReturns(m)
               \/ Edited(m)
        PROVE  PlacedHolds'
    <2>1. UNCHANGED <<stage, had, files>>
      BY <1>2 DEF TakeSlot, Arm, Reserve, Sleeps, Wakes, Prepared, PrepareFails,
                  WriteUpload, StartReturns, Edited
    <2> QED
      BY <2>1, PlacedStays
  <1>3. ASSUME NEW m \in Messages,
               \/ ValidationExpires(m) \/ Finalize(m) \/ SendFails(m)
               \/ StartTurn(m) \/ TurnEnds(m)
        PROVE  PlacedHolds'
    <2>1. UNCHANGED <<had, files>>
      BY <1>3 DEF ValidationExpires, Finalize, SendFails, StartTurn, TurnEnds
    <2>2. \A n \in Messages : stage'[n] = "sending" => stage[n] = "sending"
      BY <1>3 DEF ValidationExpires, Finalize, SendFails, StartTurn, TurnEnds, InputTypeOK
    <2> QED
      BY <2>1, <2>2, PlacedStays
  <1>4. ASSUME NEW m \in Messages, ReadAttachment(m)
        PROVE  PlacedHolds'
    <2>1. UNCHANGED <<stage, files>> /\ had \in [Messages -> Seen]
      BY <1>4 DEF ReadAttachment, InputTypeOK
    <2>2. PICK v : had' = [had EXCEPT ![m].read = Append(@, v)]
      BY <1>4 DEF ReadAttachment
    <2>3. \A n \in Messages : had'[n].placed = had[n].placed
      BY <2>1, <2>2 DEF Seen
    <2>4. \A n \in Messages : \A i \in 1 .. Len(had[n].read) :
             i \in 1 .. Len(had'[n].read) /\ had'[n].read[i] = had[n].read[i]
      <3>1. had'[m].read = Append(had[m].read, v)
        BY <2>1, <2>2 DEF Seen
      <3>2. \A n \in Messages \ {m} : had'[n] = had[n]
        BY <2>1, <2>2
      <3>3. had[m].read \in Seq(Nat)
        BY <2>1 DEF Seen
      <3>4. \A i \in 1 .. Len(had[m].read) :
               /\ i \in 1 .. Len(Append(had[m].read, v))
               /\ Append(had[m].read, v)[i] = had[m].read[i]
        BY <3>3
      <3> QED
        BY <3>1, <3>2, <3>4
    <2> QED
      BY <2>1, <2>3, <2>4 DEF PlacedHolds
  <1>5. ASSUME NEW m \in Messages, PublishUpload(m)
        PROVE  PlacedHolds'
    <2>1. PICK i \in FileParts(m) \ had[m].placed :
             /\ files' = [files EXCEPT ![m][i] = had[m].read[i]]
             /\ had' = [had EXCEPT ![m].placed = @ \cup {i}]
      BY <1>5 DEF PublishUpload
    <2>2. i \in 1 .. Len(had[m].read)
      BY <1>5, <2>1, InputAssumption DEF FileParts, Parts, PublishUpload, ReadWhole
    <2>3. \A n \in Messages : stage'[n] = "sending" => stage[n] = "sending"
      BY <1>5 DEF PublishUpload, InputTypeOK
    <2>4. /\ had'[m].placed = had[m].placed \cup {i}
          /\ had'[m].read = had[m].read
          /\ \A n \in Messages \ {m} : had'[n] = had[n] /\ files'[n] = files[n]
      BY <2>1 DEF InputTypeOK, Seen
    <2>5. /\ files'[m][i] = had[m].read[i]
          /\ \A j \in FileParts(m) \ {i} : files'[m][j] = files[m][j]
      BY <2>1 DEF InputTypeOK
    <2> QED
      BY <2>1, <2>2, <2>3, <2>4, <2>5 DEF PlacedHolds
  <1>6. ASSUME NEW m \in Messages, CodexWrites(m)
        PROVE  PlacedHolds'
    <2>1. stage[m] # "sending"
      BY <1>6 DEF CodexWrites, Exclusive
    <2>2. UNCHANGED <<stage, had>> /\ \A n \in Messages \ {m} : files'[n] = files[n]
      BY <1>6 DEF CodexWrites, InputTypeOK
    <2> QED
      BY <2>1, <2>2 DEF PlacedHolds
  <1>7. CASE Restart
    BY <1>7 DEF Restart, PlacedHolds
  <1> QED
    BY <1>1, <1>2, <1>3, <1>4, <1>5, <1>6, <1>7 DEF Next

LEMMA SentOverStep ==
    ASSUME InputInv, Next
    PROVE  SentOver'
  <1> USE DEF InputInv
  <1>1. ASSUME NEW m \in Messages, StartTurn(m)
        PROVE  SentOver'
    BY <1>1 DEF StartTurn, SentOver, InputTypeOK
  <1>2. ASSUME NEW m \in Messages,
               \/ Admit(m) \/ StartQueued(m) \/ Notify(m) \/ ValidationExpires(m)
               \/ Finalize(m) \/ SendFails(m) \/ PublishUpload(m) \/ TurnEnds(m)
        PROVE  SentOver'
    BY <1>2 DEF Admit, StartQueued, Notify, ValidationExpires, Finalize, SendFails,
               PublishUpload, TurnEnds, SentOver, InputTypeOK
  <1>3. ASSUME NEW m \in Messages,
               \/ TakeSlot(m) \/ Arm(m) \/ Reserve(m) \/ Sleeps(m) \/ Wakes(m)
               \/ ReadAttachment(m) \/ Prepared(m) \/ PrepareFails(m) \/ WriteUpload(m)
               \/ StartReturns(m) \/ Edited(m) \/ CodexWrites(m)
        PROVE  SentOver'
    BY <1>3 DEF TakeSlot, Arm, Reserve, Sleeps, Wakes, ReadAttachment, Prepared,
               PrepareFails, WriteUpload, StartReturns, Edited, CodexWrites, SentOver
  <1>4. CASE Restart
    BY <1>4 DEF Restart, SentOver
  <1> QED
    BY <1>1, <1>2, <1>3, <1>4 DEF Next

\* The message whose turn is requested has all its files in place, and its
\* second reading is what was admitted.
LEMMA SentStep ==
    ASSUME InputInv, Next
    PROVE  SentAsAdmitted'
  <1> USE DEF InputInv
  <1>1. ASSUME NEW m \in Messages, StartTurn(m)
        PROVE  SentAsAdmitted'
    <2>1. sent[m].times = 0
      <3>1. sent[m].times \in Nat /\ sent[m].times <= 1
        BY DEF SentAsAdmitted, InputTypeOK
      <3>2. sent[m].times # 1
        BY <1>1 DEF StartTurn, Confirmed, SentOver
      <3> QED
        BY <3>1, <3>2
    <2>2. /\ sent' = [sent EXCEPT ![m] = [times |-> 1, input |-> AppServerInput(m),
                                          files |-> files[m]]]
          /\ UNCHANGED accepted
      BY <1>1, <2>1 DEF StartTurn
    <2>3. had[m].meta = accepted[m].meta /\ had[m].read = accepted[m].read
      BY <1>1 DEF StartTurn, Confirmed, Digest
    <2>4. AppServerInput(m)[0].holds = had[m].meta
      BY InputAssumption DEF AppServerInput
    <2>5. \A i \in Parts(m) \ FileParts(m) : AppServerInput(m)[i].holds = had[m].read[i]
      BY InputAssumption DEF AppServerInput, Parts
    <2>6. \A i \in FileParts(m) : files[m][i] = had[m].read[i]
      BY <1>1 DEF StartTurn, Confirmed, PlacedHolds
    <2>7. sent'[m] = [times |-> 1, input |-> AppServerInput(m), files |-> files[m]]
      BY <2>2 DEF InputTypeOK
    <2>8. \A n \in Messages \ {m} : sent'[n] = sent[n]
      BY <2>2 DEF InputTypeOK
    <2> QED
      BY <2>2, <2>3, <2>4, <2>5, <2>6, <2>7, <2>8 DEF SentAsAdmitted
  <1>2. ASSUME NEW m \in Messages, Finalize(m)
        PROVE  SentAsAdmitted'
    <2>1. UNCHANGED sent /\ \A n \in Messages \ {m} : accepted'[n] = accepted[n]
      BY <1>2 DEF Finalize, InputTypeOK
    <2>2. accepted' = accepted \/ sent[m].times # 1
      BY <1>2 DEF Finalize, SentOver
    <2> QED
      BY <2>1, <2>2 DEF SentAsAdmitted
  <1>3. ASSUME UNCHANGED <<sent, accepted>>
        PROVE  SentAsAdmitted'
    BY <1>3 DEF SentAsAdmitted
  <1>4. ASSUME NEW m \in Messages,
               \/ Admit(m) \/ StartQueued(m) \/ TakeSlot(m) \/ Arm(m) \/ Reserve(m)
               \/ Sleeps(m) \/ Wakes(m) \/ ReadAttachment(m) \/ Prepared(m)
               \/ PrepareFails(m) \/ Notify(m) \/ ValidationExpires(m) \/ SendFails(m)
               \/ WriteUpload(m) \/ PublishUpload(m) \/ StartReturns(m) \/ TurnEnds(m)
               \/ Edited(m) \/ CodexWrites(m)
        PROVE  UNCHANGED <<sent, accepted>>
    BY <1>4 DEF Admit, StartQueued, TakeSlot, Arm, Reserve, Sleeps, Wakes,
               ReadAttachment, Prepared, PrepareFails, Notify, ValidationExpires,
               SendFails, WriteUpload, PublishUpload, StartReturns, TurnEnds, Edited,
               CodexWrites
  <1>5. CASE Restart
    BY <1>3, <1>5 DEF Restart
  <1> QED
    BY <1>1, <1>2, <1>3, <1>4, <1>5 DEF Next

LEMMA InputInvStep ==
    ASSUME InputInv, [Next]_vars
    PROVE  InputInv'
  <1>1. CASE Next
    BY <1>1, InputTypeStep, ReadWholeStep, ExclusiveStep, PlacedHoldsStep, SentOverStep,
       SentStep DEF InputInv
  <1>2. CASE UNCHANGED vars
    <2>1. InputTypeOK'
      BY <1>2, InputTypeStep DEF InputInv
    <2>2. UNCHANGED <<stage, job, had, accepted, files, sent>>
      BY <1>2 DEF vars
    <2> QED
      BY <2>1, <2>2 DEF InputInv, ReadWhole, Exclusive, PlacedHolds, SentOver, SentAsAdmitted
  <1> QED
    BY <1>1, <1>2

\* What Codex is given is what was admitted, once, for any number of messages,
\* attachments, changes and restarts (start_queued).
THEOREM SentKept == Spec => []SentAsAdmitted
  <1>1. InputInv => SentAsAdmitted
    BY DEF InputInv
  <1> QED
    BY InputInvInit, InputInvStep, <1>1, PTL DEF Spec

-----------------------------------------------------------------------------
\* Waiters.

\* The steps that give back a share leave a message behind that will notify.
LEMMA WakeupStep ==
    ASSUME InputTypeOK, NoLostWakeup, Next
    PROVE  NoLostWakeup'
  <1>1. ASSUME NEW m \in Messages, Notify(m)
        PROVE  NoLostWakeup'
    BY <1>1 DEF Notify, Listening, NoLostWakeup, InputTypeOK
  <1>2. ASSUME NEW m \in Messages, Reserve(m)
        PROVE  NoLostWakeup'
    <2>1. ASSUME NEW n \in Messages, n # m
          PROVE  job'[n] = job[n] /\ (n \in woken' <=> n \in woken)
      BY <1>2, <2>1 DEF Reserve, InputTypeOK
    <2>2. job[m] = "armed"
      BY <1>2 DEF Reserve
    <2>3. \A n \in Messages : Input[n] \in Nat /\ Temp[n] \in Nat
      BY InputAssumption
    <2>4. CASE used' = used + Input[m] /\ job'[m] = "reading"
      <3>1. ASSUME NEW n \in Messages, used + Input[n] > Temp[n]
            PROVE  used' + Input[n] > Temp[n]
        <4>1. used \in Int /\ Input[m] \in Nat /\ Input[n] \in Nat /\ Temp[n] \in Nat
          BY <2>3 DEF InputTypeOK
        <4> QED
          BY <2>4, <3>1, <4>1
      <3>2. ASSUME NEW n \in Messages, job[n] \in {"failing", "leaving"}
            PROVE  job'[n] \in {"failing", "leaving"}
        BY <2>1, <2>2, <3>2
      <3> QED
        BY <2>1, <2>4, <3>1, <3>2 DEF NoLostWakeup
    <2>5. CASE used' = used /\ used + Input[m] > Temp[m]
      BY <2>1, <2>2, <2>5 DEF NoLostWakeup
    <2> QED
      BY <1>2, <2>4, <2>5 DEF Reserve, InputTypeOK
  <1>3. ASSUME NEW m \in Messages,
               \/ PrepareFails(m) \/ Finalize(m) \/ SendFails(m) \/ StartReturns(m)
        PROVE  NoLostWakeup'
    <2>1. job'[m] \in {"failing", "leaving"}
      BY <1>3 DEF PrepareFails, Finalize, SendFails, StartReturns, InputTypeOK
    <2> QED
      BY <2>1 DEF NoLostWakeup
  <1>4. ASSUME NEW m \in Messages, PublishUpload(m)
        PROVE  NoLostWakeup'
    BY <1>4 DEF PublishUpload, NoLostWakeup, InputTypeOK
  <1>5. ASSUME NEW m \in Messages,
               \/ Admit(m) \/ StartQueued(m) \/ TakeSlot(m) \/ Arm(m) \/ Sleeps(m)
               \/ Wakes(m) \/ Prepared(m) \/ WriteUpload(m) \/ StartTurn(m)
        PROVE  NoLostWakeup'
    BY <1>5 DEF Admit, StartQueued, Begins, TakeSlot, Arm, Sleeps, Wakes, Prepared,
               WriteUpload, StartTurn, NoLostWakeup, InputTypeOK
  <1>6. ASSUME NEW m \in Messages,
               \/ ReadAttachment(m) \/ ValidationExpires(m) \/ TurnEnds(m)
               \/ Edited(m) \/ CodexWrites(m)
        PROVE  NoLostWakeup'
    BY <1>6 DEF ReadAttachment, ValidationExpires, TurnEnds, Edited, CodexWrites,
               NoLostWakeup
  <1>7. CASE Restart
    BY <1>7 DEF Restart, NoLostWakeup
  <1> QED
    BY <1>1, <1>2, <1>3, <1>4, <1>5, <1>6, <1>7 DEF Next

\* Nobody sleeps through a release of the budget (Files::reserve and
\* BudgetLease::drop), for any number of messages and any limits.
THEOREM WakeupsKept == Spec => []NoLostWakeup
  <1>1. Init => NoLostWakeup
    BY DEF Init, NoLostWakeup
  <1>2. ASSUME InputInv, NoLostWakeup, [Next]_vars
        PROVE  NoLostWakeup'
    <2>1. CASE Next
      BY <1>2, <2>1, WakeupStep DEF InputInv
    <2>2. CASE UNCHANGED vars
      BY <1>2, <2>2 DEF vars, NoLostWakeup
    <2> QED
      BY <1>2, <2>1, <2>2
  <1> QED
    BY InputInvInit, InputInvStep, <1>1, <1>2, PTL DEF Spec

-----------------------------------------------------------------------------
\* The sum of the shares of a set of messages is the number of pairs of a
\* message and one of its bytes.

Bytes(S) == {p \in S \X Nat : p[2] < Input[p[1]]}

\* What some subset of a finite set has, one has that loses it with any element.
LEMMA SmallestSubset ==
    ASSUME NEW S, IsFiniteSet(S), NEW Bad \in SUBSET SUBSET S, Bad # {}
    PROVE  \E s \in Bad : \A x \in s : s \ {x} \notin Bad
  <1>1. FiniteSubsetsOf(S) = SUBSET S
    BY FS_FiniteSubsetsOfFinite
  <1>2. IsWellFoundedOn(StrictSubsetOrdering(S), SUBSET S)
    BY <1>1, FS_StrictSubsetOrderingWellFounded
  <1>3. PICK s \in Bad : \A t \in Bad : ~ (<<t, s>> \in StrictSubsetOrdering(S))
    BY <1>2, WFMin
  <1>4. ASSUME NEW x \in s, s \ {x} \in Bad
        PROVE  FALSE
    BY <1>3, <1>4 DEF StrictSubsetOrdering
  <1> QED
    BY <1>3, <1>4

LEMMA BytesOfOne ==
    ASSUME NEW m \in Messages
    PROVE  IsFiniteSet(Bytes({m})) /\ Cardinality(Bytes({m})) = Input[m]
  <1>1. Input[m] \in Nat
    BY InputAssumption
  <1>2. Bytes({m}) = {m} \X (0 .. Input[m] - 1)
    BY <1>1 DEF Bytes
  <1>3. /\ IsFiniteSet(0 .. Input[m] - 1)
        /\ Cardinality(0 .. Input[m] - 1) = Input[m]
    BY <1>1, FS_Interval
  <1>4. IsFiniteSet({m}) /\ Cardinality({m}) = 1
    BY FS_Singleton
  <1>5. /\ IsFiniteSet({m} \X (0 .. Input[m] - 1))
        /\ Cardinality({m} \X (0 .. Input[m] - 1))
              = Cardinality({m}) * Cardinality(0 .. Input[m] - 1)
    BY <1>3, <1>4, FS_Product
  <1>6. 1 * Input[m] = Input[m]
    BY <1>1
  <1>7. Cardinality({m} \X (0 .. Input[m] - 1)) = Input[m]
    BY <1>3, <1>4, <1>5, <1>6
  <1> QED
    BY <1>2, <1>5, <1>7

LEMMA BytesOfMore ==
    ASSUME NEW S \in SUBSET Messages, IsFiniteSet(Bytes(S)), NEW m \in Messages \ S
    PROVE  /\ IsFiniteSet(Bytes(S \cup {m}))
           /\ Cardinality(Bytes(S \cup {m})) = Cardinality(Bytes(S)) + Input[m]
  <1>1. Bytes(S \cup {m}) = Bytes(S) \cup Bytes({m})
    BY DEF Bytes
  <1>2. Bytes(S) \cap Bytes({m}) = {}
    BY DEF Bytes
  <1>3. IsFiniteSet(Bytes({m})) /\ Cardinality(Bytes({m})) = Input[m]
    BY BytesOfOne
  <1>4. Cardinality({}) = 0 /\ Input[m] \in Nat /\ Cardinality(Bytes(S)) \in Nat
    BY FS_EmptySet, FS_CardinalityType, InputAssumption
  <1>5. /\ IsFiniteSet(Bytes(S) \cup Bytes({m}))
        /\ Cardinality(Bytes(S) \cup Bytes({m}))
              = Cardinality(Bytes(S)) + Cardinality(Bytes({m}))
                   - Cardinality(Bytes(S) \cap Bytes({m}))
    BY <1>3, FS_Union
  <1>6. Cardinality(Bytes(S) \cap Bytes({m})) = 0
    BY <1>2, <1>4
  <1>7. Cardinality(Bytes(S) \cup Bytes({m})) = Cardinality(Bytes(S)) + Input[m] - 0
    BY <1>3, <1>5, <1>6
  <1>8. Cardinality(Bytes(S)) + Input[m] - 0 = Cardinality(Bytes(S)) + Input[m]
    BY <1>4
  <1> QED
    BY <1>1, <1>5, <1>7, <1>8

LEMMA BytesFinite ==
    ASSUME NEW S \in SUBSET Messages
    PROVE  IsFiniteSet(Bytes(S)) /\ Cardinality(Bytes(S)) \in Nat
  <1> DEFINE Bad == {s \in SUBSET Messages : ~ IsFiniteSet(Bytes(s))}
  <1>1. Bytes({}) = {}
    BY DEF Bytes
  <1>2. ASSUME NEW s \in Bad, \A x \in s : s \ {x} \notin Bad
        PROVE  FALSE
    <2>1. s # {}
      BY <1>1, FS_EmptySet
    <2>2. PICK x \in s : TRUE
      BY <2>1
    <2>3. IsFiniteSet(Bytes(s \ {x})) /\ x \in Messages \ (s \ {x})
      BY <1>2, <2>2
    <2>4. s = (s \ {x}) \cup {x}
      BY <2>2
    <2>5. IsFiniteSet(Bytes((s \ {x}) \cup {x}))
      BY <2>3, BytesOfMore
    <2> QED
      BY <2>4, <2>5
  <1>3. IsFiniteSet(Messages) /\ Bad \in SUBSET SUBSET Messages
    BY InputAssumption
  <1>4. Bad = {}
    BY <1>2, <1>3, SmallestSubset
  <1>5. IsFiniteSet(Bytes(S))
    BY <1>4
  <1> QED
    BY <1>5, FS_CardinalityType

Taken(S) == MapThenSumSet(LAMBDA m : Input[m], S)

\* What the fold computes, as a function of the sets it meets.
IsSum(f, S) ==
    f = [s \in SUBSET S |-> IF s = {} THEN 0
                            ELSE Input[CHOOSE x \in s : TRUE] + f[s \ {CHOOSE x \in s : TRUE}]]

LEMMA TakenIsBytes ==
    ASSUME NEW S \in SUBSET Messages
    PROVE  Taken(S) = Cardinality(Bytes(S))
  <1> DEFINE f == CHOOSE g : IsSum(g, S)
             n == [s \in SUBSET S |-> Cardinality(Bytes(s))]
             Bad == {s \in SUBSET S : f[s] # n[s]}
  <1>1. Taken(S) = f[S]
    BY DEF Taken, MapThenSumSet, MapThenFoldSet, IsSum
  <1>2. n[{}] = 0
    <2>1. Bytes({}) = {}
      BY DEF Bytes
    <2> QED
      BY <2>1, FS_EmptySet
  <1>3. ASSUME NEW s \in SUBSET S, NEW x \in s
        PROVE  n[s] = Input[x] + n[s \ {x}]
    <2>1. s \ {x} \in SUBSET Messages /\ x \in Messages \ (s \ {x})
      OBVIOUS
    <2>2. s = (s \ {x}) \cup {x}
      OBVIOUS
    <2>3. IsFiniteSet(Bytes(s \ {x})) /\ Cardinality(Bytes(s \ {x})) \in Nat
      BY <2>1, BytesFinite
    <2>4. Cardinality(Bytes((s \ {x}) \cup {x})) = Cardinality(Bytes(s \ {x})) + Input[x]
      BY <2>1, <2>3, BytesOfMore
    <2>5. Input[x] \in Nat
      BY <2>1, InputAssumption
    <2>6. n[s] = Cardinality(Bytes(s)) /\ n[s \ {x}] = Cardinality(Bytes(s \ {x}))
      OBVIOUS
    <2>7. Cardinality(Bytes(s)) = Cardinality(Bytes(s \ {x})) + Input[x]
      BY <2>2, <2>4
    <2> HIDE DEF n
    <2> QED
      BY <2>3, <2>5, <2>6, <2>7
  <1>4. IsSum(n, S)
    <2>1. ASSUME NEW s \in SUBSET S, s # {}
          PROVE  n[s] = Input[CHOOSE x \in s : TRUE] + n[s \ {CHOOSE x \in s : TRUE}]
      <3>1. (CHOOSE x \in s : TRUE) \in s
        BY <2>1
      <3> HIDE DEF n
      <3> QED
        BY <1>3, <3>1
    <2>2. n = [s \in SUBSET S |-> n[s]]
      OBVIOUS
    <2> HIDE DEF n
    <2>3. n = [s \in SUBSET S |-> IF s = {} THEN 0
                  ELSE Input[CHOOSE x \in s : TRUE] + n[s \ {CHOOSE x \in s : TRUE}]]
      BY <1>2, <2>1, <2>2
    <2> QED
      BY <2>3 DEF IsSum
  <1>5. IsSum(f, S)
    BY <1>4
  <1>6. ASSUME NEW s \in Bad, \A x \in s : s \ {x} \notin Bad
        PROVE  FALSE
    <2>1. f[{}] = 0
      BY <1>5 DEF IsSum
    <2>2. s # {}
      BY <1>2, <2>1
    <2>3. PICK x \in s : x = CHOOSE y \in s : TRUE
      BY <2>2
    <2>4. f[s] = Input[x] + f[s \ {x}]
      BY <1>5, <2>2, <2>3 DEF IsSum
    <2>5. f[s \ {x}] = n[s \ {x}]
      BY <1>6
    <2> HIDE DEF f, n
    <2> QED
      BY <1>3, <2>4, <2>5
  <1>7. IsFiniteSet(S)
    BY InputAssumption, FS_Subset
  <1>8. Bad = {}
    <2> HIDE DEF f, n
    <2> QED
      BY <1>6, <1>7, SmallestSubset
  <1> HIDE DEF f
  <1> QED
    BY <1>1, <1>8

-----------------------------------------------------------------------------
\* The budget.

\* Any live leases were within the limit of one of their owners: of the one
\* that came last, though another may have left since.
WithinLimits ==
    \A S \in SUBSET Leased : S # {} => \E m \in S : Taken(S) <= Temp[m]

BudgetInv ==
    /\ used = Taken(Leased)
    /\ WithinLimits
    /\ Cardinality(InSlot) <= Slots

\* Fewer leases take no more.
LEMMA TakenMonotonic ==
    ASSUME NEW S \in SUBSET Messages, NEW T \in SUBSET S
    PROVE  /\ Taken(S) \in Nat /\ Taken(T) \in Nat
           /\ Taken(T) <= Taken(S)
  <1>1. IsFiniteSet(Bytes(S)) /\ Cardinality(Bytes(S)) \in Nat
    BY BytesFinite
  <1>2. T \in SUBSET Messages
    OBVIOUS
  <1>3. Cardinality(Bytes(T)) \in Nat
    BY <1>2, BytesFinite
  <1>4. Bytes(T) \in SUBSET Bytes(S)
    BY DEF Bytes
  <1>5. Cardinality(Bytes(T)) <= Cardinality(Bytes(S))
    BY <1>1, <1>4, FS_Subset
  <1>6. Taken(S) = Cardinality(Bytes(S)) /\ Taken(T) = Cardinality(Bytes(T))
    BY <1>2, TakenIsBytes
  <1> QED
    BY <1>1, <1>3, <1>5, <1>6

\* One lease more takes its share more.
LEMMA TakenByOneMore ==
    ASSUME NEW S \in SUBSET Messages, NEW m \in Messages \ S
    PROVE  Taken(S \cup {m}) = Taken(S) + Input[m]
  <1>1. IsFiniteSet(Bytes(S))
    BY BytesFinite
  <1>2. Cardinality(Bytes(S \cup {m})) = Cardinality(Bytes(S)) + Input[m]
    BY <1>1, BytesOfMore
  <1>3. S \cup {m} \in SUBSET Messages
    OBVIOUS
  <1>4. Taken(S \cup {m}) = Cardinality(Bytes(S \cup {m}))
    BY <1>3, TakenIsBytes
  <1>5. Taken(S) = Cardinality(Bytes(S))
    BY TakenIsBytes
  <1> QED
    BY <1>2, <1>4, <1>5

LEMMA TakenByNone == Taken({}) = 0
  <1>1. Bytes({}) = {}
    BY DEF Bytes
  <1>2. Taken({}) = Cardinality(Bytes({}))
    BY TakenIsBytes
  <1> QED
    BY <1>1, <1>2, FS_EmptySet

\* A step takes a lease that fits, drops one, loses all, or leaves them alone.
LEMMA LeasesStep ==
    ASSUME InputTypeOK, Next
    PROVE  \/ used' = used /\ Leased' = Leased
           \/ used' = 0 /\ Leased' = {}
           \/ \E m \in Messages \ Leased :
                 /\ used' = used + Input[m] /\ used + Input[m] <= Temp[m]
                 /\ Leased' = Leased \cup {m}
           \/ \E m \in Leased : used' = used - Input[m] /\ Leased' = Leased \ {m}
  <1> USE DEF Leased, InputTypeOK
  <1>1. ASSUME NEW m \in Messages, Reserve(m)
        PROVE  \/ used' = used /\ Leased' = Leased
               \/ /\ m \in Messages \ Leased
                  /\ used' = used + Input[m] /\ used + Input[m] <= Temp[m]
                  /\ Leased' = Leased \cup {m}
    BY <1>1 DEF Reserve
  <1>2. ASSUME NEW m \in Messages,
               PrepareFails(m) \/ Finalize(m) \/ SendFails(m) \/ StartReturns(m)
        PROVE  m \in Leased /\ used' = used - Input[m] /\ Leased' = Leased \ {m}
    BY <1>2 DEF PrepareFails, Finalize, SendFails, StartReturns
  <1>3. ASSUME NEW m \in Messages, PublishUpload(m)
        PROVE  \/ used' = used /\ Leased' = Leased
               \/ m \in Leased /\ used' = used - Input[m] /\ Leased' = Leased \ {m}
    BY <1>3 DEF PublishUpload
  <1>4. ASSUME NEW m \in Messages,
               \/ Admit(m) \/ StartQueued(m) \/ TakeSlot(m) \/ Arm(m) \/ Sleeps(m)
               \/ Wakes(m) \/ Prepared(m) \/ Notify(m) \/ WriteUpload(m) \/ StartTurn(m)
        PROVE  used' = used /\ Leased' = Leased
    BY <1>4 DEF Admit, StartQueued, Begins, TakeSlot, Arm, Sleeps, Wakes, Prepared,
               Notify, WriteUpload, StartTurn
  <1>5. ASSUME NEW m \in Messages,
               \/ ReadAttachment(m) \/ ValidationExpires(m) \/ TurnEnds(m)
               \/ Edited(m) \/ CodexWrites(m)
        PROVE  used' = used /\ Leased' = Leased
    BY <1>5 DEF ReadAttachment, ValidationExpires, TurnEnds, Edited, CodexWrites
  <1>6. CASE Restart
    BY <1>6 DEF Restart
  <1> HIDE DEF Leased, InputTypeOK
  <1> QED
    BY <1>1, <1>2, <1>3, <1>4, <1>5, <1>6 DEF Next, Leased

\* A slot is taken when there is one.
LEMMA SlotsStep ==
    ASSUME InputTypeOK, Next
    PROVE  \/ InSlot' \subseteq InSlot
           \/ \E m \in Messages : InSlot' = InSlot \cup {m} /\ Cardinality(InSlot) < Slots
  <1> USE DEF InSlot, InputTypeOK
  <1>1. ASSUME NEW m \in Messages, TakeSlot(m)
        PROVE  InSlot' = InSlot \cup {m} /\ Cardinality(InSlot) < Slots
    BY <1>1 DEF TakeSlot
  <1>2. ASSUME NEW m \in Messages,
               \/ Admit(m) \/ StartQueued(m) \/ Arm(m) \/ Reserve(m) \/ Sleeps(m)
               \/ Wakes(m) \/ Prepared(m) \/ PrepareFails(m) \/ Notify(m) \/ Finalize(m)
        PROVE  InSlot' \subseteq InSlot
    BY <1>2 DEF Admit, StartQueued, Begins, Arm, Reserve, Sleeps, Wakes, Prepared,
               PrepareFails, Notify, Finalize
  <1>3. ASSUME NEW m \in Messages,
               \/ SendFails(m) \/ WriteUpload(m) \/ PublishUpload(m) \/ StartTurn(m)
               \/ StartReturns(m)
        PROVE  InSlot' \subseteq InSlot
    BY <1>3 DEF SendFails, WriteUpload, PublishUpload, StartTurn, StartReturns
  <1>4. ASSUME NEW m \in Messages,
               \/ ReadAttachment(m) \/ ValidationExpires(m) \/ TurnEnds(m)
               \/ Edited(m) \/ CodexWrites(m)
        PROVE  InSlot' \subseteq InSlot
    BY <1>4 DEF ReadAttachment, ValidationExpires, TurnEnds, Edited, CodexWrites
  <1>5. CASE Restart
    BY <1>5 DEF Restart
  <1> HIDE DEF InSlot, InputTypeOK
  <1> QED
    BY <1>1, <1>2, <1>3, <1>4, <1>5 DEF Next

LEMMA WithinLimitsStep ==
    ASSUME InputTypeOK, Next, BudgetInv
    PROVE  used' = Taken(Leased') /\ WithinLimits'
  <1>1. Leased \in SUBSET Messages
    BY DEF Leased
  <1>2. CASE used' = used /\ Leased' = Leased
    BY <1>2 DEF BudgetInv, WithinLimits
  <1>3. CASE used' = 0 /\ Leased' = {}
    BY <1>3, TakenByNone DEF WithinLimits
  <1>4. ASSUME NEW m \in Messages \ Leased,
               used' = used + Input[m], used + Input[m] <= Temp[m],
               Leased' = Leased \cup {m}
        PROVE  used' = Taken(Leased') /\ WithinLimits'
    <2>1. used' = Taken(Leased')
      BY <1>1, <1>4, TakenByOneMore DEF BudgetInv
    <2>2. ASSUME NEW S \in SUBSET Leased', S # {}
          PROVE  \E n \in S : Taken(S) <= Temp[n]
      <3>1. CASE m \in S
        <4>1. Leased' \in SUBSET Messages
          BY <1>1, <1>4
        <4>2. Taken(S) <= Taken(Leased') /\ Taken(S) \in Nat /\ Taken(Leased') \in Nat
          BY <4>1, TakenMonotonic
        <4>3. Taken(Leased') <= Temp[m] /\ Temp[m] \in Nat
          BY <1>4, <2>1, InputAssumption
        <4>4. Taken(S) <= Temp[m]
          BY <4>2, <4>3
        <4> QED
          BY <3>1, <4>4
      <3>2. CASE m \notin S
        BY <1>4, <2>2, <3>2 DEF BudgetInv, WithinLimits
      <3> QED
        BY <3>1, <3>2
    <2> QED
      BY <2>1, <2>2 DEF WithinLimits
  <1>5. ASSUME NEW m \in Leased, used' = used - Input[m], Leased' = Leased \ {m}
        PROVE  used' = Taken(Leased') /\ WithinLimits'
    <2>1. Leased \ {m} \in SUBSET Messages /\ m \in Messages \ (Leased \ {m})
      BY <1>1
    <2>2. Leased = (Leased \ {m}) \cup {m}
      OBVIOUS
    <2>3. Taken((Leased \ {m}) \cup {m}) = Taken(Leased \ {m}) + Input[m]
      BY <2>1, TakenByOneMore
    <2>4. Taken(Leased \ {m}) \in Nat /\ Input[m] \in Nat
      BY <2>1, TakenMonotonic, InputAssumption
    <2>5. used = Taken(Leased \ {m}) + Input[m]
      BY <2>2, <2>3 DEF BudgetInv
    <2>6. used' = Taken(Leased \ {m})
      BY <1>5, <2>4, <2>5
    <2>7. WithinLimits'
      BY <1>5 DEF BudgetInv, WithinLimits
    <2> QED
      BY <1>5, <2>6, <2>7
  <1> QED
    BY <1>2, <1>3, <1>4, <1>5, LeasesStep

LEMMA BudgetStep ==
    ASSUME InputTypeOK, BudgetInv, [Next]_vars
    PROVE  BudgetInv'
  <1>1. CASE Next
    <2>1. IsFiniteSet(InSlot) /\ Cardinality(InSlot) \in Nat
      <3>1. InSlot \in SUBSET Messages /\ IsFiniteSet(Messages)
        BY InputAssumption DEF InSlot
      <3>2. IsFiniteSet(InSlot)
        BY <3>1, FS_Subset
      <3> QED
        BY <3>2, FS_CardinalityType
    <2>2. Cardinality(InSlot) <= Slots /\ Slots \in Nat
      BY InputAssumption DEF BudgetInv
    <2>3. CASE InSlot' \subseteq InSlot
      <3>1. IsFiniteSet(InSlot') /\ Cardinality(InSlot') <= Cardinality(InSlot)
        BY <2>1, <2>3, FS_Subset
      <3>2. Cardinality(InSlot') \in Nat
        BY <3>1, FS_CardinalityType
      <3> QED
        BY <1>1, <2>1, <2>2, <3>1, <3>2, WithinLimitsStep DEF BudgetInv
    <2>4. ASSUME NEW m \in Messages,
                 InSlot' = InSlot \cup {m}, Cardinality(InSlot) < Slots
          PROVE  BudgetInv'
      <3>1. Cardinality(InSlot \cup {m})
               = IF m \in InSlot THEN Cardinality(InSlot) ELSE Cardinality(InSlot) + 1
        BY <2>1, FS_AddElement
      <3>2. Cardinality(InSlot') <= Slots
        BY <2>1, <2>2, <2>4, <3>1
      <3> QED
        BY <1>1, <3>2, WithinLimitsStep DEF BudgetInv
    <2> QED
      BY <1>1, <2>3, <2>4, SlotsStep
  <1>2. CASE UNCHANGED vars
    BY <1>2 DEF vars, BudgetInv, WithinLimits, Leased, InSlot
  <1> QED
    BY <1>1, <1>2

LEMMA BudgetInit == Init => BudgetInv
  <1> SUFFICES ASSUME Init
               PROVE  BudgetInv
    OBVIOUS
  <1>1. Leased = {} /\ InSlot = {} /\ used = 0
    BY DEF Init, Leased, InSlot
  <1>2. 0 <= Slots /\ Cardinality({}) = 0
    BY InputAssumption, FS_EmptySet
  <1> QED
    BY <1>1, <1>2, TakenByNone DEF BudgetInv, WithinLimits

\* The counter is what the live leases took and within the limit of one of
\* their owners, no slot is given twice, and nobody sleeps through a release
\* (Files::reserve, BudgetLease::drop), for any messages, limits and slots.
THEOREM BudgetSound == Spec => []BudgetKept
  <1>1. Spec => []InputTypeOK
    <2>1. InputInv => InputTypeOK
      BY DEF InputInv
    <2> QED
      BY <2>1, InputInvInit, InputInvStep, PTL DEF Spec
  <1>2. Spec => [](InputTypeOK /\ BudgetInv)
    <2>1. InputTypeOK /\ BudgetInv /\ [Next]_vars => BudgetInv'
      BY BudgetStep
    <2> QED
      BY <1>1, <2>1, BudgetInit, PTL DEF Spec
  <1>3. InputTypeOK /\ BudgetInv /\ NoLostWakeup => BudgetKept
    <2> SUFFICES ASSUME InputTypeOK, BudgetInv, NoLostWakeup
                 PROVE  BudgetKept
      OBVIOUS
    <2>1. Leased \in SUBSET Messages
      BY DEF Leased
    <2>2. used >= 0
      BY <2>1, TakenMonotonic DEF BudgetInv
    <2>3. ASSUME used > 0
          PROVE  \E m \in Leased : used <= Temp[m]
      BY <2>3, TakenByNone DEF BudgetInv, WithinLimits
    <2>4. used = MapThenSumSet(LAMBDA m : Input[m], Leased)
      BY DEF BudgetInv, Taken
    <2> QED
      BY <2>2, <2>3, <2>4 DEF BudgetKept, BudgetInv
  <1> QED
    BY <1>2, <1>3, WakeupsKept, PTL

=============================================================================
