------------------------ MODULE CodexTransportProofs ------------------------
(***************************************************************************)
(* Proofs about CodexTransport, for any number of concurrent calls and any *)
(* child: no frame is begun behind one that was cut short, what a caller   *)
(* is told about its own frame is true, every variable keeps to its        *)
(* domain, and the run hears the events of its turn.                       *)
(***************************************************************************)
EXTENDS CodexTransport, FunctionTheorems, FiniteSetTheorems, TLAPS

-----------------------------------------------------------------------------
\* The invariant.

Points == {"Idle", "Waits", "Checked", "Writes", "Sent", "Done"}

CallTypes ==
    /\ holder \in Callers \cup {None}
    /\ closed \in BOOLEAN
    /\ at \in [Callers -> Points]
    /\ told \in [Callers -> Outcomes \cup {"None"}]
    /\ written \in [Callers -> {"None", "Part", "Whole"}]
    /\ stdin \in Seq(Callers)
    /\ \A c \in Callers : at[c] = "Sent" => c \in Requests

\* Who is past the check of `closed` and not through its frame has the lock.
Locked ==
    \A c \in Callers : at[c] \in {"Checked", "Writes"} => holder = c

\* How far a call is tells how much of its frame is out.
Progress ==
    \A c \in Callers :
        /\ at[c] \in {"Idle", "Waits", "Checked"} => written[c] = "None"
        /\ at[c] = "Sent" => written[c] = "Whole"
        /\ at[c] # "Done" => told[c] = "None"

\* A frame that is not whole is being written, or its writer was interrupted:
\* then the transport is closed, nobody has the lock, and nobody will.
CutShort ==
    \A c \in Callers : written[c] = "Part" => holder = c \/ (closed /\ holder = None)

\* The frames of stdin are those begun, and only the last may not be whole.
Frames ==
    /\ \A i \in 1 .. Len(stdin) : written[stdin[i]] # "None"
    /\ FramesWhole

FrameInv == CallTypes /\ Locked /\ Progress /\ CutShort /\ Frames

\* The answers on their way, and those that arrived, are of the child.
AnswerTypes ==
    /\ answer \in [Requests -> Verdicts \cup {"ResultUnknown", "None"}]
    /\ stdout \in Seq(Lines)
    /\ pending \subseteq Requests
    /\ replied \subseteq Requests

Answered ==
    /\ \A c \in Requests : answer[c] \in Verdicts => c \in replied
    /\ \A i \in 1 .. Len(stdout) : stdout[i].kind = "Answer" => stdout[i].to \in replied

AnswerInv == AnswerTypes /\ Answered

TransportInv == FrameInv /\ AnswerInv /\ VerdictTrue

LEMMA TransportInvInit == Init => TransportInv
  <1> SUFFICES ASSUME Init
               PROVE  TransportInv
    OBVIOUS
  <1>1. CallTypes
    <2>1. at \in [Callers -> Points] /\ told \in [Callers -> Outcomes \cup {"None"}]
      BY DEF Init, Points
    <2>2. written \in [Callers -> {"None", "Part", "Whole"}]
      BY DEF Init
    <2>3. stdin \in Seq(Callers)
      BY DEF Init
    <2> QED
      BY <2>1, <2>2, <2>3 DEF Init, CallTypes
  <1>2. AnswerTypes
    BY DEF Init, AnswerTypes
  <1>3. Locked /\ Progress /\ CutShort /\ Frames
    <2>1. Len(stdin) = 0
      BY DEF Init
    <2>2. Frames
      BY <2>1 DEF Frames, FramesWhole
    <2> QED
      BY <2>2 DEF Init, Locked, Progress, CutShort
  <1>4. Answered
    BY DEF Init, Answered, Verdicts
  <1>5. VerdictTrue
    BY DEF Init, VerdictTrue, Verdicts
  <1> QED
    BY <1>1, <1>2, <1>3, <1>4, <1>5 DEF TransportInv, FrameInv, AnswerInv

-----------------------------------------------------------------------------
\* The steps that are no step of a call.

\* `closed` is never taken back.
LEMMA CloseSticks ==
    ASSUME Close, closed \in BOOLEAN
    PROVE  closed' = TRUE
  BY DEF Close, closeVars

LEMMA OthersKeepFrames ==
    ASSUME CallTypes, LeaseStep \/ ChildStep \/ TaskStep
    PROVE  /\ UNCHANGED <<holder, at, told, lineVars>>
           /\ closed' \in BOOLEAN /\ (closed => closed')
  <1> USE DEF callVars, lineVars, closeVars, childVars, leaseVars, feedVars
  <1>1. CASE LeaseStep
    <2>1. CASE Acquires \/ AcquireFails \/ Subscribes \/ Shutdown \/ DropLease \/ DropInner
      BY <2>1 DEF Acquires, AcquireFails, Subscribes, Shutdown, DropLease, DropInner, CallTypes
    <2>2. CASE LaunchGoesOn \/ StartFails \/ PollFindsClosed \/ RunEnds \/ Hears
      BY <2>2 DEF LaunchGoesOn, StartFails, PollFindsClosed, RunEnds, Hears, Goes, CallTypes
    <2>3. CASE LaunchFails
      BY <2>3, CloseSticks DEF LaunchFails, Goes, CallTypes
    <2> QED
      BY <1>1, <2>1, <2>2, <2>3 DEF LeaseStep
  <1>2. CASE ChildStep
    BY <1>2 DEF ChildStep, ChildReads, ChildReports, ChildStrays, ChildExits, ChildAnswers,
               Emits, CallTypes
  <1>3. CASE TaskStep
    <2>1. CASE Dispatches
      <3>1. UNCHANGED <<holder, at, told, lineVars>>
        BY <2>1 DEF Dispatches
      <3>2. Close \/ UNCHANGED closed
        BY <2>1 DEF Dispatches, Resolve
      <3> QED
        BY <3>1, <3>2, CloseSticks DEF CallTypes
    <2>2. CASE ReaderEnds \/ MonitorCloses
      BY <2>2, CloseSticks DEF ReaderEnds, MonitorCloses, CallTypes
    <2>3. CASE Drains
      BY <2>3 DEF Drains, CallTypes
    <2> QED
      BY <1>3, <2>1, <2>2, <2>3 DEF TaskStep
  <1> QED
    BY <1>1, <1>2, <1>3

LEMMA FramesStay ==
    ASSUME FrameInv, UNCHANGED <<holder, at, told, lineVars>>,
           closed' \in BOOLEAN, closed => closed'
    PROVE  FrameInv'
  BY DEF FrameInv, CallTypes, Locked, Progress, CutShort, Frames, FramesWhole, lineVars

-----------------------------------------------------------------------------
\* The steps of a call.

LEMMA CallKeepsTypes ==
    ASSUME CallTypes, AnswerTypes, NEW c \in Callers, CallStep(c)
    PROVE  CallTypes'
  <1> USE DEF callVars, lineVars, closeVars, childVars, leaseVars, feedVars
  <1>1. CASE Begins(c)
    BY <1>1 DEF Begins, CallTypes, Points
  <1>2. CASE Locks(c)
    <2>1. at' \in [Callers -> Points] /\ holder' \in Callers \cup {None}
      BY <1>2 DEF Locks, Returns, CallTypes, Points
    <2>2. told' \in [Callers -> Outcomes \cup {"None"}]
      BY <1>2 DEF Locks, Returns, CallTypes, Outcomes
    <2>3. \A d \in Callers : at'[d] = "Sent" => at[d] = "Sent"
      BY <1>2 DEF Locks, Returns, CallTypes
    <2> QED
      BY <1>2, <2>1, <2>2, <2>3 DEF Locks, CallTypes
  <1>3. CASE Registers(c)
    BY <1>3 DEF Registers, CallTypes, Points
  <1>4. CASE WritesSome(c)
    <2>1. stdin' \in Seq(Callers)
      BY <1>4 DEF WritesSome, CallTypes
    <2>2. written' \in [Callers -> {"None", "Part", "Whole"}]
      BY <1>4 DEF WritesSome, CallTypes
    <2> QED
      BY <1>4, <2>1, <2>2 DEF WritesSome, CallTypes
  <1>5. CASE WriteEnds(c)
    BY <1>5 DEF WriteEnds, Returns, CallTypes, Points, Outcomes
  <1>6. ASSUME NEW o \in Outcomes, Breaks(c, o)
        PROVE  CallTypes'
    BY <1>6, CloseSticks DEF Breaks, Returns, CallTypes, Points
  <1>7. ASSUME NEW o \in Outcomes, Returns(c, o), UNCHANGED <<closed, holder, lineVars>>
        PROVE  CallTypes'
    BY <1>7 DEF Returns, CallTypes, Points
  <1>8. CASE Concludes(c)
    <2>1. answer[c] \in Verdicts \cup {"ResultUnknown", "None"}
      BY <1>8 DEF Concludes, CallTypes, AnswerTypes
    <2>2. PICK o \in Outcomes : Returns(c, o)
      BY <1>8, <2>1 DEF Concludes, Outcomes
    <2> QED
      BY <1>7, <1>8, <2>2 DEF Concludes
  <1>9. CASE Cancelled(c)
    BY <1>6, <1>7, <1>9 DEF Cancelled, Outcomes
  <1> QED
    BY <1>1, <1>2, <1>3, <1>4, <1>5, <1>6, <1>8, <1>9 DEF CallStep, WriteFails, Outcomes

\* Where a call goes.
LEMMA CallKeepsFrames ==
    ASSUME FrameInv, AnswerTypes, NEW c \in Callers, CallStep(c)
    PROVE  FrameInv'
  <1> USE DEF callVars, lineVars, closeVars, childVars, leaseVars, feedVars
  <1>0. CallTypes /\ CallTypes'
    BY CallKeepsTypes DEF FrameInv
  <1>1. CASE Begins(c)
    BY <1>0, <1>1 DEF Begins, FrameInv, CallTypes, Locked, Progress, CutShort, Frames, FramesWhole
  <1>2. CASE Locks(c)
    <2>1. CASE closed
      BY <1>0, <1>2, <2>1 DEF Locks, Returns, FrameInv, CallTypes, Locked, Progress, CutShort,
                              Frames, FramesWhole
    <2>2. CASE ~closed
      BY <1>0, <1>2, <2>2, CallersAssumption DEF Locks, FrameInv, CallTypes, Locked, Progress,
                              CutShort, Frames, FramesWhole
    <2> QED
      BY <2>1, <2>2
  <1>3. CASE Registers(c)
    BY <1>0, <1>3 DEF Registers, FrameInv, CallTypes, Locked, Progress, CutShort, Frames, FramesWhole
  <1>4. CASE WritesSome(c)
    <2>1. /\ at[c] = "Writes" /\ holder = c /\ UNCHANGED <<holder, at, told, closed>>
          /\ written'[c] # "None"
          /\ \A d \in Callers \ {c} : written'[d] = written[d]
      BY <1>0, <1>4 DEF WritesSome, FrameInv, Locked, CallTypes
    <2>2. Locked' /\ Progress' /\ CutShort'
      BY <1>0, <2>1 DEF FrameInv, Locked, Progress, CutShort
    <2>3. stdin \in Seq(Callers) /\ \A i \in 1 .. Len(stdin) : stdin[i] \in Callers
      BY <1>0 DEF CallTypes
    <2>4. CASE written[c] = "None"
      <3>1. stdin' = Append(stdin, c)
        BY <1>4, <2>4 DEF WritesSome
      <3>2. \A i \in 1 .. Len(stdin) : stdin[i] # c /\ written[stdin[i]] = "Whole"
        <4> SUFFICES ASSUME NEW i \in 1 .. Len(stdin)
                     PROVE  stdin[i] # c /\ written[stdin[i]] = "Whole"
          OBVIOUS
        <4>1. stdin[i] # c /\ written[stdin[i]] # "None"
          BY <2>4 DEF FrameInv, Frames
        <4>2. written[stdin[i]] # "Part"
          BY <2>1, <2>3, <4>1, CallersAssumption DEF FrameInv, CutShort
        <4> QED
          BY <1>0, <2>3, <4>1, <4>2 DEF CallTypes
      <3>3. /\ Len(stdin') = Len(stdin) + 1 /\ stdin'[Len(stdin) + 1] = c
            /\ \A i \in 1 .. Len(stdin) : stdin'[i] = stdin[i]
        BY <2>3, <3>1
      <3>4. \A i \in 1 .. Len(stdin) : written'[stdin[i]] = "Whole"
        BY <2>1, <2>3, <3>2
      <3>5. Len(stdin) \in Nat
        BY <2>3
      <3>6. \A i \in 1 .. Len(stdin') : written'[stdin'[i]] # "None"
        BY <2>1, <3>3, <3>4, <3>5
      <3>7. \A i \in 1 .. Len(stdin') - 1 : written'[stdin'[i]] = "Whole"
        BY <3>3, <3>4, <3>5
      <3> QED
        BY <1>0, <2>2, <3>6, <3>7 DEF FrameInv, Frames, FramesWhole
    <2>5. CASE written[c] = "Part"
      <3>1. stdin' = stdin /\ written'[c] = "Whole"
        BY <1>0, <1>4, <2>5 DEF WritesSome, CallTypes
      <3>2. Frames'
        BY <2>1, <2>3, <3>1 DEF FrameInv, Frames, FramesWhole
      <3> QED
        BY <1>0, <2>2, <3>2 DEF FrameInv
    <2> QED
      BY <1>0, <1>4, <2>4, <2>5 DEF WritesSome, CallTypes
  <1>5. CASE WriteEnds(c)
    <2>1. Locked' /\ CutShort'
      BY <1>0, <1>5, CallersAssumption DEF WriteEnds, Returns, FrameInv, CallTypes, Locked, CutShort
    <2>2. Progress'
      BY <1>0, <1>5 DEF WriteEnds, Returns, FrameInv, CallTypes, Progress
    <2>3. Frames'
      BY <1>5 DEF WriteEnds, FrameInv, Frames, FramesWhole
    <2> QED
      BY <1>0, <2>1, <2>2, <2>3 DEF FrameInv
  <1>6. ASSUME NEW o, Breaks(c, o)
        PROVE  FrameInv'
    <2>1. closed' = TRUE
      BY <1>0, <1>6, CloseSticks DEF Breaks, CallTypes
    <2>2. Locked' /\ CutShort'
      BY <1>0, <1>6, <2>1, CallersAssumption DEF Breaks, Returns, FrameInv, CallTypes, Locked, CutShort
    <2>3. Progress' /\ Frames'
      BY <1>0, <1>6 DEF Breaks, Returns, FrameInv, CallTypes, Progress, Frames, FramesWhole
    <2> QED
      BY <1>0, <2>2, <2>3 DEF FrameInv
  <1>7. ASSUME NEW o, at[c] \in {"Waits", "Sent"}, Returns(c, o),
               UNCHANGED <<closed, holder, lineVars>>
        PROVE  FrameInv'
    BY <1>0, <1>7 DEF Returns, FrameInv, CallTypes, Locked, Progress, CutShort, Frames, FramesWhole
  <1>8. CASE Concludes(c)
    BY <1>7, <1>8 DEF Concludes
  <1>9. CASE Cancelled(c)
    BY <1>6, <1>7, <1>9 DEF Cancelled
  <1> QED
    BY <1>1, <1>2, <1>3, <1>4, <1>5, <1>6, <1>8, <1>9 DEF CallStep, WriteFails

-----------------------------------------------------------------------------
\* Answers.

\* A line the child writes; an answer is of a request it has answered.
LEMMA EmitsKeepsAnswers ==
    ASSUME AnswerInv, NEW line \in Lines, Emits(line),
           replied' \subseteq Requests, replied \subseteq replied',
           line.kind = "Answer" => line.to \in replied'
    PROVE  AnswerInv'
  <1>1. stdout' = Append(stdout, line) /\ UNCHANGED <<pending, answer>>
    BY DEF Emits, callVars
  <1>2. stdout \in Seq(Lines)
    BY DEF AnswerInv, AnswerTypes
  <1>3. stdout' \in Seq(Lines)
    BY <1>1, <1>2
  <1>4. /\ Len(stdout') = Len(stdout) + 1 /\ stdout'[Len(stdout) + 1] = line
        /\ \A i \in 1 .. Len(stdout) : stdout'[i] = stdout[i]
    BY <1>1, <1>2
  <1>5. Len(stdout) \in Nat
    BY <1>2
  <1>6. \A i \in 1 .. Len(stdout') : stdout'[i].kind = "Answer" => stdout'[i].to \in replied'
    <2> SUFFICES ASSUME NEW i \in 1 .. Len(stdout'), stdout'[i].kind = "Answer"
                 PROVE  stdout'[i].to \in replied'
      OBVIOUS
    <2>1. CASE i = Len(stdout) + 1
      BY <1>4, <2>1
    <2>2. CASE i \in 1 .. Len(stdout)
      BY <1>4, <2>2 DEF AnswerInv, Answered
    <2> QED
      BY <1>4, <1>5, <2>1, <2>2
  <1> QED
    BY <1>1, <1>3, <1>6 DEF AnswerInv, AnswerTypes, Answered

LEMMA ChildKeepsAnswers ==
    ASSUME AnswerInv, ChildStep
    PROVE  AnswerInv' /\ replied \subseteq replied'
  <1>1. CASE ChildReads \/ ChildExits
    BY <1>1 DEF ChildReads, ChildExits, AnswerInv, AnswerTypes, Answered, callVars
  <1>2. CASE ChildReports
    <2>1. [kind |-> "Report"] \in Lines
      BY DEF Lines
    <2> QED
      BY <1>2, <2>1, EmitsKeepsAnswers DEF ChildReports, AnswerInv, AnswerTypes
  <1>3. CASE ChildStrays
    <2>1. PICK kind \in {"Malformed", "Oversized"} : Emits([kind |-> kind])
      BY <1>3 DEF ChildStrays
    <2>2. [kind |-> kind] \in Lines /\ [kind |-> kind].kind # "Answer"
      BY DEF Lines
    <2> QED
      BY <1>3, <2>1, <2>2, EmitsKeepsAnswers DEF ChildStrays, AnswerInv, AnswerTypes
  <1>4. ASSUME NEW c \in Requests, ChildAnswers(c)
        PROVE  AnswerInv' /\ replied \subseteq replied'
    <2>1. replied' = replied \cup {c}
      BY <1>4 DEF ChildAnswers
    <2>2. PICK v \in Verdicts : Emits([kind |-> "Answer", to |-> c, verdict |-> v])
      BY <1>4 DEF ChildAnswers
    <2>3. [kind |-> "Answer", to |-> c, verdict |-> v] \in Lines
      BY DEF Lines
    <2>4. replied' \subseteq Requests /\ replied \subseteq replied'
      BY <2>1 DEF AnswerInv, AnswerTypes
    <2> QED
      BY <2>1, <2>2, <2>3, <2>4, EmitsKeepsAnswers
  <1> QED
    BY <1>1, <1>2, <1>3, <1>4 DEF ChildStep

LEMMA TaskKeepsAnswers ==
    ASSUME AnswerInv, TaskStep
    PROVE  AnswerInv' /\ replied \subseteq replied'
  <1> USE DEF childVars, lineVars
  <1>1. CASE Dispatches
    <2>1. stdout # <<>> /\ stdout' = Tail(stdout) /\ UNCHANGED replied
      BY <1>1 DEF Dispatches
    <2>2. stdout \in Seq(Lines)
      BY DEF AnswerInv, AnswerTypes
    <2>3. stdout' \in Seq(Lines) /\ Len(stdout) \in Nat /\ Len(stdout) > 0
      BY <2>1, <2>2
    <2>4. /\ Len(stdout') = Len(stdout) - 1
          /\ \A i \in 1 .. Len(stdout') : stdout'[i] = stdout[i + 1] /\ i + 1 \in 1 .. Len(stdout)
      BY <2>1, <2>2, <2>3
    <2>5. \A i \in 1 .. Len(stdout') : stdout'[i].kind = "Answer" => stdout'[i].to \in replied'
      BY <2>1, <2>4 DEF AnswerInv, Answered
    <2>6. Head(stdout) = stdout[1] /\ Head(stdout) \in Lines
      BY <2>2, <2>3
    <2>7. /\ answer' \in [Requests -> Verdicts \cup {"ResultUnknown", "None"}]
          /\ pending' \subseteq Requests
          /\ \A c \in Requests : answer'[c] \in Verdicts => c \in replied'
      <3>1. CASE Head(stdout).kind # "Answer"
        <4>1. UNCHANGED <<pending, answer>>
          BY <1>1, <3>1 DEF Dispatches
        <4> QED
          BY <2>1, <4>1 DEF AnswerInv, AnswerTypes, Answered
      <3>2. CASE Head(stdout).kind = "Answer"
        <4>1. Head(stdout).to \in Requests /\ Head(stdout).verdict \in Verdicts
          BY <2>6, <3>2 DEF Lines
        <4>2. Head(stdout).to \in replied
          BY <2>3, <2>6, <3>2 DEF AnswerInv, Answered
        <4>3. \/ UNCHANGED <<pending, answer>>
              \/ /\ pending' = pending \ {Head(stdout).to}
                 /\ answer' = [answer EXCEPT ![Head(stdout).to] = Head(stdout).verdict]
          BY <1>1, <3>2 DEF Dispatches, Resolve
        <4> QED
          BY <2>1, <4>1, <4>2, <4>3 DEF AnswerInv, AnswerTypes, Answered
      <3> QED
        BY <3>1, <3>2
    <2> QED
      BY <2>1, <2>3, <2>5, <2>7 DEF AnswerInv, AnswerTypes, Answered
  <1>2. CASE ReaderEnds \/ MonitorCloses
    BY <1>2 DEF ReaderEnds, MonitorCloses, AnswerInv, AnswerTypes, Answered, callVars
  <1>3. CASE Drains
    BY <1>3 DEF Drains, AnswerInv, AnswerTypes, Answered, Verdicts
  <1> QED
    BY <1>1, <1>2, <1>3 DEF TaskStep

LEMMA LeaseKeepsAnswers ==
    ASSUME LeaseStep
    PROVE  UNCHANGED <<answer, stdout, replied, pending>>
  <1> USE DEF childVars, callVars
  <1>1. CASE \/ Acquires \/ AcquireFails \/ Subscribes \/ Hears \/ Shutdown \/ DropLease
             \/ DropInner
    BY <1>1 DEF Acquires, AcquireFails, Subscribes, Hears, Shutdown, DropLease, DropInner
  <1>2. CASE LaunchGoesOn \/ LaunchFails \/ StartFails \/ PollFindsClosed \/ RunEnds
    BY <1>2 DEF LaunchGoesOn, LaunchFails, StartFails, PollFindsClosed, RunEnds, Goes
  <1> QED
    BY <1>1, <1>2 DEF LeaseStep

LEMMA CallKeepsAnswers ==
    ASSUME AnswerInv, NEW c \in Callers, CallStep(c)
    PROVE  AnswerInv' /\ UNCHANGED replied
  <1> USE DEF childVars
  <1>1. UNCHANGED <<answer, stdout, replied>>
    BY DEF CallStep, Begins, Locks, Registers, WritesSome, WriteEnds, WriteFails, Breaks,
           Concludes, Cancelled, callVars
  <1>2. pending' \subseteq pending \cup ({c} \cap Requests)
    BY DEF CallStep, Begins, Locks, Registers, WritesSome, WriteEnds, WriteFails, Breaks,
           Concludes, Cancelled
  <1> QED
    BY <1>1, <1>2 DEF AnswerInv, AnswerTypes, Answered

-----------------------------------------------------------------------------
\* What a caller is told.

LEMMA CallKeepsVerdicts ==
    ASSUME TransportInv, NEW c \in Callers, CallStep(c)
    PROVE  VerdictTrue'
  <1> USE DEF lineVars, callVars
  <1>0. CallTypes /\ Progress /\ AnswerInv /\ UNCHANGED replied
    BY CallKeepsAnswers DEF TransportInv, FrameInv
  <1>1. ASSUME NEW o, Returns(c, o), UNCHANGED written,
               o = "NotSent" => written[c] = "None",
               o \in Verdicts \cup {"Written"} => written[c] = "Whole",
               o \in Verdicts => c \in replied
        PROVE  VerdictTrue'
    BY <1>0, <1>1 DEF Returns, TransportInv, VerdictTrue, CallTypes
  <1>2. ASSUME UNCHANGED told, \A d \in Callers \ {c} : written'[d] = written[d],
               at[c] # "Done"
        PROVE  VerdictTrue'
    BY <1>0, <1>2 DEF Progress, TransportInv, VerdictTrue, Verdicts
  <1>3. CASE Begins(c) \/ Registers(c) \/ WritesSome(c)
    BY <1>0, <1>2, <1>3 DEF Begins, Registers, WritesSome, CallTypes
  <1>4. CASE Locks(c)
    BY <1>0, <1>1, <1>2, <1>4 DEF Locks, Progress, Verdicts
  <1>5. CASE WriteEnds(c)
    BY <1>1, <1>2, <1>5 DEF WriteEnds, Verdicts
  <1>6. CASE Breaks(c, "Dropped") \/ Breaks(c, "ResultUnknown")
    BY <1>1, <1>6 DEF Breaks, Verdicts
  <1>7. CASE Concludes(c)
    <2>1. c \in Requests /\ written[c] = "Whole"
      BY <1>0, <1>7 DEF Concludes, CallTypes, Progress
    <2>2. /\ Returns(c, IF answer[c] = "None" THEN "ResultUnknown" ELSE answer[c])
          /\ UNCHANGED written
      BY <1>7 DEF Concludes
    <2>3. answer[c] \in Verdicts \cup {"ResultUnknown", "None"}
      BY <1>0, <2>1 DEF AnswerInv, AnswerTypes
    <2>4. answer[c] \in Verdicts => c \in replied
      BY <1>0, <2>1 DEF AnswerInv, Answered
    <2>5. CASE answer[c] = "None"
      BY <1>1, <2>2, <2>5 DEF Verdicts
    <2>6. CASE answer[c] # "None"
      <3>1. Returns(c, answer[c])
        BY <2>2, <2>6
      <3>2. answer[c] # "NotSent"
        BY <2>3 DEF Verdicts
      <3> QED
        BY <1>1, <2>1, <2>2, <2>4, <3>1, <3>2
    <2> QED
      BY <2>5, <2>6
  <1>8. CASE Cancelled(c)
    <2>1. Returns(c, "Dropped") /\ UNCHANGED written
      BY <1>8 DEF Cancelled, Breaks
    <2> QED
      BY <1>1, <2>1 DEF Verdicts
  <1> QED
    BY <1>3, <1>4, <1>5, <1>6, <1>7, <1>8 DEF CallStep, WriteFails

LEMMA TransportInvStep ==
    ASSUME TransportInv, [Next]_vars
    PROVE  TransportInv'
  <1>0. FrameInv /\ AnswerInv /\ VerdictTrue /\ CallTypes /\ AnswerTypes
    BY DEF TransportInv, FrameInv, AnswerInv
  <1>1. ASSUME NEW c \in Callers, CallStep(c)
        PROVE  TransportInv'
    BY <1>0, <1>1, CallKeepsFrames, CallKeepsAnswers, CallKeepsVerdicts DEF TransportInv
  <1>2. CASE LeaseStep \/ ChildStep \/ TaskStep
    <2>1. FrameInv' /\ UNCHANGED <<told, written>>
      BY <1>0, <1>2, OthersKeepFrames, FramesStay DEF lineVars
    <2>2. AnswerInv' /\ replied \subseteq replied'
      <3>1. CASE LeaseStep
        BY <1>0, <3>1, LeaseKeepsAnswers DEF AnswerInv, AnswerTypes, Answered
      <3> QED
        BY <1>0, <1>2, <3>1, ChildKeepsAnswers, TaskKeepsAnswers
    <2> QED
      BY <1>0, <2>1, <2>2 DEF TransportInv, VerdictTrue
  <1>3. CASE UNCHANGED vars
    <2>1. /\ UNCHANGED <<holder, at, told, lineVars, closed>>
          /\ UNCHANGED <<answer, stdout, pending, replied, written>>
      BY <1>3 DEF vars, callVars, lineVars, childVars, closeVars
    <2>2. closed \in BOOLEAN
      BY <1>0 DEF CallTypes
    <2>3. FrameInv'
      BY <1>0, <2>1, <2>2, FramesStay
    <2> QED
      BY <1>0, <2>1, <2>3 DEF TransportInv, AnswerInv, AnswerTypes, Answered, VerdictTrue
  <1> QED
    BY <1>1, <1>2, <1>3 DEF Next

\* The frames of stdin stay whole, whoever is interrupted while it writes
\* (WriteFence, the lock of stdin and the check under it).
THEOREM FramesKept == Spec => []FramesWhole
  <1>1. TransportInv => FramesWhole
    BY DEF TransportInv, FrameInv, Frames
  <1> QED
    BY TransportInvInit, TransportInvStep, <1>1, PTL DEF Spec

\* A caller told NotSent may try again; one told an answer has it from the child
\* (TransportError::NotSent against ResultUnknown).
THEOREM VerdictsKept == Spec => []VerdictTrue
  <1>1. TransportInv => VerdictTrue
    BY DEF TransportInv
  <1> QED
    BY TransportInvInit, TransportInvStep, <1>1, PTL DEF Spec

-----------------------------------------------------------------------------
(***************************************************************************)
(* Counting the lines and events of a queue.                               *)
(***************************************************************************)

Marks(q, S) == {i \in 1 .. Len(q) : q[i] \in S}
Count(q, S) == Cardinality(Marks(q, S))

LEMMA CountNone ==
    ASSUME NEW S
    PROVE  Count(<<>>, S) = 0
  <1>1. Marks(<<>>, S) = {}
    BY DEF Marks
  <1> QED
    BY <1>1, FS_EmptySet DEF Count

LEMMA CountType ==
    ASSUME NEW T, NEW q \in Seq(T), NEW S
    PROVE  /\ IsFiniteSet(Marks(q, S)) /\ Count(q, S) \in Nat
           /\ Count(q, S) <= Len(q)
           /\ \A i \in 1 .. Len(q) : q[i] \in S => Count(q, S) > 0
  <1>1. IsFiniteSet(1 .. Len(q)) /\ Cardinality(1 .. Len(q)) = Len(q)
    <2>1. Len(q) \in Nat /\ 1 \in Int /\ Len(q) \in Int
      OBVIOUS
    <2>2. /\ IsFiniteSet(1 .. Len(q))
          /\ Cardinality(1 .. Len(q)) = IF 1 > Len(q) THEN 0 ELSE Len(q) - 1 + 1
      BY <2>1, FS_Interval
    <2> QED
      BY <2>1, <2>2
  <1>2. Marks(q, S) \subseteq 1 .. Len(q)
    BY DEF Marks
  <1>3. IsFiniteSet(Marks(q, S)) /\ Cardinality(Marks(q, S)) <= Len(q)
    BY <1>1, <1>2, FS_Subset
  <1>4. Cardinality(Marks(q, S)) \in Nat
    BY <1>3, FS_CardinalityType
  <1>5. ASSUME NEW i \in 1 .. Len(q), q[i] \in S
        PROVE  Count(q, S) > 0
    <2>1. Marks(q, S) # {}
      BY <1>5 DEF Marks
    <2>2. Cardinality(Marks(q, S)) # 0
      BY <1>3, <2>1, FS_EmptySet
    <2> QED
      BY <1>4, <2>2 DEF Count
  <1> QED
    BY <1>3, <1>4, <1>5 DEF Count

LEMMA CountAppend ==
    ASSUME NEW T, NEW q \in Seq(T), NEW e \in T, NEW S
    PROVE  /\ Append(q, e) \in Seq(T) /\ Len(Append(q, e)) = Len(q) + 1
           /\ Count(Append(q, e), S) = Count(q, S) + (IF e \in S THEN 1 ELSE 0)
  <1> DEFINE p == Append(q, e)
  <1>1. /\ p \in Seq(T) /\ Len(p) = Len(q) + 1 /\ Len(q) \in Nat
        /\ \A i \in 1 .. Len(q) : p[i] = q[i]
        /\ p[Len(q) + 1] = e
    OBVIOUS
  <1> HIDE DEF p
  <1>2. IsFiniteSet(Marks(q, S)) /\ Count(q, S) \in Nat
    BY CountType
  <1>3. CASE e \in S
    <2>1. Marks(p, S) = Marks(q, S) \cup {Len(q) + 1}
      BY <1>1, <1>3 DEF Marks
    <2>2. Len(q) + 1 \notin Marks(q, S)
      BY <1>1 DEF Marks
    <2> QED
      BY <1>1, <1>2, <1>3, <2>1, <2>2, FS_AddElement DEF Count, p
  <1>4. CASE e \notin S
    <2>1. Marks(p, S) = Marks(q, S)
      BY <1>1, <1>4 DEF Marks
    <2> QED
      BY <1>1, <1>2, <1>4, <2>1 DEF Count, p
  <1> QED
    BY <1>3, <1>4

LEMMA CountTail ==
    ASSUME NEW T, NEW q \in Seq(T), q # <<>>, NEW S
    PROVE  /\ Tail(q) \in Seq(T) /\ Head(q) \in T /\ Len(Tail(q)) = Len(q) - 1
           /\ Count(q, S) = Count(Tail(q), S) + (IF Head(q) \in S THEN 1 ELSE 0)
  <1> DEFINE p == Tail(q)
             M == Marks(p, S)
             N == Marks(q, S) \ {1}
             f == [i \in M |-> i + 1]
  <1>1. /\ p \in Seq(T) /\ Len(q) \in Nat \ {0} /\ Len(p) = Len(q) - 1
        /\ \A i \in 1 .. Len(q) - 1 : p[i] = q[i + 1]
        /\ Head(q) = q[1] /\ Head(q) \in T
    OBVIOUS
  <1> HIDE DEF p
  <1>2. IsFiniteSet(M) /\ Cardinality(M) = Count(p, S) /\ Count(p, S) \in Nat
    BY <1>1, CountType DEF Count
  <1>3. M \subseteq Nat /\ \A i \in M : i + 1 \in N
    BY <1>1 DEF Marks
  <1>4. \A j \in N : j - 1 \in M /\ (j - 1) + 1 = j
    BY <1>1 DEF Marks
  <1>5. f \in [M -> N]
    BY <1>3
  <1>6. \A i, j \in M : f[i] = f[j] => i = j
    BY <1>3
  <1>7. \A j \in N : \E i \in M : f[i] = j
    BY <1>4
  <1>8. f \in Bijection(M, N)
    <2> HIDE DEF f, M, N
    <2> QED
      BY <1>5, <1>6, <1>7, Fun_IsBij
  <1>9. Cardinality(N) = Count(p, S)
    <2>1. ExistsBijection(M, N)
      BY <1>8, Zenon DEF ExistsBijection
    <2> HIDE DEF f, M, N
    <2> QED
      BY <1>2, <2>1, FS_Bijection
  <1>10. IsFiniteSet(Marks(q, S)) /\ Count(q, S) \in Nat
    BY CountType
  <1>11. Cardinality(N) = IF 1 \in Marks(q, S) THEN Count(q, S) - 1 ELSE Count(q, S)
    BY <1>10, FS_RemoveElement DEF Count
  <1>12. 1 \in Marks(q, S) <=> Head(q) \in S
    BY <1>1 DEF Marks
  <1> QED
    BY <1>1, <1>2, <1>9, <1>10, <1>11, <1>12 DEF p

-----------------------------------------------------------------------------
(***************************************************************************)
(* The child's events.                                                     *)
(***************************************************************************)

Reports == {l \in Lines : l.kind = "Report"}
Noise   == {l \in Lines : l.kind # "Answer"}

\* What the frames and the answers leave open.
RestTypes ==
    /\ stage \in {"Waits", "Launches", "Announces", "Leased", "Ends", "Drops", "Gone"}
    /\ permit \in BOOLEAN
    /\ child \in {"None", "Running", "Exited", "Killed"}
    /\ draining \in BOOLEAN
    /\ \A c \in pending : at[c] \in {"Writes", "Sent"}
    /\ taken \in Nat /\ taken <= Len(stdin)
    /\ reading \in BOOLEAN
    /\ spent \in [reports : 0 .. MaxReports, strays : 0 .. MaxStrays]
FeedTypes ==
    /\ subscribed \in BOOLEAN /\ lagged \in BOOLEAN
    /\ feed \in Seq(Events)
    /\ published \in Nat /\ heard \in Nat

\* The run subscribes before its turn can begin, and the turn begins before
\* the child reports of it.
Subscribed ==
    /\ at[StartTurn] # "Idle" => subscribed
    /\ spent.reports > 0 => at[StartTurn] # "Idle"

\* Every event the child has sent is on its way to the reader or published;
\* every place taken in the channel is that of a line the child wrote, or of
\* the closing.
Reported ==
    /\ published + Count(stdout, Reports) = spent.reports
    /\ heard + Count(feed, {"Report"}) <= published
Placed ==
    LET places == Len(feed) + Count(stdout, Noise)
        lines == spent.reports + spent.strays
    IN  places <= lines + 1 /\ (~closed => places <= lines)
AllHeard ==
    spent.reports + spent.strays < EventCapacity
    => published = heard + Count(feed, {"Report"})

FeedInv == FeedTypes /\ Reported /\ Placed /\ AllHeard
EventInv == RestTypes /\ Subscribed /\ FeedInv

LEMMA SpentType ==
    ASSUME RestTypes
    PROVE  spent.reports \in 0 .. MaxReports /\ spent.strays \in 0 .. MaxStrays
  BY DEF RestTypes

\* One event into the channel.
LEMMA Publishes ==
    ASSUME FeedTypes, NEW e \in Events, Publish(e)
    PROVE  /\ feed' \in Seq(Events) /\ lagged' \in BOOLEAN /\ Len(feed') <= Len(feed) + 1
           /\ published' = published + (IF e = "Report" THEN 1 ELSE 0)
           /\ Count(feed', {"Report"}) <=
                 Count(feed, {"Report"}) + (IF e = "Report" THEN 1 ELSE 0)
           /\ Len(feed) < EventCapacity /\ (subscribed \/ e # "Report") =>
                 Count(feed', {"Report"}) =
                    Count(feed, {"Report"}) + (IF e = "Report" THEN 1 ELSE 0)
  <1>1. /\ feed \in Seq(Events) /\ subscribed \in BOOLEAN /\ lagged \in BOOLEAN
        /\ EventCapacity \in Nat \ {0}
    BY BoundsAssumption DEF FeedTypes
  <1>2. Len(feed) \in Nat /\ Count(feed, {"Report"}) \in Nat
    BY <1>1, CountType
  <1>3. CASE ~subscribed
    BY <1>1, <1>2, <1>3 DEF Publish
  <1>4. CASE subscribed /\ Len(feed) # EventCapacity
    <2>1. feed' = Append(feed, e)
      BY <1>4 DEF Publish
    <2>2. /\ Append(feed, e) \in Seq(Events) /\ Len(Append(feed, e)) = Len(feed) + 1
          /\ Count(Append(feed, e), {"Report"}) =
                Count(feed, {"Report"}) + (IF e \in {"Report"} THEN 1 ELSE 0)
      BY <1>1, CountAppend
    <2> QED
      BY <1>1, <1>2, <1>4, <2>1, <2>2 DEF Publish
  <1>5. CASE subscribed /\ Len(feed) = EventCapacity
    <2>1. PICK t : t = Tail(feed)
      OBVIOUS
    <2>2. feed' = Append(t, e) /\ feed # <<>>
      BY <1>1, <1>5, <2>1 DEF Publish
    <2>3. /\ t \in Seq(Events) /\ Len(t) = Len(feed) - 1
          /\ Count(feed, {"Report"}) = Count(t, {"Report"})
                                       + (IF Head(feed) \in {"Report"} THEN 1 ELSE 0)
      BY <1>1, <2>1, <2>2, CountTail
    <2>4. Count(t, {"Report"}) \in Nat
      BY <2>3, CountType
    <2>9. /\ Append(t, e) \in Seq(Events) /\ Len(Append(t, e)) = Len(t) + 1
          /\ Count(Append(t, e), {"Report"}) =
                Count(t, {"Report"}) + (IF e \in {"Report"} THEN 1 ELSE 0)
      BY <2>3, CountAppend
    <2>5. Len(feed') = Len(feed) /\ feed' \in Seq(Events)
      BY <1>2, <2>2, <2>3, <2>9
    <2>6. Count(feed', {"Report"}) <=
             Count(feed, {"Report"}) + (IF e = "Report" THEN 1 ELSE 0)
      BY <1>2, <2>2, <2>3, <2>4, <2>9
    <2>7. lagged' \in BOOLEAN /\ published' = published + (IF e = "Report" THEN 1 ELSE 0)
      BY <1>1 DEF Publish
    <2>8. Len(feed') <= Len(feed) + 1 /\ ~(Len(feed) < EventCapacity)
      BY <1>1, <1>2, <1>5, <2>5
    <2> QED
      BY <2>5, <2>6, <2>7, <2>8
  <1> QED
    BY <1>1, <1>3, <1>4, <1>5

\* The event of the closing always has its place; a line over the limit may be
\* what closes.
LEMMA ClosesFeed ==
    ASSUME RestTypes, FeedInv, closed \in BOOLEAN, Close,
           spent' = spent, subscribed' = subscribed, heard' = heard,
           AnswerTypes, AnswerTypes',
           Count(stdout', Reports) = Count(stdout, Reports),
           Count(stdout', Noise) <= Count(stdout, Noise)
    PROVE  FeedInv'
  <1>0. /\ Count(stdout, Noise) \in Nat /\ Count(stdout', Noise) \in Nat
        /\ Count(stdout, Reports) \in Nat
    <2>1. stdout \in Seq(Lines) /\ stdout' \in Seq(Lines)
      BY DEF AnswerTypes
    <2> QED
      BY <2>1, CountType
  <1>3. feed \in Seq(Events) /\ FeedTypes
    BY DEF FeedInv, FeedTypes
  <1>4. /\ published \in Nat /\ heard \in Nat
        /\ spent.reports \in Nat /\ spent.strays \in Nat
        /\ EventCapacity \in Nat
    BY SpentType, BoundsAssumption DEF FeedInv, FeedTypes
  <1>5. Len(feed) \in Nat /\ Count(feed, {"Report"}) \in Nat
    BY <1>3, CountType
  <1>1. CASE closed
    <2>1. UNCHANGED <<closed, feed, lagged, published>>
      BY <1>1 DEF Close, closeVars, feedVars
    <2>2. FeedTypes' /\ Reported' /\ AllHeard'
      BY <2>1 DEF FeedInv, FeedTypes, Reported, AllHeard
    <2>3. Placed'
      <3>1. Len(feed) + Count(stdout, Noise) <= spent.reports + spent.strays + 1
        BY DEF FeedInv, Placed
      <3>2. Len(feed) + Count(stdout', Noise) <= spent.reports + spent.strays + 1
        BY <1>0, <1>4, <1>5, <3>1
      <3> QED
        BY <1>1, <2>1, <3>2 DEF Placed
    <2> QED
      BY <2>2, <2>3 DEF FeedInv
  <1>2. CASE ~closed
    <2>1. closed' = TRUE /\ Publish("Closed")
      BY <1>2 DEF Close
    <2>2. "Closed" \in Events /\ "Closed" # "Report"
      BY DEF Events
    <2>3. /\ feed' \in Seq(Events) /\ lagged' \in BOOLEAN /\ Len(feed') <= Len(feed) + 1
          /\ published' = published
          /\ Count(feed', {"Report"}) <= Count(feed, {"Report"})
          /\ Len(feed) < EventCapacity => Count(feed', {"Report"}) = Count(feed, {"Report"})
      <3>1. PICK e : e = "Closed"
        OBVIOUS
      <3>2. e \in Events /\ Publish(e) /\ e # "Report"
        BY <2>1, <2>2, <3>1
      <3>3. /\ feed' \in Seq(Events) /\ lagged' \in BOOLEAN /\ Len(feed') <= Len(feed) + 1
            /\ published' = published + (IF e = "Report" THEN 1 ELSE 0)
            /\ Count(feed', {"Report"}) <=
                 Count(feed, {"Report"}) + (IF e = "Report" THEN 1 ELSE 0)
            /\ Len(feed) < EventCapacity /\ (subscribed \/ e # "Report") =>
                 Count(feed', {"Report"}) =
                    Count(feed, {"Report"}) + (IF e = "Report" THEN 1 ELSE 0)
        BY <1>3, <3>2, Publishes
      <3> QED
        BY <1>4, <1>5, <3>2, <3>3
    <2>5. Len(feed') <= Len(feed) + 1
      BY <2>3
    <2>6. /\ published' = published
          /\ Count(feed', {"Report"}) <= Count(feed, {"Report"})
          /\ Len(feed) < EventCapacity => Count(feed', {"Report"}) = Count(feed, {"Report"})
      BY <2>3
    <2>4. Len(feed') \in Nat /\ Count(feed', {"Report"}) \in Nat
      BY <2>3, CountType
    <2>7. Len(feed) + Count(stdout, Noise) <= spent.reports + spent.strays
      BY <1>2 DEF FeedInv, Placed
    <2>8. FeedTypes'
      BY <1>3, <2>3 DEF FeedTypes
    <2>9. Reported'
      BY <1>4, <1>5, <2>6, <2>4 DEF FeedInv, Reported
    <2>10. Placed'
      <3>1. Len(feed') + Count(stdout', Noise) <= spent.reports + spent.strays + 1
        BY <1>0, <1>4, <1>5, <2>5, <2>4, <2>7
      <3> QED
        BY <2>1, <3>1 DEF Placed
    <2>11. AllHeard'
      <3>1. SUFFICES ASSUME spent.reports + spent.strays < EventCapacity
                     PROVE  published = heard + Count(feed', {"Report"})
        BY <2>6 DEF AllHeard
      <3>2. Len(feed) < EventCapacity
        BY <1>0, <1>4, <1>5, <2>7, <3>1
      <3> QED
        BY <2>6, <3>1, <3>2 DEF FeedInv, AllHeard
    <2> QED
      BY <2>8, <2>9, <2>10, <2>11 DEF FeedInv
  <1> QED
    BY <1>1, <1>2

LEMMA FeedStays ==
    ASSUME FeedInv,
           UNCHANGED <<closed, spent, stdout, subscribed, feedVars, heard>>
    PROVE  FeedInv'
  BY DEF feedVars, FeedInv, FeedTypes, Reported, Placed, AllHeard

\* One line of the child onto its stdout.
LEMMA EmitsFeed ==
    ASSUME RestTypes, RestTypes', FeedInv, AnswerTypes, NEW line \in Lines,
           stdout' = Append(stdout, line),
           UNCHANGED <<closed, subscribed, feedVars, heard>>,
           spent'.reports = spent.reports + (IF line.kind = "Report" THEN 1 ELSE 0),
           spent'.strays = spent.strays
                           + (IF line.kind \in {"Malformed", "Oversized"} THEN 1 ELSE 0)
    PROVE  FeedInv'
  <1>1. /\ Count(stdout', Reports)
             = Count(stdout, Reports) + (IF line.kind = "Report" THEN 1 ELSE 0)
        /\ Count(stdout', Noise)
             = Count(stdout, Noise) + (IF line.kind # "Answer" THEN 1 ELSE 0)
    <2>1. stdout \in Seq(Lines)
      BY DEF AnswerTypes
    <2>2. /\ line \in Reports <=> line.kind = "Report"
          /\ line \in Noise <=> line.kind # "Answer"
      BY DEF Reports, Noise
    <2>3. Count(stdout', Reports)
             = Count(stdout, Reports) + (IF line \in Reports THEN 1 ELSE 0)
      BY <2>1, CountAppend
    <2>4. Count(stdout', Noise)
             = Count(stdout, Noise) + (IF line \in Noise THEN 1 ELSE 0)
      BY <2>1, CountAppend
    <2> QED
      BY <2>2, <2>3, <2>4
  <1>2. /\ Count(stdout, Noise) \in Nat /\ Count(stdout, Reports) \in Nat
        /\ Count(stdout', Noise) \in Nat /\ Count(stdout', Reports) \in Nat
    <2>1. stdout \in Seq(Lines)
      BY DEF AnswerTypes
    <2> QED
      BY <1>1, <2>1, CountType
  <1>3. /\ published \in Nat /\ heard \in Nat
        /\ Len(feed) \in Nat /\ Count(feed, {"Report"}) \in Nat
    BY CountType DEF FeedInv, FeedTypes
  <1>4. /\ spent.reports \in Nat /\ spent.strays \in Nat /\ EventCapacity \in Nat
        /\ spent'.reports \in Nat /\ spent'.strays \in Nat
    BY BoundsAssumption DEF RestTypes
  <1>5. UNCHANGED <<closed, subscribed, feed, lagged, published, heard>>
    BY DEF feedVars
  <1>6. line.kind \in {"Answer", "Report", "Malformed", "Oversized"}
    BY DEF Lines
  <1>7. FeedTypes'
    BY <1>5 DEF FeedInv, FeedTypes
  <1>8. Reported'
    BY <1>1, <1>2, <1>3, <1>4, <1>5 DEF FeedInv, Reported
  <1>9. Placed'
    <2>1. /\ Len(feed) + Count(stdout, Noise) <= spent.reports + spent.strays + 1
          /\ ~closed => Len(feed) + Count(stdout, Noise) <= spent.reports + spent.strays
      BY DEF FeedInv, Placed
    <2>2. /\ Len(feed) + Count(stdout', Noise) <= spent'.reports + spent'.strays + 1
          /\ ~closed => Len(feed) + Count(stdout', Noise) <= spent'.reports + spent'.strays
      <3>1. spent'.reports + spent'.strays = spent.reports + spent.strays
                                       + (IF line.kind # "Answer" THEN 1 ELSE 0)
        BY <1>4, <1>6
      <3>2. CASE line.kind = "Answer"
        BY <1>1, <1>2, <1>3, <1>4, <2>1, <3>1, <3>2
      <3>3. CASE line.kind # "Answer"
        BY <1>1, <1>2, <1>3, <1>4, <2>1, <3>1, <3>3
      <3> QED
        BY <3>2, <3>3
    <2> QED
      BY <1>5, <2>2 DEF Placed
  <1>10. AllHeard'
    BY <1>4, <1>5 DEF FeedInv, AllHeard
  <1> QED
    BY <1>7, <1>8, <1>9, <1>10 DEF FeedInv

LEMMA StdoutCounts ==
    ASSUME AnswerTypes
    PROVE  Count(stdout, Noise) \in Nat /\ Count(stdout, Reports) \in Nat
  <1>1. stdout \in Seq(Lines)
    BY DEF AnswerTypes
  <1> QED
    BY <1>1, CountType

\* One event to the run.
LEMMA HearsFeed ==
    ASSUME AnswerTypes, EventInv, Hears
    PROVE  FeedInv'
  <1>1. /\ feed \in Seq(Events) /\ published \in Nat /\ heard \in Nat
        /\ Len(feed) \in Nat /\ Count(feed, {"Report"}) \in Nat
    BY CountType DEF EventInv, FeedInv, FeedTypes
  <1>2. UNCHANGED <<closed, spent, stdout, subscribed, published>>
    BY DEF Hears, childVars, closeVars
  <1>3. CASE lagged
    <2>1. lagged' = FALSE /\ UNCHANGED <<feed, heard>>
      BY <1>3 DEF Hears
    <2> QED
      BY <1>2, <2>1 DEF EventInv, FeedInv, FeedTypes, Reported, Placed, AllHeard
  <1>4. CASE ~lagged
    <2>1. /\ feed # <<>> /\ feed' = Tail(feed) /\ UNCHANGED lagged
          /\ heard' = heard + (IF Head(feed) = "Report" THEN 1 ELSE 0)
      BY <1>1, <1>4 DEF Hears
    <2>2. /\ feed' \in Seq(Events) /\ Len(feed') = Len(feed) - 1
          /\ Count(feed, {"Report"})
               = Count(feed', {"Report"}) + (IF Head(feed) \in {"Report"} THEN 1 ELSE 0)
      BY <1>1, <2>1, CountTail
    <2>3. Len(feed') \in Nat /\ Count(feed', {"Report"}) \in Nat
      BY <2>2, CountType
    <2>4. heard' + Count(feed', {"Report"}) = heard + Count(feed, {"Report"})
      BY <1>1, <2>1, <2>2, <2>3
    <2>5. FeedTypes'
      BY <1>1, <1>2, <2>1, <2>2 DEF EventInv, FeedInv, FeedTypes
    <2>6. Reported' /\ AllHeard'
      BY <1>2, <2>4 DEF EventInv, FeedInv, Reported, AllHeard
    <2>7. Placed'
      <3>1. Count(stdout, Noise) \in Nat /\ spent.reports \in Nat /\ spent.strays \in Nat
        <4>1. Count(stdout, Noise) \in Nat
          BY StdoutCounts
        <4> QED
          BY <4>1 DEF EventInv, RestTypes
      <3>2. /\ Len(feed) + Count(stdout, Noise) <= spent.reports + spent.strays + 1
            /\ ~closed => Len(feed) + Count(stdout, Noise) <= spent.reports + spent.strays
        BY DEF EventInv, FeedInv, Placed
      <3>3. /\ Len(feed') + Count(stdout, Noise) <= spent.reports + spent.strays + 1
            /\ ~closed => Len(feed') + Count(stdout, Noise) <= spent.reports + spent.strays
        BY <1>1, <2>2, <2>3, <3>1, <3>2
      <3> QED
        BY <1>2, <3>3 DEF Placed
    <2> QED
      BY <2>5, <2>6, <2>7 DEF FeedInv
  <1> QED
    BY <1>3, <1>4 DEF EventInv, FeedInv, FeedTypes

LEMMA LeaseKeepsEvents ==
    ASSUME TransportInv, TransportInv', EventInv, LeaseStep
    PROVE  EventInv'
  <1> USE DEF TransportInv, AnswerInv
  <1>1. /\ UNCHANGED <<at, spent, pending, taken, stdin, stdout, reading>>
        /\ subscribed' \in BOOLEAN /\ (subscribed => subscribed')
    BY DEF LeaseStep, EventInv, FeedInv, FeedTypes,
           Acquires, AcquireFails, LaunchGoesOn, LaunchFails, Goes, Subscribes, StartFails,
           Hears, PollFindsClosed, RunEnds, Shutdown, DropLease, DropInner,
           childVars, closeVars, callVars, lineVars, leaseVars
  <1>2. stage' \in {"Waits", "Launches", "Announces", "Leased", "Ends", "Drops", "Gone"}
    BY DEF LeaseStep, EventInv, RestTypes,
           Acquires, AcquireFails, LaunchGoesOn, LaunchFails, Goes, Subscribes, StartFails,
           Hears, PollFindsClosed, RunEnds, Shutdown, DropLease, DropInner, leaseVars
  <1>3. permit' \in BOOLEAN /\ child' \in {"None", "Running", "Exited", "Killed"}
    BY DEF LeaseStep, EventInv, RestTypes, Kill,
           Acquires, AcquireFails, LaunchGoesOn, LaunchFails, Goes, Subscribes, StartFails,
           Hears, PollFindsClosed, RunEnds, Shutdown, DropLease, DropInner, leaseVars,
           childVars
  <1>4. draining' \in BOOLEAN
    BY DEF LeaseStep, EventInv, RestTypes, Close,
           Acquires, AcquireFails, LaunchGoesOn, LaunchFails, Goes, Subscribes, StartFails,
           Hears, PollFindsClosed, RunEnds, Shutdown, DropLease, DropInner, closeVars
  <1>5. RestTypes'
    BY <1>1, <1>2, <1>3, <1>4 DEF EventInv, RestTypes
  <1>6. Subscribed'
    BY <1>1 DEF EventInv, Subscribed
  <1>7. FeedInv'
    <2>1. CASE LaunchFails
      <3>1. CASE Close /\ Goes("Drops")
        <4>1. UNCHANGED <<spent, subscribed, heard, stdout>>
          BY <3>1 DEF Goes, childVars
        <4> QED
          BY <3>1, <4>1, ClosesFeed, StdoutCounts DEF EventInv, FrameInv, CallTypes
      <3>2. CASE UNCHANGED <<closeVars, feedVars>> /\ Goes("Ends")
        BY <3>2, FeedStays DEF Goes, childVars, closeVars, EventInv
      <3> QED
        BY <2>1, <3>1, <3>2 DEF LaunchFails
    <2>2. CASE Hears
      BY <2>2, HearsFeed
    <2>3. CASE Subscribes
      <3>1. UNCHANGED <<closed, spent, stdout, feed, lagged, published, heard>>
            /\ subscribed' \in BOOLEAN
        BY <1>1, <2>3 DEF Subscribes, childVars, closeVars, feedVars
      <3> QED
        BY <3>1 DEF EventInv, FeedInv, FeedTypes, Reported, Placed, AllHeard
    <2>4. CASE LaunchGoesOn \/ StartFails \/ PollFindsClosed \/ RunEnds
      <3>1. UNCHANGED <<closed, spent, stdout, subscribed, feedVars, heard>>
        BY <2>4 DEF LaunchGoesOn, StartFails, PollFindsClosed, RunEnds, Goes, childVars,
                    closeVars
      <3> QED
        BY <3>1, FeedStays DEF EventInv
    <2>5. CASE Acquires \/ AcquireFails \/ Shutdown \/ DropLease \/ DropInner
      <3>1. UNCHANGED <<closed, spent, stdout, subscribed, feedVars, heard>>
        BY <2>5 DEF Acquires, AcquireFails, Shutdown, DropLease, DropInner, childVars,
                    closeVars
      <3> QED
        BY <3>1, FeedStays DEF EventInv
    <2> QED
      BY <2>1, <2>2, <2>3, <2>4, <2>5 DEF LeaseStep
  <1> QED
    BY <1>5, <1>6, <1>7 DEF EventInv

LEMMA CallKeepsEvents ==
    ASSUME TransportInv, TransportInv', EventInv, NEW c \in Callers, CallStep(c)
    PROVE  EventInv'
  <1> USE DEF TransportInv, AnswerInv
  <1>0. /\ at \in [Callers -> Points] /\ stdin \in Seq(Callers) /\ pending \subseteq Requests
        /\ closed \in BOOLEAN /\ StartTurn \in Callers /\ taken \in Nat
        /\ Requests \subseteq Callers
        /\ \A d \in pending : at[d] \in {"Writes", "Sent"}
    BY CallersAssumption
       DEF FrameInv, CallTypes, AnswerTypes, Callers, EventInv, RestTypes
  <1>1. /\ UNCHANGED <<stage, permit, child, spent, taken, reading, stdout, subscribed, heard>>
    BY DEF CallStep, Begins, Locks, Registers, WritesSome, WriteEnds, WriteFails, Breaks,
           Concludes, Cancelled, leaseVars, childVars
  <1>2. /\ at[c] # "Idle" \/ Due(c)
        /\ \A d \in Callers \ {c} : at'[d] = at[d]
        /\ at'[c] # "Idle"
    BY <1>0
       DEF CallStep, Begins, Locks, Registers, WritesSome, WriteEnds, WriteFails, Breaks,
           Concludes, Cancelled, Returns, callVars
  <1>3. \A d \in pending' : at'[d] \in {"Writes", "Sent"}
    <2>1. CASE Begins(c)
      BY <1>0, <1>2, <2>1 DEF Begins
    <2>2. CASE Locks(c)
      BY <1>0, <1>2, <2>2 DEF Locks
    <2>3. CASE Registers(c)
      BY <1>0, <1>2, <2>3 DEF Registers
    <2>4. CASE WritesSome(c)
      BY <1>0, <2>4 DEF WritesSome, callVars
    <2>5. CASE WriteEnds(c)
      BY <1>0, <1>2, <2>5 DEF WriteEnds
    <2>6. CASE WriteFails(c) \/ Concludes(c) \/ Cancelled(c)
      <3>1. pending' = pending \ {c}
        BY <2>6 DEF WriteFails, Breaks, Concludes, Cancelled
      <3> QED
        BY <1>0, <1>2, <3>1
    <2> QED
      BY <2>1, <2>2, <2>3, <2>4, <2>5, <2>6 DEF CallStep
  <1>4. taken' <= Len(stdin') /\ taken' \in Nat
    <2>1. taken <= Len(stdin) /\ Len(stdin) \in Nat
      BY <1>0 DEF EventInv, RestTypes
    <2>2. stdin' = stdin \/ stdin' = Append(stdin, c)
      BY DEF CallStep, Begins, Locks, Registers, WritesSome, WriteEnds, WriteFails, Breaks,
             Concludes, Cancelled, lineVars
    <2>3. Len(Append(stdin, c)) = Len(stdin) + 1
      BY <1>0
    <2>4. Len(stdin') >= Len(stdin)
      BY <2>1, <2>2, <2>3
    <2> QED
      BY <1>0, <1>1, <2>1, <2>2, <2>3
  <1>5. draining' \in BOOLEAN
    BY DEF CallStep, Begins, Locks, Registers, WritesSome, WriteEnds, WriteFails, Breaks,
           Concludes, Cancelled, Close, closeVars, EventInv, RestTypes
  <1>6. RestTypes'
    BY <1>1, <1>3, <1>4, <1>5 DEF EventInv, RestTypes
  <1>7. Subscribed'
    <2>1. CASE c = StartTurn
      <3>1. at[StartTurn] # "Idle" \/ subscribed
        BY <1>2, <2>1, CallersAssumption DEF Due
      <3> QED
        BY <1>1, <1>2, <2>1, <3>1 DEF EventInv, Subscribed
    <2>2. CASE c # StartTurn
      BY <1>0, <1>1, <1>2, <2>2 DEF EventInv, Subscribed
    <2> QED
      BY <2>1, <2>2
  <1>8. FeedInv'
    <2>1. CASE Close
      <3>1. spent' = spent /\ subscribed' = subscribed /\ heard' = heard /\ stdout' = stdout
        BY <1>1
      <3> QED
        BY <1>0, <2>1, <3>1, ClosesFeed, StdoutCounts DEF EventInv
    <2>2. CASE UNCHANGED <<closeVars, feedVars>>
      BY <1>1, <2>2, FeedStays DEF closeVars, EventInv
    <2> QED
      BY <2>1, <2>2
         DEF CallStep, Begins, Locks, Registers, WritesSome, WriteEnds, WriteFails, Breaks,
             Concludes, Cancelled
  <1> QED
    BY <1>6, <1>7, <1>8 DEF EventInv

LEMMA ChildKeepsEvents ==
    ASSUME TransportInv, TransportInv', EventInv, ChildStep
    PROVE  EventInv'
  <1> USE DEF TransportInv, AnswerInv
  <1>0. /\ spent \in [reports : 0 .. MaxReports, strays : 0 .. MaxStrays]
        /\ MaxReports \in Nat /\ MaxStrays \in Nat
        /\ spent.reports \in 0 .. MaxReports /\ spent.strays \in 0 .. MaxStrays
        /\ taken \in Nat /\ taken <= Len(stdin) /\ Len(stdin) \in Nat
    BY BoundsAssumption DEF EventInv, RestTypes, FrameInv, CallTypes
  <1>1. UNCHANGED <<stage, permit, pending, at, stdin, draining, closed, reading,
                    subscribed, feedVars, heard>>
    BY DEF ChildStep, ChildReads, ChildReports, ChildStrays, ChildExits, ChildAnswers, Emits,
           leaseVars, callVars, lineVars, closeVars
  <1>2. CASE ChildReads
    <2>1. taken' = taken + 1 /\ taken < Len(stdin) /\ UNCHANGED <<child, spent, stdout>>
      BY <1>2 DEF ChildReads
    <2>2. taken' \in Nat /\ taken' <= Len(stdin)
      BY <1>0, <2>1
    <2>3. RestTypes'
      BY <1>1, <2>1, <2>2 DEF EventInv, RestTypes
    <2>4. Subscribed'
      BY <1>1, <2>1 DEF EventInv, Subscribed
    <2>5. FeedInv'
      BY <1>1, <2>1, FeedStays DEF EventInv
    <2> QED
      BY <2>3, <2>4, <2>5 DEF EventInv
  <1>3. CASE ChildExits
    <2>1. UNCHANGED <<spent, stdout, taken>> /\ child' = "Exited"
      BY <1>3 DEF ChildExits
    <2>2. RestTypes' /\ Subscribed'
      BY <1>1, <2>1 DEF EventInv, RestTypes, Subscribed
    <2>3. FeedInv'
      BY <1>1, <2>1, FeedStays DEF EventInv
    <2> QED
      BY <2>2, <2>3 DEF EventInv
  <1>4. CASE ChildReports
    <2>1. /\ spent' = [spent EXCEPT !.reports = @ + 1] /\ spent.reports < MaxReports
          /\ stdout' = Append(stdout, [kind |-> "Report"])
          /\ UNCHANGED <<child, taken>>
      BY <1>4 DEF ChildReports, Emits
    <2>2. /\ spent' \in [reports : 0 .. MaxReports, strays : 0 .. MaxStrays]
          /\ spent'.reports = spent.reports + 1 /\ spent'.strays = spent.strays
      BY <1>0, <2>1
    <2>3. RestTypes'
      BY <1>1, <2>1, <2>2 DEF EventInv, RestTypes
    <2>4. at[StartTurn] # "Idle"
      <3>1. PICK i \in 1 .. taken : stdin[i] = StartTurn
        BY <1>4 DEF ChildReports, Read
      <3>2. i \in 1 .. Len(stdin) /\ StartTurn \in Callers
        BY <1>0, CallersAssumption DEF Callers
      <3>3. written[StartTurn] # "None"
        BY <3>1, <3>2 DEF FrameInv, Frames
      <3> QED
        BY <3>2, <3>3 DEF FrameInv, Progress
    <2>5. Subscribed'
      BY <1>1, <2>4 DEF EventInv, Subscribed
    <2>6. FeedInv'
      <3>1. PICK line : line = [kind |-> "Report"]
        OBVIOUS
      <3>2. line \in Lines /\ line.kind = "Report"
        BY <3>1 DEF Lines
      <3>3. stdout' = Append(stdout, line)
        BY <2>1, <3>1
      <3>4. /\ spent'.reports = spent.reports + (IF line.kind = "Report" THEN 1 ELSE 0)
            /\ spent'.strays = spent.strays
                               + (IF line.kind \in {"Malformed", "Oversized"} THEN 1 ELSE 0)
        BY <1>0, <2>2, <3>2
      <3> QED
        BY <1>1, <2>3, <3>2, <3>3, <3>4, EmitsFeed DEF EventInv
    <2> QED
      BY <2>3, <2>5, <2>6 DEF EventInv
  <1>5. CASE ChildStrays
    <2>0. PICK kind \in {"Malformed", "Oversized"} : Emits([kind |-> kind])
      BY <1>5 DEF ChildStrays
    <2>1. /\ spent' = [spent EXCEPT !.strays = @ + 1] /\ spent.strays < MaxStrays
          /\ stdout' = Append(stdout, [kind |-> kind])
          /\ UNCHANGED <<child, taken>>
      BY <1>5, <2>0 DEF ChildStrays, Emits
    <2>2. /\ spent' \in [reports : 0 .. MaxReports, strays : 0 .. MaxStrays]
          /\ spent'.reports = spent.reports /\ spent'.strays = spent.strays + 1
      BY <1>0, <2>1
    <2>3. RestTypes'
      BY <1>1, <2>1, <2>2 DEF EventInv, RestTypes
    <2>5. Subscribed'
      BY <1>1, <2>2 DEF EventInv, Subscribed
    <2>6. FeedInv'
      <3>1. PICK line : line = [kind |-> kind]
        OBVIOUS
      <3>2. line \in Lines /\ line.kind \in {"Malformed", "Oversized"}
        BY <3>1 DEF Lines
      <3>3. stdout' = Append(stdout, line)
        BY <2>1, <3>1
      <3>4. /\ spent'.reports = spent.reports + (IF line.kind = "Report" THEN 1 ELSE 0)
            /\ spent'.strays = spent.strays
                               + (IF line.kind \in {"Malformed", "Oversized"} THEN 1 ELSE 0)
        BY <1>0, <2>2, <3>2
      <3> QED
        BY <1>1, <2>3, <3>2, <3>3, <3>4, EmitsFeed DEF EventInv
    <2> QED
      BY <2>3, <2>5, <2>6 DEF EventInv
  <1>6. ASSUME NEW c \in Requests, ChildAnswers(c)
        PROVE  EventInv'
    <2>0. PICK v \in Verdicts : Emits([kind |-> "Answer", to |-> c, verdict |-> v])
      BY <1>6 DEF ChildAnswers
    <2>1. /\ UNCHANGED <<spent, child, taken>>
          /\ stdout' = Append(stdout, [kind |-> "Answer", to |-> c, verdict |-> v])
      BY <1>6, <2>0 DEF ChildAnswers, Emits
    <2>2. RestTypes' /\ Subscribed'
      BY <1>1, <2>1 DEF EventInv, RestTypes, Subscribed
    <2>3. FeedInv'
      <3>1. PICK line : line = [kind |-> "Answer", to |-> c, verdict |-> v]
        OBVIOUS
      <3>2. line \in Lines /\ line.kind = "Answer"
        BY <3>1 DEF Lines
      <3>3. stdout' = Append(stdout, line)
        BY <2>1, <3>1
      <3>4. /\ spent'.reports = spent.reports + (IF line.kind = "Report" THEN 1 ELSE 0)
            /\ spent'.strays = spent.strays
                               + (IF line.kind \in {"Malformed", "Oversized"} THEN 1 ELSE 0)
        BY <1>0, <2>1, <3>2
      <3> QED
        BY <1>1, <2>2, <3>2, <3>3, <3>4, EmitsFeed DEF EventInv
    <2> QED
      BY <2>2, <2>3 DEF EventInv
  <1> QED
    BY <1>2, <1>3, <1>4, <1>5, <1>6 DEF ChildStep

\* One line of the child that is an event for the run.
LEMMA DispatchesFeed ==
    ASSUME RestTypes, FeedInv, AnswerTypes, AnswerTypes', NEW e \in {"Report", "Protocol"},
           Publish(e), e = "Report" => subscribed,
           UNCHANGED <<closed, spent, subscribed, heard>>,
           Count(stdout, Noise) = Count(stdout', Noise) + 1,
           Count(stdout, Reports) = Count(stdout', Reports) + (IF e = "Report" THEN 1 ELSE 0)
    PROVE  FeedInv'
  <1>0. UNCHANGED closed /\ UNCHANGED spent /\ UNCHANGED subscribed /\ UNCHANGED heard
    OBVIOUS
  <1>1. /\ Count(stdout, Noise) \in Nat /\ Count(stdout, Reports) \in Nat
        /\ Count(stdout', Noise) \in Nat /\ Count(stdout', Reports) \in Nat
    <2>1. stdout \in Seq(Lines) /\ stdout' \in Seq(Lines)
      BY DEF AnswerTypes
    <2> QED
      BY <2>1, CountType
  <1>2. /\ published \in Nat /\ heard \in Nat
        /\ Len(feed) \in Nat /\ Count(feed, {"Report"}) \in Nat
        /\ spent.reports \in Nat /\ spent.strays \in Nat /\ EventCapacity \in Nat
    BY CountType, BoundsAssumption DEF FeedInv, FeedTypes, RestTypes
  <1>3. /\ feed' \in Seq(Events) /\ lagged' \in BOOLEAN /\ Len(feed') <= Len(feed) + 1
        /\ published' = published + (IF e = "Report" THEN 1 ELSE 0)
        /\ Count(feed', {"Report"}) <=
              Count(feed, {"Report"}) + (IF e = "Report" THEN 1 ELSE 0)
        /\ Len(feed) < EventCapacity =>
              Count(feed', {"Report"}) =
                 Count(feed, {"Report"}) + (IF e = "Report" THEN 1 ELSE 0)
    <2>1. e \in Events /\ FeedTypes
      BY DEF Events, FeedInv
    <2> QED
      BY <2>1, Publishes
  <1>4. Len(feed') \in Nat /\ Count(feed', {"Report"}) \in Nat
    BY <1>3, CountType
  <1>5. /\ Len(feed) + Count(stdout, Noise) <= spent.reports + spent.strays + 1
        /\ ~closed => Len(feed) + Count(stdout, Noise) <= spent.reports + spent.strays
    BY DEF FeedInv, Placed
  <1>6. FeedTypes'
    BY <1>0, <1>2, <1>3 DEF FeedInv, FeedTypes
  <1>7. Reported'
    <2>1. /\ published + Count(stdout, Reports) = spent.reports
          /\ heard + Count(feed, {"Report"}) <= published
      BY DEF FeedInv, Reported
    <2>2. /\ published' + Count(stdout', Reports) = spent.reports
          /\ heard + Count(feed', {"Report"}) <= published'
      <3>1. CASE e = "Report"
        <4>1. /\ published' = published + 1
              /\ Count(feed', {"Report"}) <= Count(feed, {"Report"}) + 1
              /\ Count(stdout, Reports) = Count(stdout', Reports) + 1
          BY <1>3, <3>1
        <4>2. published' + Count(stdout', Reports) = spent.reports
          BY <1>1, <1>2, <2>1, <4>1
        <4>3. heard + Count(feed', {"Report"}) <= published'
          BY <1>2, <1>4, <2>1, <4>1
        <4> QED
          BY <4>2, <4>3
      <3>2. CASE e # "Report"
        BY <1>1, <1>2, <1>3, <1>4, <2>1, <3>2
      <3> QED
        BY <3>1, <3>2
    <2> QED
      BY <1>0, <2>2 DEF Reported
  <1>8. Placed'
    <2>1. /\ Len(feed') + Count(stdout', Noise) <= spent.reports + spent.strays + 1
          /\ ~closed => Len(feed') + Count(stdout', Noise) <= spent.reports + spent.strays
      <3>1. Len(feed') + Count(stdout', Noise) <= Len(feed) + Count(stdout, Noise)
        BY <1>1, <1>2, <1>3, <1>4
      <3> QED
        BY <1>1, <1>2, <1>4, <1>5, <3>1
    <2> QED
      BY <1>0, <2>1 DEF Placed
  <1>9. AllHeard'
    <2>1. SUFFICES ASSUME spent.reports + spent.strays < EventCapacity
                   PROVE  published' = heard + Count(feed', {"Report"})
      BY <1>0 DEF AllHeard
    <2>2. Len(feed) < EventCapacity
      BY <1>1, <1>2, <1>5, <2>1
    <2>3. published = heard + Count(feed, {"Report"})
      BY <2>1 DEF FeedInv, AllHeard
    <2> QED
      BY <1>2, <1>3, <1>4, <2>2, <2>3
  <1> QED
    BY <1>6, <1>7, <1>8, <1>9 DEF FeedInv

LEMMA TaskKeepsEvents ==
    ASSUME TransportInv, TransportInv', EventInv, TaskStep
    PROVE  EventInv'
  <1> USE DEF TransportInv, AnswerInv
  <1>1. /\ UNCHANGED <<stage, permit, child, taken, replied, spent, at, stdin, subscribed,
                       heard>>
        /\ pending' \subseteq pending /\ reading' \in BOOLEAN /\ draining' \in BOOLEAN
    <2>1. UNCHANGED <<stage, permit, child, taken, replied, spent, at, stdin, subscribed,
                       heard>>
      BY DEF TaskStep, Dispatches, ReaderEnds, MonitorCloses, Drains, leaseVars, childVars,
             callVars, lineVars
    <2>2. pending' \subseteq pending /\ reading' \in BOOLEAN
      BY DEF TaskStep, Dispatches, Resolve, ReaderEnds, MonitorCloses, Drains, EventInv,
             RestTypes
    <2>3. draining' \in BOOLEAN
      BY DEF TaskStep, Dispatches, Resolve, ReaderEnds, MonitorCloses, Drains, Close,
             closeVars, EventInv, RestTypes
    <2> QED
      BY <2>1, <2>2, <2>3
  <1>2. RestTypes' /\ Subscribed'
    BY <1>1 DEF EventInv, RestTypes, Subscribed
  <1>3. closed \in BOOLEAN /\ RestTypes /\ FeedInv
    BY DEF FrameInv, CallTypes, EventInv
  <1>4. CASE Drains
    <2>1. UNCHANGED <<closed, spent, stdout, subscribed, feedVars, heard>>
      BY <1>1, <1>4 DEF Drains
    <2> QED
      BY <1>2, <2>1, FeedStays DEF EventInv
  <1>5. CASE ReaderEnds \/ MonitorCloses
    <2>1. Close /\ spent' = spent /\ subscribed' = subscribed /\ heard' = heard
                /\ stdout' = stdout
      BY <1>1, <1>5 DEF ReaderEnds, MonitorCloses
    <2>2. FeedInv'
      BY <1>3, <2>1, ClosesFeed, StdoutCounts
    <2> QED
      BY <1>2, <2>2 DEF EventInv
  <1>6. CASE Dispatches
    <2> SUFFICES FeedInv'
      BY <1>2 DEF EventInv
    <2> DEFINE line == Head(stdout)
    <2>1. /\ stdout # <<>> /\ stdout' = Tail(stdout)
          /\ \/ line.kind = "Answer" /\ UNCHANGED <<closeVars, feedVars>>
             \/ line.kind = "Oversized" /\ Close
             \/ line.kind = "Malformed" /\ Publish("Protocol") /\ UNCHANGED closeVars
             \/ /\ line.kind \notin {"Answer", "Oversized", "Malformed"}
                /\ Publish("Report") /\ UNCHANGED closeVars
      BY <1>6 DEF Dispatches, Resolve
    <2>2. /\ line \in Lines
          /\ Count(stdout, Reports)
               = Count(stdout', Reports) + (IF line \in Reports THEN 1 ELSE 0)
          /\ Count(stdout, Noise)
               = Count(stdout', Noise) + (IF line \in Noise THEN 1 ELSE 0)
      <3>1. stdout \in Seq(Lines)
        BY DEF AnswerTypes
      <3> QED
        BY <2>1, <3>1, CountTail
    <2> HIDE DEF line
    <2>3. /\ line.kind \in {"Answer", "Report", "Malformed", "Oversized"}
          /\ line \in Reports <=> line.kind = "Report"
          /\ line \in Noise <=> line.kind # "Answer"
      BY <2>2 DEF Lines, Reports, Noise
    <2>4. /\ Count(stdout, Noise) \in Nat /\ Count(stdout, Reports) \in Nat
          /\ Count(stdout', Noise) \in Nat /\ Count(stdout', Reports) \in Nat
      <3>1. stdout \in Seq(Lines) /\ stdout' \in Seq(Lines)
        BY DEF AnswerTypes
      <3> QED
        BY <3>1, CountType
    <2>5. spent' = spent /\ subscribed' = subscribed /\ heard' = heard
      BY <1>1
    <2>6. CASE line.kind = "Answer"
      <3>1. UNCHANGED <<closed, feed, lagged, published>>
        BY <2>1, <2>6 DEF closeVars, feedVars
      <3>2. /\ Count(stdout', Noise) = Count(stdout, Noise)
            /\ Count(stdout', Reports) = Count(stdout, Reports)
        BY <2>2, <2>3, <2>4, <2>6
      <3> QED
        BY <1>3, <2>5, <3>1, <3>2 DEF FeedInv, FeedTypes, Reported, Placed, AllHeard
    <2>7. CASE line.kind = "Oversized"
      <3>1. Close
        BY <2>1, <2>7
      <3>2. /\ Count(stdout', Noise) <= Count(stdout, Noise)
            /\ Count(stdout', Reports) = Count(stdout, Reports)
        BY <2>2, <2>3, <2>4, <2>7
      <3> QED
        BY <1>3, <2>5, <3>1, <3>2, ClosesFeed
    <2>8. CASE line.kind = "Malformed"
      <3>1. PICK e : e = "Protocol"
        OBVIOUS
      <3>2. e \in {"Report", "Protocol"} /\ Publish(e) /\ e # "Report" /\ UNCHANGED closed
        BY <2>1, <2>8, <3>1 DEF closeVars
      <3>3. /\ Count(stdout, Noise) = Count(stdout', Noise) + 1
            /\ Count(stdout, Reports)
                 = Count(stdout', Reports) + (IF e = "Report" THEN 1 ELSE 0)
        BY <2>2, <2>3, <2>4, <2>8, <3>2
      <3> QED
        BY <1>3, <2>5, <3>2, <3>3, DispatchesFeed
    <2>9. CASE line.kind = "Report"
      <3>1. PICK e : e = "Report"
        OBVIOUS
      <3>2. e \in {"Report", "Protocol"} /\ Publish(e) /\ UNCHANGED closed
        BY <2>1, <2>9, <3>1 DEF closeVars
      <3>3. /\ Count(stdout, Noise) = Count(stdout', Noise) + 1
            /\ Count(stdout, Reports)
                 = Count(stdout', Reports) + (IF e = "Report" THEN 1 ELSE 0)
        BY <2>2, <2>3, <2>4, <2>9, <3>1
      <3>4. subscribed
        <4>1. published \in Nat /\ spent.reports \in Nat
              /\ published + Count(stdout, Reports) = spent.reports
          BY DEF EventInv, RestTypes, FeedInv, FeedTypes, Reported
        <4>2. Count(stdout, Reports) > 0
          BY <2>2, <2>3, <2>4, <2>9
        <4>3. spent.reports > 0
          BY <2>4, <4>1, <4>2
        <4> QED
          BY <4>3 DEF EventInv, Subscribed
      <3> QED
        BY <1>3, <2>5, <3>2, <3>3, <3>4, DispatchesFeed
    <2> QED
      BY <2>3, <2>6, <2>7, <2>8, <2>9
  <1> QED
    BY <1>4, <1>5, <1>6 DEF TaskStep

LEMMA EventsInit ==
    ASSUME Init
    PROVE  EventInv
  <1>1. MaxReports \in Nat /\ MaxStrays \in Nat /\ EventCapacity \in Nat \ {0}
        /\ StartTurn \in Callers
    BY BoundsAssumption, CallersAssumption DEF Callers
  <1>2. Count(<<>>, {"Report"}) = 0 /\ Count(<<>>, Reports) = 0 /\ Count(<<>>, Noise) = 0
    BY CountNone
  <1>3. RestTypes /\ Subscribed /\ FeedTypes
    <2>1. /\ stdin = <<>> /\ taken = 0 /\ spent = [reports |-> 0, strays |-> 0]
          /\ at[StartTurn] = "Idle" /\ feed = <<>>
      BY <1>1 DEF Init
    <2>2. spent \in [reports : 0 .. MaxReports, strays : 0 .. MaxStrays]
      BY <1>1, <2>1
    <2>3. taken \in Nat /\ taken <= Len(stdin)
      BY <2>1
    <2>4. feed \in Seq(Events)
      BY <2>1
    <2>5. RestTypes
      BY <2>2, <2>3 DEF Init, RestTypes
    <2>6. Subscribed
      BY <2>1 DEF Subscribed
    <2>7. FeedTypes
      BY <2>4 DEF Init, FeedTypes
    <2> QED
      BY <2>5, <2>6, <2>7
  <1>4. Reported /\ Placed /\ AllHeard
    BY <1>1, <1>2 DEF Init, Reported, Placed, AllHeard
  <1> QED
    BY <1>3, <1>4 DEF EventInv, FeedInv

LEMMA EventsStep ==
    ASSUME TransportInv, TransportInv', EventInv, [Next]_vars
    PROVE  EventInv'
  <1>1. CASE UNCHANGED vars
    <2>1. UNCHANGED <<stage, permit, child, taken, spent, closed, draining, pending, at, stdin,
                      stdout, reading, subscribed, feed, lagged, published, heard>>
      BY <1>1 DEF vars, leaseVars, childVars, closeVars, callVars, lineVars, feedVars
    <2>2. RestTypes' /\ Subscribed'
      BY <2>1 DEF EventInv, RestTypes, Subscribed
    <2>3. FeedInv'
      BY <2>1, FeedStays DEF EventInv, feedVars
    <2> QED
      BY <2>2, <2>3 DEF EventInv
  <1> QED
    BY <1>1, CallKeepsEvents, LeaseKeepsEvents, ChildKeepsEvents, TaskKeepsEvents DEF Next

\* What the run has heard of its turn, and what is on its way to it, never
\* outgrows what the child sent; the run subscribes before its turn can begin.
THEOREM EventsInvariant == Spec => [](TransportInv /\ EventInv)
  <1>1. Init => TransportInv /\ EventInv
    BY TransportInvInit, EventsInit
  <1>2. TransportInv /\ EventInv /\ [Next]_vars => (TransportInv /\ EventInv)'
    BY TransportInvStep, EventsStep
  <1> QED
    BY <1>1, <1>2, PTL DEF Spec

\* Every variable keeps to its domain, and a call that was dropped or ran out of
\* time leaves no entry in `pending` behind (PendingGuard of request()).
THEOREM TransportTypeCorrect == Spec => []TransportTypeOK
  <1>1. TransportInv /\ EventInv => TransportTypeOK
    <2> SUFFICES ASSUME TransportInv, EventInv
                 PROVE  TransportTypeOK
      OBVIOUS
    <2> USE DEF TransportInv, EventInv, FrameInv, AnswerInv, FeedInv
    <2>1. /\ holder \in Callers \cup {None} /\ closed \in BOOLEAN
          /\ told \in [Callers -> Outcomes \cup {"None"}]
          /\ at \in [Callers -> {"Idle", "Waits", "Checked", "Writes", "Sent", "Done"}]
          /\ written \in [Callers -> {"None", "Part", "Whole"}]
          /\ stdin \in Seq(Callers)
      BY DEF CallTypes, Points
    <2>2. /\ answer \in [Requests -> Verdicts \cup {"ResultUnknown", "None"}]
          /\ stdout \in Seq(Lines) /\ replied \subseteq Requests
      BY DEF AnswerTypes
    <2>3. pending \subseteq {c \in Requests : at[c] \in {"Writes", "Sent"}}
      BY DEF AnswerTypes, RestTypes
    <2>4. /\ stage \in {"Waits", "Launches", "Announces", "Leased", "Ends", "Drops", "Gone"}
          /\ permit \in BOOLEAN /\ child \in {"None", "Running", "Exited", "Killed"}
          /\ draining \in BOOLEAN /\ reading \in BOOLEAN
          /\ spent \in [reports : 0 .. MaxReports, strays : 0 .. MaxStrays]
      BY DEF RestTypes
    <2>5. taken \in 0 .. Len(stdin)
      BY <2>1 DEF RestTypes
    <2>6. subscribed \in BOOLEAN /\ lagged \in BOOLEAN /\ feed \in Seq(Events)
      BY DEF FeedTypes
    <2>7. published \in 0 .. MaxReports /\ heard \in 0 .. MaxReports
      <3>1. /\ published \in Nat /\ heard \in Nat
            /\ published + Count(stdout, Reports) = spent.reports
            /\ heard + Count(feed, {"Report"}) <= published
        BY DEF FeedTypes, Reported
      <3>2. Count(stdout, Reports) \in Nat /\ Count(feed, {"Report"}) \in Nat
        BY <2>2, <2>6, CountType
      <3>3. spent.reports \in Nat /\ spent.reports <= MaxReports /\ MaxReports \in Nat
        BY BoundsAssumption DEF RestTypes
      <3> QED
        BY <3>1, <3>2, <3>3
    <2> HIDE DEF TransportInv, EventInv, FrameInv, AnswerInv, FeedInv
    <2> QED
      BY <2>1, <2>2, <2>3, <2>4, <2>5, <2>6, <2>7 DEF TransportTypeOK
  <1> QED
    BY <1>1, EventsInvariant, PTL

\* While the channel of events never had to drop one, the run has heard every
\* event of its turn or will (broadcast of direct_run.rs's subscribe).
THEOREM TurnReachesRun == Spec => []TurnHeard
  <1>1. EventInv => TurnHeard
    <2>1. Queued = Count(feed, {"Report"})
      <3>1. {i \in 1 .. Len(feed) : feed[i] = "Report"} = Marks(feed, {"Report"})
        BY DEF Marks
      <3> QED
        BY <3>1 DEF Queued, Count
    <2> QED
      BY <2>1 DEF EventInv, FeedInv, AllHeard, TurnHeard
  <1> QED
    BY <1>1, EventsInvariant, PTL

=============================================================================
