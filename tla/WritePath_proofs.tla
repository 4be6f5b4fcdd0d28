---- MODULE WritePath_proofs ----
(***************************************************************************)
(* Proofs about the threads around RuntimeState, for every number of       *)
(* threads, every burst, set of tags and body a client may post, and for   *)
(* either poller.                                                          *)
(***************************************************************************)
EXTENDS WritePath, RuntimeState_proofs

----
(***************************************************************************)
(* What is well typed, and what each thread has in hand.                   *)
(***************************************************************************)
WritingStage == {"authorize", "writing", "recording", "completing"}
PollerStage == {"top", "burst", "schedule", "reading", "updating", "readFailed", "unreachable",
                "simulating", "draining", "answering", "confirming"} \union WritingStage
Outcome == {"none", "accepted", "refused", "cancelled", "failed"}
Sample == UNION {[TagsOf(table) -> Value] : table \in Table}

PollerState == [at : PollerStage, polling : SUBSET Table, left : 0..Burst,
                outcome : Outcome, due : SUBSET Table, read : BOOLEAN,
                sample : {<<>>} \union Sample, drained : Seq(Request)]

PostStage == {"queueing", "saving", "showing"}
ApiState == [at : {"idle", "switching", "hung"} \union PostStage, post : Post \union {NoPost}]

ThreadTypes ==
  /\ mode \in InjectionMode /\ polled \subseteq Table
  /\ plc \in [Tag -> Value] /\ \A t \in Tag : plc[t] \in ValueOf(t)
  /\ poller \in PollerState
  /\ api \in [Thread -> ApiState]

\* A handler acts on a body that _validate_write has let through.
PostsInHand ==
  \A th \in Thread : api[th].at \in PostStage =>
    api[th].post \in Post /\ IsInjection(api[th].post)

\* The poller acts on a request it has taken and on a sample it has read.
WorkInHand ==
  /\ poller.at \in WritingStage => inFlight # NoRequest
  /\ poller.at = "updating" =>
       /\ poller.sample \in Sample
       /\ \A t \in DOMAIN poller.sample : poller.sample[t] \in ValueOf(t)
  /\ \A i \in 1..Len(poller.drained) : Fits(poller.drained[i])
  /\ poller.at = "confirming" => poller.drained # <<>>
  /\ poller.at \notin {"answering", "confirming"} => poller.drained = <<>>
  /\ InSimulation => inFlight = NoRequest

PathInv == QueueInv /\ RequestsFit /\ ThreadTypes /\ PostsInHand /\ WorkInHand

LEMMA RequestHolds ==
  ASSUME PathInv, inFlight # NoRequest
  PROVE  /\ inFlight \in Request
         /\ inFlight.tag \in Tag /\ inFlight.value \in Value
         /\ inFlight.value \in ValueOf(inFlight.tag) /\ Writable(inFlight.tag)
  BY DEF PathInv, QueueInv, TypeOK, RequestsFit, Fits, Request

LEMMA DrainedHolds ==
  ASSUME PathInv, poller.drained # <<>>
  PROVE  /\ Head(poller.drained) \in Request
         /\ Head(poller.drained).tag \in Tag /\ Head(poller.drained).value \in Value
         /\ Head(poller.drained).value \in ValueOf(Head(poller.drained).tag)
         /\ Tail(poller.drained) \in Seq(Request)
         /\ Len(Tail(poller.drained)) = Len(poller.drained) - 1
         /\ \A i \in 1..Len(Tail(poller.drained)) :
              Tail(poller.drained)[i] = poller.drained[i + 1]
<1>1. poller.drained \in Seq(Request)
  BY DEF PathInv, ThreadTypes, PollerState
<1>2. 1 \in 1..Len(poller.drained) /\ Head(poller.drained) = poller.drained[1]
  BY <1>1
<1>3. Head(poller.drained) \in Request
  BY <1>1, <1>2
<1>4. Head(poller.drained).value \in ValueOf(Head(poller.drained).tag)
  BY <1>2 DEF PathInv, WorkInHand, Fits
<1>5. /\ Tail(poller.drained) \in Seq(Request)
      /\ Len(Tail(poller.drained)) = Len(poller.drained) - 1
      /\ \A i \in 1..Len(Tail(poller.drained)) : Tail(poller.drained)[i] = poller.drained[i + 1]
  BY <1>1
<1> QED BY <1>3, <1>4, <1>5 DEF Request

\* What a simulation makes up is of the type of each signal.
LEMMA FabricatedFits ==
  ASSUME NEW updates \in Fabricated
  PROVE  /\ updates \in [TagsOf("analog_setpoints") \union TagsOf("digital_reads") -> Value]
         /\ \A t \in TagsOf("analog_setpoints") \union TagsOf("digital_reads") :
              updates[t] \in ValueOf(t)
<1> DEFINE tags == TagsOf("analog_setpoints") \union TagsOf("digital_reads")
<1>1. PICK drives \in [TagsOf("digital_reads") -> Bit] :
        updates = [t \in TagsOf("analog_setpoints") \union DOMAIN drives |->
                     IF Analog(t) THEN 0 ELSE drives[t]]
  BY DEF Fabricated
<1>2. updates = [t \in tags |-> IF Analog(t) THEN 0 ELSE drives[t]]
  BY <1>1
<1>3. \A t \in TagsOf("analog_setpoints") : Analog(t)
  BY TagKinds DEF TagsOf, TableOf, Analog
<1>4. \A t \in tags : updates[t] \in ValueOf(t) /\ updates[t] \in Value
  <2> TAKE t \in tags
  <2>1. CASE Analog(t)
    BY <1>2, <2>1, ReadingAssumption DEF ValueOf, Value
  <2>2. CASE ~Analog(t)
    <3>1. t \in TagsOf("digital_reads")
      BY <1>3, <2>2
    <3> QED BY <1>1, <1>2, <2>2, <3>1 DEF ValueOf, Value
  <2> QED BY <2>1, <2>2
<1> QED BY <1>2, <1>4

----
(***************************************************************************)
(* Every step of a thread is a call of RuntimeState, or none.              *)
(***************************************************************************)
\* A call other than a drain or a restart.
OrderlyCall ==
  \/ \E post \in Post : EnqueueWrites(post) \/ QueueInjections(post)
  \/ \E post \in Post : UpdateRtuTags(post) \/ RecordDisabledInjections(post)
  \/ \E p \in Pump, m \in EmarMode : SetPumpEmarMode(p, m)
  \/ \E table \in Table : MarkTableError(table)
  \/ \E tags \in ReadTogether : \E updates \in [tags -> Value] :
       /\ \A t \in tags : updates[t] \in ValueOf(t)
       /\ UpdateValues(updates)
  \/ \E t \in Tag, v \in Value, ok \in BOOLEAN : v \in ValueOf(t) /\ WriteResult(t, v, ok)
  \/ NextWrite \/ CompleteWrite

LEMMA HandlerCalls ==
  ASSUME PathInv, NEW th \in Thread, ApiStarts(th) \/ ApiContinues(th)
  PROVE  [OrderlyCall]_stateVars
<1>1. CASE InjectionQueued(th) \/ InjectionSaved(th) \/ InjectionShown(th)
  <2>1. api[th].post \in Post
    BY <1>1 DEF InjectionQueued, InjectionSaved, InjectionShown, PathInv, PostsInHand, PostStage
  <2> QED BY <1>1, <2>1 DEF InjectionQueued, InjectionSaved, InjectionShown, OrderlyCall
<1>2. CASE \/ InjectionRequested(th) \/ InjectionRefused(th)
           \/ ModeSwitchStarts(th) \/ ModeSwitchEnds(th) \/ ModeSwitchHangs(th)
  BY <1>2 DEF InjectionRequested, InjectionRefused, ModeSwitchStarts, ModeSwitchEnds,
              ModeSwitchHangs
<1> QED BY <1>1, <1>2 DEF ApiStarts, ApiContinues

LEMMA WriteCalls ==
  ASSUME PathInv,
         \/ WriteCycle \/ TakeRequest \/ BurstEnds \/ Authorize
         \/ WriteAccepted \/ WriteRefused \/ WriteFails \/ RecordWrite \/ FinishWrite
  PROVE  [OrderlyCall]_stateVars
<1>1. CASE TakeRequest \/ FinishWrite
  BY <1>1 DEF TakeRequest, FinishWrite, OrderlyCall
<1>2. CASE RecordWrite
  <2>1. inFlight # NoRequest
    BY <1>2 DEF RecordWrite, PathInv, WorkInHand, WritingStage
  <2>2. /\ inFlight.tag \in Tag /\ inFlight.value \in Value
        /\ inFlight.value \in ValueOf(inFlight.tag)
    BY <2>1, RequestHolds
  <2>3. WriteResult(inFlight.tag, inFlight.value, poller.outcome = "accepted")
    BY <1>2 DEF RecordWrite
  <2> QED BY <2>2, <2>3, Zenon DEF OrderlyCall
<1>3. CASE WriteCycle \/ BurstEnds \/ Authorize \/ WriteAccepted \/ WriteRefused \/ WriteFails
  BY <1>3 DEF WriteCycle, BurstEnds, Authorize, WriteAccepted, WriteRefused, WriteFails
<1> QED BY <1>1, <1>2, <1>3

LEMMA ReadCalls ==
  ASSUME PathInv, NEW table \in Table,
         ReadTable(table) \/ ReadFails(table) \/ UpdateTable(table) \/ MarkTable(table)
  PROVE  [OrderlyCall]_stateVars
<1>1. CASE ReadTable(table) \/ ReadFails(table)
  BY <1>1 DEF ReadTable, ReadFails
<1>2. CASE UpdateTable(table)
  <2>1. PICK read \in Table : poller.sample \in [TagsOf(read) -> Value]
    BY <1>2 DEF UpdateTable, PathInv, WorkInHand, Sample
  <2>2. /\ TagsOf(read) \in ReadTogether
        /\ \A t \in TagsOf(read) : poller.sample[t] \in ValueOf(t)
        /\ UpdateValues(poller.sample)
    BY <1>2, <2>1 DEF UpdateTable, PathInv, WorkInHand, ReadTogether
  <2> QED BY <2>1, <2>2, Zenon DEF OrderlyCall
<1>3. CASE MarkTable(table)
  <2>1. MarkTableError(table)
    BY <1>3 DEF MarkTable
  <2> QED BY <2>1, Zenon DEF OrderlyCall
<1> QED BY <1>1, <1>2, <1>3

LEMMA SimulationCalls ==
  ASSUME PathInv,
         \/ SimulateReadings \/ SimulationAuthorizes
         \/ SimulationConfirms \/ SimulationTurnEnds
  PROVE  [OrderlyCall]_stateVars
<1>1. CASE SimulateReadings
  <2>1. PICK updates \in Fabricated : UpdateValues(updates)
    BY <1>1 DEF SimulateReadings
  <2>2. /\ updates \in [TagsOf("analog_setpoints") \union TagsOf("digital_reads") -> Value]
        /\ \A t \in TagsOf("analog_setpoints") \union TagsOf("digital_reads") :
             updates[t] \in ValueOf(t)
    BY FabricatedFits
  <2>3. TagsOf("analog_setpoints") \union TagsOf("digital_reads") \in ReadTogether
    BY DEF ReadTogether
  <2> QED BY <2>1, <2>2, <2>3, Zenon DEF OrderlyCall
<1>2. CASE SimulationConfirms
  <2> DEFINE r == Head(poller.drained)
  <2>1. poller.drained # <<>>
    BY <1>2 DEF SimulationConfirms, PathInv, WorkInHand
  <2>2. r.tag \in Tag /\ r.value \in Value /\ r.value \in ValueOf(r.tag)
    BY <2>1, DrainedHolds
  <2>3. WriteResult(r.tag, r.value, poller.outcome = "accepted")
    BY <1>2 DEF SimulationConfirms
  <2> HIDE DEF r
  <2> QED BY <2>2, <2>3, Zenon DEF OrderlyCall
<1>3. CASE SimulationAuthorizes \/ SimulationTurnEnds
  BY <1>3 DEF SimulationAuthorizes, SimulationTurnEnds
<1> QED BY <1>1, <1>2, <1>3

LEMMA StepsAreCalls ==
  ASSUME PathInv, [Next]_vars
  PROVE  [OrderlyCall]_stateVars \/ SimulationDrains \/ Restart
<1>1. CASE WritesRequested \/ EmarModeRequested
  BY <1>1 DEF WritesRequested, EmarModeRequested, OrderlyCall
<1>2. ASSUME NEW th \in Thread, ApiStarts(th) \/ ApiContinues(th)
      PROVE  [OrderlyCall]_stateVars
  BY <1>2, HandlerCalls
<1>3. CASE PollerStep
  <2>1. ASSUME NEW due, Schedule(due)
        PROVE  [OrderlyCall]_stateVars
    BY <2>1 DEF Schedule
  <2>2. CASE CycleEnds
    BY <2>2 DEF CycleEnds
  <2> QED BY <1>3, <2>1, <2>2, WriteCalls, ReadCalls, SimulationCalls, Zenon DEF PollerStep
<1>4. CASE ReadingSwitched \/ ArndoChanges
  BY <1>4 DEF ReadingSwitched, ArndoChanges
<1>5. CASE UNCHANGED vars
  BY <1>5 DEF vars
<1> QED BY <1>1, <1>2, <1>3, <1>4, <1>5, Zenon DEF Next

----
(***************************************************************************)
(* What each group of steps keeps.                                         *)
(***************************************************************************)
\* The calls the handlers make leave the request in flight where it is.
LEMMA HandlersLeaveInFlight ==
  ASSUME NEW post,
         \/ EnqueueWrites(post) \/ QueueInjections(post)
         \/ UpdateRtuTags(post) \/ RecordDisabledInjections(post)
  PROVE  UNCHANGED inFlight
  BY DEF EnqueueWrites, QueueInjections, Enqueue, CoalescePendingWrites, UpdateRtuTags,
         RecordDisabledInjections

LEMMA WorkStays ==
  ASSUME PathInv, UNCHANGED <<poller, inFlight>>
  PROVE  WorkInHand'
  BY DEF PathInv, WorkInHand, InSimulation

LEMMA HandlerTypes ==
  ASSUME PathInv, NEW th \in Thread, ApiStarts(th) \/ ApiContinues(th)
  PROVE  ThreadTypes' /\ PostsInHand' /\ WorkInHand'
<1>1. /\ mode \in InjectionMode /\ polled \subseteq Table
      /\ plc \in [Tag -> Value] /\ \A t \in Tag : plc[t] \in ValueOf(t)
      /\ poller \in PollerState /\ api \in [Thread -> ApiState]
  BY DEF PathInv, ThreadTypes
<1>2. Idle \in ApiState
  BY DEF Idle, ApiState, PostStage
<1>3. UNCHANGED <<polled, plc, poller>>
  BY DEF ApiStarts, ApiContinues, InjectionRequested, ModeSwitchStarts, InjectionQueued,
         InjectionRefused, InjectionSaved, InjectionShown, ModeSwitchEnds, ModeSwitchHangs
<1>4. UNCHANGED inFlight
  BY HandlersLeaveInFlight
     DEF ApiStarts, ApiContinues, InjectionRequested, ModeSwitchStarts, InjectionQueued,
         InjectionRefused, InjectionSaved, InjectionShown, ModeSwitchEnds, ModeSwitchHangs,
         stateVars
<1>5. mode' \in InjectionMode
  BY <1>1, ModeAssumption
     DEF ApiStarts, ApiContinues, InjectionRequested, ModeSwitchStarts, InjectionQueued,
         InjectionRefused, InjectionSaved, InjectionShown, ModeSwitchEnds, ModeSwitchHangs,
         InjectionMode
<1>6. /\ api' \in [Thread -> ApiState]
      /\ \A other \in Thread \ {th} : api'[other] = api[other]
      /\ api'[th].at \in PostStage => api'[th].post \in Post /\ IsInjection(api'[th].post)
  <2>1. CASE InjectionRequested(th)
    BY <1>1, <2>1 DEF InjectionRequested, ApiState, PostStage
  <2>2. CASE ModeSwitchStarts(th) \/ ModeSwitchHangs(th)
    BY <1>1, <2>2 DEF ModeSwitchStarts, ModeSwitchHangs, ApiState, PostStage
  <2>3. CASE InjectionSaved(th)
    BY <1>1, <2>3 DEF InjectionSaved, ApiState, PostStage, PathInv, PostsInHand
  <2>4. CASE \/ InjectionQueued(th) \/ InjectionRefused(th)
             \/ InjectionShown(th) \/ ModeSwitchEnds(th)
    <3>1. api' = [api EXCEPT ![th] = Idle]
      BY <2>4 DEF InjectionQueued, InjectionRefused, InjectionShown, ModeSwitchEnds
    <3>2. Idle.at = "idle"
      BY DEF Idle
    <3> QED BY <1>1, <1>2, <3>1, <3>2 DEF PostStage
  <2> QED BY <2>1, <2>2, <2>3, <2>4 DEF ApiStarts, ApiContinues
<1>7. PostsInHand'
  BY <1>6 DEF PathInv, PostsInHand
<1> QED BY <1>1, <1>3, <1>4, <1>5, <1>6, <1>7, WorkStays DEF ThreadTypes

LEMMA WriteTypes ==
  ASSUME PathInv,
         \/ WriteCycle \/ TakeRequest \/ BurstEnds \/ Authorize
         \/ WriteAccepted \/ WriteRefused \/ WriteFails \/ RecordWrite \/ FinishWrite
  PROVE  ThreadTypes' /\ PostsInHand' /\ WorkInHand'
<1>1. /\ mode \in InjectionMode /\ polled \subseteq Table
      /\ plc \in [Tag -> Value] /\ \A t \in Tag : plc[t] \in ValueOf(t)
      /\ poller \in PollerState /\ api \in [Thread -> ApiState] /\ Burst \in Nat
  BY BurstAssumption DEF PathInv, ThreadTypes
<1>2. UNCHANGED <<mode, polled, api>>
  BY DEF WriteCycle, TakeRequest, BurstEnds, Authorize, WriteAccepted, WriteRefused,
         WriteFails, RecordWrite, FinishWrite
<1>3. PostsInHand'
  BY <1>2 DEF PathInv, PostsInHand
<1>4. poller.drained = <<>> /\ ~InSimulation
  BY DEF WriteCycle, TakeRequest, BurstEnds, Authorize, WriteAccepted, WriteRefused,
         WriteFails, RecordWrite, FinishWrite, PathInv, WorkInHand, InSimulation
<1>5. poller' \in PollerState
  <2>1. CASE WriteCycle
    <3>1. Burst \in 0..Burst
      BY <1>1
    <3> QED BY <1>1, <2>1, <3>1 DEF WriteCycle, PollerState, PollerStage
  <2>2. CASE TakeRequest \/ BurstEnds
    <3>1. 0 \in 0..Burst /\ poller.left \in 0..Burst
      BY <1>1 DEF PollerState
    <3>2. poller.left > 0 => poller.left - 1 \in 0..Burst
      BY <1>1, <3>1
    <3> QED BY <1>1, <2>2, <3>1, <3>2
            DEF TakeRequest, BurstEnds, PollerState, PollerStage, WritingStage
  <2>3. CASE Authorize
    BY <1>1, <2>3 DEF Authorize, PollerState, PollerStage, WritingStage, Outcome
  <2>4. CASE WriteAccepted \/ WriteRefused \/ WriteFails
    BY <1>1, <2>4 DEF WriteAccepted, WriteRefused, WriteFails, PollerState, PollerStage,
                      WritingStage, Outcome
  <2>5. CASE RecordWrite
    BY <1>1, <2>5 DEF RecordWrite, PollerState, PollerStage, WritingStage
  <2>6. CASE FinishWrite
    BY <1>1, <2>6 DEF FinishWrite, PollerState, PollerStage, Outcome
  <2> QED BY <2>1, <2>2, <2>3, <2>4, <2>5, <2>6
<1>6. /\ poller'.at \notin {"updating", "simulating", "draining", "answering", "confirming"}
      /\ poller'.drained = <<>>
  BY <1>1, <1>4
     DEF WriteCycle, TakeRequest, BurstEnds, Authorize, WriteAccepted, WriteRefused,
         WriteFails, RecordWrite, FinishWrite, PollerState
<1>7. poller'.at \in WritingStage => inFlight' # NoRequest
  <2>1. CASE TakeRequest
    <3>1. CASE inFlight = NoRequest
      <4>1. queue # <<>> /\ queue \in Seq(Request) /\ inFlight' = Head(queue)
        BY <2>1, <3>1 DEF TakeRequest, HasPendingWrites, NextWrite, PathInv, QueueInv, TypeOK
      <4>2. inFlight' \in Request
        BY <4>1
      <4> QED BY <4>2, NoneAssumption
    <3>2. CASE inFlight # NoRequest
      BY <2>1, <3>2 DEF TakeRequest, NextWrite
    <3> QED BY <3>1, <3>2
  <2>2. CASE WriteCycle \/ BurstEnds \/ FinishWrite
    BY <1>1, <2>2 DEF WriteCycle, BurstEnds, FinishWrite, PollerState, WritingStage
  <2>3. CASE Authorize \/ WriteAccepted \/ WriteRefused \/ WriteFails \/ RecordWrite
    <3>1. poller.at \in WritingStage /\ UNCHANGED inFlight
      BY <2>3 DEF Authorize, WriteAccepted, WriteRefused, WriteFails, RecordWrite, WriteResult,
                  WritingStage, stateVars
    <3> QED BY <3>1 DEF PathInv, WorkInHand
  <2> QED BY <2>1, <2>2, <2>3
<1>8. WorkInHand'
  BY <1>6, <1>7 DEF WorkInHand, InSimulation
<1>9. plc' \in [Tag -> Value] /\ \A t \in Tag : plc'[t] \in ValueOf(t)
  <2>1. CASE plc' = plc
    BY <1>1, <2>1
  <2>2. CASE plc' = [plc EXCEPT ![inFlight.tag] = inFlight.value] /\ poller.at = "writing"
    <3>1. inFlight # NoRequest
      BY <2>2 DEF PathInv, WorkInHand, WritingStage
    <3> QED BY <1>1, <2>2, <3>1, RequestHolds
  <2> QED BY <2>1, <2>2
          DEF WriteCycle, TakeRequest, BurstEnds, Authorize, WriteAccepted, WriteRefused,
              WriteFails, RecordWrite, FinishWrite
<1> QED BY <1>1, <1>2, <1>3, <1>5, <1>8, <1>9 DEF ThreadTypes

LEMMA ReadTypes ==
  ASSUME PathInv,
         \/ \E due \in SUBSET Table : Schedule(due)
         \/ \E table \in Table :
              ReadTable(table) \/ ReadFails(table) \/ UpdateTable(table) \/ MarkTable(table)
         \/ CycleEnds
  PROVE  ThreadTypes' /\ PostsInHand' /\ WorkInHand'
<1>1. /\ mode \in InjectionMode /\ polled \subseteq Table
      /\ plc \in [Tag -> Value] /\ \A t \in Tag : plc[t] \in ValueOf(t)
      /\ poller \in PollerState /\ api \in [Thread -> ApiState] /\ 0 \in 0..Burst
  BY BurstAssumption DEF PathInv, ThreadTypes
<1>2. UNCHANGED <<mode, polled, plc, api>>
  BY DEF Schedule, ReadTable, ReadFails, UpdateTable, MarkTable, CycleEnds
<1>3. PostsInHand'
  BY <1>2 DEF PathInv, PostsInHand
<1>4. poller.drained = <<>>
  BY DEF Schedule, ReadTable, ReadFails, UpdateTable, MarkTable, CycleEnds,
         PathInv, WorkInHand
<1>5. /\ AtTop \in PollerState /\ AtTop.drained = <<>> /\ AtTop.at = "top"
      /\ AtTop.at \notin {"updating", "simulating", "draining", "answering", "confirming"}
      /\ AtTop.at \notin WritingStage
  <2>1. <<>> \in Seq(Request)
    OBVIOUS
  <2> QED BY <1>1, <2>1 DEF AtTop, PollerState, PollerStage, WritingStage, Outcome
<1>6. ASSUME NEW table \in Table, ReadTable(table)
      PROVE  /\ poller' \in PollerState
             /\ poller'.at = "updating" /\ poller'.drained = <<>>
             /\ poller'.sample \in Sample
             /\ \A t \in DOMAIN poller'.sample : poller'.sample[t] \in ValueOf(t)
  <2>1. [t \in TagsOf(table) |-> plc[t]] \in [TagsOf(table) -> Value]
    BY <1>1 DEF TagsOf
  <2>2. [t \in TagsOf(table) |-> plc[t]] \in Sample
    BY <2>1 DEF Sample
  <2>3. \A t \in TagsOf(table) : plc[t] \in ValueOf(t)
    BY <1>1 DEF TagsOf
  <2> QED BY <1>1, <1>4, <1>6, <2>2, <2>3 DEF ReadTable, PollerState, PollerStage
<1>7. ASSUME \/ \E due \in SUBSET Table : Schedule(due)
             \/ \E table \in Table : ReadFails(table) \/ UpdateTable(table) \/ MarkTable(table)
             \/ CycleEnds
      PROVE  /\ poller' \in PollerState /\ poller'.drained = <<>>
             /\ poller'.at \notin {"updating", "simulating", "draining", "answering", "confirming"}
             /\ poller'.at \notin WritingStage
  <2>1. ASSUME NEW due \in SUBSET Table, Schedule(due)
        PROVE  /\ poller' \in PollerState /\ poller'.drained = <<>>
               /\ poller'.at \in {"top", "reading", "unreachable"}
    <3>1. CASE due = {}
      BY <1>5, <2>1, <3>1 DEF Schedule
    <3>2. CASE due # {}
      <4>1. poller' = [poller EXCEPT !.at = IF client' THEN "reading" ELSE "unreachable",
                                     !.polling = {}, !.due = due]
        BY <2>1, <3>2 DEF Schedule
      <4> QED BY <1>1, <1>4, <4>1 DEF PollerState, PollerStage
    <3> QED BY <3>1, <3>2
  <2>2. ASSUME NEW table \in Table, ReadFails(table) \/ UpdateTable(table)
        PROVE  /\ poller' \in PollerState /\ poller'.drained = <<>>
               /\ poller'.at \in {"reading", "readFailed"}
    <3>1. CASE ReadFails(table)
      BY <1>1, <1>4, <3>1 DEF ReadFails, PollerState, PollerStage
    <3>2. CASE UpdateTable(table)
      <4>1. poller' = [poller EXCEPT !.at = "reading", !.due = poller.due \ {table},
                                     !.read = TRUE, !.sample = <<>>]
        BY <3>2 DEF UpdateTable
      <4> QED BY <1>1, <1>4, <4>1 DEF PollerState, PollerStage
    <3> QED BY <2>2, <3>1, <3>2
  <2>3. ASSUME NEW table \in Table, MarkTable(table)
        PROVE  /\ poller' \in PollerState /\ poller'.drained = <<>>
               /\ poller'.at \in {"reading", "unreachable"}
    BY <1>1, <1>4, <2>3 DEF MarkTable, PollerState, PollerStage
  <2>4. CASE CycleEnds
    BY <1>5, <2>4 DEF CycleEnds
  <2> QED BY <1>7, <2>1, <2>2, <2>3, <2>4 DEF WritingStage
<1>8. poller' \in PollerState /\ WorkInHand'
  <2>1. CASE \E table \in Table : ReadTable(table)
    BY <1>6, <2>1 DEF WorkInHand, InSimulation, WritingStage
  <2>2. CASE \/ \E due \in SUBSET Table : Schedule(due)
             \/ \E table \in Table : ReadFails(table) \/ UpdateTable(table) \/ MarkTable(table)
             \/ CycleEnds
    BY <1>7, <2>2 DEF WorkInHand, InSimulation
  <2> QED BY <2>1, <2>2
<1> QED BY <1>1, <1>2, <1>3, <1>8 DEF ThreadTypes

LEMMA SimulationTypes ==
  ASSUME PathInv,
         \/ SimulateReadings \/ SimulationDrains \/ SimulationAuthorizes
         \/ SimulationConfirms \/ SimulationTurnEnds
  PROVE  ThreadTypes' /\ PostsInHand' /\ WorkInHand'
<1>1. /\ mode \in InjectionMode /\ polled \subseteq Table
      /\ plc \in [Tag -> Value] /\ \A t \in Tag : plc[t] \in ValueOf(t)
      /\ poller \in PollerState /\ api \in [Thread -> ApiState]
  BY DEF PathInv, ThreadTypes
<1>2. UNCHANGED <<mode, polled, plc, api>>
  BY DEF SimulateReadings, SimulationDrains, SimulationAuthorizes, SimulationConfirms,
         SimulationTurnEnds
<1>3. PostsInHand'
  BY <1>2 DEF PathInv, PostsInHand
<1>4. InSimulation /\ inFlight' = inFlight
  <2>1. InSimulation
    BY DEF SimulateReadings, SimulationDrains, SimulationAuthorizes, SimulationConfirms,
           SimulationTurnEnds, InSimulation
  <2>2. CASE SimulateReadings
    BY <2>1, <2>2 DEF SimulateReadings, UpdateValues
  <2>3. CASE SimulationDrains
    BY <2>1, <2>3 DEF SimulationDrains, DrainWrites
  <2>4. CASE SimulationConfirms
    BY <2>1, <2>4 DEF SimulationConfirms, WriteResult
  <2>5. CASE SimulationAuthorizes \/ SimulationTurnEnds
    BY <2>1, <2>5 DEF SimulationAuthorizes, SimulationTurnEnds, stateVars
  <2> QED BY <2>1, <2>2, <2>3, <2>4, <2>5
<1>5. inFlight' = NoRequest
  BY <1>4 DEF PathInv, WorkInHand
<1>6. /\ poller' \in PollerState
      /\ poller'.at \in {"simulating", "draining", "answering", "confirming"}
      /\ \A i \in 1..Len(poller'.drained) : Fits(poller'.drained[i])
      /\ poller'.at = "confirming" => poller'.drained # <<>>
      /\ poller'.at \notin {"answering", "confirming"} => poller'.drained = <<>>
  <2>1. CASE SimulateReadings
    BY <1>1, <2>1 DEF SimulateReadings, PollerState, PollerStage, PathInv, WorkInHand
  <2>2. CASE SimulationDrains
    <3>1. /\ Drained \in Seq(Request)
          /\ \A i \in 1..Len(Drained) : Fits(Drained[i])
      <4>1. queue \in Seq(Request) /\ Len(queue) \in Nat /\ DrainLimit \in Nat
        BY DrainAssumption DEF PathInv, QueueInv, TypeOK
      <4> DEFINE n == IF Len(queue) < DrainLimit THEN Len(queue) ELSE DrainLimit
      <4>2. n \in 0..Len(queue)
        BY <4>1
      <4>3. Drained = SubSeq(queue, 1, n)
        BY DEF Drained
      <4> HIDE DEF n
      <4>4. \A i \in 1..n : queue[i] \in Request
        BY <4>1, <4>2
      <4>5. /\ Drained \in Seq(Request) /\ Len(Drained) = n
            /\ \A i \in 1..n : Drained[i] = queue[i]
        BY <4>1, <4>2, <4>3, <4>4, SubSeqProperties
      <4> QED BY <4>1, <4>2, <4>5 DEF PathInv, RequestsFit
    <3>2. poller' = [poller EXCEPT !.at = "answering", !.drained = Drained]
      BY <2>2 DEF SimulationDrains
    <3> HIDE DEF Drained
    <3> QED BY <1>1, <3>1, <3>2 DEF PollerState, PollerStage
  <2>3. CASE SimulationAuthorizes
    BY <1>1, <2>3 DEF SimulationAuthorizes, PollerState, PollerStage, Outcome, PathInv, WorkInHand
  <2>4. CASE SimulationConfirms
    <3>1. poller.drained # <<>>
      BY <2>4 DEF SimulationConfirms, PathInv, WorkInHand
    <3>2. /\ poller.drained \in Seq(Request) /\ Len(poller.drained) \in Nat
          /\ Tail(poller.drained) \in Seq(Request)
          /\ Len(Tail(poller.drained)) = Len(poller.drained) - 1
          /\ \A i \in 1..Len(Tail(poller.drained)) :
               Tail(poller.drained)[i] = poller.drained[i + 1]
      BY <1>1, <3>1, DrainedHolds DEF PollerState
    <3>3. \A i \in 1..Len(Tail(poller.drained)) : Fits(Tail(poller.drained)[i])
      BY <3>2 DEF PathInv, WorkInHand
    <3>4. poller' = [poller EXCEPT !.at = "answering", !.outcome = "none",
                                   !.drained = Tail(poller.drained)]
      BY <2>4 DEF SimulationConfirms
    <3> QED BY <1>1, <3>2, <3>3, <3>4 DEF PollerState, PollerStage, Outcome
  <2>5. CASE SimulationTurnEnds
    BY <1>1, <2>5 DEF SimulationTurnEnds, PollerState, PollerStage, PathInv, WorkInHand
  <2> QED BY <2>1, <2>2, <2>3, <2>4, <2>5
<1>7. WorkInHand'
  BY <1>5, <1>6 DEF WorkInHand, WritingStage
<1> QED BY <1>1, <1>2, <1>3, <1>6, <1>7 DEF ThreadTypes

LEMMA OtherTypes ==
  ASSUME PathInv,
         \/ WritesRequested \/ EmarModeRequested \/ ReadingSwitched \/ ArndoChanges \/ Restart
         \/ UNCHANGED vars
  PROVE  ThreadTypes' /\ PostsInHand' /\ WorkInHand'
<1>1. /\ mode \in InjectionMode /\ polled \subseteq Table
      /\ plc \in [Tag -> Value] /\ \A t \in Tag : plc[t] \in ValueOf(t)
      /\ poller \in PollerState /\ api \in [Thread -> ApiState]
  BY DEF PathInv, ThreadTypes
<1>2. CASE WritesRequested \/ EmarModeRequested \/ UNCHANGED vars
  <2>1. UNCHANGED threadVars /\ UNCHANGED inFlight
    BY <1>2, HandlersLeaveInFlight
       DEF WritesRequested, EmarModeRequested, SetPumpEmarMode, vars, stateVars
  <2>2. UNCHANGED <<mode, polled, plc, poller, api, inFlight>>
    BY <2>1 DEF threadVars
  <2> QED BY <2>2, WorkStays DEF PathInv, ThreadTypes, PostsInHand
<1>5. CASE ReadingSwitched
  <2>1. polled' \subseteq Table /\ UNCHANGED <<mode, plc, poller, api, inFlight>>
    BY <1>1, <1>5, TableAssumption DEF ReadingSwitched, stateVars
  <2> QED BY <1>1, <2>1, WorkStays DEF PathInv, ThreadTypes, PostsInHand
<1>3. CASE ArndoChanges
  <2>1. PICK p \in Pump : plc' = [plc EXCEPT ![Arndo(p)] = 1 - @]
    BY <1>3 DEF ArndoChanges
  <2>2. Arndo(p) \in Tag /\ ValueOf(Arndo(p)) = Bit
    BY PumpTags DEF Arndo, ValueOf, Analog
  <2>3. 1 - plc[Arndo(p)] \in Bit /\ Bit \subseteq Value
    BY <1>1, <2>2 DEF Bit, Value
  <2>4. plc' \in [Tag -> Value] /\ \A t \in Tag : plc'[t] \in ValueOf(t)
    BY <1>1, <2>1, <2>2, <2>3
  <2>5. UNCHANGED <<mode, polled, poller, api, inFlight>>
    BY <1>3 DEF ArndoChanges, stateVars
  <2> QED BY <1>1, <2>4, <2>5, WorkStays DEF PathInv, ThreadTypes, PostsInHand
<1>4. CASE Restart
  <2>1. /\ Boot \in PollerState /\ Boot.at \in {"top", "simulating"} /\ Boot.drained = <<>>
    <3>1. 0 \in 0..Burst /\ <<>> \in Seq(Request)
      BY BurstAssumption
    <3> QED BY <3>1 DEF Boot, AtTop, PollerState, PollerStage, Outcome
  <2>2. api' \in [Thread -> ApiState] /\ PostsInHand'
    BY <1>4 DEF Restart, Idle, ApiState, PostStage, PostsInHand
  <2>3. WorkInHand'
    BY <1>4, <2>1 DEF Restart, Reboot, WorkInHand, WritingStage
  <2> QED BY <1>1, <1>4, <2>1, <2>2, <2>3 DEF Restart, ThreadTypes
<1> QED BY <1>2, <1>3, <1>4, <1>5

----
LEMMA PathStart ==
  ASSUME Init
  PROVE  PathInv
<1>1. QueueInv /\ RequestsFit
  BY InitInv, FitsAtStart DEF Init
<1>2. PICK start \in {"top", "simulating"} : poller = [AtTop EXCEPT !.at = start]
  BY PollerAssumption DEF Init
<1>3. /\ poller \in PollerState /\ poller.at \in {"top", "simulating"} /\ poller.drained = <<>>
  <2>1. 0 \in 0..Burst /\ <<>> \in Seq(Request)
    BY BurstAssumption
  <2> QED BY <1>2, <2>1 DEF AtTop, PollerState, PollerStage, Outcome
<1>4. ThreadTypes
  BY <1>3, ModeAssumption
     DEF Init, ThreadTypes, InjectionMode, Idle, ApiState, PostStage
<1>5. PostsInHand
  BY DEF Init, PostsInHand, Idle, PostStage
<1>6. WorkInHand
  BY <1>3 DEF Init, StateInit, WorkInHand, WritingStage
<1> QED BY <1>1, <1>4, <1>5, <1>6 DEF PathInv

LEMMA PathStep ==
  ASSUME PathInv, [Next]_vars
  PROVE  PathInv' /\ [StateNext]_stateVars
<1>1. [StateNext]_stateVars
  <2>1. OrderlyCall \/ DrainWrites \/ Reboot => StateNext
    BY Zenon DEF OrderlyCall, StateNext
  <2> QED BY <2>1, StepsAreCalls DEF SimulationDrains, Restart
<1>2. QueueInv' /\ RequestsFit'
  BY <1>1, NextInv, FitsStep DEF PathInv
<1>3. ThreadTypes' /\ PostsInHand' /\ WorkInHand'
  <2>1. ASSUME NEW th \in Thread, ApiStarts(th) \/ ApiContinues(th)
        PROVE  ThreadTypes' /\ PostsInHand' /\ WorkInHand'
    BY <2>1, HandlerTypes
  <2>2. CASE PollerStep
    <3>1. SUBSET {table \in Table : TagsOf(table) # {}} \subseteq SUBSET Table
      OBVIOUS
    <3> QED BY <2>2, <3>1, WriteTypes, ReadTypes, SimulationTypes, Zenon DEF PollerStep
  <2> QED BY <2>1, <2>2, OtherTypes, Zenon DEF Next
<1> QED BY <1>1, <1>2, <1>3 DEF PathInv

LEMMA PathInvariance == Spec => []PathInv
<1>1. Init => PathInv
  BY PathStart
<1>2. PathInv /\ [Next]_vars => PathInv'
  BY PathStep
<1> QED BY <1>1, <1>2, PTL DEF Spec

\* The threads use RuntimeState as its module allows anyone to: whatever they do, in
\* whatever order and however often the process dies, is a behaviour of StateSpec.
THEOREM ThreadsMakeCalls == Spec => StateSpec
<1>1. Init => StateInit
  BY DEF Init
<1>2. PathInv /\ [Next]_vars => [StateNext]_stateVars
  BY PathStep
<1> QED BY <1>1, <1>2, PathInvariance, PTL DEF Spec, StateSpec

\* So all that holds of RuntimeState whoever calls it holds with these threads.
THEOREM StateIsSafe ==
  Spec => [](/\ TypeOK /\ DepthBounded /\ OnePendingPerLevel
             /\ ModesAreSaved /\ NewestEmarIsCommanded)
BY ThreadsMakeCalls, TypeCorrect, DepthIsBounded, LevelsAreCoalesced, ModesSurvive,
   NewestCommands, PTL

----
(***************************************************************************)
(* The gate.  set_injection_mode holds it from before it writes the file   *)
(* until it returns, the poller from the last permission until the Modbus  *)
(* operation is over: what the poller read of the mode then still stands.  *)
(***************************************************************************)
PermissionStands ==
  /\ \A th \in Thread : api[th].at \in {"switching", "hung"} => gate = th
  /\ poller.at = "writing" =>
       gate = Poller /\ (RequiresInjection(inFlight.tag) => mode = "enabled")
  /\ poller.at = "confirming" =>
       /\ gate = Poller
       /\ RequiresInjection(Head(poller.drained).tag) /\ mode # "enabled" =>
            poller.outcome = "cancelled"

\* Where the poller neither writes nor confirms only the holder of the gate matters.
LEMMA GateReleased ==
  ASSUME PathInv, PermissionStands, UNCHANGED <<mode, api>>,
         gate' = gate \/ gate \in {NoThread, Poller},
         poller'.at \notin {"writing", "confirming"}
  PROVE  PermissionStands'
<1>1. \A th \in Thread : th # NoThread /\ th # Poller
  BY ThreadAssumption
<1> QED BY <1>1 DEF PermissionStands

LEMMA HandlerPermission ==
  ASSUME PathInv, PermissionStands, NEW th \in Thread, ApiStarts(th) \/ ApiContinues(th)
  PROVE  PermissionStands'
<1>1. api \in [Thread -> ApiState] /\ th # NoThread /\ th # Poller
  BY ThreadAssumption DEF PathInv, ThreadTypes
<1>2. UNCHANGED <<poller, inFlight>>
  BY HandlersLeaveInFlight
     DEF ApiStarts, ApiContinues, InjectionRequested, ModeSwitchStarts, InjectionQueued,
         InjectionRefused, InjectionSaved, InjectionShown, ModeSwitchEnds, ModeSwitchHangs,
         stateVars
<1>3. CASE ModeSwitchStarts(th)
  <2>1. \A other \in Thread : api[other].at \notin {"switching", "hung"}
    BY <1>3, ThreadAssumption DEF ModeSwitchStarts, PermissionStands
  <2>2. poller.at \notin {"writing", "confirming"}
    BY <1>3, ThreadAssumption DEF ModeSwitchStarts, PermissionStands
  <2> QED BY <1>1, <1>2, <1>3, <2>1, <2>2 DEF ModeSwitchStarts, PermissionStands
<1>4. CASE ModeSwitchEnds(th)
  <2>1. gate = th
    BY <1>4 DEF ModeSwitchEnds, PermissionStands
  <2>2. poller.at \notin {"writing", "confirming"}
    BY <1>1, <2>1 DEF PermissionStands
  <2>3. \A other \in Thread : api'[other].at \notin {"switching", "hung"}
    BY <1>1, <1>4, <2>1 DEF ModeSwitchEnds, PermissionStands, Idle
  <2> QED BY <1>2, <2>2, <2>3 DEF PermissionStands
<1>5. CASE ModeSwitchHangs(th)
  BY <1>1, <1>2, <1>5 DEF ModeSwitchHangs, PermissionStands
<1>6. CASE \/ InjectionRequested(th) \/ InjectionQueued(th) \/ InjectionRefused(th)
           \/ InjectionSaved(th) \/ InjectionShown(th)
  <2>1. UNCHANGED <<mode, gate>>
    BY <1>6 DEF InjectionRequested, InjectionQueued, InjectionRefused, InjectionSaved,
                InjectionShown
  <2>2. /\ \A other \in Thread \ {th} : api'[other] = api[other]
        /\ api'[th].at \notin {"switching", "hung"}
    BY <1>1, <1>6
       DEF InjectionRequested, InjectionQueued, InjectionRefused, InjectionSaved,
           InjectionShown, Idle, ApiState
  <2> QED BY <1>2, <2>1, <2>2 DEF PermissionStands
<1> QED BY <1>3, <1>4, <1>5, <1>6 DEF ApiStarts, ApiContinues

LEMMA PollerPermission ==
  ASSUME PathInv, PermissionStands, PollerStep
  PROVE  PermissionStands'
<1>1. poller \in PollerState /\ mode \in InjectionMode
  BY DEF PathInv, ThreadTypes
<1>2. CASE Authorize
  <2>1. UNCHANGED <<mode, api, inFlight>> /\ gate = NoThread /\ gate' = Poller
    BY <1>2 DEF Authorize, stateVars
  <2>2. poller'.at \in {"writing", "recording"}
    BY <1>1, <1>2 DEF Authorize, PollerState
  <2>3. poller'.at = "writing" => (RequiresInjection(inFlight.tag) => mode = "enabled")
    BY <1>1, <1>2 DEF Authorize, PollerState, InjectionMode
  <2> QED BY <2>1, <2>2, <2>3, ThreadAssumption DEF PermissionStands
<1>3. CASE SimulationAuthorizes
  <2>1. UNCHANGED <<mode, api>> /\ gate = NoThread /\ gate' = Poller
    BY <1>3 DEF SimulationAuthorizes
  <2>2. poller'.at = "confirming" /\ poller'.drained = poller.drained
    BY <1>1, <1>3 DEF SimulationAuthorizes, PollerState
  <2>3. RequiresInjection(Head(poller.drained).tag) /\ mode # "enabled" =>
          poller'.outcome = "cancelled"
    BY <1>1, <1>3 DEF SimulationAuthorizes, PollerState, InjectionMode
  <2> QED BY <2>1, <2>2, <2>3, ThreadAssumption DEF PermissionStands
<1>4. CASE \/ WriteCycle \/ TakeRequest \/ BurstEnds \/ WriteAccepted \/ WriteRefused
           \/ WriteFails \/ RecordWrite \/ FinishWrite
  <2>1. UNCHANGED <<mode, api>> /\ poller'.at \notin {"writing", "confirming"}
    BY <1>1, <1>4
       DEF WriteCycle, TakeRequest, BurstEnds, WriteAccepted, WriteRefused, WriteFails,
           RecordWrite, FinishWrite, PollerState
  <2>2. gate' = gate \/ gate = Poller
    BY <1>4 DEF WriteCycle, TakeRequest, BurstEnds, WriteAccepted, WriteRefused, WriteFails,
                RecordWrite, FinishWrite, PermissionStands
  <2> QED BY <2>1, <2>2, GateReleased
<1>5. CASE \/ \E due \in SUBSET {table \in Table : TagsOf(table) # {}} : Schedule(due)
           \/ \E table \in Table :
                ReadTable(table) \/ ReadFails(table) \/ UpdateTable(table) \/ MarkTable(table)
           \/ CycleEnds
  <2>1. UNCHANGED <<mode, api, gate>>
    BY <1>5 DEF Schedule, ReadTable, ReadFails, UpdateTable, MarkTable, CycleEnds
  <2>2. ASSUME NEW due, Schedule(due)
        PROVE  poller'.at \notin {"writing", "confirming"}
    <3>1. AtTop.at = "top"
      BY DEF AtTop
    <3>2. CASE due = {}
      BY <2>2, <3>1, <3>2 DEF Schedule
    <3>3. CASE due # {}
      BY <1>1, <2>2, <3>3 DEF Schedule, PollerState
    <3> QED BY <3>2, <3>3
  <2>3. ASSUME NEW table \in Table,
               ReadTable(table) \/ ReadFails(table) \/ UpdateTable(table) \/ MarkTable(table)
        PROVE  poller'.at \notin {"writing", "confirming"}
    BY <1>1, <2>3 DEF ReadTable, ReadFails, UpdateTable, MarkTable, PollerState
  <2>4. ASSUME CycleEnds
        PROVE  poller'.at \notin {"writing", "confirming"}
    BY <2>4 DEF CycleEnds, AtTop
  <2>5. poller'.at \notin {"writing", "confirming"}
    BY <1>5, <2>2, <2>3, <2>4
  <2> QED BY <2>1, <2>5, GateReleased
<1>6. CASE SimulateReadings \/ SimulationDrains \/ SimulationConfirms \/ SimulationTurnEnds
  <2>1. UNCHANGED <<mode, api>> /\ poller'.at \notin {"writing", "confirming"}
    BY <1>1, <1>6 DEF SimulateReadings, SimulationDrains, SimulationConfirms,
                      SimulationTurnEnds, PollerState
  <2>2. gate' = gate \/ gate = Poller
    BY <1>6 DEF SimulateReadings, SimulationDrains, SimulationConfirms, SimulationTurnEnds,
                PermissionStands
  <2> QED BY <2>1, <2>2, GateReleased
<1> QED BY <1>2, <1>3, <1>4, <1>5, <1>6, Zenon DEF PollerStep

LEMMA PermissionStep ==
  ASSUME PathInv, PermissionStands, [Next]_vars
  PROVE  PermissionStands'
<1>1. ASSUME NEW th \in Thread, ApiStarts(th) \/ ApiContinues(th)
      PROVE  PermissionStands'
  BY <1>1, HandlerPermission
<1>2. CASE PollerStep
  BY <1>2, PollerPermission
<1>3. CASE \/ WritesRequested \/ EmarModeRequested \/ ReadingSwitched \/ ArndoChanges
           \/ UNCHANGED vars
  <2>1. UNCHANGED <<mode, gate, api, poller, inFlight>>
    BY <1>3, HandlersLeaveInFlight
       DEF WritesRequested, EmarModeRequested, SetPumpEmarMode, ReadingSwitched, ArndoChanges,
           vars, threadVars, stateVars
  <2> QED BY <2>1 DEF PermissionStands
<1>4. CASE Restart
  <2>1. poller'.at \in {"top", "simulating"}
    BY <1>4 DEF Restart, Boot, AtTop
  <2>2. \A th \in Thread : api'[th].at = "idle"
    BY <1>4 DEF Restart, Idle
  <2> QED BY <2>1, <2>2 DEF PermissionStands
<1> QED BY <1>1, <1>2, <1>3, <1>4, Zenon DEF Next

LEMMA PermissionInvariance == Spec => []PermissionStands
<1>1. Init => PermissionStands
  BY PollerAssumption DEF Init, Idle, AtTop, PermissionStands
<1>2. PathInv /\ PermissionStands /\ [Next]_vars => PermissionStands'
  BY PermissionStep
<1> QED BY <1>1, <1>2, PathInvariance, PTL DEF Spec

\* While the mode is disabled the PLC takes no injection and a simulation confirms none,
\* whatever was queued, drained or authorized before.
THEOREM InjectionsAreGated == Spec => InjectsOnlyWhileEnabled
<1> DEFINE Gated ==
      \A t \in Tag : RequiresInjection(t) /\ mode # "enabled" =>
        /\ plc'[t] = plc[t]
        /\ poller.at = "confirming" /\ poller' # poller /\ Head(poller.drained).tag = t
             => poller.outcome = "cancelled" \/ poller'.at = "simulating"
<1>1. PathInv /\ PermissionStands /\ [Next]_vars => [Gated]_vars
  <2> SUFFICES ASSUME PathInv, PermissionStands, Next,
                      NEW t \in Tag, RequiresInjection(t), mode # "enabled"
               PROVE  /\ plc'[t] = plc[t]
                      /\ poller.at = "confirming" /\ Head(poller.drained).tag = t
                           => poller.outcome = "cancelled" \/ poller'.at = "simulating"
    OBVIOUS
  <2>1. poller.at = "confirming" /\ Head(poller.drained).tag = t => poller.outcome = "cancelled"
    BY DEF PermissionStands
  <2>2. plc'[t] = plc[t]
    <3>1. plc \in [Tag -> Value]
      BY DEF PathInv, ThreadTypes
    <3>2. CASE WriteAccepted \/ WriteFails
      <4>1. inFlight.tag # t
        BY <3>2 DEF WriteAccepted, WriteFails, PermissionStands
      <4> QED BY <3>1, <3>2, <4>1 DEF WriteAccepted, WriteFails
    <3>3. CASE ArndoChanges
      <4>1. PICK p \in Pump : plc' = [plc EXCEPT ![Arndo(p)] = 1 - @]
        BY <3>3 DEF ArndoChanges
      <4>2. Arndo(p) # t
        BY DEF Arndo, RequiresInjection
      <4> QED BY <3>1, <4>1, <4>2
    <3>4. CASE WritesRequested \/ EmarModeRequested \/ ReadingSwitched \/ Restart
      BY <3>4 DEF WritesRequested, EmarModeRequested, ReadingSwitched, Restart, threadVars
    <3>5. ASSUME NEW th \in Thread, ApiStarts(th) \/ ApiContinues(th)
          PROVE  UNCHANGED plc
      BY <3>5 DEF ApiStarts, ApiContinues, InjectionRequested, ModeSwitchStarts,
                  InjectionQueued, InjectionRefused, InjectionSaved, InjectionShown,
                  ModeSwitchEnds, ModeSwitchHangs
    <3>6. CASE PollerStep /\ ~(WriteAccepted \/ WriteFails)
      BY <3>6 DEF PollerStep, WriteCycle, TakeRequest, BurstEnds, Authorize, WriteRefused,
                  RecordWrite, FinishWrite, Schedule, ReadTable, ReadFails, UpdateTable,
                  MarkTable, CycleEnds, SimulateReadings, SimulationDrains,
                  SimulationAuthorizes, SimulationConfirms, SimulationTurnEnds
    <3> QED BY <3>2, <3>3, <3>4, <3>5, <3>6, Zenon DEF Next
  <2> QED BY <2>1, <2>2
<1> QED BY <1>1, PathInvariance, PermissionInvariance, PTL DEF Spec, InjectsOnlyWhileEnabled

----
(***************************************************************************)
(* What is shown as good.  With the value shown the invariant follows what *)
(* is about to be shown: the sample just read, the write just accepted.    *)
(***************************************************************************)
ShownIsConfirmed ==
  /\ GoodMeansConfirmed
  /\ poller.at = "updating" =>
       \A t \in DOMAIN poller.sample : Writable(t) => poller.sample[t] = plc[t]
  /\ poller.at = "recording" /\ poller.outcome = "accepted" =>
       plc[inFlight.tag] = inFlight.value

\* A step that shows nothing more as good.
Fades == \A t \in Tag : values'[t].quality = "good" => values'[t] = values[t]

LEMMA RecordingFades ==
  ASSUME NEW batch, NEW quality, quality # "good", values' = Recorded(values, batch, quality)
  PROVE  Fades
  BY DEF Recorded, Fades

LEMMA PostsFade ==
  ASSUME NEW post,
         \/ EnqueueWrites(post) \/ QueueInjections(post)
         \/ UpdateRtuTags(post) \/ RecordDisabledInjections(post)
  PROVE  Fades
  BY RecordingFades
     DEF EnqueueWrites, QueueInjections, Enqueue, CoalescePendingWrites, UpdateRtuTags,
         RecordDisabledInjections, Fades

LEMMA SetModeFades ==
  ASSUME NEW p, NEW m, SetPumpEmarMode(p, m)
  PROVE  Fades
  BY RecordingFades DEF SetPumpEmarMode

LEMMA MarkFades ==
  ASSUME values \in [Tag -> SignalValue], NEW table, MarkTableError(table)
  PROVE  Fades
  BY DEF MarkTableError, Fades, SignalValue

LEMMA RebootFades ==
  ASSUME Reboot
  PROVE  \A t \in Tag : values'[t].quality # "good"
<1> SUFFICES ASSUME NEW t \in Tag, NEW ctl PROVE BootValues(ctl)[t].quality # "good"
  BY DEF Reboot
<1>1. CASE Analog(t)
  BY <1>1 DEF BootValues
<1>2. CASE ~Analog(t)
  BY <1>2, TagKinds DEF BootValues, Analog
<1> QED BY <1>1, <1>2

\* A reading shows as good what it brings, and nothing else.
LEMMA UpdateShows ==
  ASSUME NEW updates, UpdateValues(updates)
  PROVE  \A t \in Tag : values'[t].quality = "good" =>
           \/ t \in DOMAIN updates /\ values'[t].value = updates[t]
           \/ t \notin DOMAIN updates /\ values'[t] = values[t]
<1> DEFINE seen == Recorded(values, updates, "good")
<1>1. PICK batch : values' = Recorded(seen, batch, "queued")
  BY DEF UpdateValues
<1> QED BY <1>1 DEF Recorded

\* With the PLC and the poller where they were.
LEMMA ShownWhenFading ==
  ASSUME PathInv, ShownIsConfirmed, Fades, UNCHANGED <<plc, poller, inFlight>>
  PROVE  ShownIsConfirmed'
<1>1. GoodMeansConfirmed'
  BY DEF ShownIsConfirmed, GoodMeansConfirmed, Fades, InSimulation
<1> QED BY <1>1 DEF ShownIsConfirmed

LEMMA HandlerShows ==
  ASSUME PathInv, ShownIsConfirmed,
         \/ \E th \in Thread : ApiStarts(th) \/ ApiContinues(th)
         \/ WritesRequested \/ EmarModeRequested \/ ReadingSwitched \/ UNCHANGED vars
  PROVE  ShownIsConfirmed'
<1>1. ASSUME NEW th \in Thread, ApiStarts(th) \/ ApiContinues(th)
      PROVE  Fades /\ UNCHANGED <<plc, poller, inFlight>>
  <2>1. UNCHANGED <<plc, poller>>
    BY <1>1 DEF ApiStarts, ApiContinues, InjectionRequested, ModeSwitchStarts, InjectionQueued,
                InjectionRefused, InjectionSaved, InjectionShown, ModeSwitchEnds, ModeSwitchHangs
  <2>2. CASE InjectionQueued(th) \/ InjectionSaved(th) \/ InjectionShown(th)
    <3>1. Fades /\ UNCHANGED inFlight
      BY <2>2, PostsFade, HandlersLeaveInFlight
         DEF InjectionQueued, InjectionSaved, InjectionShown
    <3> QED BY <2>1, <3>1
  <2>3. CASE ~(InjectionQueued(th) \/ InjectionSaved(th) \/ InjectionShown(th))
    <3>1. UNCHANGED stateVars
      BY <1>1, <2>3 DEF ApiStarts, ApiContinues, InjectionRequested, ModeSwitchStarts,
                        InjectionRefused, ModeSwitchEnds, ModeSwitchHangs
    <3> QED BY <2>1, <3>1 DEF stateVars, Fades
  <2> QED BY <2>2, <2>3
<1>2. ASSUME WritesRequested \/ EmarModeRequested
      PROVE  Fades /\ UNCHANGED <<plc, poller, inFlight>>
  <2>1. UNCHANGED <<plc, poller>>
    BY <1>2 DEF WritesRequested, EmarModeRequested, threadVars
  <2>2. Fades /\ UNCHANGED inFlight
    BY <1>2, PostsFade, SetModeFades, HandlersLeaveInFlight
       DEF WritesRequested, EmarModeRequested, SetPumpEmarMode
  <2> QED BY <2>1, <2>2
<1>3. ASSUME ReadingSwitched \/ UNCHANGED vars
      PROVE  Fades /\ UNCHANGED <<plc, poller, inFlight>>
  BY <1>3 DEF ReadingSwitched, vars, stateVars, threadVars, Fades
<1> QED BY <1>1, <1>2, <1>3, ShownWhenFading

LEMMA WriteShows ==
  ASSUME PathInv, ShownIsConfirmed,
         \/ WriteCycle \/ TakeRequest \/ BurstEnds \/ Authorize
         \/ WriteAccepted \/ WriteRefused \/ WriteFails \/ RecordWrite \/ FinishWrite
  PROVE  ShownIsConfirmed'
<1>1. /\ plc \in [Tag -> Value] /\ poller \in PollerState /\ values \in [Tag -> SignalValue]
  BY DEF PathInv, ThreadTypes, QueueInv, TypeOK
<1>2. poller.at \notin {"updating", "simulating", "draining", "answering", "confirming"}
  BY DEF WriteCycle, TakeRequest, BurstEnds, Authorize, WriteAccepted, WriteRefused, WriteFails,
         RecordWrite, FinishWrite
<1>3. poller'.at # "updating"
  BY <1>1 DEF WriteCycle, TakeRequest, BurstEnds, Authorize, WriteAccepted, WriteRefused,
              WriteFails, RecordWrite, FinishWrite, PollerState
<1>4. GoodMeansConfirmed /\ ~InSimulation
  BY <1>2 DEF ShownIsConfirmed, InSimulation
<1>5. CASE WriteCycle \/ TakeRequest \/ BurstEnds \/ FinishWrite \/ Authorize
  <2>1. UNCHANGED <<plc, values>> /\ poller.at # "recording"
    BY <1>5 DEF WriteCycle, TakeRequest, BurstEnds, FinishWrite, Authorize, NextWrite,
                CompleteWrite, stateVars
  <2>2. poller'.at = "recording" => poller'.outcome = "cancelled"
    BY <1>1, <1>5
       DEF WriteCycle, TakeRequest, BurstEnds, FinishWrite, Authorize, PollerState
  <2> QED BY <1>3, <1>4, <2>1, <2>2 DEF ShownIsConfirmed, GoodMeansConfirmed
<1>6. CASE WriteAccepted \/ WriteRefused \/ WriteFails
  <2>1. UNCHANGED <<values, inFlight>> /\ poller'.at = "recording"
    BY <1>1, <1>6 DEF WriteAccepted, WriteRefused, WriteFails, stateVars, PollerState
  <2>2. plc' = plc \/ plc' = [plc EXCEPT ![inFlight.tag] = inFlight.value]
    BY <1>6 DEF WriteAccepted, WriteRefused, WriteFails
  <2>3. poller'.outcome = "accepted" => plc' = [plc EXCEPT ![inFlight.tag] = inFlight.value]
    BY <1>1, <1>6 DEF WriteAccepted, WriteRefused, WriteFails, PollerState
  <2>4. inFlight.tag \in Tag
    BY <1>6, RequestHolds
       DEF WriteAccepted, WriteRefused, WriteFails, PathInv, WorkInHand, WritingStage
  <2>5. GoodMeansConfirmed'
    <3>1. poller.at # "recording"
      BY <1>6 DEF WriteAccepted, WriteRefused, WriteFails
    <3> QED BY <1>1, <1>4, <2>1, <2>2, <3>1 DEF GoodMeansConfirmed
  <2> QED BY <1>1, <1>3, <2>1, <2>3, <2>4, <2>5 DEF ShownIsConfirmed
<1>7. CASE RecordWrite
  <2>1. poller.at = "recording" /\ poller'.at = "completing" /\ UNCHANGED plc
    BY <1>1, <1>7 DEF RecordWrite, PollerState
  <2>2. inFlight.tag \in Tag
    BY <2>1, RequestHolds DEF PathInv, WorkInHand, WritingStage
  <2>3. /\ \A t \in Tag : t # inFlight.tag => values'[t] = values[t]
        /\ poller.outcome = "accepted" => values'[inFlight.tag].value = inFlight.value
        /\ poller.outcome # "accepted" => values'[inFlight.tag].quality = "error"
    BY <1>1, <1>7, <2>2 DEF RecordWrite, WriteResult, SignalValue
  <2> QED BY <1>3, <1>4, <2>1, <2>2, <2>3 DEF ShownIsConfirmed, GoodMeansConfirmed
<1> QED BY <1>5, <1>6, <1>7

LEMMA ReadShows ==
  ASSUME PathInv, ShownIsConfirmed,
         \/ \E due \in SUBSET Table : Schedule(due)
         \/ \E table \in Table :
              ReadTable(table) \/ ReadFails(table) \/ UpdateTable(table) \/ MarkTable(table)
         \/ CycleEnds
  PROVE  ShownIsConfirmed'
<1>1. /\ plc \in [Tag -> Value] /\ poller \in PollerState /\ values \in [Tag -> SignalValue]
  BY DEF PathInv, ThreadTypes, QueueInv, TypeOK
<1>2. /\ UNCHANGED plc
      /\ poller.at \notin {"recording", "simulating", "draining", "answering", "confirming"}
  BY DEF Schedule, ReadTable, ReadFails, UpdateTable, MarkTable, CycleEnds
<1>3. GoodMeansConfirmed /\ ~InSimulation
  BY <1>2 DEF ShownIsConfirmed, InSimulation
<1>4. ASSUME NEW table \in Table, ReadTable(table)
      PROVE  ShownIsConfirmed'
  <2>1. /\ poller'.at = "updating" /\ UNCHANGED values
        /\ poller'.sample = [t \in TagsOf(table) |-> plc[t]]
    BY <1>1, <1>4 DEF ReadTable, PollerState, stateVars
  <2> QED BY <1>2, <1>3, <2>1 DEF ShownIsConfirmed, GoodMeansConfirmed
<1>5. ASSUME NEW table \in Table, UpdateTable(table)
      PROVE  ShownIsConfirmed'
  <2>1. poller.at = "updating" /\ poller'.at = "reading"
    BY <1>1, <1>5 DEF UpdateTable, PollerState
  <2>2. \A t \in DOMAIN poller.sample : Writable(t) => poller.sample[t] = plc[t]
    BY <2>1 DEF ShownIsConfirmed
  <2>3. \A t \in Tag : values'[t].quality = "good" =>
          \/ t \in DOMAIN poller.sample /\ values'[t].value = poller.sample[t]
          \/ t \notin DOMAIN poller.sample /\ values'[t] = values[t]
    BY <1>5, UpdateShows DEF UpdateTable
  <2> QED BY <1>2, <1>3, <2>1, <2>2, <2>3 DEF ShownIsConfirmed, GoodMeansConfirmed
<1>6. ASSUME Fades, poller'.at \notin {"recording", "updating"}
      PROVE  ShownIsConfirmed'
  BY <1>2, <1>3, <1>6 DEF ShownIsConfirmed, GoodMeansConfirmed, Fades
<1>7. ASSUME NEW due \in SUBSET Table, Schedule(due)
      PROVE  ShownIsConfirmed'
  <2>1. AtTop.at = "top"
    BY DEF AtTop
  <2>2. CASE due = {}
    BY <1>6, <1>7, <2>1, <2>2 DEF Schedule, stateVars, Fades
  <2>3. CASE due # {}
    BY <1>1, <1>6, <1>7, <2>3 DEF Schedule, stateVars, Fades, PollerState
  <2> QED BY <2>2, <2>3
<1>8. ASSUME NEW table \in Table, ReadFails(table)
      PROVE  ShownIsConfirmed'
  BY <1>1, <1>6, <1>8 DEF ReadFails, stateVars, Fades, PollerState
<1>9. ASSUME NEW table \in Table, MarkTable(table)
      PROVE  ShownIsConfirmed'
  <2>1. Fades
    BY <1>1, <1>9, MarkFades DEF MarkTable
  <2> QED BY <1>1, <1>6, <1>9, <2>1 DEF MarkTable, PollerState
<1>10. ASSUME CycleEnds
       PROVE  ShownIsConfirmed'
  BY <1>6, <1>10 DEF CycleEnds, AtTop, stateVars, Fades
<1> QED BY <1>4, <1>5, <1>7, <1>8, <1>9, <1>10

LEMMA OtherShows ==
  ASSUME PathInv, ShownIsConfirmed,
         \/ SimulateReadings \/ SimulationDrains \/ SimulationAuthorizes
         \/ SimulationConfirms \/ SimulationTurnEnds \/ ArndoChanges \/ Restart
  PROVE  ShownIsConfirmed'
<1>1. plc \in [Tag -> Value] /\ poller \in PollerState
  BY DEF PathInv, ThreadTypes
<1>2. CASE \/ SimulateReadings \/ SimulationDrains \/ SimulationAuthorizes
           \/ SimulationConfirms \/ SimulationTurnEnds
  <2>1. poller'.at \in {"simulating", "draining", "answering", "confirming"}
    BY <1>1, <1>2 DEF SimulateReadings, SimulationDrains, SimulationAuthorizes,
                      SimulationConfirms, SimulationTurnEnds, PollerState
  <2> QED BY <2>1 DEF ShownIsConfirmed, GoodMeansConfirmed, InSimulation
<1>3. CASE ArndoChanges
  <2>1. PICK p \in Pump : plc' = [plc EXCEPT ![Arndo(p)] = 1 - @]
    BY <1>3 DEF ArndoChanges
  <2>2. \A t : Writable(t) => plc'[t] = plc[t]
    BY <1>1, <2>1 DEF Arndo, Writable
  <2>3. UNCHANGED <<values, poller, inFlight>>
    BY <1>3 DEF ArndoChanges, stateVars
  <2>4. poller.at = "recording" => Writable(inFlight.tag)
    BY RequestHolds DEF PathInv, WorkInHand, WritingStage
  <2>5. GoodMeansConfirmed'
    BY <2>2, <2>3 DEF ShownIsConfirmed, GoodMeansConfirmed, InSimulation
  <2>6. poller'.at = "updating" =>
          \A t \in DOMAIN poller'.sample : Writable(t) => poller'.sample[t] = plc'[t]
    BY <2>2, <2>3 DEF ShownIsConfirmed
  <2>7. poller'.at = "recording" /\ poller'.outcome = "accepted" =>
          plc'[inFlight'.tag] = inFlight'.value
    BY <2>2, <2>3, <2>4 DEF ShownIsConfirmed
  <2> QED BY <2>5, <2>6, <2>7 DEF ShownIsConfirmed
<1>4. CASE Restart
  <2>1. poller'.at \in {"top", "simulating"}
    BY <1>4 DEF Restart, Boot, AtTop
  <2>2. \A t \in Tag : values'[t].quality # "good"
    BY <1>4, RebootFades DEF Restart
  <2> QED BY <2>1, <2>2 DEF ShownIsConfirmed, GoodMeansConfirmed
<1> QED BY <1>2, <1>3, <1>4

\* A value shown as good is the one the PLC holds, but for the write being recorded.
THEOREM GoodIsConfirmed == Spec => []GoodMeansConfirmed
<1>1. Init => ShownIsConfirmed
  <2> SUFFICES ASSUME Init PROVE ShownIsConfirmed
    OBVIOUS
  <2>1. poller.at \in {"top", "simulating"}
    BY PollerAssumption DEF Init, AtTop
  <2>2. \A t \in Tag : values[t].quality # "good"
    <3> TAKE t \in Tag
    <3>1. values = BootValues(controls)
      BY DEF Init, StateInit
    <3> QED BY <3>1, TagKinds DEF BootValues, Analog
  <2> QED BY <2>1, <2>2 DEF ShownIsConfirmed, GoodMeansConfirmed
<1>2. PathInv /\ ShownIsConfirmed /\ [Next]_vars => ShownIsConfirmed'
  <2> SUFFICES ASSUME PathInv, ShownIsConfirmed, [Next]_vars
               PROVE  ShownIsConfirmed'
    OBVIOUS
  <2>1. CASE PollerStep
    <3>1. SUBSET {table \in Table : TagsOf(table) # {}} \subseteq SUBSET Table
      OBVIOUS
    <3> QED BY <2>1, <3>1, WriteShows, ReadShows, OtherShows, Zenon DEF PollerStep
  <2>2. CASE ~PollerStep
    BY <2>2, HandlerShows, OtherShows, Zenon DEF Next
  <2> QED BY <2>1, <2>2
<1>3. ShownIsConfirmed => GoodMeansConfirmed
  BY DEF ShownIsConfirmed
<1> QED BY <1>1, <1>2, <1>3, PathInvariance, PTL DEF Spec

----
(***************************************************************************)
(* What is shown as queued.  A request backs it until its result is        *)
(* recorded: while the poller is "completing" the one in flight no longer  *)
(* counts.                                                                 *)
(***************************************************************************)
Holds(requests, t, v) ==
  \E i \in 1..Len(requests) : requests[i].tag = t /\ requests[i].value = v

Backed(t, v) ==
  \/ Holds(poller.drained, t, v)
  \/ Holds(queue, t, v)
  \/ /\ inFlight # NoRequest /\ poller.at # "completing"
     /\ inFlight.tag = t /\ inFlight.value = v

QueuedIsBacked ==
  \A t \in Tag : values[t].quality = "queued" => Backed(t, values[t].value)

\* A call that queues what it newly shows as queued, and drops nothing from the queue
\* that backs what stays queued.
KeepsBacking ==
  \A t \in Tag : values'[t].quality = "queued" =>
    \/ Holds(queue', t, values'[t].value)
    \/ /\ values'[t] = values[t]
       /\ Holds(queue, t, values[t].value) => Holds(queue', t, values[t].value)

LEMMA Concatenation ==
  ASSUME NEW kept \in Seq(Request), NEW added \in Seq(Request)
  PROVE  LET all == kept \o added
         IN  /\ Len(kept) \in Nat /\ Len(added) \in Nat /\ Len(all) = Len(kept) + Len(added)
             /\ \A i \in 1..Len(kept) : all[i] = kept[i]
             /\ \A i \in 1..Len(added) : all[Len(kept) + i] = added[i]
  OBVIOUS

LEMMA HoldsAppended ==
  ASSUME NEW kept \in Seq(Request), NEW added \in Seq(Request), NEW t, NEW v,
         Holds(kept, t, v) \/ Holds(added, t, v)
  PROVE  Holds(kept \o added, t, v)
<1> DEFINE all == kept \o added
<1>1. /\ Len(kept) \in Nat /\ Len(added) \in Nat /\ Len(all) = Len(kept) + Len(added)
      /\ \A i \in 1..Len(kept) : all[i] = kept[i]
      /\ \A i \in 1..Len(added) : all[Len(kept) + i] = added[i]
  BY Concatenation
<1> HIDE DEF all
<1>2. CASE Holds(kept, t, v)
  <2>1. PICK i \in 1..Len(kept) : kept[i].tag = t /\ kept[i].value = v
    BY <1>2 DEF Holds
  <2>2. i \in 1..Len(all) /\ all[i] = kept[i]
    BY <1>1
  <2> QED BY <2>1, <2>2 DEF Holds, all
<1>3. CASE Holds(added, t, v)
  <2>1. PICK i \in 1..Len(added) : added[i].tag = t /\ added[i].value = v
    BY <1>3 DEF Holds
  <2>2. Len(kept) + i \in 1..Len(all) /\ all[Len(kept) + i] = added[i]
    BY <1>1
  <2> QED BY <2>1, <2>2 DEF Holds, all
<1> QED BY <1>2, <1>3

LEMMA AppendBacks ==
  ASSUME NEW kept \in Seq(Request), NEW added \in Seq(Request), NEW batch, NEW base,
         queue' = kept \o added, Len(kept) = Len(queue),
         values' = Recorded(base, batch, "queued"),
         \A t \in Tag : base[t].quality = "queued" => base[t] = values[t],
         \A t \in DOMAIN batch : Holds(kept, t, batch[t]) \/ Holds(added, t, batch[t]),
         \A i \in 1..Len(queue) :
           /\ kept[i].tag = queue[i].tag
           /\ kept[i].tag \notin DOMAIN batch => kept[i].value = queue[i].value
  PROVE  KeepsBacking
<1> SUFFICES ASSUME NEW t \in Tag, values'[t].quality = "queued"
             PROVE  \/ Holds(queue', t, values'[t].value)
                    \/ /\ values'[t] = values[t]
                       /\ Holds(queue, t, values[t].value) => Holds(queue', t, values[t].value)
  BY DEF KeepsBacking
<1>1. CASE t \in DOMAIN batch
  <2>1. values'[t].value = batch[t]
    BY <1>1 DEF Recorded
  <2> QED BY <1>1, <2>1, HoldsAppended
<1>2. CASE t \notin DOMAIN batch
  <2>1. values'[t] = values[t]
    BY <1>2 DEF Recorded
  <2>2. ASSUME Holds(queue, t, values[t].value)
        PROVE  Holds(kept, t, values[t].value)
    BY <1>2, <2>2 DEF Holds
  <2> QED BY <2>1, <2>2, HoldsAppended
<1> QED BY <1>1, <1>2

LEMMA CommandsHold ==
  ASSUME NEW added, NEW tags, NEW batch, NEW source, Commands(added, tags, batch, source),
         NEW t \in tags
  PROVE  Holds(added, t, batch[t])
  BY DEF Commands, Holds

LEMMA EnqueueBacks ==
  ASSUME QueueInv, NEW post \in Post, Validated(post), Enqueue(post)
  PROVE  KeepsBacking
<1>1. PICK added : /\ Commands(added, DOMAIN post.batch, post.batch, post.source)
                   /\ queue' = queue \o added
  BY EnqueueAppends
<1>2. added \in Seq(Request) /\ queue \in Seq(Request)
  BY <1>1 DEF Commands, QueueInv, TypeOK
<1>3. values' = Recorded(values, post.batch, "queued")
  BY DEF Enqueue
<1>4. \A t \in DOMAIN post.batch : Holds(added, t, post.batch[t])
  BY <1>1, CommandsHold
<1> QED BY <1>1, <1>2, <1>3, <1>4, AppendBacks

LEMMA CoalesceBacks ==
  ASSUME QueueInv, NEW post \in Post, IsInjection(post), CoalescePendingWrites(post.batch)
  PROVE  KeepsBacking
<1> DEFINE batch == post.batch
           kept == WithNewValues(queue, batch)
<1>1. \A t \in DOMAIN batch : batch[t] \in Value
  BY ValidatedType DEF IsInjection
<1>2. PICK added : /\ Commands(added, DOMAIN batch \ PendingTags(batch), batch, "field-emulator")
                   /\ queue' = kept \o added
  BY CoalesceAppends
<1>3. /\ kept \in Seq(Request) /\ Len(kept) = Len(queue)
      /\ \A i \in 1..Len(queue) :
           /\ kept[i].tag = queue[i].tag
           /\ kept[i].value = IF queue[i].tag \in DOMAIN batch
                                 /\ queue[i].source = "field-emulator"
                              THEN batch[queue[i].tag] ELSE queue[i].value
  BY <1>1, NewValuesInPlace
<1> HIDE DEF kept
<1>4. added \in Seq(Request) /\ DOMAIN queue = 1..Len(queue)
  BY <1>2 DEF Commands, QueueInv, TypeOK
<1>5. values' = Recorded(values, batch, "queued")
  BY DEF CoalescePendingWrites
<1>6. \A t \in DOMAIN batch : Holds(kept, t, batch[t]) \/ Holds(added, t, batch[t])
  <2> TAKE t \in DOMAIN batch
  <2>1. CASE t \in PendingTags(batch)
    <3>1. PICK i \in 1..Len(queue) : IsPending(i, t)
      BY <1>4, <2>1 DEF PendingTags
    <3>2. kept[i].tag = t /\ kept[i].value = batch[t]
      BY <1>3, <3>1 DEF IsPending
    <3> QED BY <1>3, <3>2 DEF Holds
  <2>2. CASE t \notin PendingTags(batch)
    BY <1>2, <2>2, CommandsHold
  <2> QED BY <2>1, <2>2
<1>7. \A i \in 1..Len(queue) : /\ kept[i].tag = queue[i].tag
                               /\ kept[i].tag \notin DOMAIN batch => kept[i].value = queue[i].value
  BY <1>3
<1> HIDE DEF batch
<1> QED BY <1>2, <1>3, <1>4, <1>5, <1>6, <1>7, AppendBacks

LEMMA SetModeBacks ==
  ASSUME QueueInv, NEW p \in Pump, NEW m \in EmarMode, SetPumpEmarMode(p, m)
  PROVE  KeepsBacking
<1> DEFINE batch == [t \in {Emar(p)} |-> EmarValue(emarModes', values, p)]
<1>1. /\ \E added : Commands(added, {Emar(p)}, batch, "other") /\ queue' = queue \o added
      /\ values' = Recorded(values, batch, "queued")
  BY SetModeAppends
<1>2. PICK added : Commands(added, {Emar(p)}, batch, "other") /\ queue' = queue \o added
  BY <1>1
<1>3. added \in Seq(Request) /\ queue \in Seq(Request) /\ DOMAIN batch = {Emar(p)}
  BY <1>2 DEF Commands, QueueInv, TypeOK
<1> HIDE DEF batch
<1>4. \A t \in DOMAIN batch : Holds(added, t, batch[t])
  BY <1>2, <1>3, CommandsHold
<1> QED BY <1>1, <1>2, <1>3, <1>4, AppendBacks

LEMMA UpdateBacks ==
  ASSUME QueueInv, NEW updates, UpdateValues(updates),
         \A t \in DOMAIN updates : updates[t] \in Value
  PROVE  KeepsBacking
<1> DEFINE seen == Recorded(values, updates, "good")
<1>1. PICK added, batch : /\ Commands(added, DOMAIN batch, batch, "other")
                          /\ queue' = queue \o added
                          /\ values' = Recorded(seen, batch, "queued")
  BY UpdateAppends
<1>2. \A t \in Tag : seen[t].quality = "queued" => seen[t] = values[t]
  BY DEF Recorded
<1>3. added \in Seq(Request) /\ queue \in Seq(Request)
  BY <1>1 DEF Commands, QueueInv, TypeOK
<1>4. \A t \in DOMAIN batch : Holds(added, t, batch[t])
  BY <1>1, CommandsHold
<1> HIDE DEF seen
<1> QED BY <1>1, <1>2, <1>3, <1>4, AppendBacks

LEMMA BootBacks ==
  ASSUME NEW ctl \in Controls, NEW t \in Tag, BootValues(ctl)[t].quality = "queued"
  PROVE  Holds(BootQueue(ctl), t, BootValues(ctl)[t].value)
<1>1. t[1] = "emar"
  BY TagKinds DEF BootValues, Analog
<1>2. t[2] \in Pump /\ t = Emar(t[2])
  BY <1>1, TagKinds DEF Emar
<1> DEFINE p == t[2]
<1>3. BootValues(ctl)[t].value = IF ctl[p].emar_mode = "forced" THEN 1 ELSE 0
  BY <1>1 DEF BootValues, Analog
<1>4. BootValues(ctl)[Arndo(p)].value = NoValue
  BY <1>2, PumpTags DEF BootValues, Analog, Arndo
<1>5. NoValue # 1
  BY NoneAssumption DEF Value, Bit
<1>6. BootModes(ctl)[p] = ctl[p].emar_mode /\ ctl[p].emar_mode \in EmarMode
  BY <1>2 DEF BootModes, Controls
<1>7. EmarValue(BootModes(ctl), BootValues(ctl), p) = BootValues(ctl)[t].value
  BY <1>3, <1>4, <1>5, <1>6 DEF EmarValue, EmarMode
<1>8. /\ BootQueue(ctl)[p].tag = t
      /\ BootQueue(ctl)[p].value = EmarValue(BootModes(ctl), BootValues(ctl), p)
  BY <1>2 DEF BootQueue
<1>9. p \in 1..Len(BootQueue(ctl))
  BY <1>2, BootStep DEF Pump
<1> QED BY <1>7, <1>8, <1>9 DEF Holds

\* With the thread's own requests where they were.
LEMMA BackedWhenKept ==
  ASSUME QueuedIsBacked, KeepsBacking, UNCHANGED inFlight, poller'.drained = poller.drained,
         poller.at # "completing", poller'.at # "completing"
  PROVE  QueuedIsBacked'
  BY DEF QueuedIsBacked, KeepsBacking, Backed

LEMMA HandlerBacks ==
  ASSUME PathInv, QueuedIsBacked,
         \/ \E th \in Thread : ApiStarts(th) \/ ApiContinues(th)
         \/ WritesRequested \/ EmarModeRequested \/ ReadingSwitched \/ ArndoChanges
         \/ UNCHANGED vars
  PROVE  QueuedIsBacked'
<1>1. QueueInv
  BY DEF PathInv
<1>2. ASSUME KeepsBacking, UNCHANGED <<poller, inFlight>>
      PROVE  QueuedIsBacked'
  BY <1>2 DEF QueuedIsBacked, KeepsBacking, Backed
<1>3. ASSUME UNCHANGED <<poller, inFlight, queue, values>>
      PROVE  QueuedIsBacked'
  BY <1>3 DEF QueuedIsBacked, Backed
<1>4. ASSUME NEW post \in Post, Enqueue(post), Validated(post), UNCHANGED poller
      PROVE  QueuedIsBacked'
  BY <1>1, <1>2, <1>4, EnqueueBacks DEF Enqueue
<1>5. ASSUME NEW th \in Thread, ApiStarts(th) \/ ApiContinues(th)
      PROVE  QueuedIsBacked'
  <2>1. CASE InjectionQueued(th)
    <3> DEFINE post == api[th].post
    <3>1. post \in Post /\ UNCHANGED poller
      BY <2>1 DEF InjectionQueued, PathInv, PostsInHand, PostStage
    <3>2. QueueInjections(post)
      BY <2>1 DEF InjectionQueued
    <3> HIDE DEF post
    <3>3. CASE post.source = "field-emulator"
      <4>1. KeepsBacking /\ UNCHANGED inFlight
        BY <1>1, <3>1, <3>2, <3>3, CoalesceBacks DEF QueueInjections, CoalescePendingWrites
      <4> QED BY <1>2, <3>1, <4>1
    <3>4. CASE post.source # "field-emulator"
      BY <1>4, <3>1, <3>2, <3>4 DEF QueueInjections, IsInjection
    <3> QED BY <3>3, <3>4
  <2>2. CASE InjectionShown(th)
    <3>1. /\ UNCHANGED <<poller, inFlight, queue>>
          /\ values' = Recorded(values, api[th].post.batch, "skipped")
      BY <2>2 DEF InjectionShown, RecordDisabledInjections
    <3>2. KeepsBacking
      BY <3>1 DEF Recorded, KeepsBacking
    <3> QED BY <1>2, <3>1, <3>2
  <2>3. CASE \/ InjectionRequested(th) \/ InjectionRefused(th) \/ InjectionSaved(th)
             \/ ModeSwitchStarts(th) \/ ModeSwitchEnds(th) \/ ModeSwitchHangs(th)
    BY <1>3, <2>3
       DEF InjectionRequested, InjectionRefused, InjectionSaved, ModeSwitchStarts,
           ModeSwitchEnds, ModeSwitchHangs, UpdateRtuTags, stateVars
  <2> QED BY <1>5, <2>1, <2>2, <2>3 DEF ApiStarts, ApiContinues
<1>6. CASE WritesRequested
  BY <1>4, <1>6 DEF WritesRequested, EnqueueWrites, threadVars
<1>7. CASE EmarModeRequested
  <2>1. KeepsBacking /\ UNCHANGED <<poller, inFlight>>
    BY <1>1, <1>7, SetModeBacks DEF EmarModeRequested, SetPumpEmarMode, threadVars
  <2> QED BY <1>2, <2>1
<1>8. CASE ReadingSwitched \/ ArndoChanges \/ UNCHANGED vars
  BY <1>3, <1>8 DEF ReadingSwitched, ArndoChanges, vars, stateVars, threadVars
<1> QED BY <1>5, <1>6, <1>7, <1>8

LEMMA WriteBacks ==
  ASSUME PathInv, QueuedIsBacked,
         \/ WriteCycle \/ TakeRequest \/ BurstEnds \/ Authorize
         \/ WriteAccepted \/ WriteRefused \/ WriteFails \/ RecordWrite \/ FinishWrite
  PROVE  QueuedIsBacked'
<1>1. poller \in PollerState /\ values \in [Tag -> SignalValue] /\ queue \in Seq(Request)
  BY DEF PathInv, ThreadTypes, QueueInv, TypeOK
<1>2. poller'.drained = poller.drained
  BY <1>1 DEF WriteCycle, TakeRequest, BurstEnds, Authorize, WriteAccepted, WriteRefused,
              WriteFails, RecordWrite, FinishWrite, PollerState
<1>3. CASE WriteCycle \/ BurstEnds \/ Authorize \/ WriteAccepted \/ WriteRefused \/ WriteFails
  <2>1. UNCHANGED <<queue, inFlight, values>> /\ poller.at # "completing"
    BY <1>3 DEF WriteCycle, BurstEnds, Authorize, WriteAccepted, WriteRefused, WriteFails,
                stateVars
  <2>2. poller'.at # "completing"
    BY <1>1, <1>3 DEF WriteCycle, BurstEnds, Authorize, WriteAccepted, WriteRefused, WriteFails,
                      PollerState
  <2> QED BY <1>2, <2>1, <2>2, BackedWhenKept DEF KeepsBacking
<1>4. CASE TakeRequest
  <2>1. UNCHANGED values /\ poller.at = "burst" /\ poller'.at = "authorize"
    BY <1>1, <1>4 DEF TakeRequest, NextWrite, PollerState
  <2>2. CASE inFlight = NoRequest /\ queue # <<>>
    <3>1. inFlight' = Head(queue) /\ queue' = Tail(queue)
      BY <1>4, <2>2 DEF TakeRequest, NextWrite
    <3>2. /\ Head(queue) = queue[1] /\ queue[1] \in Request
          /\ Len(queue') = Len(queue) - 1 /\ Len(queue) \in Nat
          /\ \A i \in 1..Len(queue') : queue'[i] = queue[i + 1]
      BY <1>1, <2>2, <3>1
    <3>3. ASSUME NEW t, NEW v, Holds(queue, t, v)
          PROVE  Holds(queue', t, v) \/ (inFlight'.tag = t /\ inFlight'.value = v)
      <4>1. PICK i \in 1..Len(queue) : queue[i].tag = t /\ queue[i].value = v
        BY <3>3 DEF Holds
      <4>2. CASE i = 1
        BY <3>1, <3>2, <4>1, <4>2
      <4>3. CASE i # 1
        <5>1. i - 1 \in 1..Len(queue') /\ queue'[i - 1] = queue[i]
          BY <3>2, <4>3
        <5> QED BY <4>1, <5>1 DEF Holds
      <4> QED BY <4>2, <4>3
    <3>4. inFlight' # NoRequest
      BY <3>1, <3>2, NoneAssumption
    <3> QED BY <1>2, <2>1, <2>2, <3>3, <3>4 DEF QueuedIsBacked, Backed
  <2>3. CASE ~(inFlight = NoRequest /\ queue # <<>>)
    <3>1. UNCHANGED <<queue, inFlight>>
      BY <1>4, <2>3 DEF TakeRequest, NextWrite
    <3> QED BY <1>2, <2>1, <3>1, BackedWhenKept DEF KeepsBacking
  <2> QED BY <2>2, <2>3
<1>5. CASE RecordWrite
  <2>1. inFlight.tag \in Tag
    BY <1>5, RequestHolds DEF RecordWrite, PathInv, WorkInHand, WritingStage
  <2>2. /\ UNCHANGED <<queue, inFlight>>
        /\ \A t \in Tag : t # inFlight.tag => values'[t] = values[t]
        /\ values'[inFlight.tag].quality # "queued"
    BY <1>1, <1>5, <2>1 DEF RecordWrite, WriteResult, SignalValue
  <2>3. ASSUME NEW t \in Tag, values'[t].quality = "queued"
        PROVE  Holds(poller'.drained, t, values'[t].value) \/ Holds(queue', t, values'[t].value)
    <3>1. t # inFlight.tag /\ values'[t] = values[t]
      BY <2>2, <2>3
    <3>2. Holds(poller.drained, t, values[t].value) \/ Holds(queue, t, values[t].value)
      BY <2>3, <3>1 DEF QueuedIsBacked, Backed
    <3> QED BY <1>2, <2>2, <3>1, <3>2
  <2> QED BY <2>3 DEF QueuedIsBacked, Backed
<1>6. CASE FinishWrite
  BY <1>1, <1>2, <1>6 DEF FinishWrite, CompleteWrite, QueuedIsBacked, Backed
<1> QED BY <1>3, <1>4, <1>5, <1>6

LEMMA ReadBacks ==
  ASSUME PathInv, QueuedIsBacked,
         \/ \E due \in SUBSET Table : Schedule(due)
         \/ \E table \in Table :
              ReadTable(table) \/ ReadFails(table) \/ UpdateTable(table) \/ MarkTable(table)
         \/ CycleEnds
  PROVE  QueuedIsBacked'
<1>1. poller \in PollerState /\ values \in [Tag -> SignalValue] /\ QueueInv
  BY DEF PathInv, ThreadTypes, QueueInv, TypeOK
<1>2. AtTop.at = "top" /\ AtTop.drained = <<>>
  BY DEF AtTop
<1>3. poller.at # "completing" /\ poller.drained = <<>>
  BY DEF Schedule, ReadTable, ReadFails, UpdateTable, MarkTable, CycleEnds, PathInv, WorkInHand
<1>4. KeepsBacking /\ UNCHANGED inFlight
  <2>1. ASSUME NEW table \in Table, UpdateTable(table)
        PROVE  KeepsBacking /\ UNCHANGED inFlight
    <3>1. UpdateValues(poller.sample) /\ \A t \in DOMAIN poller.sample : poller.sample[t] \in Value
      BY <2>1 DEF UpdateTable, PathInv, WorkInHand, Sample
    <3>2. UNCHANGED inFlight
      BY <3>1 DEF UpdateValues
    <3> QED BY <1>1, <3>1, <3>2, UpdateBacks
  <2>2. ASSUME NEW table \in Table, MarkTable(table)
        PROVE  KeepsBacking /\ UNCHANGED inFlight
    <3>1. MarkTableError(table)
      BY <2>2 DEF MarkTable
    <3>2. UNCHANGED <<inFlight, queue>>
      BY <3>1 DEF MarkTableError
    <3>3. \A t \in Tag : values'[t].quality = "queued" => values'[t] = values[t]
      BY <1>1, <3>1 DEF MarkTableError, SignalValue
    <3> QED BY <3>2, <3>3 DEF KeepsBacking
  <2>3. ASSUME \/ \E due \in SUBSET Table : Schedule(due)
               \/ \E table \in Table : ReadTable(table) \/ ReadFails(table)
               \/ CycleEnds
        PROVE  KeepsBacking /\ UNCHANGED inFlight
    BY <2>3 DEF Schedule, ReadTable, ReadFails, CycleEnds, stateVars, KeepsBacking
  <2> QED BY <2>1, <2>2, <2>3
<1>5. poller'.at # "completing" /\ poller'.drained = <<>>
  <2>1. ASSUME NEW due \in SUBSET Table, Schedule(due)
        PROVE  poller'.at # "completing" /\ poller'.drained = <<>>
    <3>1. CASE due = {}
      BY <1>2, <2>1, <3>1 DEF Schedule
    <3>2. CASE due # {}
      BY <1>1, <1>3, <2>1, <3>2 DEF Schedule, PollerState
    <3> QED BY <3>1, <3>2
  <2>2. ASSUME NEW table \in Table,
               ReadTable(table) \/ ReadFails(table) \/ UpdateTable(table) \/ MarkTable(table)
        PROVE  poller'.at # "completing" /\ poller'.drained = <<>>
    BY <1>1, <1>3, <2>2 DEF ReadTable, ReadFails, UpdateTable, MarkTable, PollerState
  <2>3. ASSUME CycleEnds
        PROVE  poller'.at # "completing" /\ poller'.drained = <<>>
    BY <1>2, <2>3 DEF CycleEnds
  <2> QED BY <2>1, <2>2, <2>3
<1> QED BY <1>3, <1>4, <1>5, BackedWhenKept

LEMMA SimulationBacks ==
  ASSUME PathInv, QueuedIsBacked,
         \/ SimulateReadings \/ SimulationDrains \/ SimulationAuthorizes
         \/ SimulationConfirms \/ SimulationTurnEnds
  PROVE  QueuedIsBacked'
<1>1. /\ poller \in PollerState /\ values \in [Tag -> SignalValue] /\ queue \in Seq(Request)
      /\ QueueInv
  BY DEF PathInv, ThreadTypes, QueueInv, TypeOK
<1>2. inFlight = NoRequest
  BY DEF SimulateReadings, SimulationDrains, SimulationAuthorizes, SimulationConfirms,
         SimulationTurnEnds, PathInv, WorkInHand, InSimulation
<1>3. CASE SimulateReadings
  <2>1. PICK updates \in Fabricated : UpdateValues(updates)
    BY <1>3 DEF SimulateReadings
  <2>2. \A t \in DOMAIN updates : updates[t] \in Value
    BY FabricatedFits
  <2>3. KeepsBacking /\ UNCHANGED inFlight
    BY <1>1, <2>1, <2>2, UpdateBacks DEF UpdateValues
  <2>4. /\ poller'.drained = poller.drained
        /\ poller.at # "completing" /\ poller'.at # "completing"
    BY <1>1, <1>3 DEF SimulateReadings, PollerState
  <2> QED BY <2>3, <2>4, BackedWhenKept
<1>4. CASE SimulationDrains
  <2> DEFINE n == IF Len(queue) < DrainLimit THEN Len(queue) ELSE DrainLimit
  <2>1. n \in 0..Len(queue) /\ Len(queue) \in Nat /\ DrainLimit \in Nat
    BY <1>1, DrainAssumption
  <2>2. poller'.drained = SubSeq(queue, 1, n) /\ poller.drained = <<>> /\ UNCHANGED values
    BY <1>1, <1>4 DEF SimulationDrains, Drained, DrainWrites, PollerState, PathInv, WorkInHand
  <2>3. queue' = SubSeq(queue, n + 1, Len(queue))
    <3>1. CASE Len(queue) <= DrainLimit
      <4>1. n = Len(queue) /\ queue' = <<>>
        BY <1>4, <2>1, <3>1 DEF SimulationDrains, DrainWrites
      <4>2. SubSeq(queue, Len(queue) + 1, Len(queue)) = <<>>
        BY <1>1, <2>1
      <4> HIDE DEF n
      <4> QED BY <4>1, <4>2
    <3>2. CASE Len(queue) > DrainLimit
      BY <1>4, <2>1, <3>2 DEF SimulationDrains, DrainWrites
    <3>3. Len(queue) <= DrainLimit \/ Len(queue) > DrainLimit
      BY <2>1
    <3> QED BY <3>1, <3>2, <3>3
  <2> HIDE DEF n
  <2>4. \A i \in 1..n : queue[i] \in Request
    BY <1>1, <2>1
  <2>5. Len(poller'.drained) = n /\ \A i \in 1..n : poller'.drained[i] = queue[i]
    BY <1>1, <2>1, <2>2, <2>4, SubSeqProperties
  <2>6. Len(queue') = Len(queue) - n /\ \A i \in 1..Len(queue') : queue'[i] = queue[i + n]
    BY <1>1, <2>1, <2>3, SuffixStep
  <2>7. ASSUME NEW t, NEW v, Holds(queue, t, v)
        PROVE  Holds(poller'.drained, t, v) \/ Holds(queue', t, v)
    <3>1. PICK i \in 1..Len(queue) : queue[i].tag = t /\ queue[i].value = v
      BY <2>7 DEF Holds
    <3>2. CASE i <= n
      <4>1. i \in 1..Len(poller'.drained) /\ poller'.drained[i] = queue[i]
        BY <2>1, <2>5, <3>2
      <4> QED BY <3>1, <4>1 DEF Holds
    <3>3. CASE i > n
      <4>1. i - n \in 1..Len(queue') /\ (i - n) + n = i
        BY <2>1, <2>6, <3>3
      <4>2. queue'[i - n] = queue[i]
        BY <2>6, <4>1
      <4> QED BY <3>1, <4>1, <4>2 DEF Holds
    <3> QED BY <2>1, <3>2, <3>3
  <2>8. \A t, v : ~Holds(poller.drained, t, v)
    BY <2>2 DEF Holds
  <2> QED BY <1>2, <2>2, <2>7, <2>8 DEF QueuedIsBacked, Backed
<1>5. CASE SimulationConfirms
  <2> DEFINE r == Head(poller.drained)
  <2>1. poller.drained # <<>>
    BY <1>5 DEF SimulationConfirms, PathInv, WorkInHand
  <2>2. /\ r \in Request /\ r.tag \in Tag /\ r = poller.drained[1]
        /\ Len(Tail(poller.drained)) = Len(poller.drained) - 1
        /\ \A i \in 1..Len(Tail(poller.drained)) : Tail(poller.drained)[i] = poller.drained[i + 1]
    BY <1>1, <2>1, DrainedHolds DEF PollerState
  <2>3. poller'.drained = Tail(poller.drained) /\ UNCHANGED <<queue, inFlight>>
    BY <1>1, <1>5 DEF SimulationConfirms, WriteResult, PollerState
  <2>4. /\ \A t \in Tag : t # r.tag => values'[t] = values[t]
        /\ values'[r.tag].quality # "queued"
    BY <1>1, <1>5, <2>2 DEF SimulationConfirms, WriteResult, SignalValue
  <2> HIDE DEF r
  <2>5. ASSUME NEW t, NEW v, t # r.tag, Holds(poller.drained, t, v)
        PROVE  Holds(poller'.drained, t, v)
    <3>1. PICK i \in 1..Len(poller.drained) : poller.drained[i].tag = t /\ poller.drained[i].value = v
      BY <2>5 DEF Holds
    <3>2. i # 1 /\ Len(poller.drained) \in Nat
      BY <1>1, <2>2, <2>5, <3>1 DEF PollerState
    <3>3. /\ i - 1 \in 1..Len(poller'.drained)
          /\ poller'.drained[i - 1] = poller.drained[i]
      BY <2>2, <2>3, <3>2
    <3> QED BY <3>1, <3>3 DEF Holds
  <2> QED BY <1>2, <2>3, <2>4, <2>5 DEF QueuedIsBacked, Backed
<1>6. CASE SimulationAuthorizes \/ SimulationTurnEnds
  <2>1. UNCHANGED <<queue, inFlight, values>> /\ poller'.drained = poller.drained
    BY <1>1, <1>6 DEF SimulationAuthorizes, SimulationTurnEnds, stateVars, PollerState
  <2> QED BY <1>2, <2>1 DEF QueuedIsBacked, Backed
<1> QED BY <1>3, <1>4, <1>5, <1>6

LEMMA BackedMeansPending ==
  ASSUME PathInv, QueuedIsBacked
  PROVE  QueuedMeansPending
<1> DEFINE pending == poller.drained \o PendingWrites
<1>1. /\ poller.drained \in Seq(Request) /\ PendingWrites \in Seq(Request)
      /\ Len(PendingWrites) = InFlightDepth + Len(queue) /\ Len(queue) \in Nat
      /\ inFlight # NoRequest => PendingWrites[1] = inFlight
      /\ \A i \in 1..Len(queue) : PendingWrites[InFlightDepth + i] = queue[i]
  BY PendingType DEF PathInv, ThreadTypes, PollerState, QueueInv, TypeOK
<1> SUFFICES ASSUME NEW t \in Tag, values[t].quality = "queued"
             PROVE  \E i \in DOMAIN pending :
                      pending[i].tag = t /\ pending[i].value = values[t].value
  BY DEF QueuedMeansPending
<1>2. Holds(poller.drained, t, values[t].value) \/ Holds(PendingWrites, t, values[t].value)
  <2>1. Backed(t, values[t].value)
    BY DEF QueuedIsBacked
  <2>2. CASE Holds(queue, t, values[t].value)
    <3>1. PICK i \in 1..Len(queue) : queue[i].tag = t /\ queue[i].value = values[t].value
      BY <2>2 DEF Holds
    <3>2. InFlightDepth + i \in 1..Len(PendingWrites)
      BY <1>1 DEF InFlightDepth
    <3> QED BY <1>1, <3>1, <3>2 DEF Holds
  <2>3. CASE inFlight # NoRequest /\ inFlight.tag = t /\ inFlight.value = values[t].value
    <3>1. 1 \in 1..Len(PendingWrites)
      BY <1>1, <2>3 DEF InFlightDepth
    <3> QED BY <1>1, <2>3, <3>1 DEF Holds
  <2> QED BY <2>1, <2>2, <2>3 DEF Backed
<1>3. Holds(pending, t, values[t].value)
  BY <1>1, <1>2, HoldsAppended
<1>4. DOMAIN pending = 1..Len(pending)
  BY <1>1
<1> QED BY <1>3, <1>4 DEF Holds

\* No command shown as queued is lost: until its result is recorded the poller has it in
\* the queue, in flight, or among the requests a simulation drained.
THEOREM QueuedIsPending == Spec => []QueuedMeansPending
<1>1. Init => QueuedIsBacked
  <2> SUFFICES ASSUME Init PROVE QueuedIsBacked
    OBVIOUS
  <2> QED BY BootBacks DEF Init, StateInit, QueuedIsBacked, Backed
<1>2. PathInv /\ QueuedIsBacked /\ [Next]_vars => QueuedIsBacked'
  <2> SUFFICES ASSUME PathInv, QueuedIsBacked, [Next]_vars
               PROVE  QueuedIsBacked'
    OBVIOUS
  <2>1. CASE PollerStep
    <3>1. SUBSET {table \in Table : TagsOf(table) # {}} \subseteq SUBSET Table
      OBVIOUS
    <3> QED BY <2>1, <3>1, WriteBacks, ReadBacks, SimulationBacks, Zenon DEF PollerStep
  <2>2. CASE Restart
    <3>1. controls' \in Controls
      BY <2>2, RebootControls DEF PathInv, QueueInv, Restart
    <3> QED BY <2>2, <3>1, BootBacks DEF Restart, Reboot, QueuedIsBacked, Backed
  <2>3. CASE ~PollerStep /\ ~Restart
    BY <2>3, HandlerBacks, Zenon DEF Next
  <2> QED BY <2>1, <2>2, <2>3
<1>3. PathInv /\ QueuedIsBacked => QueuedMeansPending
  BY BackedMeansPending
<1> QED BY <1>1, <1>2, <1>3, PathInvariance, PTL DEF Spec

----
(***************************************************************************)
(* The turn of a level that is pending.                                    *)
(***************************************************************************)
\* Each request of the queue stays where it is or moves up, or is the one taken.
TurnsKept ==
  \A i \in 1..Len(queue) :
    \/ \E j \in 1..Len(queue') : /\ j <= i
                                 /\ queue'[j].tag = queue[i].tag
                                 /\ queue'[j].source = queue[i].source
    \/ i = 1 /\ inFlight' = queue[1]

LEMMA AppendKeepsTurns ==
  ASSUME QueueInv, NEW kept \in Seq(Request), NEW added \in Seq(Request),
         queue' = kept \o added, Len(kept) = Len(queue),
         \A i \in 1..Len(queue) : kept[i].tag = queue[i].tag /\ kept[i].source = queue[i].source
  PROVE  TurnsKept
<1> DEFINE all == kept \o added
<1>1. /\ Len(kept) \in Nat /\ Len(added) \in Nat /\ Len(all) = Len(kept) + Len(added)
      /\ \A i \in 1..Len(kept) : all[i] = kept[i]
  BY Concatenation
<1>2. queue' = all
  OBVIOUS
<1> HIDE DEF all
<1>3. \A i \in 1..Len(queue) : /\ i \in 1..Len(queue') /\ i <= i
                               /\ queue'[i].tag = queue[i].tag /\ queue'[i].source = queue[i].source
  BY <1>1, <1>2
<1> QED BY <1>3 DEF TurnsKept

LEMMA PostsKeepTurns ==
  ASSUME QueueInv, NEW post \in Post, EnqueueWrites(post) \/ QueueInjections(post)
  PROVE  TurnsKept
<1>1. queue \in Seq(Request)
  BY DEF QueueInv, TypeOK
<1>2. ASSUME Enqueue(post), Validated(post)
      PROVE  TurnsKept
  <2>1. PICK added : /\ Commands(added, DOMAIN post.batch, post.batch, post.source)
                     /\ queue' = queue \o added
    BY <1>2, EnqueueAppends
  <2> QED BY <1>1, <2>1, AppendKeepsTurns DEF Commands
<1>3. ASSUME IsInjection(post), CoalescePendingWrites(post.batch)
      PROVE  TurnsKept
  <2> DEFINE kept == WithNewValues(queue, post.batch)
  <2>1. \A t \in DOMAIN post.batch : post.batch[t] \in Value
    BY <1>3, ValidatedType DEF IsInjection
  <2>2. PICK added : /\ Commands(added, DOMAIN post.batch \ PendingTags(post.batch),
                                 post.batch, "field-emulator")
                     /\ queue' = kept \o added
    BY <1>3, CoalesceAppends
  <2>3. /\ kept \in Seq(Request) /\ Len(kept) = Len(queue)
        /\ \A i \in 1..Len(queue) : kept[i].tag = queue[i].tag /\ kept[i].source = queue[i].source
    BY <2>1, NewValuesInPlace
  <2> HIDE DEF kept
  <2> QED BY <2>2, <2>3, AppendKeepsTurns DEF Commands
<1> QED BY <1>2, <1>3 DEF EnqueueWrites, QueueInjections, IsInjection

LEMMA CallsKeepTurns ==
  ASSUME QueueInv, [OrderlyCall]_stateVars
  PROVE  TurnsKept
<1>1. queue \in Seq(Request) /\ Len(queue) \in Nat
  BY DEF QueueInv, TypeOK
<1>2. ASSUME UNCHANGED queue
      PROVE  TurnsKept
  BY <1>1, <1>2 DEF TurnsKept
<1>3. ASSUME NEW post \in Post, EnqueueWrites(post) \/ QueueInjections(post)
      PROVE  TurnsKept
  BY <1>3, PostsKeepTurns
<1>4. ASSUME NEW p \in Pump, NEW m \in EmarMode, SetPumpEmarMode(p, m)
      PROVE  TurnsKept
  <2>1. PICK added, batch : Commands(added, {Emar(p)}, batch, "other") /\ queue' = queue \o added
    BY <1>4, SetModeAppends
  <2> QED BY <1>1, <2>1, AppendKeepsTurns DEF Commands
<1>5. ASSUME NEW updates, UpdateValues(updates), \A t \in DOMAIN updates : updates[t] \in Value
      PROVE  TurnsKept
  <2>1. PICK added, batch : /\ Commands(added, DOMAIN batch, batch, "other")
                            /\ queue' = queue \o added
    BY <1>5, UpdateAppends
  <2> QED BY <1>1, <2>1, AppendKeepsTurns DEF Commands
<1>6. CASE NextWrite
  <2>1. CASE inFlight = NoRequest /\ queue # <<>>
    <3>1. inFlight' = queue[1] /\ queue' = Tail(queue)
      BY <1>1, <1>6, <2>1 DEF NextWrite
    <3>2. Len(queue') = Len(queue) - 1 /\ \A i \in 1..Len(queue') : queue'[i] = queue[i + 1]
      BY <1>1, <2>1, <3>1
    <3>3. ASSUME NEW i \in 1..Len(queue), i # 1
          PROVE  i - 1 \in 1..Len(queue') /\ i - 1 <= i /\ queue'[i - 1] = queue[i]
      BY <1>1, <3>2, <3>3
    <3> QED BY <3>1, <3>3 DEF TurnsKept
  <2> QED BY <1>2, <1>6, <2>1 DEF NextWrite
<1>7. ASSUME \/ \E post \in Post : UpdateRtuTags(post) \/ RecordDisabledInjections(post)
             \/ \E table \in Table : MarkTableError(table)
             \/ \E t \in Tag, v \in Value, ok \in BOOLEAN : WriteResult(t, v, ok)
             \/ CompleteWrite
             \/ UNCHANGED stateVars
      PROVE  UNCHANGED queue
  BY <1>7 DEF UpdateRtuTags, RecordDisabledInjections, MarkTableError, WriteResult,
              CompleteWrite, stateVars
<1> QED BY <1>2, <1>3, <1>4, <1>5, <1>6, <1>7, Zenon DEF OrderlyCall

\* However often the emulator posts, a level keeps its place in the queue until it is
\* taken to be written.
THEOREM TurnsAreKept == Spec => LevelsKeepTheirTurn
<1> DEFINE Kept ==
      Restart \/ \A t \in LevelTags, i \in DOMAIN queue : IsPending(i, t) =>
        \/ \E j \in DOMAIN queue' :
             j <= i /\ queue'[j].tag = t /\ queue'[j].source = "field-emulator"
        \/ i = 1 /\ inFlight' # NoRequest /\ inFlight'.tag = t
        \/ i \in DOMAIN poller'.drained /\ poller'.drained[i] = queue[i]
<1>1. PathInv /\ PathInv' /\ [Next]_vars => [Kept]_vars
  <2> SUFFICES ASSUME PathInv, PathInv', Next, ~Restart,
                      NEW t \in LevelTags, NEW i \in DOMAIN queue, IsPending(i, t)
               PROVE  \/ \E j \in DOMAIN queue' :
                           j <= i /\ queue'[j].tag = t /\ queue'[j].source = "field-emulator"
                      \/ i = 1 /\ inFlight' # NoRequest /\ inFlight'.tag = t
                      \/ i \in DOMAIN poller'.drained /\ poller'.drained[i] = queue[i]
    OBVIOUS
  <2>1. /\ queue \in Seq(Request) /\ queue' \in Seq(Request) /\ poller \in PollerState
        /\ i \in 1..Len(queue) /\ Len(queue) \in Nat /\ queue[i] \in Request
        /\ DOMAIN queue' = 1..Len(queue') /\ QueueInv
    BY DEF PathInv, QueueInv, TypeOK, ThreadTypes
  <2>2. queue[i].tag = t /\ queue[i].source = "field-emulator"
    BY DEF IsPending
  <2>3. CASE [OrderlyCall]_stateVars
    <3>1. TurnsKept
      BY <2>1, <2>3, CallsKeepTurns
    <3> QED BY <2>1, <2>2, <3>1, NoneAssumption DEF TurnsKept
  <2>4. CASE SimulationDrains
    <3> DEFINE n == IF Len(queue) < DrainLimit THEN Len(queue) ELSE DrainLimit
    <3>1. n \in 0..Len(queue) /\ DrainLimit \in Nat /\ poller'.drained = SubSeq(queue, 1, n)
      BY <2>1, <2>4, DrainAssumption DEF SimulationDrains, Drained, PollerState
    <3>2. CASE i <= n
      <4> HIDE DEF n
      <4>1. /\ DOMAIN SubSeq(queue, 1, n) = 1..n
            /\ \A k \in 1..n : SubSeq(queue, 1, n)[k] = queue[k]
        BY <2>1, <3>1
      <4> QED BY <2>1, <3>1, <3>2, <4>1
    <3>3. CASE i > n
      <4>1. /\ DrainLimit \in 0..Len(queue) /\ i > DrainLimit
            /\ queue' = SubSeq(queue, DrainLimit + 1, Len(queue))
        BY <2>1, <2>4, <3>1, <3>3 DEF SimulationDrains, DrainWrites
      <4>2. /\ Len(queue') = Len(queue) - DrainLimit
            /\ \A k \in 1..Len(queue') : queue'[k] = queue[k + DrainLimit]
        BY <2>1, <4>1, SuffixStep
      <4>3. /\ i - DrainLimit \in 1..Len(queue') /\ i - DrainLimit <= i
            /\ queue'[i - DrainLimit] = queue[(i - DrainLimit) + DrainLimit]
        BY <2>1, <4>1, <4>2
      <4>4. (i - DrainLimit) + DrainLimit = i
        BY <2>1, <4>1
      <4> QED BY <2>1, <2>2, <4>3, <4>4
    <3> QED BY <2>1, <3>1, <3>2, <3>3
  <2> QED BY <2>3, <2>4, StepsAreCalls
<1> QED BY <1>1, PathInvariance, PTL DEF Spec, LevelsKeepTheirTurn

====
