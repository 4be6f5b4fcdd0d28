---- MODULE RuntimeState ----
(***************************************************************************)
(* The state that the Modbus poller and the HTTP handlers share            *)
(* (trasvase-tester/app/state.py, class RuntimeState), with the part of    *)
(* PumpControlStore it drives.  Every method that takes `_lock` runs as    *)
(* one critical section and is one action here; who calls it and when is   *)
(* left to StateNext (anyone, at any time) and, with the real threads, to  *)
(* module WritePath.                                                       *)
(*                                                                         *)
(* Left out: timestamps, event log, local_commands and the texts of        *)
(* errors, which nothing reads back.  A tag is <<kind, number>>:           *)
(*   level     yNvCamAsp, yNvRes ...  (holding register, facade)           *)
(*   setpoint  g*                     (holding register, not facade; c*    *)
(*             is written the same way, in the table of the coils)         *)
(*   rtu       yB#RTU                 (coil, facade, persisted)            *)
(*   emar      yB#EMar                (coil, facade, driven by the mode)   *)
(*   arndo     bB#Arndo               (discrete input, read only)          *)
(*                                                                         *)
(* A definition marked "Fault" is not the code: it is the definition after *)
(* it with a mistake in it, and the runs are known to tell the two apart.  *)
(***************************************************************************)
EXTENDS Integers, Sequences, FiniteSets, SequencesExt

CONSTANTS
  Capacity,       \* maxlen of _write_queue (200 in the code)
  PumpCount,      \* pumps (5 in the code)
  Level,          \* numbers of the facade analog tags
  Setpoint,       \* numbers of the writable tags outside the facade
  Reading,        \* values of a holding register, 0 among them
  Post,           \* what clients post: a batch, from tags to values, and its source
  NoValue,        \* None, the value of a signal never read
  NoRequest,      \* None, no write in flight
  DrainLimit      \* requests one drain_writes call takes (50 in the code)

ASSUME CapacityAssumption == Capacity \in Nat /\ PumpCount \in Nat /\ PumpCount <= Capacity
ASSUME DrainAssumption == DrainLimit \in Nat
ASSUME ReadingAssumption == Reading \subseteq Int /\ 0 \in Reading
ASSUME PostAssumption == \A post \in Post :
  IsFiniteSet(DOMAIN post.batch) /\ post.source \in {"field-emulator", "other"}

----
Pump == 1..PumpCount

Arndo(p) == <<"arndo", p>>
Rtu(p)   == <<"rtu", p>>
Emar(p)  == <<"emar", p>>

LevelTags == {"level"} \X Level
EmarTags  == {"emar"} \X Pump
Tag == LevelTags \union EmarTags \union ({"setpoint"} \X Setpoint)
         \union ({"rtu"} \X Pump) \union ({"arndo"} \X Pump)

Bit == {0, 1}
Analog(t) == t[1] \in {"level", "setpoint"}
ValueOf(t) == IF Analog(t) THEN Reading ELSE Bit
Writable(t) == t[1] # "arndo"
Facade(t) == t[1] \in {"level", "rtu", "emar"}

\* A facade tag other than yB#EMar is written only while injection is enabled.
RequiresInjection(t) == t[1] \in {"level", "rtu"}

Table == {"analog_setpoints", "digital_reads", "digital_commands"}
TableOf(t) == CASE Analog(t)             -> "analog_setpoints"
                [] t[1] = "arndo"        -> "digital_reads"
                [] t[1] \in {"rtu", "emar"} -> "digital_commands"
TagsOf(table) == {t \in Tag : TableOf(t) = table}

\* "local" with the error text that tells the cases apart: "queued" is local and
\* "write queued", "skipped" is local and "injection_mode=...".
Quality == {"unknown", "local", "queued", "skipped", "good", "error"}

\* The queue compares a source with "field-emulator" only.
Source == {"field-emulator", "other"}
EmarMode == {"disabled", "automatic", "forced"}

Value == Reading \union Bit
Request == [tag : Tag, value : Value, source : Source]
ASSUME NoneAssumption == NoRequest \notin Request /\ NoValue \notin Value
SignalValue == [value : Value \union {NoValue}, quality : Quality]
Controls == [Pump -> [rtu : Bit, emar_mode : EmarMode]]

----
VARIABLES
  queue,        \* _write_queue
  inFlight,     \* _write_in_flight
  values,       \* _values
  emarModes,    \* _emar_modes
  controls      \* PumpControlStore._controls and its file

stateVars == <<queue, inFlight, values, emarModes, controls>>

----
\* A deque with maxlen drops its oldest items when it is over-filled.
Bounded(s) == IF Len(s) <= Capacity THEN s
              ELSE SubSeq(s, Len(s) - Capacity + 1, Len(s))

Orders(S) == {s \in [1..Cardinality(S) -> S] : \A i, j \in DOMAIN s : s[i] = s[j] => i = j}

Requests(order, batch, source) ==
  [i \in 1..Len(order) |-> [tag |-> order[i], value |-> batch[order[i]], source |-> source]]

\* What _enqueue_one_unlocked and its kin leave in _values for the tags of a batch.
Recorded(vals, batch, quality) ==
  [t \in Tag |-> IF t \in DOMAIN batch
                 THEN [value |-> batch[t], quality |-> quality] ELSE vals[t]]

InFlightDepth == IF inFlight = NoRequest THEN 0 ELSE 1
WriteDepth == Len(queue) + InFlightDepth

\* Fault: the request in flight is not counted.
RoomBesideInFlight == Capacity - Len(queue)

Room == Capacity - WriteDepth

EmarValue(modes, vals, p) ==
  CASE modes[p] = "disabled"  -> 0
    [] modes[p] = "automatic" -> IF vals[Arndo(p)].value = 1 THEN 1 ELSE 0
    [] modes[p] = "forced"    -> 1

WithRtu(ctl, batch) ==
  [p \in Pump |-> IF Rtu(p) \in DOMAIN batch THEN [ctl[p] EXCEPT !.rtu = batch[Rtu(p)]]
                  ELSE ctl[p]]

\* Fault: the range of the value is not checked.
ValidatedTagsOnly(post) ==
  /\ DOMAIN post.batch # {}
  /\ \A t \in DOMAIN post.batch : t \in Tag /\ Writable(t)

\* _validate_write on each command of the body.
Validated(post) ==
  /\ DOMAIN post.batch # {}
  /\ \A t \in DOMAIN post.batch : t \in Tag /\ Writable(t) /\ post.batch[t] \in ValueOf(t)

\* What is pending, oldest first, the request in flight before the queue.
PendingWrites == (IF inFlight = NoRequest THEN <<>> ELSE <<inFlight>>) \o queue

----
\* RuntimeState.__init__: the memory that a start or a restart builds from the files.
BootModes(ctl) == [p \in Pump |-> ctl[p].emar_mode]

BootValues(ctl) ==
  [t \in Tag |->
     CASE Analog(t)      -> [value |-> 0, quality |-> "local"]
       [] t[1] = "rtu"   -> [value |-> ctl[t[2]].rtu, quality |-> "local"]
       [] t[1] = "emar"  -> [value |-> IF ctl[t[2]].emar_mode = "forced" THEN 1 ELSE 0,
                             quality |-> "queued"]
       [] t[1] = "arndo" -> [value |-> NoValue, quality |-> "unknown"]]

BootQueue(ctl) ==
  [p \in Pump |-> [tag |-> Emar(p), source |-> "other",
                   value |-> EmarValue(BootModes(ctl), BootValues(ctl), p)]]

StateInit ==
  /\ controls \in Controls
  /\ emarModes = BootModes(controls)
  /\ values = BootValues(controls)
  /\ queue = BootQueue(controls)
  /\ inFlight = NoRequest

----
HasRoomToEnqueue(batch) == Cardinality(DOMAIN batch) <= Room

\* _enqueue_validated_writes: all the commands of the batch, or none of them.
Enqueue(post) ==
  /\ HasRoomToEnqueue(post.batch)
  /\ \E order \in Orders(DOMAIN post.batch) :
       queue' = Bounded(queue \o Requests(order, post.batch, post.source))
  /\ controls' = WithRtu(controls, post.batch)
  /\ values' = Recorded(values, post.batch, "queued")
  /\ UNCHANGED <<inFlight, emarModes>>

EnqueueWrites(post) ==
  /\ Validated(post)
  /\ \A t \in DOMAIN post.batch : ~Facade(t)
  /\ Enqueue(post)

----
IsPending(i, t) == queue[i].tag = t /\ queue[i].source = "field-emulator"

\* Fault: only the oldest request of the queue is looked at.
PendingTagsAtHead(batch) == {t \in DOMAIN batch : queue # <<>> /\ IsPending(1, t)}

PendingTags(batch) == {t \in DOMAIN batch : \E i \in DOMAIN queue : IsPending(i, t)}

\* The queue without the second and later values the emulator has pending for a tag.
Compacted(batch) ==
  IF \A t \in DOMAIN batch, i, j \in DOMAIN queue : IsPending(i, t) /\ IsPending(j, t) => i = j
  THEN queue
  ELSE FoldLeft(LAMBDA kept, r :
                  IF /\ r.tag \in DOMAIN batch /\ r.source = "field-emulator"
                     /\ \E i \in DOMAIN kept : kept[i].tag = r.tag /\ kept[i].source = r.source
                  THEN kept ELSE Append(kept, r), <<>>, queue)

WithNewValues(q, batch) ==
  [i \in 1..Len(q) |-> IF q[i].tag \in DOMAIN batch /\ q[i].source = "field-emulator"
                       THEN [q[i] EXCEPT !.value = batch[q[i].tag]] ELSE q[i]]

HasRoomToCoalesce(batch) ==
  Len(Compacted(batch)) + InFlightDepth + Cardinality(DOMAIN batch \ PendingTags(batch))
    <= Capacity

\* Fault: the new value also replaces the one in flight.
CoalesceInFlightToo(batch) ==
  /\ HasRoomToCoalesce(batch)
  /\ \E order \in Orders(DOMAIN batch \ PendingTags(batch)) :
       queue' = Bounded(WithNewValues(Compacted(batch), batch)
                          \o Requests(order, batch, "field-emulator"))
  /\ inFlight' = IF inFlight # NoRequest /\ inFlight.tag \in DOMAIN batch
                 THEN [inFlight EXCEPT !.value = batch[inFlight.tag]] ELSE inFlight
  /\ controls' = WithRtu(controls, batch)
  /\ values' = Recorded(values, batch, "queued")
  /\ UNCHANGED emarModes

\* Fault: a pending value is dropped and its successor appended, at the end.
CoalesceAtTheEnd(batch) ==
  /\ HasRoomToCoalesce(batch)
  /\ \E order \in Orders(DOMAIN batch) :
       queue' = Bounded(SelectSeq(queue, LAMBDA r : r.tag \notin DOMAIN batch)
                          \o Requests(order, batch, "field-emulator"))
  /\ controls' = WithRtu(controls, batch)
  /\ values' = Recorded(values, batch, "queued")
  /\ UNCHANGED <<inFlight, emarModes>>

\* _coalesce_pending_writes_unlocked: a pending value is replaced where it stands, a
\* tag with none is appended.  The request in flight has left the queue and is not touched.
CoalescePendingWrites(batch) ==
  /\ HasRoomToCoalesce(batch)
  /\ \E order \in Orders(DOMAIN batch \ PendingTags(batch)) :
       queue' = Bounded(WithNewValues(Compacted(batch), batch)
                          \o Requests(order, batch, "field-emulator"))
  /\ controls' = WithRtu(controls, batch)
  /\ values' = Recorded(values, batch, "queued")
  /\ UNCHANGED <<inFlight, emarModes>>

IsInjection(post) ==
  /\ Validated(post)
  /\ \A t \in DOMAIN post.batch : Facade(t) /\ t \notin EmarTags

HasRoom(post) == IF post.source = "field-emulator" THEN HasRoomToCoalesce(post.batch)
                 ELSE HasRoomToEnqueue(post.batch)

\* enqueue_injections once it has read "enabled".
QueueInjections(post) ==
  /\ IsInjection(post)
  /\ IF post.source = "field-emulator" THEN CoalescePendingWrites(post.batch)
     ELSE Enqueue(post)

\* _record_disabled_injections writes the controls file first, without `_lock` ...
UpdateRtuTags(post) ==
  /\ IsInjection(post)
  /\ controls' = WithRtu(controls, post.batch)
  /\ UNCHANGED <<queue, inFlight, values, emarModes>>

\* ... and then, under `_lock`, the values shown.
RecordDisabledInjections(post) ==
  /\ IsInjection(post)
  /\ values' = Recorded(values, post.batch, "skipped")
  /\ UNCHANGED <<queue, inFlight, emarModes, controls>>

----
\* Fault: nothing is enqueued when the value shown is already the one to impose.
SetPumpEmarModeIfShownDiffers(p, m) ==
  /\ Room > 0
  /\ controls' = [controls EXCEPT ![p].emar_mode = m]
  /\ emarModes' = [emarModes EXCEPT ![p] = m]
  /\ LET batch == [t \in {Emar(p)} |-> EmarValue(emarModes', values, p)]
     IN IF values[Emar(p)].value = batch[Emar(p)] THEN UNCHANGED <<queue, values>>
        ELSE /\ queue' = Bounded(queue \o Requests(<<Emar(p)>>, batch, "other"))
             /\ values' = Recorded(values, batch, "queued")
  /\ UNCHANGED inFlight

\* Fault: the mode is remembered before the queue is found full.
SetPumpEmarModeRememberedFirst(p, m) ==
  /\ emarModes' = [emarModes EXCEPT ![p] = m]
  /\ IF Room > 0
     THEN LET batch == [t \in {Emar(p)} |-> EmarValue(emarModes', values, p)]
          IN /\ controls' = [controls EXCEPT ![p].emar_mode = m]
             /\ queue' = Bounded(queue \o Requests(<<Emar(p)>>, batch, "other"))
             /\ values' = Recorded(values, batch, "queued")
     ELSE UNCHANGED <<queue, values, controls>>
  /\ UNCHANGED inFlight

\* The mode is saved, then remembered, then imposed, all under `_lock`; only a death gets
\* in between (Reboot).
SetPumpEmarMode(p, m) ==
  /\ Room > 0
  /\ controls' = [controls EXCEPT ![p].emar_mode = m]
  /\ emarModes' = [emarModes EXCEPT ![p] = m]
  /\ LET batch == [t \in {Emar(p)} |-> EmarValue(emarModes', values, p)]
     IN /\ queue' = Bounded(queue \o Requests(<<Emar(p)>>, batch, "other"))
        /\ values' = Recorded(values, batch, "queued")
  /\ UNCHANGED inFlight

----
\* What the file may hold once a call has saved and not yet done the rest: set_emar_mode
\* comes before `_emar_modes`, update_rtu_tags before the queue and the values.
InterruptedSaves ==
  {[controls EXCEPT ![p].emar_mode = m] : p \in {q \in Pump : Room > 0}, m \in EmarMode}
    \union {WithRtu(controls, post.batch) : post \in {q \in Post : IsInjection(q) /\ HasRoom(q)}}

\* The process dies and comes up again: only the files survive, the save of a call that
\* died before it changed the memory included.
Reboot ==
  /\ controls' \in {controls} \union InterruptedSaves
  /\ emarModes' = BootModes(controls')
  /\ values' = BootValues(controls')
  /\ queue' = BootQueue(controls')
  /\ inFlight' = NoRequest

----
\* Fault: an output in error is taken to be synchronised.
UnsyncedByValue(updates, vals) ==
  {p \in Pump : /\ Arndo(p) \in DOMAIN updates
                /\ vals[Emar(p)].value # EmarValue(emarModes, vals, p)}

\* The pumps whose yB#EMar shown is not the one their mode asks for, or is in error.
Unsynced(updates, vals) ==
  {p \in Pump : /\ Arndo(p) \in DOMAIN updates
                /\ \/ vals[Emar(p)].value # EmarValue(emarModes, vals, p)
                   \/ vals[Emar(p)].quality = "error"}

Ascending(order) == \A i, j \in DOMAIN order : i < j => order[i] < order[j]

\* The pumps that _sync_emar_outputs_unlocked enqueues: in order, while there is room.
Synced(due, room) ==
  {order \in UNION {Orders(S) : S \in SUBSET due} :
     /\ Ascending(order)
     /\ Len(order) <= room
     /\ \A p \in due : \/ \E i \in DOMAIN order : order[i] = p
                      \/ /\ Len(order) = room
                         /\ \A i \in DOMAIN order : order[i] < p}

UpdateValues(updates) ==
  LET seen == Recorded(values, updates, "good")
  IN \E order \in Synced(Unsynced(updates, seen), Room) :
       LET tags  == [i \in 1..Len(order) |-> Emar(order[i])]
           batch == [t \in {tags[i] : i \in 1..Len(tags)} |-> EmarValue(emarModes, seen, t[2])]
       IN /\ queue' = Bounded(queue \o Requests(tags, batch, "other"))
          /\ values' = Recorded(seen, batch, "queued")
          /\ UNCHANGED <<inFlight, emarModes, controls>>

MarkTableError(table) ==
  /\ values' = [t \in Tag |-> IF TableOf(t) = table THEN [values[t] EXCEPT !.quality = "error"]
                              ELSE values[t]]
  /\ UNCHANGED <<queue, inFlight, emarModes, controls>>

----
HasPendingWrites == inFlight # NoRequest \/ queue # <<>>

NextWrite ==
  /\ IF inFlight = NoRequest /\ queue # <<>>
     THEN inFlight' = Head(queue) /\ queue' = Tail(queue)
     ELSE UNCHANGED <<inFlight, queue>>
  /\ UNCHANGED <<values, emarModes, controls>>

CompleteWrite ==
  /\ inFlight' = NoRequest
  /\ UNCHANGED <<queue, values, emarModes, controls>>

\* write_result: a failed write keeps the value shown and marks it in error.
WriteResult(t, v, ok) ==
  /\ values' = [values EXCEPT ![t] = IF ok THEN [value |-> v, quality |-> "good"]
                                     ELSE [values[t] EXCEPT !.quality = "error"]]
  /\ UNCHANGED <<queue, inFlight, emarModes, controls>>

\* Only SimulationPoller drains, and it never has a request in flight.
DrainWrites ==
  /\ inFlight = NoRequest
  /\ queue' = IF Len(queue) <= DrainLimit THEN <<>>
              ELSE SubSeq(queue, DrainLimit + 1, Len(queue))
  /\ UNCHANGED <<inFlight, values, emarModes, controls>>

----
\* One call shows a table of the PLC, or all that a simulation makes up.
ReadTogether == {TagsOf(table) : table \in Table}
                  \union {TagsOf("analog_setpoints") \union TagsOf("digital_reads")}

StateNext ==
  \/ \E post \in Post : EnqueueWrites(post) \/ QueueInjections(post)
  \/ \E post \in Post : UpdateRtuTags(post) \/ RecordDisabledInjections(post)
  \/ \E p \in Pump, m \in EmarMode : SetPumpEmarMode(p, m)
  \/ \E table \in Table : MarkTableError(table)
  \/ \E tags \in ReadTogether : \E updates \in [tags -> Value] :
       /\ \A t \in tags : updates[t] \in ValueOf(t)
       /\ UpdateValues(updates)
  \/ \E t \in Tag, v \in Value, ok \in BOOLEAN : v \in ValueOf(t) /\ WriteResult(t, v, ok)
  \/ NextWrite \/ CompleteWrite \/ DrainWrites \/ Reboot

StateSpec == StateInit /\ [][StateNext]_stateVars

----
TypeOK ==
  /\ queue \in Seq(Request)
  /\ inFlight \in Request \union {NoRequest}
  /\ values \in [Tag -> SignalValue]
  /\ emarModes \in [Pump -> EmarMode]
  /\ controls \in Controls

\* The queue and the request in flight together never exceed the capacity, whoever
\* enqueues (_write_depth_unlocked): were it exceeded, the deque would silently drop
\* the oldest accepted command.
DepthBounded == WriteDepth <= Capacity

\* The emulator never has two pending values for one level, however often it posts
\* and wherever the poller stands (_coalesce_pending_writes_unlocked).
OnePendingPerLevel ==
  \A i, j \in DOMAIN queue :
    /\ RequiresInjection(queue[i].tag)
    /\ queue[i].source = "field-emulator" /\ queue[j].source = "field-emulator"
    /\ queue[i].tag = queue[j].tag
    => i = j

\* While a pump's mode is disabled or forced, the last yB#EMar command still to be
\* written is the one that mode imposes: no older command is left to overtake it
\* (set_pump_emar_mode and _sync_emar_outputs_unlocked interleaved with the poller).
NewestEmarIsCommanded ==
  \A p \in Pump : emarModes[p] # "automatic" =>
    \A i \in DOMAIN PendingWrites :
      /\ PendingWrites[i].tag = Emar(p)
      /\ \A j \in DOMAIN PendingWrites : j > i => PendingWrites[j].tag # Emar(p)
      => PendingWrites[i].value = EmarValue(emarModes, values, p)

\* The modes in memory are the saved ones, also after calls the full queue refuses
\* and after a restart (set_pump_emar_mode, RuntimeState.__init__).
ModesAreSaved == emarModes = BootModes(controls)

====
