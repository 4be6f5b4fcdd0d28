---- MODULE WritePath ----
(***************************************************************************)
(* The threads around RuntimeState: the one poller thread                  *)
(* (modbus_client.py, ModbusPoller._run, or SimulationPoller._run where    *)
(* SIMULATION_MODE is set), the HTTP handlers, which FastAPI runs in a     *)
(* pool of threads, the injection mode file (injection_mode.py), the PLC,  *)
(* and the death and restart of the process.                               *)
(*                                                                         *)
(* `_lock` is released at the end of every action here, but for one:       *)
(* set_injection_mode calls write_result, which takes `_lock`, inside its  *)
(* own critical section of that lock, which is not reentrant.  From then   *)
(* on `lock` is "held" and no other section can start.  `_write_gate` is   *)
(* held across actions, by the poller from the last permission until the   *)
(* Modbus operation is recorded, by set_injection_mode until it returns.   *)
(***************************************************************************)
EXTENDS RuntimeState

CONSTANTS
  Thread,         \* threads of the pool that serves HTTP requests
  Poller,         \* the poller thread
  NoThread,       \* the gate is free
  Burst,          \* writes of one _process_writes call (50 in the code)
  StartMode,      \* what injection_mode.txt may hold when the instance starts
  StartRtu,       \* what the RTU selectors of the file and of the PLC may be at the start
  OperatorMode,   \* the injection modes the operators of this instance select
  OperatorTable,  \* the tables whose readings the operators of this instance switch
  PollerStart     \* "top" for ModbusPoller, "simulating" for SimulationPoller

ASSUME ThreadAssumption == Poller \notin Thread /\ NoThread \notin Thread \union {Poller}
ASSUME BurstAssumption == Burst \in Nat \ {0}
ASSUME ModeAssumption == StartMode \union OperatorMode \subseteq {"disabled", "enabled"}
ASSUME TableAssumption == OperatorTable \subseteq Table
ASSUME PollerAssumption == PollerStart \subseteq {"top", "simulating"}

VARIABLES
  mode,           \* injection_mode.txt
  polled,         \* the tables whose reading is enabled, in modbus_polling.json
  gate,           \* holder of _write_gate
  lock,           \* "held" once a thread waits for the _lock it holds
  plc,            \* registers and coils of the PLC
  client,         \* ModbusPoller._client is not None
  poller,         \* where the poller thread is
  api             \* where each HTTP thread is

threadVars == <<mode, polled, gate, lock, plc, client, poller, api>>
vars == <<stateVars, threadVars>>

InjectionMode == {"disabled", "enabled"}
LockIsFree == lock = "free"

NoPost == [batch |-> <<>>, source |-> "other"]
Idle == [at |-> "idle", post |-> NoPost]
AtTop == [at |-> "top", polling |-> {}, left |-> 0, outcome |-> "none", due |-> {},
          read |-> FALSE, sample |-> <<>>, drained |-> <<>>]

\* The configuration names the poller of a process, and of the next one.
InSimulation == poller.at \in {"simulating", "draining", "answering", "confirming"}
Boot == [AtTop EXCEPT !.at = IF InSimulation THEN "simulating" ELSE "top"]

Init ==
  /\ StateInit
  /\ mode \in StartMode
  /\ \E off \in SUBSET OperatorTable : polled = Table \ off
  /\ gate = NoThread
  /\ lock = "free"
  /\ plc \in [Tag -> Value] /\ \A t \in Tag : plc[t] \in ValueOf(t)
  /\ \A p \in Pump : controls[p].rtu \in StartRtu /\ plc[Rtu(p)] \in StartRtu
  /\ client = FALSE
  /\ poller \in {[AtTop EXCEPT !.at = start] : start \in PollerStart}
  /\ api = [th \in Thread |-> Idle]

----
\* HTTP handlers.  A call that a guard of RuntimeState refuses raises and changes nothing.

WritesRequested ==
  /\ LockIsFree
  /\ \E post \in Post : EnqueueWrites(post)
  /\ UNCHANGED threadVars

EmarModeRequested ==
  /\ LockIsFree
  /\ \E p \in Pump, m \in EmarMode : SetPumpEmarMode(p, m)
  /\ UNCHANGED threadVars

\* enqueue_injections reads the mode under neither the lock nor the gate ...
InjectionRequested(th) ==
  /\ api[th] = Idle
  /\ \E post \in Post :
       /\ IsInjection(post)
       /\ api' = [api EXCEPT ![th] = [at |-> IF mode = "enabled" THEN "queueing" ELSE "saving",
                                     post |-> post]]
  /\ UNCHANGED <<stateVars, mode, polled, gate, lock, plc, client, poller>>

\* ... and acts on what it read, later.
InjectionQueued(th) ==
  /\ api[th].at = "queueing" /\ LockIsFree
  /\ QueueInjections(api[th].post)
  /\ api' = [api EXCEPT ![th] = Idle]
  /\ UNCHANGED <<mode, polled, gate, lock, plc, client, poller>>

InjectionRefused(th) ==
  /\ api[th].at = "queueing" /\ LockIsFree
  /\ ~HasRoom(api[th].post)
  /\ api' = [api EXCEPT ![th] = Idle]
  /\ UNCHANGED <<stateVars, mode, polled, gate, lock, plc, client, poller>>

InjectionSaved(th) ==
  /\ api[th].at = "saving"
  /\ UpdateRtuTags(api[th].post)
  /\ api' = [api EXCEPT ![th].at = "showing"]
  /\ UNCHANGED <<mode, polled, gate, lock, plc, client, poller>>

InjectionShown(th) ==
  /\ api[th].at = "showing" /\ LockIsFree
  /\ RecordDisabledInjections(api[th].post)
  /\ api' = [api EXCEPT ![th] = Idle]
  /\ UNCHANGED <<mode, polled, gate, lock, plc, client, poller>>

----
\* set_injection_mode: takes the gate, writes the file, and when it disables takes `_lock`
\* to cancel what is queued.

\* Fault: the mode is switched without the gate.
ModeSwitchStartsUngated(th) ==
  /\ api[th] = Idle
  /\ mode' \in OperatorMode
  /\ api' = [api EXCEPT ![th].at = "switching"]
  /\ UNCHANGED <<stateVars, polled, gate, lock, plc, client, poller>>

ModeSwitchStarts(th) ==
  /\ api[th] = Idle
  /\ gate = NoThread
  /\ gate' = th
  /\ mode' \in OperatorMode
  /\ api' = [api EXCEPT ![th].at = "switching"]
  /\ UNCHANGED <<stateVars, polled, lock, plc, client, poller>>

QueuedInjections == {i \in DOMAIN queue : RequiresInjection(queue[i].tag)}

\* Fault: every queued request is cancelled, whether it requires injection or not.
ModeSwitchEndsCancelling(th) ==
  /\ api[th].at = "switching"
  /\ mode = "disabled" => LockIsFree /\ QueuedInjections = {}
  /\ queue' = IF mode = "disabled" THEN <<>> ELSE queue
  /\ gate' = NoThread
  /\ api' = [api EXCEPT ![th] = Idle]
  /\ UNCHANGED <<inFlight, values, emarModes, controls, mode, polled, lock, plc, client, poller>>

\* With nothing to cancel the queue that is rebuilt is the queue there was.
ModeSwitchEnds(th) ==
  /\ api[th].at = "switching"
  /\ mode = "disabled" => LockIsFree /\ QueuedInjections = {}
  /\ gate' = NoThread
  /\ api' = [api EXCEPT ![th] = Idle]
  /\ UNCHANGED <<stateVars, mode, polled, lock, plc, client, poller>>

\* The first request to cancel makes the thread wait for the lock it holds.
ModeSwitchHangs(th) ==
  /\ api[th].at = "switching"
  /\ mode = "disabled" /\ LockIsFree /\ QueuedInjections # {}
  /\ lock' = "held"
  /\ api' = [api EXCEPT ![th].at = "hung"]
  /\ UNCHANGED <<stateVars, mode, polled, gate, plc, client, poller>>

----
\* _process_writes.

\* The cycle begins with a copy of the settings of the readings, with which it schedules.
\* A connection that fails leaves everything as it was: the next turn tries again.
WriteCycle ==
  /\ poller.at = "top" /\ LockIsFree
  /\ IF HasPendingWrites
     THEN /\ poller' = [poller EXCEPT !.at = "burst", !.polling = polled, !.left = Burst]
          /\ client' = TRUE
     ELSE /\ poller' = [poller EXCEPT !.at = "schedule", !.polling = polled]
          /\ UNCHANGED client
  /\ UNCHANGED <<stateVars, mode, polled, gate, lock, plc, api>>

TakeRequest ==
  /\ poller.at = "burst" /\ poller.left > 0 /\ LockIsFree
  /\ HasPendingWrites
  /\ NextWrite
  /\ poller' = [poller EXCEPT !.at = "authorize", !.left = @ - 1]
  /\ UNCHANGED <<mode, polled, gate, lock, plc, client, api>>

BurstEnds ==
  /\ poller.at = "burst"
  /\ poller.left = 0 \/ (LockIsFree /\ ~HasPendingWrites)
  /\ poller' = [poller EXCEPT !.at = "schedule", !.left = 0]
  /\ UNCHANGED <<stateVars, mode, polled, gate, lock, plc, client, api>>

\* authorize_write: the last permission is read under the gate, which stays held.
Authorize ==
  /\ poller.at = "authorize"
  /\ gate = NoThread
  /\ gate' = Poller
  /\ poller' = IF RequiresInjection(inFlight.tag) /\ mode = "disabled"
               THEN [poller EXCEPT !.at = "recording", !.outcome = "cancelled"]
               ELSE [poller EXCEPT !.at = "writing"]
  /\ UNCHANGED <<stateVars, mode, polled, lock, plc, client, api>>

WriteAccepted ==
  /\ poller.at = "writing"
  /\ plc' = [plc EXCEPT ![inFlight.tag] = inFlight.value]
  /\ poller' = [poller EXCEPT !.at = "recording", !.outcome = "accepted"]
  /\ UNCHANGED <<stateVars, mode, polled, gate, lock, client, api>>

WriteRefused ==
  /\ poller.at = "writing"
  /\ poller' = [poller EXCEPT !.at = "recording", !.outcome = "refused"]
  /\ UNCHANGED <<stateVars, mode, polled, gate, lock, plc, client, api>>

\* The transport raises, before the PLC has the request or after: the exception leaves
\* the `with` and with it the gate.  A request that is on its way still and that the PLC
\* applies later, when the gate is free again, is not modelled: a client that gave up
\* waiting cannot call it back, and no lock of the process covers it.
WriteFails ==
  /\ poller.at = "writing"
  /\ plc' \in {plc, [plc EXCEPT ![inFlight.tag] = inFlight.value]}
  /\ gate' = NoThread
  /\ poller' = [poller EXCEPT !.at = "recording", !.outcome = "failed"]
  /\ UNCHANGED <<stateVars, mode, polled, lock, client, api>>

RecordWrite ==
  /\ poller.at = "recording" /\ LockIsFree
  /\ WriteResult(inFlight.tag, inFlight.value, poller.outcome = "accepted")
  /\ gate' = IF gate = Poller THEN NoThread ELSE gate
  /\ poller' = [poller EXCEPT !.at = "completing"]
  /\ UNCHANGED <<mode, polled, lock, plc, client, api>>

FinishWrite ==
  /\ poller.at = "completing" /\ LockIsFree
  /\ CompleteWrite
  /\ poller' = [poller EXCEPT !.at = "burst", !.outcome = "none"]
  /\ UNCHANGED <<mode, polled, gate, lock, plc, client, api>>

----
\* The due tables are read in the order of the configuration; which of the enabled ones
\* are due is left open.

Position(table) == CASE table = "analog_setpoints" -> 1
                     [] table = "digital_reads"    -> 2
                     [] table = "digital_commands" -> 3
IsNextDue(table, due) == table \in due /\ \A other \in due : Position(table) <= Position(other)

Schedule(due) ==
  /\ poller.at = "schedule" /\ due \subseteq poller.polling
  /\ IF due = {} THEN poller' = AtTop /\ UNCHANGED client
     ELSE /\ client' \in BOOLEAN
          /\ poller' = [poller EXCEPT !.at = IF client' THEN "reading" ELSE "unreachable",
                                      !.polling = {}, !.due = due]
  /\ UNCHANGED <<stateVars, mode, polled, gate, lock, plc, api>>

ReadTable(table) ==
  /\ poller.at = "reading" /\ IsNextDue(table, poller.due)
  /\ poller' = [poller EXCEPT !.at = "updating", !.sample = [t \in TagsOf(table) |-> plc[t]]]
  /\ UNCHANGED <<stateVars, mode, polled, gate, lock, plc, client, api>>

ReadFails(table) ==
  /\ poller.at = "reading" /\ IsNextDue(table, poller.due)
  /\ poller' = [poller EXCEPT !.at = "readFailed"]
  /\ UNCHANGED <<stateVars, mode, polled, gate, lock, plc, client, api>>

UpdateTable(table) ==
  /\ poller.at = "updating" /\ IsNextDue(table, poller.due) /\ LockIsFree
  /\ UpdateValues(poller.sample)
  /\ poller' = [poller EXCEPT !.at = "reading", !.due = @ \ {table}, !.read = TRUE,
                              !.sample = <<>>]
  /\ UNCHANGED <<mode, polled, gate, lock, plc, client, api>>

MarkTable(table) ==
  /\ poller.at \in {"readFailed", "unreachable"} /\ IsNextDue(table, poller.due) /\ LockIsFree
  /\ MarkTableError(table)
  /\ poller' = [poller EXCEPT !.at = IF @ = "readFailed" THEN "reading" ELSE @,
                              !.due = @ \ {table}]
  /\ UNCHANGED <<mode, polled, gate, lock, plc, client, api>>

\* With no table read and the link lost the client is closed.
CycleEnds ==
  /\ poller.at \in {"reading", "unreachable"} /\ poller.due = {}
  /\ client' \in IF poller.read THEN {client} ELSE {client, FALSE}
  /\ poller' = AtTop
  /\ UNCHANGED <<stateVars, mode, polled, gate, lock, plc, api>>

----
\* SimulationPoller._run, one turn.

\* Readings and setpoints are made up, the setpoints from the defaults of the map.
Fabricated ==
  {[t \in TagsOf("analog_setpoints") \union DOMAIN drives |->
      IF Analog(t) THEN 0 ELSE drives[t]] : drives \in [TagsOf("digital_reads") -> Bit]}

SimulateReadings ==
  /\ poller.at = "simulating" /\ LockIsFree
  /\ \E updates \in Fabricated : UpdateValues(updates)
  /\ poller' = [poller EXCEPT !.at = "draining"]
  /\ UNCHANGED <<mode, polled, gate, lock, plc, client, api>>

Drained == SubSeq(queue, 1, IF Len(queue) < DrainLimit THEN Len(queue) ELSE DrainLimit)

\* Fault: the requests left in the queue are not those that were not taken.
SimulationDrainsTwice ==
  /\ poller.at = "draining" /\ LockIsFree
  /\ queue' = <<>>
  /\ poller' = [poller EXCEPT !.at = "answering", !.drained = Drained]
  /\ UNCHANGED <<inFlight, values, emarModes, controls, mode, polled, gate, lock, plc, client, api>>

SimulationDrains ==
  /\ poller.at = "draining" /\ LockIsFree
  /\ DrainWrites
  /\ poller' = [poller EXCEPT !.at = "answering", !.drained = Drained]
  /\ UNCHANGED <<mode, polled, gate, lock, plc, client, api>>

SimulationAuthorizes ==
  /\ poller.at = "answering" /\ poller.drained # <<>>
  /\ gate = NoThread
  /\ gate' = Poller
  /\ poller' = [poller EXCEPT !.at = "confirming", !.outcome =
       IF RequiresInjection(Head(poller.drained).tag) /\ mode = "disabled"
       THEN "cancelled" ELSE "accepted"]
  /\ UNCHANGED <<stateVars, mode, polled, lock, plc, client, api>>

SimulationConfirms ==
  /\ poller.at = "confirming" /\ LockIsFree
  /\ WriteResult(Head(poller.drained).tag, Head(poller.drained).value,
                 poller.outcome = "accepted")
  /\ gate' = NoThread
  /\ poller' = [poller EXCEPT !.at = "answering", !.outcome = "none", !.drained = Tail(@)]
  /\ UNCHANGED <<mode, polled, lock, plc, client, api>>

SimulationTurnEnds ==
  /\ poller.at = "answering" /\ poller.drained = <<>>
  /\ poller' = [poller EXCEPT !.at = "simulating"]
  /\ UNCHANGED <<stateVars, mode, polled, gate, lock, plc, client, api>>

----
\* update_polling_control: an operator enables or disables the reading of a table.
\* PollingControl has the call itself, its lock and its file.
ReadingSwitched ==
  /\ \E table \in OperatorTable :
       polled' = IF table \in polled THEN polled \ {table} ELSE polled \union {table}
  /\ UNCHANGED <<stateVars, mode, gate, lock, plc, client, poller, api>>

\* A drive changes the contactor request the PLC reports; the PLC's program writes no
\* y* or g* register.
ArndoChanges ==
  /\ \E p \in Pump : plc' = [plc EXCEPT ![Arndo(p)] = 1 - @]
  /\ UNCHANGED <<stateVars, mode, polled, gate, lock, client, poller, api>>

\* No call is between its save and the memory while a thread waits for the lock it holds.
Restart ==
  /\ Reboot
  /\ LockIsFree \/ controls' = controls
  /\ gate' = NoThread
  /\ lock' = "free"
  /\ client' = FALSE
  /\ poller' = Boot
  /\ api' = [th \in Thread |-> Idle]
  /\ UNCHANGED <<mode, polled, plc>>

----
ApiContinues(th) ==
  \/ InjectionQueued(th) \/ InjectionRefused(th) \/ InjectionSaved(th) \/ InjectionShown(th)
  \/ ModeSwitchEnds(th) \/ ModeSwitchHangs(th)

ApiStarts(th) == InjectionRequested(th) \/ ModeSwitchStarts(th)

PollerStep ==
  \/ WriteCycle \/ TakeRequest \/ BurstEnds \/ Authorize
  \/ WriteAccepted \/ WriteRefused \/ WriteFails \/ RecordWrite \/ FinishWrite
  \/ \E due \in SUBSET {table \in Table : TagsOf(table) # {}} : Schedule(due)
  \/ \E table \in Table :
       ReadTable(table) \/ ReadFails(table) \/ UpdateTable(table) \/ MarkTable(table)
  \/ CycleEnds
  \/ SimulateReadings \/ SimulationDrains \/ SimulationAuthorizes \/ SimulationConfirms
  \/ SimulationTurnEnds

Next ==
  \/ WritesRequested \/ EmarModeRequested
  \/ \E th \in Thread : ApiStarts(th) \/ ApiContinues(th)
  \/ PollerStep
  \/ ReadingSwitched
  \/ ArndoChanges
  \/ Restart

Spec == Init /\ [][Next]_vars

----
\* The PLC takes no injection while the mode is disabled, and a simulation confirms none:
\* the operation under way when an operator disables ends before set_injection_mode
\* writes the file, and none starts after it, whatever was queued or drained before
\* (authorize_write, set_injection_mode).  A request that timed out is taken to reach the
\* PLC at once or never.
InjectsOnlyWhileEnabled ==
  [][\A t \in Tag : RequiresInjection(t) /\ mode # "enabled" =>
       /\ plc'[t] = plc[t]
       /\ poller.at = "confirming" /\ poller' # poller /\ Head(poller.drained).tag = t
            => poller.outcome = "cancelled" \/ poller'.at = "simulating"]_vars

\* A value shown as good is the one the PLC holds, whatever was enqueued, replaced or
\* cancelled while the write or the read of it was under way; only the write being
\* recorded may be ahead of what is shown (write_result, update_values).  A simulation has
\* no PLC to confirm anything.
GoodMeansConfirmed ==
  ~InSimulation => \A t \in Tag : Writable(t) /\ values[t].quality = "good" =>
    values[t].value = plc[t] \/ (poller.at = "recording" /\ inFlight.tag = t)

\* A value shown as queued is waiting to be written: no accepted command is lost
\* before the poller records a result for it, in the queue, in flight or among the
\* requests a simulation drained (_enqueue_validated_writes, drain_writes,
\* _coalesce_pending_writes_unlocked, complete_write).
QueuedMeansPending ==
  \A t \in Tag : values[t].quality = "queued" =>
    LET pending == poller.drained \o PendingWrites
    IN \E i \in DOMAIN pending : pending[i].tag = t /\ pending[i].value = values[t].value

\* A level pending in the queue never moves back: a step leaves it where it is or nearer
\* the head, or takes it to be written (_coalesce_pending_writes_unlocked, next_write,
\* drain_writes).
LevelsKeepTheirTurn ==
  [][Restart \/ \A t \in LevelTags, i \in DOMAIN queue : IsPending(i, t) =>
       \/ \E j \in DOMAIN queue' :
            j <= i /\ queue'[j].tag = t /\ queue'[j].source = "field-emulator"
       \/ i = 1 /\ inFlight' # NoRequest /\ inFlight'.tag = t
       \/ i \in DOMAIN poller'.drained /\ poller'.drained[i] = queue[i]]_vars

\* set_injection_mode always returns: the thread that cancels the queued injections
\* never waits for the lock it holds.
DisablingReturns == lock = "free"

\* A request whose write met a transport failure stays pending (_process_writes).
FailedWriteStaysPending ==
  [][Restart \/ poller.outcome # "failed" \/ inFlight' = inFlight]_vars

----
ScheduleReading(table) ==
  \E due \in SUBSET {u \in Table : TagsOf(u) # {}} :
    table \in due /\ Schedule(due) /\ client'

\* The poller thread is always scheduled and every accepted HTTP request is served to
\* its end; the PLC is not unreachable for ever, and a table or a write that is tried
\* again and again does succeed.  A table comes due again and again only while its
\* reading stays enabled, which is the operators' affair and not supposed here.
Fairness ==
  /\ WF_vars(PollerStep)
  /\ \A th \in Thread : WF_vars(ApiContinues(th))
  /\ SF_vars(WriteAccepted)
  /\ <>[]("digital_reads" \in polled) => SF_vars(ScheduleReading("digital_reads"))
  /\ SF_vars(ReadTable("digital_reads"))

FairSpec == Spec /\ Fairness

\* Neither level starves once operators leave the mode alone: a pending value is always
\* taken, however often the emulator posts new ones (_coalesce_pending_writes_unlocked
\* keeps the turn), unless a switch of the mode hangs and everything with it.
LevelsAreServed ==
  <>[][~\E th \in Thread : ModeSwitchStarts(th)]_vars
    => \A t \in LevelTags : []<>(~LockIsFree \/ \A i \in DOMAIN queue : ~IsPending(i, t))

Commanded(p) == CASE emarModes[p] = "disabled"  -> 0
                  [] emarModes[p] = "automatic" -> plc[Arndo(p)]
                  [] emarModes[p] = "forced"    -> 1

\* Once operators and drives are quiet, with the reading of the contactor requests (FC02)
\* left enabled, and the process stays up, the PLC's yB#EMar comes to be the one its mode
\* asks for, and stays, through refused writes, failed reads and answers lost after the
\* PLC acted (_sync_emar_outputs_unlocked).
EmarConverges ==
  (/\ <>[]("digital_reads" \in polled)
   /\ <>[][~(Restart \/ EmarModeRequested \/ ArndoChanges)]_vars)
    => <>[](\A p \in Pump : plc[Emar(p)] = Commanded(p))

====
