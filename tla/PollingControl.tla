---- MODULE PollingControl ----
(***************************************************************************)
(* The control of the periodic readings: PollingControlStore               *)
(* (polling_control.py), whose settings handlers change while the poller   *)
(* (modbus_client.py, ModbusPoller._run) reads with the copy it took at    *)
(* the top of its cycle, the schedule of the readings, what a reading      *)
(* leaves in the store and in the values shown, what the writes leave in   *)
(* the values shown, failures of the file, of the link and of a reading,   *)
(* and the restart of the process.                                         *)
(*                                                                         *)
(* A function code names its table (function_code_for is one to one).      *)
(* Functions are numbered as FUNCTION_CODES orders them; the map declares  *)
(* the tables from FC04 down to FC01.  Time counts ticks: `dueIn` is how   *)
(* far next_due is from now, 0 for a date that passed or is missing (the   *)
(* code reads a missing one as 0.0).  Left out: times and counts of        *)
(* attempts and errors, which nothing compares.                            *)
(*                                                                         *)
(* A definition marked "Fault" is not the code: it is the definition after *)
(* it with a mistake in it, and the runs are known to tell the two apart.  *)
(***************************************************************************)
EXTENDS Integers, FiniteSets

CONSTANTS
  FunctionCount,  \* 4 in the code
  Written,        \* functions whose tables are written too: FC01 and FC03
  Rate,           \* sample rates, in ticks
  Change,         \* what operators ask: [function, change]
  InitialSettings,\* what modbus_polling.json may hold at the start
  Handler,        \* threads that serve HTTP requests
  NoHandler       \* nobody is inside update

Function == 1..FunctionCount
Setting == [enabled : BOOLEAN, rate : Rate]
Settings == [Function -> Setting]

VARIABLES
  file,           \* modbus_polling.json
  settings,       \* PollingControlStore._settings
  revised,        \* _revision is not the poller's _polling_revision
  updating,       \* the handler that holds the store's lock
  handler,        \* where each handler is
  copy,           \* the settings the poller took at the top of its cycle
  dueIn,          \* _next_due
  poller,         \* where the poller is, with the functions due and the one being read
  lastError,      \* functions whose last_error is set
  shown,          \* quality of a signal of each function's table, whichever it is
  late            \* history: attempts of a function since its disabling was confirmed

vars == <<file, settings, revised, updating, handler, copy, dueIn, poller, lastError, shown,
          late>>

Changes == {request.change : request \in Change}
Promise == INSTANCE PollingSettings WITH
  Change <- Changes,
  settings <- file,
  call <- [th \in Handler |-> CASE handler[th].at = "idle"    -> "idle"
                                [] handler[th].at = "writing" -> "called"
                                [] OTHER -> "done"]

ASSUME RateAssumption ==
  /\ FunctionCount \in Nat
  /\ Rate \subseteq Nat \ {0}
  /\ \A r \in Rate, n \in 1..FunctionCount : r % n = 0  \* a tick is fine enough
ASSUME WrittenAssumption == Written \subseteq Function
ASSUME SettingsAssumption ==
  /\ InitialSettings \subseteq Settings
  /\ \A request \in Change : /\ request.function \in Function
                             /\ \A s \in Setting : Promise!Changed(s, request.change) \in Setting
ASSUME HandlerAssumption == NoHandler \notin Handler

Idle == [at |-> "idle"]
AtTop == [at |-> "top", due |-> {}, reading |-> 0]
Pausing == [at |-> "pause", due |-> {}, reading |-> 0]
StoreIsFree == updating = NoHandler

\* Setpoints, levels and coils start with a local value, the readings with none.
BootQuality == [f \in Function |-> IF f \in Written THEN "local" ELSE "unknown"]

BootMemory ==
  /\ revised' = TRUE
  /\ updating' = NoHandler
  /\ handler' = [th \in Handler |-> Idle]
  /\ dueIn' = [f \in Function |-> 0]
  /\ poller' = AtTop
  /\ lastError' = {}
  /\ shown' = BootQuality
  /\ late' = [f \in Function |-> 0]

Init ==
  /\ file \in InitialSettings
  /\ settings = file /\ copy = file
  /\ revised = TRUE
  /\ updating = NoHandler
  /\ handler = [th \in Handler |-> Idle]
  /\ dueIn = [f \in Function |-> 0]
  /\ poller = AtTop
  /\ lastError = {}
  /\ shown = BootQuality
  /\ late = [f \in Function |-> 0]

----
\* update, called by handlers of PUT /api/polling: a copy of the settings with one
\* function changed goes to the file and then to memory, all of it under the store's lock.

\* Fault: the copy is made before the lock is taken.
UpdateEntersAnyway(th, request) ==
  /\ handler[th] = Idle
  /\ updating' = th
  /\ handler' = [handler EXCEPT ![th] =
       [at |-> "writing",
        next |-> [settings EXCEPT ![request.function] = Promise!Changed(@, request.change)]]]
  /\ UNCHANGED <<file, settings, revised, copy, dueIn, poller, lastError, shown, late>>

UpdateEnters(th, request) ==
  /\ handler[th] = Idle /\ StoreIsFree
  /\ updating' = th
  /\ handler' = [handler EXCEPT ![th] =
       [at |-> "writing",
        next |-> [settings EXCEPT ![request.function] = Promise!Changed(@, request.change)]]]
  /\ UNCHANGED <<file, settings, revised, copy, dueIn, poller, lastError, shown, late>>

FileReplaced(th) ==
  /\ handler[th].at = "writing"
  /\ file' = handler[th].next
  /\ handler' = [handler EXCEPT ![th].at = "assigning"]
  /\ UNCHANGED <<settings, revised, updating, copy, dueIn, poller, lastError, shown, late>>

\* Fault: memory took the settings before the file did.
WriteRaisesLate(th) ==
  /\ handler[th].at = "writing"
  /\ settings' = handler[th].next
  /\ updating' = NoHandler
  /\ handler' = [handler EXCEPT ![th] = Idle]
  /\ UNCHANGED <<file, revised, copy, dueIn, poller, lastError, shown, late>>

WriteRaises(th) ==
  /\ handler[th].at = "writing"
  /\ updating' = NoHandler
  /\ handler' = [handler EXCEPT ![th] = Idle]
  /\ UNCHANGED <<file, settings, revised, copy, dueIn, poller, lastError, shown, late>>

\* Fault: the revision stays.
UpdateReturnsUnrevised(th) ==
  /\ handler[th].at = "assigning"
  /\ settings' = handler[th].next
  /\ updating' = NoHandler
  /\ handler' = [handler EXCEPT ![th] = Idle]
  /\ late' = [f \in Function |-> IF settings'[f].enabled THEN 0 ELSE late[f]]
  /\ UNCHANGED <<file, revised, copy, dueIn, poller, lastError, shown>>

UpdateReturns(th) ==
  /\ handler[th].at = "assigning"
  /\ settings' = handler[th].next
  /\ revised' = TRUE
  /\ updating' = NoHandler
  /\ handler' = [handler EXCEPT ![th] = Idle]
  /\ late' = [f \in Function |-> IF settings'[f].enabled THEN 0 ELSE late[f]]
  /\ UNCHANGED <<file, copy, dueIn, poller, lastError, shown>>

----
\* The writes.  They change the quality of the signals they write and leave the errors of
\* the readings alone.

\* A command was enqueued, or took the place of a pending one, or is kept local while the
\* injection is disabled.
CommandShown(f) ==
  /\ f \in Written
  /\ shown' = [shown EXCEPT ![f] = "local"]
  /\ UNCHANGED <<file, settings, revised, updating, handler, copy, dueIn, poller, lastError, late>>

\* write_result, called by _process_writes.
WriteRecorded(f) ==
  /\ poller.at = "writes" /\ f \in Written
  /\ \E result \in {"good", "error"} : shown' = [shown EXCEPT ![f] = result]
  /\ UNCHANGED <<file, settings, revised, updating, handler, copy, dueIn, poller, lastError, late>>

----
\* One cycle of the poller.

Enabled(s) == {f \in Function : s[f].enabled}

\* The shortest interval of the enabled functions, shared out among them.
Spacing(s) ==
  (CHOOSE r \in {s[f].rate : f \in Enabled(s)} : \A f \in Enabled(s) : r <= s[f].rate)
    \div Cardinality(Enabled(s))

\* _reset_schedule: the enabled functions start one after another.
Staggered(s) ==
  [f \in Function |-> IF s[f].enabled
                      THEN Cardinality({g \in Enabled(s) : g < f}) * Spacing(s) ELSE 0]

CopySettings ==
  /\ poller.at = "top" /\ StoreIsFree
  /\ copy' = settings
  /\ dueIn' = IF revised THEN Staggered(settings) ELSE dueIn
  /\ revised' = FALSE
  /\ poller' = [poller EXCEPT !.at = "writes"]
  /\ UNCHANGED <<file, settings, updating, handler, lastError, shown, late>>

\* An exception of _process_writes: the cycle ends without a reading.
WriteCycleFails ==
  /\ poller.at = "writes"
  /\ poller' = [poller EXCEPT !.at = "pause"]
  /\ UNCHANGED <<file, settings, revised, updating, handler, copy, dueIn, lastError, shown, late>>

\* Fault: a function that was disabled stays in the schedule.
DueScheduled == {f \in Function : dueIn[f] = 0}

Due == {f \in Function : copy[f].enabled /\ dueIn[f] = 0}

\* The date of a disabled function is forgotten; the link is there or not.
Schedule ==
  /\ poller.at = "writes"
  /\ dueIn' = [f \in Function |-> IF f \in Due THEN copy[f].rate
                                  ELSE IF copy[f].enabled THEN dueIn[f] ELSE 0]
  /\ IF Due = {} THEN poller' = [poller EXCEPT !.at = "pause"]
     ELSE \E link \in {"connected", "unreachable"} :
            poller' = [poller EXCEPT !.at = link, !.due = Due]
  /\ UNCHANGED <<file, settings, revised, updating, handler, copy, lastError, shown, late>>

\* mark_attempt.
Attempt(f) ==
  /\ poller.at \in {"connected", "unreachable"} /\ poller.reading = 0
  /\ f \in poller.due /\ \A g \in poller.due : g <= f
  /\ StoreIsFree
  /\ poller' = [poller EXCEPT !.reading = f]
  /\ late' = [late EXCEPT ![f] = IF settings[f].enabled \/ @ = 2 THEN @ ELSE @ + 1]
  /\ UNCHANGED <<file, settings, revised, updating, handler, copy, dueIn, lastError, shown>>

\* _read_table and update_values, which may enqueue commands for signals of another table
\* (_sync_emar_outputs_unlocked).
ReadSucceeds ==
  /\ poller.at = "connected" /\ poller.reading # 0
  /\ \E synced \in SUBSET (Written \ {poller.reading}) :
       shown' = [f \in Function |-> IF f = poller.reading THEN "good"
                                    ELSE IF f \in synced THEN "local" ELSE shown[f]]
  /\ poller' = [poller EXCEPT !.at = "read"]
  /\ UNCHANGED <<file, settings, revised, updating, handler, copy, dueIn, lastError, late>>

MarkSuccess ==
  /\ poller.at = "read" /\ StoreIsFree
  /\ lastError' = lastError \ {poller.reading}
  /\ poller' = [poller EXCEPT !.at = "connected", !.due = @ \ {poller.reading}, !.reading = 0]
  /\ UNCHANGED <<file, settings, revised, updating, handler, copy, dueIn, shown, late>>

\* _read_table raises, or there is no link: mark_error.
MarkError ==
  /\ poller.at \in {"connected", "unreachable"} /\ poller.reading # 0 /\ StoreIsFree
  /\ lastError' = lastError \union {poller.reading}
  /\ poller' = [poller EXCEPT !.at = IF @ = "connected" THEN "failed" ELSE "given up"]
  /\ UNCHANGED <<file, settings, revised, updating, handler, copy, dueIn, shown, late>>

\* Fault: without a link the values keep the quality they had.
MarkTableErrorOfReading ==
  /\ poller.at \in {"failed", "given up"}
  /\ shown' = IF poller.at = "failed" THEN [shown EXCEPT ![poller.reading] = "error"] ELSE shown
  /\ poller' = [poller EXCEPT !.at = IF @ = "failed" THEN "connected" ELSE "unreachable",
                              !.due = @ \ {poller.reading}, !.reading = 0]
  /\ UNCHANGED <<file, settings, revised, updating, handler, copy, dueIn, lastError, late>>

\* Fault: a table that fails ends the cycle for those that follow.
MarkTableErrorAndLeave ==
  /\ poller.at \in {"failed", "given up"}
  /\ shown' = [shown EXCEPT ![poller.reading] = "error"]
  /\ poller' = Pausing
  /\ UNCHANGED <<file, settings, revised, updating, handler, copy, dueIn, lastError, late>>

MarkTableError ==
  /\ poller.at \in {"failed", "given up"}
  /\ shown' = [shown EXCEPT ![poller.reading] = "error"]
  /\ poller' = [poller EXCEPT !.at = IF @ = "failed" THEN "connected" ELSE "unreachable",
                              !.due = @ \ {poller.reading}, !.reading = 0]
  /\ UNCHANGED <<file, settings, revised, updating, handler, copy, dueIn, lastError, late>>

\* Every due table was tried, whatever became of the others.
CycleEnds ==
  /\ poller.at \in {"connected", "unreachable"} /\ poller.due = {}
  /\ poller' = Pausing
  /\ UNCHANGED <<file, settings, revised, updating, handler, copy, dueIn, lastError, shown, late>>

PauseEnds ==
  /\ poller.at = "pause"
  /\ poller' = AtTop
  /\ UNCHANGED <<file, settings, revised, updating, handler, copy, dueIn, lastError, shown, late>>

----
\* Fault: a date that passed runs on.
TickPast ==
  /\ \E f \in Function : dueIn[f] > 0
  /\ dueIn' = [f \in Function |-> dueIn[f] - 1]
  /\ UNCHANGED <<file, settings, revised, updating, handler, copy, poller, lastError, shown, late>>

\* Time passes anywhere: during a read, a write or the wait for a lock.
Tick ==
  /\ \E f \in Function : dueIn[f] > 0
  /\ dueIn' = [f \in Function |-> IF dueIn[f] > 0 THEN dueIn[f] - 1 ELSE 0]
  /\ UNCHANGED <<file, settings, revised, updating, handler, copy, poller, lastError, shown, late>>

\* The process dies and comes up again with the settings of the file.
Restart ==
  /\ settings' = file /\ copy' = file
  /\ BootMemory
  /\ UNCHANGED file

----
HandlerContinues(th) == FileReplaced(th) \/ WriteRaises(th) \/ UpdateReturns(th)

PollerStep ==
  \/ CopySettings \/ (\E f \in Function : WriteRecorded(f)) \/ WriteCycleFails \/ Schedule
  \/ (\E f \in Function : Attempt(f)) \/ ReadSucceeds \/ MarkSuccess \/ MarkError
  \/ MarkTableError \/ CycleEnds \/ PauseEnds

Next ==
  \/ \E th \in Handler : (\E request \in Change : UpdateEnters(th, request))
                         \/ HandlerContinues(th)
  \/ \E f \in Function : CommandShown(f)
  \/ PollerStep
  \/ Tick
  \/ Restart

Spec == Init /\ [][Next]_vars

\* The poller thread and the handlers inside the lock run on, time passes, and the write
\* cycle, which has a bounded number of writes and raises only when the PLC cannot be
\* reached, ends without raising again and again.
FairSpec ==
  Spec /\ WF_vars(PollerStep) /\ WF_vars(Tick) /\ SF_vars(Schedule)
       /\ \A th \in Handler : WF_vars(HandlerContinues(th))

----
PollingTypeOK ==
  /\ file \in Settings /\ settings \in Settings /\ copy \in Settings
  /\ revised \in BOOLEAN
  /\ updating \in Handler \union {NoHandler}
  /\ handler \in [Handler -> {Idle} \union [at : {"writing", "assigning"}, next : Settings]]
  /\ dueIn \in [Function -> Nat]
  /\ poller \in [at : {"top", "writes", "connected", "unreachable", "read", "failed",
                       "given up", "pause"},
                 due : SUBSET Function, reading : Function \union {0}]
  /\ lastError \subseteq Function
  /\ shown \in [Function -> {"unknown", "local", "good", "error"}]
  /\ late \in [Function -> 0..2]

\* Handlers that change different functions at once never undo each other, a call that
\* raises or dies changes nothing by halves, and a restart loses no answered change: the
\* file and the handlers implement PollingSettings (update, _write_unlocked).
SettingsPromise == Promise!Spec

\* What the poller and the page are given is what a restart would find: memory and file
\* differ only inside update, whatever raised there before (update).
SettingsAreOnFile == StoreIsFree => settings = file

\* After a disabling is confirmed its function is read once more at most, by the cycle
\* that had taken its copy before (_run).
DisablingIsEffective == \A f \in Function : late[f] <= 1

\* No enabled function waits longer than its rate: a date set under a longer one is
\* dropped with it (_run, _reset_schedule).
DueWithinItsRate ==
  \A f \in Function : copy[f].enabled => dueIn[f] <= copy[f].rate

\* Between two readings the control panel and the values tell the same story of a table
\* that is only read (FC02, FC04): its function has a last error exactly when its signals
\* are marked (_poll_tables, mark_success, mark_error, mark_table_error).  Of a table that
\* is written too nothing of the kind holds: write_result and the enqueuing calls change
\* the quality of its signals, and no last error with it.
ErrorsAgree ==
  \A f \in Function \ Written :
    poller.reading # f => (f \in lastError <=> shown[f] = "error")

\* Once operators leave the settings alone and the process stays up, every enabled
\* function is tried again and again, whatever becomes of the readings of the others
\* and however often the link is lost (_poll_tables, FRONTERA.md).
EnabledIsRead ==
  <>[][~Restart /\ ~\E th \in Handler, request \in Change : UpdateEnters(th, request)]_vars
    => \A f \in Function : []<>(~settings[f].enabled \/ poller.reading = f)

====
