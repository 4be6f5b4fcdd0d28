---- MODULE FieldEmulator ----
(***************************************************************************)
(* field_emulator/main.py: the process that integrates the levels of the   *)
(* chamber and of the reserve.  A tick reads the tester's snapshot, takes  *)
(* the controls under the lock, posts the new levels, and keeps and saves  *)
(* them under the lock again; the lock is not held while it waits for the  *)
(* tester.  Operators change the controls at any time, in handlers that    *)
(* hold the lock throughout.  What a save or a change under the lock       *)
(* raises restores the state it found (_state_change).                     *)
(*                                                                         *)
(* Openings are percentages, rates are per 100% and unit of time.  The     *)
(* openings kept in the state and the file are left out: whoever reads     *)
(* them computes them anew (_apply_control).  So are the fields that only  *)
(* report (last_error, bounds, the times).                                 *)
(***************************************************************************)
EXTENDS LevelHistory, Rounding, TLC

CONSTANTS
  Tank,             \* the levels of the instance, of "chamber" and "reserve"
  TopLevel,         \* of every reading
  Limits,           \* the floors and ceilings that operators configure
  PumpCount,        \* how many pumps may be running
  InletRate, ConsumptionRate, PumpRate,
  MaxStep,          \* longest time that one tick integrates (5 s in the code)
  SeasonalInlet,    \* seasonal_inlet_pct, by season
  DailyConsumption, \* daily_consumption_pct, by time
  InitialControl,   \* the controls of the deployment
  ControlBody,      \* what operators PUT to /control ...
  ValveBody,        \* ... and to /valves
  Unset             \* None

Level == 0..TopLevel
Levels == [Tank -> Level]
Opening == 0..100
Controls == [mode : {"manual", "automatic"}, season : DOMAIN SeasonalInlet,
             inlet : Opening, outlet : Opening]

ASSUME TankAssumption == Tank \subseteq {"chamber", "reserve"} /\ Sample = Levels
ASSUME UnsetAssumption == Unset \notin Levels
ASSUME LimitsAssumption ==
  /\ TopLevel \in Nat
  /\ Limits \subseteq [floor : Level, ceiling : Level]
ASSUME RateAssumption ==
  /\ PumpCount \subseteq Nat /\ \E most \in PumpCount : PumpCount \subseteq 0..most
  /\ InletRate \in Nat /\ ConsumptionRate \in Nat /\ PumpRate \in Nat /\ MaxStep \in Nat
  /\ SeasonalInlet \in [DOMAIN SeasonalInlet -> Opening]
  /\ DailyConsumption \in [Time -> Opening]
\* FastAPI validates the bodies; one field or more may be missing.
ASSUME BodyAssumption ==
  /\ InitialControl \in Controls
  /\ \A body \in ControlBody \union ValveBody, c \in Controls : body @@ c \in Controls
  /\ \A body \in ValveBody : DOMAIN body \subseteq {"inlet", "outlet"}

VARIABLES
  control,    \* mode, season and manual openings of state
  level,      \* state["yNvCamAsp"], state["yNvRes"]: both None or neither
  lastTick,   \* _last_tick
  file,       \* field_emulator_state.json
  tick,       \* where the emulator's thread is
  mode,       \* injection mode of the tester
  taken,      \* levels of the last injection of the emulator that the tester took
  left        \* `level` dates from before the mode was last disabled

emulatorVars == <<control, level, lastTick, file, tick>>
testerVars == <<mode, taken, left>>
vars == <<historyVars, emulatorVars, testerVars>>

NoFile == [control |-> InitialControl, level |-> Unset]
Snapshot == [enabled : BOOLEAN, confirmed : BOOLEAN, feedback : Levels, pumps : PumpCount,
             limits : [Tank -> Limits]]
Stage == {"resting", "asking", "confirmed", "resetting", "posting", "storing", "recording",
          "dead"}
Tick == [at : Stage, began : Time, elapsed : 0..MaxStep, snap : Snapshot \union {Unset},
         left : BOOLEAN, levels : Levels \union {Unset}, resumed : BOOLEAN]
Resting == [at |-> "resting", began |-> 0, elapsed |-> 0, snap |-> Unset, left |-> FALSE,
            levels |-> Unset, resumed |-> FALSE]

Init ==
  /\ HistoryInit
  /\ control = InitialControl /\ level = Unset /\ lastTick = 0
  /\ file = NoFile
  /\ tick = Resting
  /\ mode \in {"disabled", "enabled"} /\ taken = Unset /\ left = FALSE

----
\* What one tick computes.

Clamp(x, a, b) == Max({Min({a, b}), Min({Max({a, b}), x})})

OpeningsAt(t) ==
  IF control.mode = "automatic"
  THEN [inlet |-> SeasonalInlet[control.season], outlet |-> DailyConsumption[t]]
  ELSE [inlet |-> control.inlet, outlet |-> control.outlet]

Flow(tank, open, pumps) ==
  IF tank = "chamber" THEN open.inlet * InletRate - 100 * pumps * PumpRate
                      ELSE 100 * pumps * PumpRate - open.outlet * ConsumptionRate

StartingLevels(snap) == IF level = Unset THEN snap.feedback ELSE level

Integrated(snap, began, elapsed) ==
  [tank \in Tank |->
     Round(Clamp(100 * StartingLevels(snap)[tank]
                   + Flow(tank, OpeningsAt(began), snap.pumps) * elapsed,
                 100 * snap.limits[tank].floor, 100 * snap.limits[tank].ceiling), 100)]

----
\* _tick.  An exception ends it; the state is as its last completed block left it.

Raise == tick' = Resting

\* Fault: the times of the tick before are used again.
TickBeginsLate ==
  /\ running /\ tick = Resting
  /\ tick' = [Resting EXCEPT !.at = "asking", !.began = lastTick,
                              !.elapsed = Min({now - lastTick, MaxStep})]
  /\ lastTick' = now
  /\ UNCHANGED <<historyVars, control, level, file, testerVars>>

\* Fault: all the time since the last tick counts.
TickBeginsUnclamped ==
  /\ running /\ tick = Resting
  /\ tick' = [Resting EXCEPT !.at = "asking", !.began = now, !.elapsed = now - lastTick]
  /\ lastTick' = now
  /\ UNCHANGED <<historyVars, control, level, file, testerVars>>

TickBegins ==
  /\ running /\ tick = Resting
  /\ tick' = [Resting EXCEPT !.at = "asking", !.began = now,
                              !.elapsed = Min({now - lastTick, MaxStep})]
  /\ lastTick' = now
  /\ UNCHANGED <<historyVars, control, level, file, testerVars>>

\* A disconnected PLC, a missing signal or one that is not good raises.
TickReads(snap) ==
  /\ running /\ tick.at = "asking"
  /\ snap.enabled = (mode = "enabled")
  /\ IF snap.confirmed
     THEN tick' = [tick EXCEPT !.at = "confirmed", !.snap = snap, !.left = left]
     ELSE Raise
  /\ UNCHANGED <<historyVars, control, level, lastTick, file, testerVars>>

TickTakesControls ==
  /\ running /\ tick.at = "confirmed"
  /\ IF \E tank \in Tank : tick.snap.limits[tank].floor >= tick.snap.limits[tank].ceiling
     THEN Raise
     ELSE IF tick.snap.enabled
     THEN tick' = [tick EXCEPT !.at = "posting", !.resumed = level # Unset,
                       !.levels = Integrated(tick.snap, tick.began, tick.elapsed)]
     ELSE tick' = [tick EXCEPT !.at = "resetting"]
  /\ UNCHANGED <<historyVars, control, level, lastTick, file, testerVars>>

\* Fault: what a failed save raises restores nothing.
KeepUnrestored(levels) ==
  /\ level' = levels
  /\ \/ /\ file' = [control |-> control, level |-> levels]
        /\ tick' = [tick EXCEPT !.at = "recording"]
     \/ Raise /\ UNCHANGED file

\* The block that ends a tick: with the levels replaced the state is saved, or restored.
Keep(levels) ==
  \/ /\ level' = levels
     /\ file' = [control |-> control, level |-> levels]
     /\ tick' = [tick EXCEPT !.at = "recording"]
  \/ Raise /\ UNCHANGED <<level, file>>

TickResets ==
  /\ running /\ tick.at = "resetting"
  /\ Keep(Unset)
  /\ left' = (left /\ level' # Unset)
  /\ UNCHANGED <<historyVars, control, lastTick, mode, taken>>

\* Fault: a post that failed counts as taken.
TickPostsTrusting ==
  /\ running /\ tick.at = "posting"
  /\ tick' = [tick EXCEPT !.at = "storing"]
  /\ taken' \in {taken, tick.levels}
  /\ UNCHANGED <<historyVars, control, level, lastTick, file, mode, left>>

\* The tester takes the post and its answer arrives, or is lost; or the tester refuses
\* the post, or never has it.  While disabled it takes the post too, and keeps it to itself.
TickPosts ==
  /\ running /\ tick.at = "posting"
  /\ \/ taken' = tick.levels /\ tick' = [tick EXCEPT !.at = "storing"]
     \/ taken' = tick.levels /\ Raise
     \/ UNCHANGED taken /\ Raise
  /\ UNCHANGED <<historyVars, control, level, lastTick, file, mode, left>>

TickStores ==
  /\ running /\ tick.at = "storing"
  /\ Keep(tick.levels)
  /\ UNCHANGED <<historyVars, control, lastTick, testerVars>>

TickRecords ==
  /\ tick.at = "recording"
  /\ Record(tick.began, tick.snap.feedback)
  /\ Raise
  /\ UNCHANGED <<control, level, lastTick, file, testerVars>>

\* The tester is not reached, or refuses in words that _run can read.
TickFails ==
  /\ running /\ tick.at = "asking"
  /\ Raise
  /\ UNCHANGED <<historyVars, control, level, lastTick, file, testerVars>>

\* The body of a refusal breaks off: reading it raises inside the handler of HTTPError,
\* and the exception leaves _run.
ThreadDies ==
  /\ running /\ tick.at \in {"asking", "posting"}
  /\ tick' = [Resting EXCEPT !.at = "dead"]
  /\ UNCHANGED <<historyVars, control, level, lastTick, file, testerVars>>

----
\* Handlers.

\* Fault: the file is written before the state is changed.
PutSavingFirst(body) ==
  /\ running
  /\ control' = body @@ control
  /\ file' = [control |-> control, level |-> level]
  /\ UNCHANGED <<historyVars, level, lastTick, tick, testerVars>>

Put(body) ==
  /\ running
  /\ \/ /\ control' = body @@ control
        /\ file' = [control |-> control', level |-> level]
     \/ UNCHANGED <<control, file>>
  /\ UNCHANGED <<historyVars, level, lastTick, tick, testerVars>>

SetControl == \E body \in ControlBody : Put(body)
SetValves == \E body \in ValveBody : Put(body)

\* Another process: an operator switches the tester's injection mode.
ModeSwitched ==
  /\ mode' = IF mode = "enabled" THEN "disabled" ELSE "enabled"
  /\ left' = (left \/ (mode' = "disabled" /\ level # Unset))
  /\ UNCHANGED <<historyVars, emulatorVars, taken>>

\* The history is loaded first: while that raises there is no emulator.
Restart ==
  /\ Load
  /\ control' = file.control /\ level' = file.level
  /\ lastTick' = now'
  /\ tick' = Resting
  /\ left' = (left /\ file.level # Unset)
  /\ UNCHANGED <<file, mode, taken>>

Crash ==
  /\ tick.at = "recording"
  /\ DieRecording(tick.began, tick.snap.feedback)
  /\ UNCHANGED <<emulatorVars, testerVars>>

\* Both calls to the tester time out.
TimePasses ==
  /\ Elapse
  /\ running /\ tick.at \notin {"resting", "dead"} => now - tick.began < Latency
  /\ UNCHANGED <<emulatorVars, testerVars>>

Next ==
  \/ TickBegins \/ TickTakesControls \/ TickResets \/ TickPosts \/ TickStores \/ TickRecords
  \/ \E snap \in Snapshot : TickReads(snap)
  \/ TickFails \/ ThreadDies
  \/ SetControl \/ SetValves
  \/ ModeSwitched
  \/ "crash" \in Fault /\ (Restart \/ Crash)
  \/ TimePasses

Spec == Init /\ [][Next]_vars

----
EmulatorTypeOK ==
  /\ control \in Controls
  /\ level \in Levels \union {Unset} /\ taken \in Levels \union {Unset}
  /\ lastTick \in Time
  /\ file \in [control : Controls, level : Levels \union {Unset}]
  /\ tick \in Tick
  /\ tick.at \in {"confirmed", "resetting", "posting", "storing", "recording"} =>
       tick.snap \in Snapshot
  /\ tick.at \in {"posting", "storing"} => tick.levels \in Levels
  /\ mode \in {"disabled", "enabled"} /\ left \in BOOLEAN

\* Whatever fails, the controls and the levels in memory are the ones a restart would
\* find: no change lives in one of the two only (_state_change, _save_state_file).
SavedIsRemembered == running => file = [control |-> control, level |-> level]

\* The model never runs ahead of the tester: the levels it keeps are the ones the tester
\* last took, whatever was refused, lost or not saved on the way (_tick, _load_state_file).
KeepsOnlyWhatWasTaken ==
  [][level' # level /\ level' # Unset => level' = taken]_vars

\* Nobody but an operator changes the controls: a tick that read them before it waited
\* for the tester puts back nothing, and a restart forgets nothing (_tick, set_control).
ControlsAreTheOperators ==
  [][control' # control => SetControl \/ SetValves]_vars

\* A level moves by what the flow brings in the longest step at most, however long the
\* tester was away and however many ticks failed, unless it was outside the limits (_tick).
\* The rates and the longest step are whole numbers here, and so is their product: a move
\* rounded to a whole level is not beyond it.
LongestMove == Max({InletRate, ConsumptionRate, PumpRate * Max(PumpCount)}) * MaxStep

LevelsMoveSteadily ==
  [][tick.at = "storing" /\ level # Unset /\ level' # level =>
       \A tank \in Tank :
         level[tank] \in tick.snap.limits[tank].floor..tick.snap.limits[tank].ceiling =>
           level'[tank] - level[tank] \in -LongestMove..LongestMove]_vars

\* Levels kept from before the injection was disabled are not resumed when it is enabled
\* again: the tick that reads the new mode starts from the feedback (_tick).
LeavingDiscardsTheLevels ==
  tick.at = "posting" /\ tick.left => ~tick.resumed

====
