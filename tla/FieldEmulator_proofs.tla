---- MODULE FieldEmulator_proofs ----
(***************************************************************************)
(* Proofs about FieldEmulator, for every value of its constants.           *)
(***************************************************************************)
EXTENDS FieldEmulator, LevelHistory_proofs

(***************************************************************************)
(* Arithmetic of one tick.                                                 *)
(***************************************************************************)

\* The lesser and the greater of two integers.
LEMMA MinOfTwo == ASSUME NEW a \in Int, NEW b \in Int
                  PROVE  Min({a, b}) = IF a <= b THEN a ELSE b
  BY DEF Min

LEMMA MaxOfTwo == ASSUME NEW a \in Int, NEW b \in Int
                  PROVE  Max({a, b}) = IF a >= b THEN a ELSE b
  BY DEF Max

\* Clamping leaves a number between its bounds.
LEMMA ClampBetween ==
  ASSUME NEW x \in Int, NEW a \in Int, NEW b \in Int, a <= b
  PROVE  Clamp(x, a, b) \in a..b
<1>1. Min({a, b}) = a /\ Max({a, b}) = b
  BY MinOfTwo, MaxOfTwo
<1>2. Min({b, x}) \in Int /\ Min({b, x}) <= b
  BY MinOfTwo
<1>3. Max({a, Min({b, x})}) \in a..b
  BY <1>2, MaxOfTwo
<1> QED
  BY <1>1, <1>3 DEF Clamp

\* Rounding to whole levels cannot leave limits that are whole levels.
LEMMA RoundBetween ==
  ASSUME NEW lo \in Int, NEW hi \in Int, NEW x \in (100 * lo)..(100 * hi)
  PROVE  Round(x, 100) \in lo..hi
<1> DEFINE q == x \div 100
           r == x % 100
<1>1. q \in Int /\ r \in 0..99 /\ x = 100 * q + r
  OBVIOUS
<1>2. q >= lo /\ q <= hi /\ (q = hi => r = 0)
  <2> HIDE DEF q, r
  <2> QED  BY <1>1
<1>3. Round(x, 100) = IF 2 * r > 100 \/ (2 * r = 100 /\ q % 2 = 1) THEN q + 1 ELSE q
  BY DEF Round
<1> HIDE DEF q, r
<1> QED
  BY <1>1, <1>2, <1>3

LEMMA ProductIsInteger == ASSUME NEW a \in Int, NEW b \in Int PROVE a * b \in Int
  OBVIOUS

LEMMA OpeningsAreInteger ==
  ASSUME control \in Controls, NEW t \in Time
  PROVE  OpeningsAt(t).inlet \in Int /\ OpeningsAt(t).outlet \in Int
<1>1. /\ control.season \in DOMAIN SeasonalInlet
      /\ control.inlet \in Opening /\ control.outlet \in Opening
  BY DEF Controls
<1>2. SeasonalInlet[control.season] \in Opening /\ DailyConsumption[t] \in Opening
  BY <1>1, RateAssumption
<1> QED
  BY <1>1, <1>2 DEF OpeningsAt, Opening

LEMMA FlowIsInteger ==
  ASSUME NEW tank \in Tank, NEW open, open.inlet \in Int, open.outlet \in Int,
         NEW pumps \in PumpCount
  PROVE  Flow(tank, open, pumps) \in Int
<1>1. pumps \in Int /\ InletRate \in Int /\ ConsumptionRate \in Int /\ PumpRate \in Int
  BY RateAssumption
<1>2. /\ open.inlet * InletRate \in Int /\ open.outlet * ConsumptionRate \in Int
      /\ 100 * pumps \in Int
  BY <1>1, ProductIsInteger
<1>3. (100 * pumps) * PumpRate \in Int
  BY <1>1, <1>2, ProductIsInteger
<1> DEFINE ins == open.inlet * InletRate
           outs == open.outlet * ConsumptionRate
           moved == (100 * pumps) * PumpRate
<1>4. ins - moved \in Int /\ moved - outs \in Int
  <2>1. ins \in Int /\ outs \in Int /\ moved \in Int
    BY <1>2, <1>3
  <2> HIDE DEF ins, outs, moved
  <2> QED  BY <2>1
<1> QED
  BY <1>4 DEF Flow

\* What a tick computes are levels, within the limits it read.
LEMMA IntegratedWithinLimits ==
  ASSUME control \in Controls, level \in Levels \union {Unset},
         NEW snap \in Snapshot,
         \A tank \in Tank : snap.limits[tank].floor <= snap.limits[tank].ceiling,
         NEW began \in Time, NEW elapsed \in Int
  PROVE  Integrated(snap, began, elapsed)
           \in [Tank -> Level]
<1>1. snap.pumps \in PumpCount /\ snap.feedback \in Levels /\ snap.limits \in [Tank -> Limits]
  BY DEF Snapshot
<1>2. StartingLevels(snap) \in Levels
  BY <1>1 DEF StartingLevels
<1> SUFFICES ASSUME NEW tank \in Tank
             PROVE  Integrated(snap, began, elapsed)[tank] \in Level
  BY DEF Integrated
<1> DEFINE lo == snap.limits[tank].floor
           hi == snap.limits[tank].ceiling
<1>a. lo \in Level /\ hi \in Level /\ lo <= hi
  BY <1>1, LimitsAssumption
<1>b. lo \in Int /\ hi \in Int /\ lo..hi \subseteq Level
  <2> HIDE DEF lo, hi
  <2> QED  BY <1>a, LimitsAssumption DEF Level
<1> SUFFICES Round(Clamp(100 * StartingLevels(snap)[tank]
                     + Flow(tank, OpeningsAt(began), snap.pumps) * elapsed,
                   100 * lo, 100 * hi), 100) \in lo..hi
  BY <1>b DEF Integrated
<1> DEFINE flow == Flow(tank, OpeningsAt(began), snap.pumps)
           start == StartingLevels(snap)[tank]
<1>3. start \in Int
  BY <1>2 DEF Levels, Level
<1>4. flow \in Int
  BY <1>1, OpeningsAreInteger, FlowIsInteger
<1> HIDE DEF flow, start
<1>5. flow * elapsed \in Int
  BY <1>4, ProductIsInteger
<1> DEFINE moved == flow * elapsed
<1>6. 100 * start + moved \in Int
  <2>1. moved \in Int  BY <1>5
  <2> HIDE DEF moved
  <2> QED  BY <1>3, <2>1
<1>7. 100 * lo \in Int /\ 100 * hi \in Int /\ 100 * lo <= 100 * hi
  <2> HIDE DEF lo, hi
  <2> QED  BY <1>a, <1>b
<1>8. Clamp(100 * start + moved, 100 * lo, 100 * hi) \in (100 * lo)..(100 * hi)
  <2> HIDE DEF moved, lo, hi
  <2> QED  BY <1>6, <1>7, ClampBetween
<1> HIDE DEF lo, hi
<1> QED
  BY <1>b, <1>8, RoundBetween DEF flow, start

(***************************************************************************)
(* The invariant.  What is in the file is what is in memory, also while    *)
(* the process is down; and the levels a tick is about to keep are the     *)
(* ones the tester took from it.                                           *)
(***************************************************************************)

ClockInv == now \in Time /\ lastTick <= now

KeptInv == /\ file = [control |-> control, level |-> level]
           /\ tick.at = "storing" => tick.levels = taken

EmulatorInv == ClockInv /\ EmulatorTypeOK /\ KeptInv

LEMMA RestingIsTick == Resting \in Tick
  BY PeriodAssumption, RateAssumption DEF Resting, Tick, Stage, Time

LEMMA InitInv == Init => EmulatorInv
<1> SUFFICES ASSUME Init PROVE EmulatorInv
  OBVIOUS
<1> USE DEF Init, HistoryInit
<1>1. ClockInv
  BY PeriodAssumption DEF ClockInv, Time
<1>2. EmulatorTypeOK
  BY BodyAssumption, PeriodAssumption, RestingIsTick
  DEF EmulatorTypeOK, NoFile, Time, Tick, Resting
<1>3. KeptInv
  BY DEF KeptInv, NoFile, Resting
<1> QED
  BY <1>1, <1>2, <1>3 DEF EmulatorInv

\* A tick begins, with an elapsed time that is clamped.
LEMMA TickBeginsStep == EmulatorInv /\ TickBegins => EmulatorInv'
<1> SUFFICES ASSUME EmulatorInv, TickBegins PROVE EmulatorInv'
  OBVIOUS
<1> USE DEF EmulatorInv, TickBegins, historyVars, storeVars, testerVars
<1>1. ClockInv'
  BY DEF ClockInv, Time
<1>2. Min({now - lastTick, MaxStep}) \in 0..MaxStep
  <2>1. now - lastTick \in Nat /\ MaxStep \in Nat
    BY RateAssumption DEF ClockInv, EmulatorTypeOK, Time
  <2> QED
    BY <2>1, MinOfTwo
<1>3. tick' \in Tick
  BY <1>2, RestingIsTick DEF ClockInv, Tick, Stage, Resting
<1>4. EmulatorTypeOK'
  BY <1>3 DEF EmulatorTypeOK, ClockInv, Tick, Resting
<1>5. KeptInv'
  BY DEF KeptInv, Resting
<1> QED
  BY <1>1, <1>4, <1>5

\* An action that leaves the clock and what is kept alone, and ends the tick or moves it
\* to a stage with nothing to store.
LEMMA QuietStep ==
  ASSUME EmulatorInv,
         UNCHANGED <<now, lastTick, control, level, file, mode, left>>,
         taken' \in Levels \union {Unset},
         tick' \in Tick, tick'.at # "storing",
         tick'.at \in {"confirmed", "resetting", "posting", "recording"}
           => tick'.snap \in Snapshot,
         tick'.at = "posting" => tick'.levels \in Levels
  PROVE  EmulatorInv'
  BY DEF EmulatorInv, ClockInv, EmulatorTypeOK, KeptInv, Tick

LEMMA TickReadsStep ==
  ASSUME NEW snap \in Snapshot, EmulatorInv, TickReads(snap) PROVE EmulatorInv'
<1> USE DEF EmulatorInv, TickReads, historyVars, storeVars, testerVars
<1>1. tick' \in Tick /\ tick'.at \in {"resting", "confirmed"}
      /\ (tick'.at = "confirmed" => tick'.snap \in Snapshot)
  BY RestingIsTick DEF EmulatorTypeOK, Tick, Stage, Raise, Resting
<1> QED
  BY <1>1, QuietStep DEF EmulatorTypeOK

LEMMA TickTakesControlsStep == EmulatorInv /\ TickTakesControls => EmulatorInv'
<1> SUFFICES ASSUME EmulatorInv, TickTakesControls PROVE EmulatorInv'
  OBVIOUS
<1> USE DEF EmulatorInv, TickTakesControls, historyVars, storeVars, testerVars
<1> DEFINE new == Integrated(tick.snap, tick.began, tick.elapsed)
           Unordered == \E tank \in Tank :
                          tick.snap.limits[tank].floor >= tick.snap.limits[tank].ceiling
<1>1. /\ tick \in Tick /\ tick.snap \in Snapshot
      /\ taken \in Levels \union {Unset}
  BY DEF EmulatorTypeOK, Tick
<1>3. CASE Unordered
  <2>1. tick' = Resting
    BY <1>3 DEF Raise
  <2> QED
    BY <1>1, <2>1, RestingIsTick, QuietStep DEF Resting
<1>4. CASE ~Unordered /\ tick.snap.enabled
  <2>1. tick.began \in Time /\ tick.elapsed \in Int
    BY <1>1 DEF Tick
  <2>2. \A tank \in Tank : tick.snap.limits[tank].floor <= tick.snap.limits[tank].ceiling
    <3>1. \A tank \in Tank : /\ tick.snap.limits[tank].floor \in Int
                             /\ tick.snap.limits[tank].ceiling \in Int
      BY <1>1, LimitsAssumption DEF Snapshot, Level
    <3> QED  BY <1>4, <3>1
  <2>3. new \in Levels
    BY <1>1, <2>1, <2>2, IntegratedWithinLimits DEF EmulatorTypeOK, Levels
  <2>4. tick' = [tick EXCEPT !.at = "posting", !.resumed = level # Unset, !.levels = new]
    BY <1>4
  <2> HIDE DEF new
  <2>5. tick' \in Tick /\ tick'.at = "posting" /\ tick'.snap = tick.snap /\ tick'.levels = new
    BY <1>1, <2>3, <2>4 DEF Tick, Stage
  <2> QED
    BY <1>1, <2>3, <2>5, QuietStep
<1>5. CASE ~Unordered /\ ~tick.snap.enabled
  <2>1. tick' = [tick EXCEPT !.at = "resetting"]
    BY <1>5
  <2>2. tick' \in Tick /\ tick'.at = "resetting" /\ tick'.snap = tick.snap
    BY <1>1, <2>1 DEF Tick, Stage
  <2> QED
    BY <1>1, <2>2, QuietStep
<1> QED
  BY <1>3, <1>4, <1>5

\* The last block of a tick: both files of the outcome agree with memory.
LEMMA KeepStep ==
  ASSUME EmulatorInv, NEW levels \in Levels \union {Unset}, Keep(levels),
         tick.snap \in Snapshot,
         UNCHANGED <<now, lastTick, control, mode, taken>>, left' \in BOOLEAN
  PROVE  EmulatorInv'
<1> USE DEF EmulatorInv
<1>1. tick' \in Tick /\ tick'.at \in {"recording", "resting"}
      /\ (tick'.at = "recording" => tick'.snap \in Snapshot)
  BY RestingIsTick DEF Keep, Raise, EmulatorTypeOK, Tick, Stage, Resting
<1>2. /\ level' \in Levels \union {Unset}
      /\ file' = [control |-> control, level |-> level']
  BY DEF Keep, EmulatorTypeOK, KeptInv
<1>3. ClockInv'
  BY DEF ClockInv
<1>4. EmulatorTypeOK'
  BY <1>1, <1>2 DEF EmulatorTypeOK
<1>5. KeptInv'
  BY <1>1, <1>2 DEF KeptInv
<1> QED
  BY <1>3, <1>4, <1>5

LEMMA TickResetsStep == EmulatorInv /\ TickResets => EmulatorInv'
<1> SUFFICES ASSUME EmulatorInv, TickResets PROVE EmulatorInv'
  OBVIOUS
<1>1. tick.snap \in Snapshot
  BY DEF EmulatorInv, EmulatorTypeOK, TickResets
<1>2. left' \in BOOLEAN
  BY DEF TickResets
<1> QED
  BY <1>1, <1>2, KeepStep DEF TickResets, historyVars

LEMMA TickStoresStep == EmulatorInv /\ TickStores => EmulatorInv'
<1> SUFFICES ASSUME EmulatorInv, TickStores PROVE EmulatorInv'
  OBVIOUS
<1>1. tick.snap \in Snapshot /\ tick.levels \in Levels /\ left \in BOOLEAN
  BY DEF EmulatorInv, EmulatorTypeOK, TickStores
<1> QED
  BY <1>1, KeepStep DEF TickStores, historyVars, testerVars

\* What the tester took is what the tick goes on to store.
LEMMA TickPostsStep == EmulatorInv /\ TickPosts => EmulatorInv'
<1> SUFFICES ASSUME EmulatorInv, TickPosts PROVE EmulatorInv'
  OBVIOUS
<1> USE DEF EmulatorInv, TickPosts, historyVars
<1>1. tick \in Tick /\ tick.snap \in Snapshot /\ tick.levels \in Levels
  BY DEF EmulatorTypeOK
<1>2. CASE taken' = tick.levels /\ tick' = [tick EXCEPT !.at = "storing"]
  <2>1. /\ tick' \in Tick /\ tick'.at = "storing"
        /\ tick'.snap = tick.snap /\ tick'.levels = tick.levels
    BY <1>1, <1>2 DEF Tick, Stage
  <2> QED
    BY <1>1, <1>2, <2>1 DEF ClockInv, EmulatorTypeOK, KeptInv
<1>3. CASE taken' \in {taken, tick.levels} /\ Raise
  <2>1. tick' \in Tick /\ tick'.at = "resting"
    BY <1>3, RestingIsTick DEF Raise, Resting
  <2> QED
    BY <1>1, <1>3, <2>1, QuietStep DEF EmulatorTypeOK
<1> QED
  BY <1>2, <1>3

\* A handler changes the controls and the file together, or neither.
LEMMA PutStep ==
  ASSUME NEW body \in ControlBody \union ValveBody, EmulatorInv, Put(body)
  PROVE  EmulatorInv'
<1> USE DEF EmulatorInv, Put, historyVars, testerVars
<1>1. control' \in Controls
  BY BodyAssumption DEF EmulatorTypeOK
<1>2. file' = [control |-> control', level |-> level]
  BY DEF KeptInv
<1>3. ClockInv'
  BY DEF ClockInv
<1>4. EmulatorTypeOK'
  BY <1>1, <1>2 DEF EmulatorTypeOK
<1>5. KeptInv'
  BY <1>2 DEF KeptInv
<1> QED
  BY <1>3, <1>4, <1>5

LEMMA RestartStep == EmulatorInv /\ Restart => EmulatorInv'
<1> SUFFICES ASSUME EmulatorInv, Restart PROVE EmulatorInv'
  OBVIOUS
<1> USE DEF EmulatorInv, Restart
<1>1. now' \in Time /\ lastTick' = now'
  BY PeriodAssumption DEF Load, ClockInv, Time
<1>2. left' \in BOOLEAN
  OBVIOUS
<1>3. control' = control /\ level' = level
  BY DEF KeptInv
<1>4. ClockInv'
  BY <1>1 DEF ClockInv, Time
<1>5. EmulatorTypeOK'
  BY <1>1, <1>2, <1>3, RestingIsTick DEF EmulatorTypeOK, Resting
<1>6. KeptInv'
  BY <1>3 DEF KeptInv, Resting
<1> QED
  BY <1>4, <1>5, <1>6

LEMMA TimePassesStep == EmulatorInv /\ TimePasses => EmulatorInv'
<1> SUFFICES ASSUME EmulatorInv, TimePasses PROVE EmulatorInv'
  OBVIOUS
<1> USE DEF EmulatorInv, TimePasses, Elapse, emulatorVars, testerVars
<1>1. ClockInv'
  BY PeriodAssumption DEF ClockInv, EmulatorTypeOK, Time
<1>2. EmulatorTypeOK' /\ KeptInv'
  BY DEF EmulatorTypeOK, KeptInv
<1> QED
  BY <1>1, <1>2

LEMMA ModeSwitchedStep == EmulatorInv /\ ModeSwitched => EmulatorInv'
<1> SUFFICES ASSUME EmulatorInv, ModeSwitched PROVE EmulatorInv'
  OBVIOUS
<1> USE DEF EmulatorInv, ModeSwitched, historyVars, emulatorVars
<1>1. left' \in BOOLEAN
  OBVIOUS
<1>2. mode' \in {"disabled", "enabled"}
  OBVIOUS
<1>3. EmulatorTypeOK'
  BY <1>1, <1>2 DEF EmulatorTypeOK
<1> QED
  BY <1>3 DEF ClockInv, KeptInv

LEMMA OtherSteps ==
  ASSUME EmulatorInv, TickRecords \/ TickFails \/ ThreadDies \/ Crash \/ UNCHANGED vars
  PROVE  EmulatorInv'
<1> USE DEF historyVars, testerVars, emulatorVars
<1> DEFINE Dead == [Resting EXCEPT !.at = "dead"]
<1>1. /\ Resting \in Tick /\ Resting.at = "resting"
      /\ Dead \in Tick /\ Dead.at = "dead"
  <2>1. Resting \in Tick
    BY RestingIsTick
  <2>2. Dead \in Tick /\ Dead.at = "dead"
    BY <2>1 DEF Tick, Stage
  <2> QED
    BY <2>1, <2>2 DEF Resting
<1>2. CASE TickRecords \/ TickFails \/ ThreadDies
  <2>1. tick' \in Tick /\ tick'.at \in {"resting", "dead"}
    <3>1. tick' = Resting \/ tick' = Dead
      BY <1>2 DEF TickRecords, TickFails, ThreadDies, Raise
    <3> HIDE DEF Dead
    <3> QED  BY <1>1, <3>1
  <2>2. UNCHANGED <<now, lastTick, control, level, file, mode, taken, left>>
    BY <1>2 DEF TickRecords, Record, TickFails, ThreadDies
  <2> QED
    BY <2>1, <2>2, QuietStep DEF EmulatorInv, EmulatorTypeOK
<1>3. CASE Crash \/ UNCHANGED vars
  <2>1. UNCHANGED <<now, control, level, lastTick, file, tick, mode, taken, left>>
    BY <1>3 DEF Crash, DieRecording, vars
  <2> QED
    BY <2>1 DEF EmulatorInv, ClockInv, EmulatorTypeOK, KeptInv
<1> QED
  BY <1>2, <1>3

LEMMA NextInv == EmulatorInv /\ [Next]_vars => EmulatorInv'
<1> SUFFICES ASSUME EmulatorInv, [Next]_vars PROVE EmulatorInv'
  OBVIOUS
<1>1. CASE TickBegins  BY <1>1, TickBeginsStep
<1>2. CASE TickTakesControls  BY <1>2, TickTakesControlsStep
<1>3. CASE TickResets  BY <1>3, TickResetsStep
<1>4. CASE TickPosts  BY <1>4, TickPostsStep
<1>5. CASE TickStores  BY <1>5, TickStoresStep
<1>6. CASE \E snap \in Snapshot : TickReads(snap)  BY <1>6, TickReadsStep
<1>7. CASE SetControl \/ SetValves  BY <1>7, PutStep DEF SetControl, SetValves
<1>8. CASE ModeSwitched  BY <1>8, ModeSwitchedStep
<1>9. CASE Restart  BY <1>9, RestartStep
<1>10. CASE TimePasses  BY <1>10, TimePassesStep
<1>11. CASE TickRecords \/ TickFails \/ ThreadDies \/ Crash \/ UNCHANGED vars
  BY <1>11, OtherSteps
<1> QED
  BY <1>1, <1>2, <1>3, <1>4, <1>5, <1>6, <1>7, <1>8, <1>9, <1>10, <1>11 DEF Next

LEMMA InvAlways == Spec => []EmulatorInv
  BY InitInv, NextInv, PTL DEF Spec

----
\* Every variable of the emulator keeps its type; in it, the levels that a tick posts are
\* levels, whatever the flow, the time and the limits (_tick).
THEOREM EmulatorTypeCorrect == Spec => []EmulatorTypeOK
<1>1. EmulatorInv => EmulatorTypeOK
  BY DEF EmulatorInv
<1> QED
  BY <1>1, InvAlways, PTL

\* The controls and the levels in memory are always the ones a restart would find
\* (_state_change, _save_state_file, _load_state_file).
THEOREM MemoryIsSaved == Spec => []SavedIsRemembered
<1>1. EmulatorInv => SavedIsRemembered
  BY DEF EmulatorInv, KeptInv, SavedIsRemembered
<1> QED
  BY <1>1, InvAlways, PTL

\* The levels kept are always the ones the tester last took (_tick).
THEOREM NeverAheadOfTheTester == Spec => KeepsOnlyWhatWasTaken
<1> DEFINE A == level' # level /\ level' # Unset => level' = taken
<1>1. EmulatorInv /\ [Next]_vars => [A]_vars
  <2> SUFFICES ASSUME EmulatorInv, Next PROVE A
    OBVIOUS
  <2>1. CASE TickStores
    BY <2>1 DEF TickStores, Keep, EmulatorInv, KeptInv
  <2>2. CASE TickResets
    BY <2>2 DEF TickResets, Keep
  <2>3. CASE Restart
    BY <2>3 DEF Restart, EmulatorInv, KeptInv
  <2>4. CASE level' = level
    BY <2>4
  <2>5. Next => TickStores \/ TickResets \/ Restart \/ level' = level
    BY DEF Next, TickBegins, TickReads, TickTakesControls, TickPosts, TickRecords, TickFails,
           ThreadDies, SetControl, SetValves, Put, ModeSwitched, Crash, TimePasses,
           emulatorVars
  <2> QED
    BY <2>1, <2>2, <2>3, <2>4, <2>5
<1>2. KeepsOnlyWhatWasTaken <=> [][A]_vars
  BY PTL DEF KeepsOnlyWhatWasTaken
<1> QED
  BY <1>1, <1>2, InvAlways, PTL DEF Spec

\* Only operators change the controls: no tick and no restart does (_tick, set_control,
\* set_valves, _load_state_file).
THEOREM OnlyOperatorsChangeControls == Spec => ControlsAreTheOperators
<1> DEFINE A == control' # control => SetControl \/ SetValves
<1>1. EmulatorInv /\ [Next]_vars => [A]_vars
  <2> SUFFICES ASSUME EmulatorInv, Next PROVE A
    OBVIOUS
  <2>1. CASE Restart
    BY <2>1 DEF Restart, EmulatorInv, KeptInv
  <2>2. Next => SetControl \/ SetValves \/ Restart \/ control' = control
    BY DEF Next, TickBegins, TickReads, TickTakesControls, TickResets, TickPosts, TickStores,
           TickRecords, TickFails, ThreadDies, ModeSwitched, Crash, TimePasses, emulatorVars
  <2> QED
    BY <2>1, <2>2
<1>2. ControlsAreTheOperators <=> [][A]_vars
  BY PTL DEF ControlsAreTheOperators
<1> QED
  BY <1>1, <1>2, InvAlways, PTL DEF Spec

(***************************************************************************)
(* The emulator uses its history as LevelHistory says: it records times    *)
(* that do not go back, soon after the tick that they are the time of.     *)
(***************************************************************************)
TimingInv ==
  /\ lastSample \in Time \union {Never} /\ lastSample <= now
  /\ compactedAt \in Time /\ compactedAt <= now
  /\ running /\ tick.at \notin {"resting", "dead"} => tick.began \in TickTimes

LEMMA ClockIsNatural == ASSUME EmulatorInv PROVE now \in Time /\ now \in Nat
  BY TimeIsNatural DEF EmulatorInv, ClockInv

LEMMA TimingStart == ASSUME Init PROVE TimingInv
  BY PeriodAssumption DEF Init, HistoryInit, TimingInv, Resting, Time, Never

LEMMA TimingStep ==
  ASSUME EmulatorInv, TimingInv, [Next]_vars
  PROVE  /\ TimingInv'
         /\ [HistoryNext]_historyVars
<1>1. /\ now \in Time /\ now \in Nat /\ lastSample \in Int /\ compactedAt \in Nat
      /\ Latency \in Nat /\ tick \in Tick
  BY ClockIsNatural, TimeIsNatural, PeriodAssumption
     DEF TimingInv, EmulatorInv, EmulatorTypeOK, Never
<1>2. CASE TickBegins
  <2>1. UNCHANGED historyVars /\ running /\ tick'.began = now /\ tick'.at = "asking"
    BY <1>2 DEF TickBegins, Resting
  <2>2. now \in TickTimes
    BY <1>1 DEF TickTimes, TimingInv
  <2> QED
    BY <2>1, <2>2 DEF TimingInv, TickTimes, historyVars, storeVars
<1>3. CASE /\ UNCHANGED historyVars
           /\ \/ tick'.began = tick.began /\ tick.at \notin {"resting", "dead"}
              \/ tick'.at \in {"resting", "dead"}
  <2>1. UNCHANGED <<now, running, lastSample, compactedAt>>
    BY <1>3 DEF historyVars, storeVars
  <2> QED
    BY <1>3, <2>1 DEF TimingInv, TickTimes
<1>4. CASE \/ TickTakesControls \/ TickResets \/ TickPosts \/ TickStores \/ TickFails
           \/ ThreadDies \/ \E snap \in Snapshot : TickReads(snap)
  <2>1. UNCHANGED historyVars
    BY <1>4 DEF TickTakesControls, TickResets, TickPosts, TickStores, TickFails, ThreadDies,
         TickReads
  <2>2. tick.at \notin {"resting", "dead"}
    BY <1>4 DEF TickTakesControls, TickResets, TickPosts, TickStores, TickFails, ThreadDies,
         TickReads
  <2>3. tick'.began = tick.began \/ tick'.at \in {"resting", "dead"}
    <3>2. CASE TickTakesControls
      <4> DEFINE new == Integrated(tick.snap, tick.began, tick.elapsed)
      <4>1. \/ tick' = Resting
            \/ tick' = [tick EXCEPT !.at = "posting", !.resumed = level # Unset,
                                   !.levels = new]
            \/ tick' = [tick EXCEPT !.at = "resetting"]
        BY <3>2 DEF TickTakesControls, Raise
      <4> HIDE DEF new
      <4>2. CASE tick' = Resting
        BY <4>2 DEF Resting
      <4>3. CASE tick' = [tick EXCEPT !.at = "posting", !.resumed = level # Unset,
                                      !.levels = new]
        <5>1. tick'.began = tick.began
          BY <1>1, <4>3 DEF Tick
        <5> QED
          BY <5>1
      <4>4. CASE tick' = [tick EXCEPT !.at = "resetting"]
        BY <1>1, <4>4 DEF Tick
      <4> QED
        BY <4>1, <4>2, <4>3, <4>4
    <3>3. CASE TickResets \/ TickStores
      BY <1>1, <3>3 DEF TickResets, TickStores, Keep, Raise, Resting, Tick
    <3>4. CASE TickPosts
      BY <1>1, <3>4 DEF TickPosts, Raise, Resting, Tick
    <3>5. CASE TickFails \/ ThreadDies
      BY <3>5 DEF TickFails, ThreadDies, Raise, Resting
    <3>6. CASE \E snap \in Snapshot : TickReads(snap)
      <4>1. PICK snap \in Snapshot : TickReads(snap)
        BY <3>6
      <4>2. \/ tick' = [tick EXCEPT !.at = "confirmed", !.snap = snap, !.left = left]
            \/ tick' = Resting
        BY <4>1 DEF TickReads, Raise
      <4>3. CASE tick' = [tick EXCEPT !.at = "confirmed", !.snap = snap, !.left = left]
        <5>1. tick'.began = tick.began
          BY <1>1, <4>3 DEF Tick
        <5> QED
          BY <5>1
      <4>4. CASE tick' = Resting
        BY <4>4 DEF Resting
      <4> QED
        BY <4>2, <4>3, <4>4
    <3> QED
      BY <1>4, <3>2, <3>3, <3>4, <3>5, <3>6
  <2> QED
    BY <1>3, <2>1, <2>2, <2>3
<1>5. CASE SetControl \/ SetValves \/ ModeSwitched \/ UNCHANGED vars
  <2>1. UNCHANGED <<historyVars, tick>>
    BY <1>5 DEF SetControl, SetValves, Put, ModeSwitched, emulatorVars, vars
  <2> QED
    BY <2>1 DEF TimingInv, TickTimes, historyVars, storeVars
<1>6. CASE TickRecords
  <2>1. /\ Record(tick.began, tick.snap.feedback) /\ running
        /\ tick.at = "recording" /\ tick'.at = "resting"
    BY <1>6 DEF TickRecords, Record, Raise, Resting
  <2>2. tick.began \in TickTimes /\ tick.snap.feedback \in Sample
    BY <2>1, TankAssumption DEF TimingInv, EmulatorInv, EmulatorTypeOK, Snapshot
  <2>3. HistoryNext
    BY <2>1, <2>2 DEF HistoryNext
  <2>4. /\ now' = now /\ lastSample' \in {lastSample, now} /\ compactedAt' \in {compactedAt, now}
    BY <2>1 DEF Record, Store, AppendFails, Compact, storeVars
  <2> QED
    BY <1>1, <2>1, <2>3, <2>4 DEF TimingInv
<1>7. CASE Next /\ Crash /\ "crash" \in Fault
  <2>1. /\ DieRecording(tick.began, tick.snap.feedback) /\ running
        /\ tick.at = "recording" /\ running' = FALSE
        /\ UNCHANGED <<now, lastSample, compactedAt>>
    BY <1>7 DEF Crash, DieRecording, storeVars
  <2>2. tick.began \in TickTimes /\ tick.snap.feedback \in Sample
    BY <2>1, TankAssumption DEF TimingInv, EmulatorInv, EmulatorTypeOK, Snapshot
  <2>3. HistoryNext
    BY <1>7, <2>1, <2>2 DEF HistoryNext
  <2> QED
    BY <2>1, <2>3 DEF TimingInv
<1>8. CASE Restart /\ "crash" \in Fault
  <2>1. Load /\ tick'.at = "resting"
    BY <1>8 DEF Restart, Resting
  <2>2. /\ lastSample' = Never /\ compactedAt' = now' /\ now' \in Time /\ now' \in Nat
    BY <1>1, <2>1, PeriodAssumption DEF Load, Time
  <2> QED
    BY <1>8, <2>1, <2>2 DEF TimingInv, HistoryNext, Never
<1>9. CASE TimePasses
  <2>1. /\ Elapse /\ now' = now + 1 /\ now' \in Time
        /\ UNCHANGED <<lastSample, compactedAt, running, tick>>
        /\ running /\ tick.at \notin {"resting", "dead"} => now - tick.began < Latency
    BY <1>1, <1>9, PeriodAssumption DEF TimePasses, Elapse, storeVars, emulatorVars, Time
  <2>2. ASSUME running, tick.at \notin {"resting", "dead"} PROVE tick'.began \in TickTimes'
    <3>1. tick.began \in TickTimes /\ tick.began \in Nat
      BY <2>2, TimeIsNatural DEF TimingInv, TickTimes
    <3> QED
      BY <1>1, <2>1, <2>2, <3>1 DEF TickTimes
  <2>3. HistoryNext
    BY <2>1 DEF HistoryNext
  <2>4. lastSample <= now' /\ compactedAt <= now'
    BY <1>1, <2>1 DEF TimingInv
  <2> QED
    BY <2>1, <2>2, <2>3, <2>4 DEF TimingInv
<1> QED
  BY <1>2, <1>4, <1>5, <1>6, <1>7, <1>8, <1>9 DEF Next

\* Every behaviour of the emulator is, for its history, one of LevelHistory: what is proved
\* of the history by itself holds of it in the emulator (_tick, record).
THEOREM EmulatorUsesTheHistory == Spec => HistorySpec
<1>1. Init => TimingInv /\ HistoryInit
  BY TimingStart DEF Init
<1>2. EmulatorInv /\ TimingInv /\ [Next]_vars => TimingInv' /\ [HistoryNext]_historyVars
  BY TimingStep
<1> QED
  BY <1>1, <1>2, InvAlways, PTL DEF Spec, HistorySpec

\* The history of the emulator is in its file, and a restart of the emulator keeps it.
THEOREM EmulatorKeepsItsHistory == Spec => []PointsAreOnFile /\ RestartKeepsPoints
  BY EmulatorUsesTheHistory, PointsStayOnFile, RestartsKeepPoints, PTL

(***************************************************************************)
(* How far a level moves in one tick.                                      *)
(***************************************************************************)
LEMMA ProductGrows ==
  ASSUME NEW a \in Nat, NEW b \in Nat, NEW c \in Nat, a <= b
  PROVE  a * c <= b * c /\ a * c \in Nat
<1>1. PICK d \in Nat : b = a + d
  <2>1. b - a \in Nat /\ b = a + (b - a)
    OBVIOUS
  <2> QED
    BY <2>1
<1>2. d * c \in Nat /\ a * c \in Nat
  OBVIOUS
<1>3. (a + d) * c = a * c + d * c
  OBVIOUS
<1> DEFINE ac == a * c
           dc == d * c
<1>4. b * c = ac + dc /\ ac \in Nat /\ dc \in Nat
  BY <1>1, <1>2, <1>3
<1> HIDE DEF ac, dc
<1>5. ac <= b * c
  BY <1>4
<1> QED
  BY <1>2, <1>5 DEF ac

\* The greatest of three numbers.
LEMMA MaxOfThree ==
  ASSUME NEW a \in Int, NEW b \in Int, NEW c \in Int
  PROVE  /\ Max({a, b, c}) \in Int
         /\ a <= Max({a, b, c}) /\ b <= Max({a, b, c}) /\ c <= Max({a, b, c})
<1>1. \E x \in {a, b, c} : \A y \in {a, b, c} : x >= y
  <2>1. CASE a >= b /\ a >= c
    BY <2>1
  <2>2. CASE b >= a /\ b >= c
    BY <2>2
  <2>3. CASE c >= a /\ c >= b
    BY <2>3
  <2> QED
    BY <2>1, <2>2, <2>3
<1>2. /\ Max({a, b, c}) \in {a, b, c}
      /\ \A y \in {a, b, c} : Max({a, b, c}) >= y
  BY <1>1 DEF Max
<1> QED
  BY <1>2

LEMMA MostPumps ==
  Max(PumpCount) \in Nat /\ \A pumps \in PumpCount : pumps \in Nat /\ pumps <= Max(PumpCount)
<1>1. PumpCount \subseteq Nat /\ \E most \in PumpCount : PumpCount \subseteq 0..most
  BY RateAssumption
<1>2. \E most \in PumpCount : \A pumps \in PumpCount : most >= pumps
  BY <1>1
<1>3. Max(PumpCount) \in PumpCount /\ \A pumps \in PumpCount : Max(PumpCount) >= pumps
  BY <1>2 DEF Max
<1> QED
  BY <1>1, <1>3

\* The greatest flow, per 100% of opening.
GreatestRate == Max({InletRate, ConsumptionRate, PumpRate * Max(PumpCount)})

LEMMA RatesAreBounded ==
  /\ GreatestRate \in Nat /\ InletRate <= GreatestRate /\ ConsumptionRate <= GreatestRate
  /\ \A pumps \in PumpCount :
       pumps * PumpRate \in Nat /\ pumps * PumpRate <= GreatestRate
<1> DEFINE greatest == PumpRate * Max(PumpCount)
<1>1. InletRate \in Nat /\ ConsumptionRate \in Nat /\ PumpRate \in Nat
  BY RateAssumption
<1>2. greatest \in Nat
  BY <1>1, MostPumps
<1>3. /\ Max({InletRate, ConsumptionRate, greatest}) \in Int
      /\ InletRate <= Max({InletRate, ConsumptionRate, greatest})
      /\ ConsumptionRate <= Max({InletRate, ConsumptionRate, greatest})
      /\ greatest <= Max({InletRate, ConsumptionRate, greatest})
  <2> HIDE DEF greatest
  <2>1. InletRate \in Int /\ ConsumptionRate \in Int /\ greatest \in Int
    BY <1>1, <1>2
  <2> QED
    BY <2>1, MaxOfThree, Zenon
<1>4. ASSUME NEW pumps \in PumpCount
      PROVE  pumps * PumpRate \in Nat /\ pumps * PumpRate <= greatest
  <2>1. pumps * PumpRate <= Max(PumpCount) * PumpRate /\ pumps * PumpRate \in Nat
    BY <1>1, MostPumps, ProductGrows
  <2>2. Max(PumpCount) * PumpRate = PumpRate * Max(PumpCount)
    BY <1>1, MostPumps
  <2> QED
    BY <2>1, <2>2
<1>5. GreatestRate = Max({InletRate, ConsumptionRate, greatest})
  BY DEF GreatestRate
<1>6. ASSUME NEW pumps \in PumpCount
      PROVE  pumps * PumpRate \in Nat /\ pumps * PumpRate <= GreatestRate
  <2> DEFINE x == pumps * PumpRate
  <2>1. x \in Nat /\ x <= greatest
    BY <1>4
  <2> HIDE DEF x, greatest
  <2>2. x \in Nat /\ x <= GreatestRate
    BY <1>2, <1>3, <1>5, <2>1
  <2> QED
    BY <2>2 DEF x
<1>7. \A pumps \in PumpCount :
        pumps * PumpRate \in Nat /\ pumps * PumpRate <= GreatestRate
  BY <1>6
<1> HIDE DEF greatest
<1>8. GreatestRate \in Nat /\ InletRate <= GreatestRate /\ ConsumptionRate <= GreatestRate
  BY <1>1, <1>3, <1>5
<1> QED
  BY <1>7, <1>8

\* No flow is greater than the greatest rate at an opening of 100%.
LEMMA FlowIsBounded ==
  ASSUME control \in Controls, NEW t \in Time, NEW tank \in Tank, NEW pumps \in PumpCount
  PROVE  LET flow == Flow(tank, OpeningsAt(t), pumps)
         IN  flow \in Int /\ -(100 * GreatestRate) <= flow /\ flow <= 100 * GreatestRate
<1> DEFINE open == OpeningsAt(t)
           ins == open.inlet * InletRate
           outs == open.outlet * ConsumptionRate
           moved == pumps * PumpRate
<1>1. open.inlet \in 0..100 /\ open.outlet \in 0..100
  <2>1. /\ control.season \in DOMAIN SeasonalInlet
        /\ control.inlet \in Opening /\ control.outlet \in Opening
    BY DEF Controls
  <2>2. SeasonalInlet[control.season] \in Opening /\ DailyConsumption[t] \in Opening
    BY <2>1, RateAssumption
  <2> QED
    BY <2>1, <2>2 DEF OpeningsAt, Opening
<1>2. InletRate \in Nat /\ ConsumptionRate \in Nat /\ PumpRate \in Nat /\ pumps \in Nat
  BY RateAssumption, MostPumps
<1>3. ins \in Nat /\ ins <= 100 * InletRate
  <2> HIDE DEF open
  <2>1. open.inlet \in Nat /\ open.inlet <= 100 /\ 100 \in Nat
    BY <1>1
  <2> QED
    BY <1>2, <2>1, ProductGrows
<1>4. outs \in Nat /\ outs <= 100 * ConsumptionRate
  <2> HIDE DEF open
  <2>1. open.outlet \in Nat /\ open.outlet <= 100 /\ 100 \in Nat
    BY <1>1
  <2> QED
    BY <1>2, <2>1, ProductGrows
<1>5. moved \in Nat /\ moved <= GreatestRate
  BY RatesAreBounded
<1>6. Flow(tank, open, pumps) = IF tank = "chamber" THEN ins - 100 * moved ELSE 100 * moved - outs
  <2>1. 100 * pumps * PumpRate = 100 * moved
    BY <1>2
  <2> HIDE DEF open
  <2> QED
    BY <2>1 DEF Flow
<1> HIDE DEF ins, outs, moved, open
<1>7. LET flow == IF tank = "chamber" THEN ins - 100 * moved ELSE 100 * moved - outs
      IN  flow \in Int /\ -(100 * GreatestRate) <= flow /\ flow <= 100 * GreatestRate
  BY <1>2, <1>3, <1>4, <1>5, RatesAreBounded
<1> QED
  BY <1>6, <1>7 DEF open

\* A number moved by at most d and clamped to limits that it was in has moved by d at most.
LEMMA ClampMovesLess ==
  ASSUME NEW x \in Int, NEW d \in Nat, NEW y \in (x - d)..(x + d),
         NEW a \in Int, NEW b \in Int, a <= b, x \in a..b
  PROVE  Clamp(y, a, b) \in (x - d)..(x + d)
<1>1. Min({a, b}) = a /\ Max({a, b}) = b
  BY MinOfTwo, MaxOfTwo
<1>2. Min({b, y}) = IF b <= y THEN b ELSE y
  BY MinOfTwo
<1>3. Min({b, y}) \in Int /\ Min({b, y}) \in (x - d)..(x + d)
  BY <1>2
<1>4. Max({a, Min({b, y})}) = IF a >= Min({b, y}) THEN a ELSE Min({b, y})
  BY <1>3, MaxOfTwo
<1>5. Max({a, Min({b, y})}) \in (x - d)..(x + d)
  <2> DEFINE lesser == Min({b, y})
  <2>1. lesser \in Int /\ lesser \in (x - d)..(x + d)
    BY <1>3
  <2>2. Max({a, lesser}) = IF a >= lesser THEN a ELSE lesser
    BY <1>4
  <2> HIDE DEF lesser
  <2>3. a >= lesser => a \in (x - d)..(x + d)
    BY <2>1
  <2> QED
    BY <2>1, <2>2, <2>3 DEF lesser
<1> QED
  BY <1>1, <1>5 DEF Clamp

\* What a tick computes is near to the levels it started from, where these were within the
\* limits.
LEMMA IntegratedIsNear ==
  ASSUME control \in Controls, level \in Levels, level # Unset,
         NEW snap \in Snapshot, NEW tank \in Tank,
         level[tank] \in snap.limits[tank].floor..snap.limits[tank].ceiling,
         NEW began \in Time, NEW elapsed \in 0..MaxStep
  PROVE  Integrated(snap, began, elapsed)[tank] - level[tank] \in -LongestMove..LongestMove
<1> DEFINE lo == snap.limits[tank].floor
           hi == snap.limits[tank].ceiling
           start == level[tank]
           flow == Flow(tank, OpeningsAt(began), snap.pumps)
           moved == flow * elapsed
           reach == GreatestRate * MaxStep
           new == Round(Clamp(100 * start + moved, 100 * lo, 100 * hi), 100)
<1>1. snap.pumps \in PumpCount /\ snap.limits \in [Tank -> Limits]
  BY DEF Snapshot
<1>2. lo \in Int /\ hi \in Int /\ start \in Int /\ lo <= start /\ start <= hi /\ lo <= hi
  <2>1. lo \in Level /\ hi \in Level /\ start \in Level
    BY <1>1, LimitsAssumption DEF Levels
  <2>2. lo \in Int /\ hi \in Int /\ start \in Int
    BY <2>1 DEF Level
  <2> QED
    BY <2>2
<1>3. Integrated(snap, began, elapsed)[tank] = new
  BY DEF Integrated, StartingLevels
<1>4. flow \in Int /\ -(100 * GreatestRate) <= flow /\ flow <= 100 * GreatestRate
  BY <1>1, FlowIsBounded
<1>5. elapsed \in Nat /\ elapsed <= MaxStep /\ MaxStep \in Nat /\ GreatestRate \in Nat
  BY RateAssumption, RatesAreBounded
<1> HIDE DEF flow
<1>6. moved \in Int /\ -(100 * reach) <= moved /\ moved <= 100 * reach /\ reach \in Nat
  <2> DEFINE size == IF flow >= 0 THEN flow ELSE -flow
             rate == 100 * GreatestRate
  <2>1. size \in Nat /\ size <= rate /\ rate \in Nat
    BY <1>4, <1>5
  <2>2. size * elapsed <= rate * elapsed /\ size * elapsed \in Nat
    <3> HIDE DEF size, rate
    <3> QED
      BY <1>5, <2>1, ProductGrows
  <2>3. elapsed * rate <= MaxStep * rate
    <3> HIDE DEF size, rate
    <3> QED
      BY <1>5, <2>1, ProductGrows
  <2>4. rate * elapsed = elapsed * rate /\ MaxStep * rate = 100 * reach /\ reach \in Nat
    BY <1>5
  <2>5. /\ flow >= 0 => moved = size * elapsed
        /\ flow < 0 => moved = -(size * elapsed)
        /\ moved \in Int
    BY <1>4, <1>5
  <2> DEFINE travel == size * elapsed
             most == rate * elapsed
  <2>6. travel \in Nat /\ most \in Int /\ travel <= most /\ most <= 100 * reach
    <3>1. most \in Int
      BY <1>5
    <3>2. most <= 100 * reach
      BY <2>3, <2>4
    <3> QED
      BY <2>2, <3>1, <3>2
  <2>7. moved \in {travel, -travel} /\ moved \in Int
    BY <1>4, <2>5
  <2>8. reach \in Nat
    BY <2>4
  <2> HIDE DEF travel, moved, reach, most
  <2> QED
    BY <2>6, <2>7, <2>8
<1> HIDE DEF moved, reach, start, lo, hi
<1>7. Clamp(100 * start + moved, 100 * lo, 100 * hi) \in (100 * start - 100 * reach)..(100 * start + 100 * reach)
  <2>1. /\ 100 * start \in Int /\ 100 * reach \in Nat /\ 100 * lo \in Int /\ 100 * hi \in Int
        /\ 100 * start \in (100 * lo)..(100 * hi) /\ 100 * lo <= 100 * hi
        /\ 100 * start + moved \in (100 * start - 100 * reach)..(100 * start + 100 * reach)
    BY <1>2, <1>6
  <2> QED
    BY <2>1, ClampMovesLess
<1>8. new \in (start - reach)..(start + reach)
  <2>1. /\ start - reach \in Int /\ start + reach \in Int
        /\ 100 * (start - reach) = 100 * start - 100 * reach
        /\ 100 * (start + reach) = 100 * start + 100 * reach
    BY <1>2, <1>6
  <2>2. Clamp(100 * start + moved, 100 * lo, 100 * hi) \in (100 * (start - reach))..(100 * (start + reach))
    BY <1>7, <2>1
  <2> QED
    BY <2>1, <2>2, RoundBetween
<1>9. LongestMove = reach
  BY DEF LongestMove, GreatestRate, reach
<1>10. new - start \in -reach..reach
  <2> HIDE DEF new
  <2> QED
    BY <1>2, <1>6, <1>8
<1> QED
  BY <1>3, <1>9, <1>10 DEF start

(***************************************************************************)
(* While a tick waits to keep its levels they stay near to the ones kept.  *)
(***************************************************************************)
NearInv ==
  tick.at \in {"posting", "storing"} /\ level # Unset =>
    \A tank \in Tank :
      level[tank] \in tick.snap.limits[tank].floor..tick.snap.limits[tank].ceiling =>
        tick.levels[tank] - level[tank] \in -LongestMove..LongestMove

LEMMA NearStep ==
  ASSUME EmulatorInv, NearInv, [Next]_vars
  PROVE  NearInv'
<1>1. tick \in Tick /\ control \in Controls
  BY DEF EmulatorInv, EmulatorTypeOK
<1> DEFINE Same == /\ tick'.snap = tick.snap /\ tick'.levels = tick.levels
                   /\ tick.at \in {"posting", "storing"} /\ level' = level
<1>2. CASE tick'.at \notin {"posting", "storing"}
  BY <1>2 DEF NearInv
<1>3. CASE Same
  BY <1>3 DEF NearInv, LongestMove, GreatestRate
<1>4. CASE tick' = tick /\ level' = level
  BY <1>4 DEF NearInv, LongestMove
<1>5. CASE TickTakesControls
  <2>1. level' = level
    BY <1>5 DEF TickTakesControls
  <2> DEFINE new == Integrated(tick.snap, tick.began, tick.elapsed)
  <2>2. /\ tick.at = "confirmed"
        /\ \/ tick' = Resting
           \/ tick' = [tick EXCEPT !.at = "posting", !.resumed = level # Unset,
                                   !.levels = new]
           \/ tick' = [tick EXCEPT !.at = "resetting"]
    BY <1>5 DEF TickTakesControls, Raise
  <2>3. CASE tick' = Resting
    BY <1>2, <2>3 DEF Resting
  <2>4. CASE tick' = [tick EXCEPT !.at = "resetting"]
    <3>1. tick'.at = "resetting"
      BY <1>1, <2>4 DEF Tick
    <3> QED
      BY <1>2, <3>1
  <2>5. CASE tick' = [tick EXCEPT !.at = "posting", !.resumed = level # Unset, !.levels = new]
    <3>1. ASSUME NEW tank \in Tank, level # Unset,
                 level[tank] \in tick.snap.limits[tank].floor..tick.snap.limits[tank].ceiling
          PROVE  new[tank] - level[tank] \in -LongestMove..LongestMove
      <4>1. level \in Levels /\ tick.snap \in Snapshot
        BY <2>2, <3>1 DEF EmulatorInv, EmulatorTypeOK
      <4>2. tick.began \in Time /\ tick.elapsed \in 0..MaxStep
        BY <1>1 DEF Tick
      <4> QED
        BY <1>1, <3>1, <4>1, <4>2, IntegratedIsNear
    <3> HIDE DEF new
    <3>2. tick'.snap = tick.snap
      BY <1>1, <2>5 DEF Tick
    <3>3. tick'.levels = new
      BY <1>1, <2>5 DEF Tick
    <3> QED
      BY <2>1, <3>1, <3>2, <3>3 DEF NearInv, LongestMove
  <2> QED
    BY <2>2, <2>3, <2>4, <2>5
<1>6. CASE TickPosts
  <2>1. level' = level /\ tick.at = "posting"
    BY <1>6 DEF TickPosts
  <2>2. CASE tick' = [tick EXCEPT !.at = "storing"]
    BY <1>1, <1>3, <2>1, <2>2 DEF Tick
  <2>3. CASE Raise
    BY <1>2, <2>3 DEF Raise, Resting
  <2> QED
    BY <1>6, <2>2, <2>3 DEF TickPosts
<1>7. CASE TickBegins
  BY <1>2, <1>7 DEF TickBegins, Resting
<1>8. CASE TickResets \/ TickStores
  BY <1>1, <1>2, <1>8 DEF TickResets, TickStores, Keep, Raise, Resting, Tick
<1>9. CASE TickRecords \/ TickFails \/ ThreadDies \/ Restart
  BY <1>2, <1>9 DEF TickRecords, TickFails, ThreadDies, Restart, Raise, Resting
<1>10. CASE \E snap \in Snapshot : TickReads(snap)
  <2>1. PICK snap \in Snapshot : TickReads(snap)
    BY <1>10
  <2>2. CASE tick' = [tick EXCEPT !.at = "confirmed", !.snap = snap, !.left = left]
    <3>1. tick'.at = "confirmed"
      BY <1>1, <2>2 DEF Tick
    <3> QED
      BY <1>2, <3>1
  <2>3. CASE Raise
    BY <1>2, <2>3 DEF Raise, Resting
  <2> QED
    BY <2>1, <2>2, <2>3 DEF TickReads
<1>11. CASE SetControl \/ SetValves \/ ModeSwitched \/ Crash \/ TimePasses \/ UNCHANGED vars
  BY <1>4, <1>11 DEF SetControl, SetValves, Put, ModeSwitched, Crash, TimePasses, emulatorVars,
       vars
<1> QED
  BY <1>5, <1>6, <1>7, <1>8, <1>9, <1>10, <1>11 DEF Next

\* A level moves by what the flow brings in the longest step at most (_tick).
THEOREM LevelsMoveByOneStep == Spec => LevelsMoveSteadily
<1> DEFINE Near == tick.at = "storing" /\ level # Unset /\ level' # level =>
              \A tank \in Tank :
                level[tank] \in tick.snap.limits[tank].floor..tick.snap.limits[tank].ceiling =>
                  level'[tank] - level[tank] \in -LongestMove..LongestMove
<1>1. ASSUME EmulatorInv, NearInv, [Next]_vars PROVE [Near]_vars
  <2> SUFFICES ASSUME Next, tick.at = "storing", level' # level PROVE Near
    BY <1>1
  <2>1. CASE TickStores
    <3>1. level' = tick.levels
      BY <2>1 DEF TickStores, Keep
    <3> QED
      BY <1>1, <3>1 DEF NearInv
  <2>2. CASE Restart
    BY <1>1, <2>2 DEF Restart, EmulatorInv, KeptInv
  <2>3. Next => TickStores \/ TickResets \/ Restart \/ level' = level
    BY DEF Next, TickBegins, TickReads, TickTakesControls, TickPosts, TickRecords, TickFails,
           ThreadDies, SetControl, SetValves, Put, ModeSwitched, Crash, TimePasses,
           emulatorVars
  <2> QED
    BY <2>1, <2>2, <2>3 DEF TickResets
<1>2. Init => NearInv
  BY DEF Init, Resting, NearInv
<1>3. EmulatorInv /\ NearInv /\ [Next]_vars => NearInv'
  BY NearStep
<1>4. LevelsMoveSteadily <=> [][Near]_vars
  BY PTL DEF LevelsMoveSteadily
<1> QED
  BY <1>1, <1>2, <1>3, <1>4, InvAlways, PTL DEF Spec

====
