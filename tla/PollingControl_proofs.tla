---- MODULE PollingControl_proofs ----
(***************************************************************************)
(* Proofs about PollingControl, for every value of its constants.          *)
(***************************************************************************)
EXTENDS PollingControl, FiniteSetTheorems, WellFoundedInduction, TLAPS

(***************************************************************************)
(* The staggered schedule.                                                 *)
(***************************************************************************)

\* A set of natural numbers that is not empty has a least one.
LEMMA LeastNatural ==
  ASSUME NEW S, S \subseteq Nat, S # {}
  PROVE  \E x \in S : \A y \in S : x <= y
<1>1. PICK x \in S : \A y \in S : <<y, x>> \notin OpToRel(<, Nat)
  BY NatLessThanWellFounded, WFMin
<1>2. \A y \in S : ~(y < x)
  BY <1>1 DEF OpToRel
<1> QED
  BY <1>2

\* One part of a number shared out, taken fewer times than there are parts, is no more
\* than the number.
LEMMA PartsAreLess ==
  ASSUME NEW r \in Nat, NEW n \in Nat \ {0}, NEW k \in Nat, k <= n
  PROVE  k * (r \div n) \in Nat /\ k * (r \div n) <= r
<1> DEFINE q == r \div n
<1>1. q \in Nat /\ n * q <= r
  OBVIOUS
<1> HIDE DEF q
<1>2. PICK d \in Nat : n = k + d
  <2>1. n - k \in Nat /\ n = k + (n - k)
    OBVIOUS
  <2> QED  BY <2>1
<1>3. n * q = k * q + d * q /\ k * q \in Nat /\ d * q \in Nat
  BY <1>1, <1>2
<1>4. k * q <= r
  <2> DEFINE a == k * q
             b == d * q
             c == n * q
  <2>1. c = a + b /\ a \in Nat /\ b \in Nat /\ c <= r
    BY <1>1, <1>3
  <2> HIDE DEF a, b, c
  <2>2. a <= r
    BY <2>1
  <2> QED  BY <2>2 DEF a
<1> QED
  BY <1>3, <1>4 DEF q

\* The first date of an enabled function is nearer than its rate (_reset_schedule).
LEMMA StaggeredWithinRate ==
  ASSUME NEW s \in Settings
  PROVE  /\ Staggered(s) \in [Function -> Nat]
         /\ \A f \in Function : s[f].enabled => Staggered(s)[f] <= s[f].rate
<1>1. SUFFICES ASSUME NEW f \in Function, s[f].enabled
      PROVE  /\ Cardinality({g \in Enabled(s) : g < f}) * Spacing(s) \in Nat
             /\ Cardinality({g \in Enabled(s) : g < f}) * Spacing(s) <= s[f].rate
  BY DEF Staggered
<1> DEFINE E == Enabled(s)
           R == {s[g].rate : g \in E}
           r == CHOOSE x \in R : \A g \in E : x <= s[g].rate
           B == {g \in E : g < f}
<1>2. IsFiniteSet(E) /\ f \in E
  <2>1. IsFiniteSet(Function)
    BY RateAssumption, FS_Interval DEF Function
  <2> QED  BY <1>1, <2>1, FS_Subset DEF Enabled
<1>3. Cardinality(E) \in Nat \ {0} /\ Cardinality(B) \in Nat /\ Cardinality(B) <= Cardinality(E)
  <2>1. B \in SUBSET E /\ E # {}
    BY <1>2
  <2> QED  BY <1>2, <2>1, FS_CardinalityType, FS_Subset, FS_EmptySet
<1>4. r \in Nat /\ r <= s[f].rate
  <2>0. \A g \in E : s[g].rate \in Nat
    BY RateAssumption DEF Settings, Setting, Enabled
  <2>1. R \subseteq Nat /\ R # {}
    BY <1>2, <2>0
  <2>2. \E x \in R : \A y \in R : x <= y
    BY <2>1, LeastNatural
  <2>3. \E x \in R : \A g \in E : x <= s[g].rate
    BY <2>2
  <2>4. r \in R /\ \A g \in E : r <= s[g].rate
    BY <2>3
  <2> QED  BY <1>2, <2>1, <2>4
<1>5. Spacing(s) = r \div Cardinality(E)
  BY DEF Spacing
<1>6. /\ Cardinality(B) * (r \div Cardinality(E)) \in Nat
      /\ Cardinality(B) * (r \div Cardinality(E)) <= r
  BY <1>3, <1>4, PartsAreLess
<1>7. s[f].rate \in Nat
  BY RateAssumption DEF Settings, Setting
<1> HIDE DEF r, B, E
<1>8. /\ Cardinality(B) * Spacing(s) \in Nat
      /\ Cardinality(B) * Spacing(s) <= s[f].rate
  BY <1>4, <1>5, <1>6, <1>7
<1> QED
  BY <1>8 DEF B, E

(***************************************************************************)
(* The inductive invariant.                                                *)
(***************************************************************************)

\* The handler that holds the store's lock is the one inside update.
OneUpdates == \A th \in Handler : handler[th] # Idle <=> updating = th

\* What that handler has in hand: one function changed, first in its copy, then on file.
UpdateInHand ==
  \A th \in Handler :
    /\ handler[th].at = "writing" =>
         /\ settings = file
         /\ \E request \in Change :
              handler[th].next =
                [file EXCEPT ![request.function] = Promise!Changed(@, request.change)]
    /\ handler[th].at = "assigning" => file = handler[th].next

CycleShape ==
  /\ poller.at \in {"top", "writes", "pause"} => poller.due = {} /\ poller.reading = 0
  /\ poller.at \in {"read", "failed", "given up"} => poller.reading # 0
  /\ poller.reading # 0 => poller.reading \in poller.due

\* The one late reading of a disabled function leaves nothing that could bring another.
LateReadingIsTheLast ==
  \A f \in Function : late[f] # 0 =>
    /\ late[f] = 1
    /\ ~settings[f].enabled
    /\ f \in poller.due => poller.reading = f
    /\ poller.at = "writes" => ~copy[f].enabled

CopyIsCurrent == ~revised => copy = settings

MarksInHand ==
  /\ poller.at = "read" /\ poller.reading \notin Written => shown[poller.reading] = "good"
  /\ poller.at \in {"failed", "given up"} => poller.reading \in lastError

StoreInv == PollingTypeOK /\ OneUpdates /\ UpdateInHand /\ SettingsAreOnFile
CycleInv == CycleShape /\ LateReadingIsTheLast
TimeInv  == CopyIsCurrent /\ DueWithinItsRate
MarkInv  == MarksInHand /\ ErrorsAgree
PollingInv == StoreInv /\ CycleInv /\ TimeInv /\ MarkInv

LEMMA InitInv == Init => PollingInv
<1> SUFFICES ASSUME Init PROVE PollingInv
  OBVIOUS
<1>1. file \in Settings
  BY SettingsAssumption DEF Init
<1>2. PollingTypeOK
  BY <1>1 DEF Init, PollingTypeOK, Idle, AtTop, BootQuality
<1>3. \A f \in Function : file[f].rate \in Nat
  BY <1>1, RateAssumption DEF Settings, Setting
<1>4. StoreInv
  BY <1>2, HandlerAssumption
  DEF Init, StoreInv, OneUpdates, UpdateInHand, SettingsAreOnFile, Idle
<1>5. CycleInv /\ MarkInv
  BY DEF Init, CycleInv, CycleShape, LateReadingIsTheLast, MarkInv, MarksInHand, ErrorsAgree, AtTop,
         BootQuality
<1>6. TimeInv
  BY <1>3 DEF Init, TimeInv, CopyIsCurrent, DueWithinItsRate
<1> QED
  BY <1>4, <1>5, <1>6 DEF PollingInv

\* A handler's copy is a settings of the functions.
LEMMA NextSettings ==
  ASSUME NEW s \in Settings, NEW request \in Change
  PROVE  [s EXCEPT ![request.function] = Promise!Changed(@, request.change)] \in Settings
<1>1. request.function \in Function /\ s[request.function] \in Setting
  BY SettingsAssumption DEF Settings
<1>2. Promise!Changed(s[request.function], request.change) \in Setting
  BY <1>1, SettingsAssumption
<1> QED
  BY <1>1, <1>2 DEF Settings

Inside == [at : {"writing", "assigning"}, next : Settings]

PollerState ==
  [at : {"top", "writes", "connected", "unreachable", "read", "failed", "given up", "pause"},
   due : SUBSET Function, reading : Function \union {0}]

LEMMA ZeroIsNoFunction == 0 \notin Function
  BY RateAssumption DEF Function

LEMMA InsideUpdate ==
  ASSUME PollingTypeOK, NEW th \in Handler, handler[th].at \in {"writing", "assigning"}
  PROVE  handler[th] \in Inside
<1>1. handler \in [Handler -> {Idle} \union Inside]
  BY DEF PollingTypeOK, Inside
<1> QED
  BY <1>1 DEF Idle

\* A write changes the quality of one signal of a table that is written, and nothing else.
LEMMA WriteShows ==
  ASSUME PollingTypeOK, NEW f \in Function, CommandShown(f) \/ WriteRecorded(f)
  PROVE  /\ UNCHANGED <<file, settings, revised, updating, handler, copy, dueIn, poller,
                        lastError, late>>
         /\ shown' \in [Function -> {"unknown", "local", "good", "error"}]
         /\ \A g \in Function \ Written : shown'[g] = shown[g]
<1>1. f \in Written /\ \E quality \in {"local", "good", "error"} :
                         shown' = [shown EXCEPT ![f] = quality]
  BY DEF CommandShown, WriteRecorded
<1>2. shown \in [Function -> {"unknown", "local", "good", "error"}]
  BY DEF PollingTypeOK
<1> QED
  BY <1>1, <1>2 DEF CommandShown, WriteRecorded

\* A reading makes its table good, and may enqueue commands for tables that are written.
LEMMA ReadShows ==
  ASSUME PollingTypeOK, ReadSucceeds
  PROVE  /\ shown' \in [Function -> {"unknown", "local", "good", "error"}]
         /\ poller.reading \in Function => shown'[poller.reading] = "good"
         /\ \A g \in Function \ Written : g # poller.reading => shown'[g] = shown[g]
<1>1. PICK synced \in SUBSET (Written \ {poller.reading}) :
        shown' = [f \in Function |-> IF f = poller.reading THEN "good"
                                     ELSE IF f \in synced THEN "local" ELSE shown[f]]
  BY DEF ReadSucceeds
<1>2. shown \in [Function -> {"unknown", "local", "good", "error"}]
  BY DEF PollingTypeOK
<1> QED
  BY <1>1, <1>2

LEMMA StepTypeOK == PollingTypeOK /\ [Next]_vars => PollingTypeOK'
<1>0. SUFFICES ASSUME PollingTypeOK, [Next]_vars PROVE PollingTypeOK'
  OBVIOUS
<1>1. ASSUME NEW th \in Handler, NEW request \in Change, UpdateEnters(th, request)
      PROVE  PollingTypeOK'
  <2>1. [settings EXCEPT ![request.function] = Promise!Changed(@, request.change)] \in Settings
    BY <1>0, NextSettings DEF PollingTypeOK
  <2> QED  BY <1>0, <1>1, <2>1 DEF UpdateEnters, PollingTypeOK
<1>2. ASSUME NEW th \in Handler, FileReplaced(th) PROVE PollingTypeOK'
  <2>1. handler[th] \in Inside
    BY <1>0, <1>2, InsideUpdate DEF FileReplaced
  <2>2. file' \in Settings /\ handler' \in [Handler -> {Idle} \union Inside]
    BY <1>0, <1>2, <2>1 DEF FileReplaced, Inside, PollingTypeOK
  <2> QED  BY <1>0, <1>2, <2>2 DEF FileReplaced, Inside, PollingTypeOK
<1>3. ASSUME NEW th \in Handler, WriteRaises(th) PROVE PollingTypeOK'
  BY <1>0, <1>3 DEF WriteRaises, PollingTypeOK
<1>4. ASSUME NEW th \in Handler, UpdateReturns(th) PROVE PollingTypeOK'
  <2>1. handler[th] \in Inside
    BY <1>0, <1>4, InsideUpdate DEF UpdateReturns
  <2>2. settings' \in Settings /\ handler' \in [Handler -> {Idle} \union Inside]
    BY <1>0, <1>4, <2>1 DEF UpdateReturns, Inside, PollingTypeOK
  <2>3. late \in [Function -> 0..2]
    BY <1>0 DEF PollingTypeOK
  <2>4. late' = [f \in Function |-> IF settings'[f].enabled THEN 0 ELSE late[f]]
    BY <1>4 DEF UpdateReturns
  <2>5. late' \in [Function -> 0..2]
    BY <2>3, <2>4
  <2> QED  BY <1>0, <1>4, <2>2, <2>5 DEF UpdateReturns, Inside, PollingTypeOK
<1>5. CASE CopySettings
  BY <1>0, <1>5, StaggeredWithinRate DEF CopySettings, PollingTypeOK
<1>6. CASE WriteCycleFails
  BY <1>0, <1>6 DEF WriteCycleFails, PollingTypeOK
<1>7. CASE Schedule
  <2>1. dueIn' \in [Function -> Nat]
    <3>1. \A f \in Function : copy[f].rate \in Nat
      BY <1>0, RateAssumption DEF PollingTypeOK, Settings, Setting
    <3>2. dueIn \in [Function -> Nat]
      BY <1>0 DEF PollingTypeOK
    <3> QED  BY <1>7, <3>1, <3>2 DEF Schedule
  <2>2. Due \subseteq Function
    BY DEF Due
  <2>3. \/ poller' = [poller EXCEPT !.at = "pause"]
        \/ \E link \in {"connected", "unreachable"} :
             poller' = [poller EXCEPT !.at = link, !.due = Due]
    BY <1>7 DEF Schedule
  <2>4. poller \in PollerState
    BY <1>0 DEF PollingTypeOK, PollerState
  <2>5. poller' \in PollerState
    BY <2>2, <2>3, <2>4 DEF PollerState
  <2> QED  BY <1>0, <1>7, <2>1, <2>5 DEF Schedule, PollingTypeOK, PollerState
<1>8. ASSUME NEW f \in Function, Attempt(f) PROVE PollingTypeOK'
  <2>1. late \in [Function -> 0..2]
    BY <1>0 DEF PollingTypeOK
  <2>2. late' = [late EXCEPT ![f] = IF settings[f].enabled \/ @ = 2 THEN @ ELSE @ + 1]
    BY <1>8 DEF Attempt
  <2>3. late' \in [Function -> 0..2]
    BY <2>1, <2>2
  <2> QED  BY <1>0, <1>8, <2>3 DEF Attempt, PollingTypeOK
<1>9. CASE ReadSucceeds
  BY <1>0, <1>9, ReadShows DEF ReadSucceeds, PollingTypeOK
<1>10. CASE MarkSuccess
  BY <1>0, <1>10 DEF MarkSuccess, PollingTypeOK
<1>11. CASE MarkError
  BY <1>0, <1>11 DEF MarkError, PollingTypeOK
<1>12. CASE MarkTableError
  BY <1>0, <1>12 DEF MarkTableError, PollingTypeOK
<1>13. CASE CycleEnds
  BY <1>0, <1>13 DEF CycleEnds, Pausing, AtTop, PollingTypeOK
<1>14. CASE PauseEnds
  BY <1>0, <1>14 DEF PauseEnds, AtTop, PollingTypeOK
<1>15. CASE Tick
  <2>1. dueIn \in [Function -> Nat]
    BY <1>0 DEF PollingTypeOK
  <2>2. dueIn' \in [Function -> Nat]
    BY <1>15, <2>1 DEF Tick
  <2> QED  BY <1>0, <1>15, <2>2 DEF Tick, PollingTypeOK
<1>16. CASE Restart
  <2>1. handler' \in [Handler -> {Idle}] /\ dueIn' \in [Function -> Nat]
        /\ shown' \in [Function -> {"unknown", "local"}] /\ late' \in [Function -> 0..2]
    BY <1>16 DEF Restart, BootMemory, BootQuality
  <2> QED  BY <1>0, <1>16, <2>1 DEF Restart, BootMemory, AtTop, PollingTypeOK
<1>17. CASE UNCHANGED vars
  BY <1>0, <1>17 DEF vars, PollingTypeOK
<1>18. ASSUME NEW f \in Function, CommandShown(f) \/ WriteRecorded(f) PROVE PollingTypeOK'
  BY <1>0, <1>18, WriteShows DEF PollingTypeOK
<1> QED
  BY <1>0, <1>1, <1>2, <1>3, <1>4, <1>5, <1>6, <1>7, <1>8, <1>9, <1>10, <1>11, <1>12, <1>13,
     <1>14, <1>15, <1>16, <1>17, <1>18 DEF Next, HandlerContinues, PollerStep

\* What the poller, the commands and the clock leave alone of the store.
LEMMA StoreUntouched ==
  PollerStep \/ (\E f \in Function : CommandShown(f)) \/ Tick \/ UNCHANGED vars
    => UNCHANGED <<file, settings, updating, handler>>
  BY DEF PollerStep, CommandShown, WriteRecorded, CopySettings, WriteCycleFails, Schedule, Attempt, ReadSucceeds, MarkSuccess,
         MarkError, MarkTableError, CycleEnds, PauseEnds, Tick, vars

LEMMA StepStore == StoreInv /\ [Next]_vars => StoreInv'
<1>0. SUFFICES ASSUME StoreInv, [Next]_vars
      PROVE  OneUpdates' /\ UpdateInHand' /\ SettingsAreOnFile'
  BY StepTypeOK DEF StoreInv
<1>a. /\ handler \in [Handler -> {Idle} \union Inside]
      /\ settings \in Settings
  BY <1>0 DEF StoreInv, PollingTypeOK, Inside
<1>b. OneUpdates /\ UpdateInHand /\ SettingsAreOnFile
  BY <1>0 DEF StoreInv
<1>c. \A th \in Handler : handler[th] # Idle => handler[th].at \in {"writing", "assigning"}
  BY <1>a DEF Inside
<1>d. Idle.at = "idle"
  BY DEF Idle
<1>1. ASSUME NEW th \in Handler, NEW request \in Change, UpdateEnters(th, request)
      PROVE  OneUpdates' /\ UpdateInHand' /\ SettingsAreOnFile'
  <2>1. settings = file /\ \A h \in Handler : handler[h] = Idle
    BY <1>1, <1>b, HandlerAssumption DEF UpdateEnters, StoreIsFree, OneUpdates, SettingsAreOnFile
  <2>2. /\ UNCHANGED <<file, settings>> /\ updating' = th
        /\ \A h \in Handler : handler'[h] =
             IF h = th
             THEN [at |-> "writing",
                   next |-> [file EXCEPT ![request.function] = Promise!Changed(@, request.change)]]
             ELSE Idle
    BY <1>1, <1>a, <2>1 DEF UpdateEnters
  <2>3. handler'[th].at = "writing" /\ handler'[th] # Idle
    BY <2>2, <1>d
  <2>4. OneUpdates'
    BY <2>2, <2>3 DEF OneUpdates
  <2>5. UpdateInHand'
    BY <2>1, <2>2, <1>d DEF UpdateInHand
  <2> QED  BY <2>2, <2>4, <2>5, HandlerAssumption DEF SettingsAreOnFile, StoreIsFree
<1>2. ASSUME NEW th \in Handler, FileReplaced(th)
      PROVE  OneUpdates' /\ UpdateInHand' /\ SettingsAreOnFile'
  <2>1. updating = th /\ \A h \in Handler : h # th => handler[h] = Idle
    BY <1>2, <1>b, <1>d DEF FileReplaced, OneUpdates
  <2>2. /\ handler'[th] # Idle /\ handler'[th].at = "assigning"
        /\ handler'[th].next = file'
        /\ \A h \in Handler : h # th => handler'[h] = Idle
    <3>1. handler[th] \in Inside
      BY <1>2, <1>a, <1>d DEF FileReplaced
    <3> QED  BY <1>2, <1>a, <2>1, <3>1, <1>d DEF FileReplaced, Inside
  <2>3. updating' = th
    BY <1>2, <2>1 DEF FileReplaced
  <2>4. OneUpdates' /\ UpdateInHand'
    BY <2>2, <2>3, <1>d DEF OneUpdates, UpdateInHand
  <2> QED  BY <2>3, <2>4, HandlerAssumption DEF SettingsAreOnFile, StoreIsFree
<1>3. ASSUME NEW th \in Handler, WriteRaises(th) \/ UpdateReturns(th)
      PROVE  OneUpdates' /\ UpdateInHand' /\ SettingsAreOnFile'
  <2>1. updating = th /\ \A h \in Handler : h # th => handler[h] = Idle
    BY <1>3, <1>b, <1>d DEF WriteRaises, UpdateReturns, OneUpdates
  <2>2. updating' = NoHandler /\ \A h \in Handler : handler'[h] = Idle
    BY <1>3, <1>a, <2>1 DEF WriteRaises, UpdateReturns
  <2>3. settings' = file'
    BY <1>3, <1>b DEF WriteRaises, UpdateReturns, UpdateInHand
  <2> QED  BY <2>2, <2>3, <1>d, HandlerAssumption
           DEF OneUpdates, UpdateInHand, SettingsAreOnFile
<1>4. CASE PollerStep \/ (\E f \in Function : CommandShown(f)) \/ Tick \/ UNCHANGED vars
  BY <1>4, <1>b, StoreUntouched DEF OneUpdates, UpdateInHand, SettingsAreOnFile, StoreIsFree
<1>5. CASE Restart
  <2>1. updating' = NoHandler /\ settings' = file' /\ \A h \in Handler : handler'[h] = Idle
    BY <1>5 DEF Restart, BootMemory
  <2> QED  BY <2>1, <1>d, HandlerAssumption DEF OneUpdates, UpdateInHand, SettingsAreOnFile
<1> QED
  BY <1>0, <1>1, <1>2, <1>3, <1>4, <1>5 DEF Next, HandlerContinues

\* A handler's steps leave the poller alone.
LEMMA PollerUntouched ==
  ASSUME NEW th \in Handler,
         (\E request \in Change : UpdateEnters(th, request)) \/ HandlerContinues(th)
  PROVE  UNCHANGED <<copy, dueIn, poller, lastError, shown>>
  BY DEF UpdateEnters, HandlerContinues, FileReplaced, WriteRaises, UpdateReturns

LEMMA CycleStops ==
  ASSUME CycleEnds \/ PauseEnds
  PROVE  /\ UNCHANGED <<late, settings, copy, shown, lastError>>
         /\ poller'.at \in {"pause", "top"} /\ poller'.due = {} /\ poller'.reading = 0
<1>1. poller' \in {Pausing, AtTop}
  BY DEF CycleEnds, PauseEnds
<1>2. poller'.at \in {"pause", "top"} /\ poller'.due = {} /\ poller'.reading = 0
  BY <1>1 DEF Pausing, AtTop
<1> QED
  BY <1>2 DEF CycleEnds, PauseEnds

LEMMA StepCycleShape == PollingTypeOK /\ CycleShape /\ [Next]_vars => CycleShape'
<1>0. SUFFICES ASSUME PollingTypeOK, CycleShape, [Next]_vars PROVE CycleShape'
  OBVIOUS
<1>a. poller \in PollerState /\ 0 \notin Function
  BY <1>0, ZeroIsNoFunction DEF PollingTypeOK, PollerState
<1>1. ASSUME NEW th \in Handler,
             (\E request \in Change : UpdateEnters(th, request)) \/ HandlerContinues(th)
      PROVE  CycleShape'
  BY <1>0, <1>1, PollerUntouched DEF CycleShape
<1>2. CASE PollerStep /\ ~\E f \in Function : WriteRecorded(f)
  <2>1. CASE CopySettings \/ WriteCycleFails
    <3>1. /\ poller.at \in {"top", "writes"} /\ poller'.at \in {"writes", "pause"}
          /\ UNCHANGED <<poller.due, poller.reading>>
      BY <1>a, <2>1 DEF CopySettings, WriteCycleFails, PollerState
    <3> QED  BY <1>0, <3>1 DEF CycleShape
  <2>6. CASE CycleEnds \/ PauseEnds
    <3>1. poller'.at \in {"pause", "top"} /\ poller'.due = {} /\ poller'.reading = 0
      BY <2>6, CycleStops
    <3> QED  BY <3>1 DEF CycleShape
  <2>2. CASE Schedule
    BY <1>0, <1>a, <2>2 DEF CycleShape, Schedule, PollerState
  <2>3. ASSUME NEW f \in Function, Attempt(f) PROVE CycleShape'
    BY <1>0, <1>a, <2>3 DEF CycleShape, Attempt, PollerState
  <2>4. CASE ReadSucceeds \/ MarkError
    BY <1>0, <1>a, <2>4 DEF CycleShape, ReadSucceeds, MarkError, PollerState
  <2>5. CASE MarkSuccess \/ MarkTableError
    BY <1>0, <1>a, <2>5 DEF CycleShape, MarkSuccess, MarkTableError, PollerState
  <2> QED  BY <1>2, <2>1, <2>2, <2>3, <2>4, <2>5, <2>6 DEF PollerStep
<1>3. CASE Tick \/ UNCHANGED vars
  BY <1>0, <1>3 DEF CycleShape, Tick, vars
<1>4. CASE Restart
  BY <1>4 DEF CycleShape, Restart, BootMemory, AtTop
<1>5. ASSUME NEW f \in Function, CommandShown(f) \/ WriteRecorded(f) PROVE CycleShape'
  BY <1>0, <1>5, WriteShows DEF CycleShape
<1> QED
  BY <1>0, <1>1, <1>2, <1>3, <1>4, <1>5 DEF Next

LEMMA StepLate ==
  PollingTypeOK /\ CycleShape /\ LateReadingIsTheLast /\ [Next]_vars => LateReadingIsTheLast'
<1>0. SUFFICES ASSUME PollingTypeOK, CycleShape, LateReadingIsTheLast, [Next]_vars,
                      NEW f \in Function, late'[f] # 0
      PROVE  /\ late'[f] = 1
             /\ ~settings'[f].enabled
             /\ f \in poller'.due => poller'.reading = f
             /\ poller'.at = "writes" => ~copy'[f].enabled
  BY DEF LateReadingIsTheLast
<1> DEFINE Goal == /\ late'[f] = 1
                   /\ ~settings'[f].enabled
                   /\ f \in poller'.due => poller'.reading = f
                   /\ poller'.at = "writes" => ~copy'[f].enabled
<1>a. /\ poller \in PollerState /\ 0 \notin Function
      /\ late \in [Function -> 0..2]
  BY <1>0, ZeroIsNoFunction DEF PollingTypeOK, PollerState
<1>b. late[f] # 0 => /\ late[f] = 1
                     /\ ~settings[f].enabled
                     /\ f \in poller.due => poller.reading = f
                     /\ poller.at = "writes" => ~copy[f].enabled
  BY <1>0 DEF LateReadingIsTheLast
<1>1. ASSUME NEW th \in Handler,
             (\E request \in Change : UpdateEnters(th, request)) \/ HandlerContinues(th)
      PROVE  Goal
  <2>1. CASE UpdateReturns(th)
    <3>1. late'[f] = IF settings'[f].enabled THEN 0 ELSE late[f]
      BY <2>1 DEF UpdateReturns
    <3>2. ~settings'[f].enabled /\ late'[f] = late[f]
      BY <1>0, <3>1
    <3> QED  BY <1>0, <1>b, <3>2, <1>1, PollerUntouched
  <2>2. CASE (\E request \in Change : UpdateEnters(th, request))
             \/ FileReplaced(th) \/ WriteRaises(th)
    BY <1>0, <1>b, <1>1, <2>2, PollerUntouched DEF UpdateEnters, FileReplaced, WriteRaises
  <2> QED  BY <1>1, <2>1, <2>2 DEF HandlerContinues
<1>2. CASE PollerStep /\ ~\E g \in Function : WriteRecorded(g)
  <2>1. CASE CopySettings
    BY <1>0, <1>a, <1>b, <2>1 DEF CopySettings, CycleShape, PollerState
  <2>2. CASE WriteCycleFails \/ CycleEnds \/ PauseEnds
    <3>1. /\ UNCHANGED <<late, settings, copy>> /\ poller'.at # "writes"
          /\ poller'.due \subseteq poller.due
          /\ poller'.due = {} \/ poller'.reading = poller.reading
      <4>1. CASE WriteCycleFails
        BY <1>a, <4>1 DEF WriteCycleFails, PollerState
      <4>2. CASE CycleEnds \/ PauseEnds
        BY <4>2, CycleStops
      <4> QED  BY <2>2, <4>1, <4>2
    <3> QED  BY <1>0, <1>b, <3>1
  <2>3. CASE Schedule
    <3>1. late' = late /\ settings' = settings /\ copy' = copy /\ poller.at = "writes"
      BY <2>3 DEF Schedule
    <3>2. f \notin Due
      BY <1>0, <1>b, <3>1 DEF Due
    <3>3. f \notin poller.due
      BY <1>0, <3>1, <1>a DEF CycleShape
    <3>4. f \notin poller'.due /\ poller'.at # "writes"
      BY <1>a, <2>3, <3>2, <3>3 DEF Schedule, PollerState
    <3> QED  BY <1>0, <1>b, <3>1, <3>4
  <2>4. ASSUME NEW g \in Function, Attempt(g) PROVE Goal
    <3>1. /\ poller.reading = 0 /\ g \in poller.due /\ poller.at # "writes"
          /\ poller'.reading = g /\ poller'.due = poller.due /\ poller'.at = poller.at
          /\ settings' = settings /\ copy' = copy
          /\ late' = [late EXCEPT ![g] = IF settings[g].enabled \/ @ = 2 THEN @ ELSE @ + 1]
      BY <1>a, <2>4 DEF Attempt, PollerState
    <3>2. CASE f = g
      <4>1. late[f] = 0
        BY <1>a, <1>b, <3>1, <3>2
      <4>2. late'[f] = 1 /\ ~settings[f].enabled
        BY <1>0, <1>a, <3>1, <3>2, <4>1
      <4> QED  BY <3>1, <3>2, <4>2
    <3>3. CASE f # g
      <4>1. late'[f] = late[f]
        BY <1>a, <3>1, <3>3
      <4>2. f \notin poller.due
        BY <1>0, <1>a, <1>b, <3>1, <4>1
      <4> QED  BY <1>0, <1>b, <3>1, <4>1, <4>2
    <3> QED  BY <3>2, <3>3
  <2>5. CASE ReadSucceeds \/ MarkError
    <3>1. /\ UNCHANGED <<late, settings, copy, poller.due, poller.reading>>
          /\ poller'.at # "writes"
      BY <1>a, <2>5 DEF ReadSucceeds, MarkError, PollerState
    <3> QED  BY <1>0, <1>b, <3>1
  <2>6. CASE MarkSuccess \/ MarkTableError
    <3>1. /\ UNCHANGED <<late, settings, copy>>
          /\ poller'.due = poller.due \ {poller.reading} /\ poller'.at # "writes"
      BY <1>a, <2>6 DEF MarkSuccess, MarkTableError, PollerState
    <3> QED  BY <1>0, <1>b, <3>1
  <2> QED  BY <1>2, <2>1, <2>2, <2>3, <2>4, <2>5, <2>6 DEF PollerStep
<1>3. CASE Tick \/ UNCHANGED vars
  BY <1>0, <1>b, <1>3 DEF Tick, vars
<1>4. CASE Restart
  BY <1>0, <1>4 DEF Restart, BootMemory
<1>5. ASSUME NEW g \in Function, CommandShown(g) \/ WriteRecorded(g) PROVE Goal
  BY <1>0, <1>b, <1>5, WriteShows
<1> QED
  BY <1>0, <1>1, <1>2, <1>3, <1>4, <1>5 DEF Next, PollerStep

LEMMA StepTime == PollingTypeOK /\ TimeInv /\ [Next]_vars => TimeInv'
<1>0. SUFFICES ASSUME PollingTypeOK, TimeInv, [Next]_vars PROVE TimeInv'
  OBVIOUS
<1>a. /\ settings \in Settings /\ copy \in Settings /\ file \in Settings
      /\ dueIn \in [Function -> Nat]
      /\ CopyIsCurrent /\ DueWithinItsRate
  BY <1>0 DEF PollingTypeOK, TimeInv
<1>b. \A s \in Settings, f \in Function : s[f].rate \in Nat
  BY RateAssumption DEF Settings, Setting
<1>1. ASSUME NEW th \in Handler,
             (\E request \in Change : UpdateEnters(th, request)) \/ HandlerContinues(th)
      PROVE  TimeInv'
  <2>1. DueWithinItsRate'
    BY <1>a, <1>1, PollerUntouched DEF DueWithinItsRate
  <2>2. CopyIsCurrent'
    BY <1>a, <1>1, PollerUntouched
    DEF CopyIsCurrent, UpdateEnters, HandlerContinues, FileReplaced, WriteRaises, UpdateReturns
  <2> QED  BY <2>1, <2>2 DEF TimeInv
<1>2. CASE CopySettings
  <2>1. copy' = settings' /\ copy' = settings
    BY <1>2 DEF CopySettings
  <2>2. CASE revised
    <3>1. dueIn' = Staggered(settings)
      BY <1>2, <2>2 DEF CopySettings
    <3> QED  BY <1>a, <2>1, <3>1, StaggeredWithinRate DEF TimeInv, CopyIsCurrent, DueWithinItsRate
  <2>3. CASE ~revised
    <3>1. dueIn' = dueIn /\ copy' = copy
      BY <1>2, <1>a, <2>1, <2>3 DEF CopySettings, CopyIsCurrent
    <3> QED  BY <1>a, <2>1, <3>1 DEF TimeInv, CopyIsCurrent, DueWithinItsRate
  <2> QED  BY <2>2, <2>3
<1>3. CASE Schedule
  <2>1. UNCHANGED <<copy, settings, revised>>
        /\ dueIn' = [f \in Function |-> IF f \in Due THEN copy[f].rate
                                        ELSE IF copy[f].enabled THEN dueIn[f] ELSE 0]
    BY <1>3 DEF Schedule
  <2> QED  BY <1>a, <1>b, <2>1 DEF TimeInv, CopyIsCurrent, DueWithinItsRate
<1>4. CASE Tick
  <2>1. UNCHANGED <<copy, settings, revised>>
        /\ dueIn' = [f \in Function |-> IF dueIn[f] > 0 THEN dueIn[f] - 1 ELSE 0]
    BY <1>4 DEF Tick
  <2>2. \A f \in Function : dueIn'[f] <= dueIn[f] /\ dueIn'[f] \in Nat
    BY <1>a, <2>1
  <2> QED  BY <1>a, <1>b, <2>1, <2>2 DEF TimeInv, CopyIsCurrent, DueWithinItsRate
<1>5. CASE Restart
  <2>1. revised' = TRUE /\ copy' = file /\ dueIn' = [f \in Function |-> 0]
    BY <1>5 DEF Restart, BootMemory
  <2> QED  BY <1>a, <1>b, <2>1 DEF TimeInv, CopyIsCurrent, DueWithinItsRate
<1>6. CASE \/ WriteCycleFails \/ (\E f \in Function : Attempt(f)) \/ ReadSucceeds \/ MarkSuccess
           \/ MarkError \/ MarkTableError \/ CycleEnds \/ PauseEnds \/ UNCHANGED vars
  <2>1. UNCHANGED <<copy, settings, revised, dueIn>>
    BY <1>6 DEF WriteCycleFails, Attempt, ReadSucceeds, MarkSuccess, MarkError, MarkTableError,
                CycleEnds, PauseEnds, vars
  <2> QED  BY <1>a, <2>1 DEF TimeInv, CopyIsCurrent, DueWithinItsRate
<1>7. ASSUME NEW f \in Function, CommandShown(f) \/ WriteRecorded(f) PROVE TimeInv'
  <2>1. UNCHANGED <<copy, settings, revised, dueIn>>
    BY <1>0, <1>7, WriteShows
  <2> QED  BY <1>a, <2>1 DEF TimeInv, CopyIsCurrent, DueWithinItsRate
<1> QED
  BY <1>0, <1>1, <1>2, <1>3, <1>4, <1>5, <1>6, <1>7 DEF Next, PollerStep

LEMMA StepMark == PollingTypeOK /\ CycleShape /\ MarkInv /\ [Next]_vars => MarkInv'
<1>0. SUFFICES ASSUME PollingTypeOK, CycleShape, MarkInv, [Next]_vars
      PROVE  MarksInHand' /\ ErrorsAgree'
  BY DEF MarkInv
<1>a. /\ poller \in PollerState /\ 0 \notin Function
      /\ shown \in [Function -> {"unknown", "local", "good", "error"}] /\ lastError \subseteq Function
      /\ CycleShape /\ MarksInHand /\ ErrorsAgree
  BY <1>0, ZeroIsNoFunction DEF PollingTypeOK, PollerState, MarkInv
<1>1. ASSUME NEW th \in Handler,
             (\E request \in Change : UpdateEnters(th, request)) \/ HandlerContinues(th)
      PROVE  MarksInHand' /\ ErrorsAgree'
  <2>1. UNCHANGED <<poller, shown, lastError>>
    BY <1>1, PollerUntouched
  <2> QED  BY <1>a, <2>1 DEF MarksInHand, ErrorsAgree
<1>2. CASE \/ CopySettings \/ WriteCycleFails \/ Schedule \/ CycleEnds \/ PauseEnds
  <2>1. UNCHANGED <<shown, lastError>>
    BY <1>2 DEF CopySettings, WriteCycleFails, Schedule, CycleEnds, PauseEnds
  <2>2. poller'.at \notin {"read", "failed", "given up"}
    <3>1. CASE CycleEnds \/ PauseEnds
      BY <3>1, CycleStops
    <3>2. CASE CopySettings \/ WriteCycleFails \/ Schedule
      BY <1>a, <3>2 DEF CopySettings, WriteCycleFails, Schedule, PollerState
    <3> QED  BY <1>2, <3>1, <3>2
  <2>3. poller.reading = 0
    BY <1>a, <1>2 DEF CopySettings, WriteCycleFails, Schedule, CycleEnds, PauseEnds, CycleShape
  <2> QED  BY <1>a, <2>1, <2>2, <2>3 DEF MarksInHand, ErrorsAgree
<1>3. ASSUME NEW f \in Function, Attempt(f) PROVE MarksInHand' /\ ErrorsAgree'
  <2>1. /\ UNCHANGED <<shown, lastError>> /\ poller.reading = 0
        /\ poller'.at \in {"connected", "unreachable"}
    BY <1>a, <1>3 DEF Attempt, PollerState
  <2> QED  BY <1>a, <2>1 DEF MarksInHand, ErrorsAgree
<1>4. CASE ReadSucceeds
  <2>1. /\ UNCHANGED lastError /\ poller'.at = "read" /\ poller'.reading = poller.reading
        /\ poller.reading \in Function
    BY <1>a, <1>4 DEF ReadSucceeds, PollerState
  <2>2. /\ shown'[poller.reading] = "good"
        /\ \A g \in Function \ Written : g # poller.reading => shown'[g] = shown[g]
    BY <1>0, <1>4, <2>1, ReadShows
  <2> QED  BY <1>a, <2>1, <2>2 DEF MarksInHand, ErrorsAgree
<1>5. CASE MarkSuccess
  <2>1. /\ UNCHANGED shown /\ lastError' = lastError \ {poller.reading}
        /\ poller.reading \notin Written => shown[poller.reading] = "good"
        /\ poller'.at = "connected"
    BY <1>a, <1>5 DEF MarkSuccess, PollerState, MarksInHand
  <2> QED  BY <1>a, <2>1 DEF MarksInHand, ErrorsAgree
<1>6. CASE MarkError
  <2>1. /\ UNCHANGED shown /\ lastError' = lastError \union {poller.reading}
        /\ poller'.reading = poller.reading /\ poller'.at \in {"failed", "given up"}
    BY <1>a, <1>6 DEF MarkError, PollerState
  <2> QED  BY <1>a, <2>1 DEF MarksInHand, ErrorsAgree
<1>7. CASE MarkTableError
  <2>1. /\ UNCHANGED lastError /\ poller.reading \in lastError
        /\ poller'.at \in {"connected", "unreachable"}
        /\ shown' = [shown EXCEPT ![poller.reading] = "error"]
    BY <1>a, <1>7 DEF MarkTableError, PollerState, MarksInHand
  <2> QED  BY <1>a, <2>1 DEF MarksInHand, ErrorsAgree
<1>8. CASE Tick \/ UNCHANGED vars
  BY <1>a, <1>8 DEF Tick, vars, MarksInHand, ErrorsAgree
<1>9. CASE Restart
  BY <1>9 DEF Restart, BootMemory, BootQuality, AtTop, MarksInHand, ErrorsAgree
<1>10. ASSUME NEW f \in Function, CommandShown(f) \/ WriteRecorded(f)
       PROVE  MarksInHand' /\ ErrorsAgree'
  <2>1. UNCHANGED <<poller, lastError>> /\ \A g \in Function \ Written : shown'[g] = shown[g]
    BY <1>0, <1>10, WriteShows
  <2>2. MarksInHand'
    BY <1>a, <2>1 DEF MarksInHand, PollerState, CycleShape
  <2>3. ErrorsAgree'
    BY <1>a, <2>1 DEF ErrorsAgree
  <2> QED  BY <2>2, <2>3
<1> QED
  BY <1>0, <1>1, <1>2, <1>3, <1>4, <1>5, <1>6, <1>7, <1>8, <1>9, <1>10 DEF Next, PollerStep

LEMMA StepInv == PollingInv /\ [Next]_vars => PollingInv'
<1>1. SUFFICES ASSUME PollingInv, [Next]_vars PROVE PollingInv'
  OBVIOUS
<1>2. PollingTypeOK /\ CycleShape
  BY <1>1 DEF PollingInv, StoreInv, CycleInv
<1> QED
  BY <1>1, <1>2, StepStore, StepCycleShape, StepLate, StepTime, StepMark DEF PollingInv, CycleInv

LEMMA PollingInvariant == Spec => []PollingInv
  BY InitInv, StepInv, PTL DEF Spec

(***************************************************************************)
(* What follows for every instance.                                        *)
(***************************************************************************)

\* Every value stays in its type, whatever the handlers, the poller, the clock and
\* restarts do.
THEOREM PollingTypes == Spec => []PollingTypeOK
<1>1. PollingInv => PollingTypeOK
  BY DEF PollingInv, StoreInv
<1> QED  BY <1>1, PollingInvariant, PTL

\* Memory and modbus_polling.json differ only inside update.
THEOREM SettingsSaved == Spec => []SettingsAreOnFile
<1>1. PollingInv => SettingsAreOnFile
  BY DEF PollingInv, StoreInv
<1> QED  BY <1>1, PollingInvariant, PTL

\* A disabled function is read at most once more.
THEOREM DisablingEffective == Spec => []DisablingIsEffective
<1>1. PollingInv => DisablingIsEffective
  <2>1. ASSUME PollingInv, NEW f \in Function PROVE late[f] <= 1
    <3>1. late[f] \in 0..2 /\ (late[f] # 0 => late[f] = 1)
      BY <2>1 DEF PollingInv, StoreInv, CycleInv, PollingTypeOK, LateReadingIsTheLast
    <3> QED  BY <3>1
  <2> QED  BY <2>1 DEF DisablingIsEffective
<1> QED  BY <1>1, PollingInvariant, PTL

\* No enabled function waits longer than its rate, for any number of functions and rates.
THEOREM DueInTime == Spec => []DueWithinItsRate
<1>1. PollingInv => DueWithinItsRate
  BY DEF PollingInv, TimeInv
<1> QED  BY <1>1, PollingInvariant, PTL

\* The last error of a function whose table is only read and the mark of its signals agree
\* between readings, whatever the writes do to the signals of the other tables.
THEOREM ErrorsAlwaysAgree == Spec => []ErrorsAgree
<1>1. PollingInv => ErrorsAgree
  BY DEF PollingInv, MarkInv
<1> QED  BY <1>1, PollingInvariant, PTL

(***************************************************************************)
(* The file and the handlers implement PollingSettings.                    *)
(***************************************************************************)

Calls == [th \in Handler |-> CASE handler[th].at = "idle"    -> "idle"
                                [] handler[th].at = "writing" -> "called"
                                [] OTHER -> "done"]

LEMMA InitImplements == Init => Promise!Init
<1>1. SUFFICES ASSUME Init PROVE file \in InitialSettings /\ Calls = [th \in Handler |-> "idle"]
  BY DEF Promise!Init, Calls
<1>2. \A th \in Handler : handler[th].at = "idle"
  BY <1>1 DEF Init, Idle
<1> QED
  BY <1>1, <1>2 DEF Init, Calls

LEMMA StepImplements == PollingInv /\ [Next]_vars => [Promise!Next]_(Promise!vars)
<1>0. SUFFICES ASSUME PollingInv, [Next]_vars
      PROVE  Promise!Next \/ UNCHANGED <<file, Calls>>
  BY DEF Promise!vars, Calls
<1>a. /\ handler \in [Handler -> {Idle} \union Inside]
      /\ UpdateInHand /\ OneUpdates
  BY <1>0 DEF PollingInv, StoreInv, PollingTypeOK, Inside
<1>b. Idle.at = "idle"
  BY DEF Idle
<1>1. ASSUME NEW th \in Handler, NEW request \in Change, UpdateEnters(th, request)
      PROVE  Promise!Called(th)
  <2>1. handler[th].at = "idle" /\ file' = file
    BY <1>1, <1>b DEF UpdateEnters
  <2>2. handler'[th].at = "writing" /\ \A h \in Handler : h # th => handler'[h] = handler[h]
    BY <1>1, <1>a DEF UpdateEnters
  <2>3. Calls[th] = "idle" /\ Calls' = [Calls EXCEPT ![th] = "called"]
    BY <2>1, <2>2 DEF Calls
  <2> QED  BY <2>1, <2>3 DEF Promise!Called, Calls
<1>2. ASSUME NEW th \in Handler, FileReplaced(th) PROVE Promise!TakesEffect(th)
  <2>1. PICK request \in Change :
          file' = [file EXCEPT ![request.function] = Promise!Changed(@, request.change)]
    BY <1>2, <1>a DEF FileReplaced, UpdateInHand
  <2>2. request.function \in Function /\ request.change \in Changes
    BY SettingsAssumption DEF Changes
  <2>3. handler[th].at = "writing" /\ handler'[th].at = "assigning"
        /\ \A h \in Handler : h # th => handler'[h] = handler[h]
    <3>1. handler[th] \in Inside
      BY <1>2, <1>a, <1>b DEF FileReplaced
    <3> QED  BY <1>2, <1>a, <3>1 DEF FileReplaced, Inside
  <2>4. Calls[th] = "called" /\ Calls' = [Calls EXCEPT ![th] = "done"]
    BY <2>3 DEF Calls
  <2> QED  BY <2>1, <2>2, <2>4 DEF Promise!TakesEffect, Calls
<1>3. ASSUME NEW th \in Handler, WriteRaises(th) PROVE Promise!Raises(th)
  <2>1. handler[th].at = "writing" /\ file' = file /\ handler'[th].at = "idle"
        /\ \A h \in Handler : h # th => handler'[h] = handler[h]
    BY <1>3, <1>a, <1>b DEF WriteRaises
  <2>2. Calls[th] = "called" /\ Calls' = [Calls EXCEPT ![th] = "idle"]
    BY <2>1 DEF Calls
  <2> QED  BY <2>1, <2>2 DEF Promise!Raises, Calls
<1>4. ASSUME NEW th \in Handler, UpdateReturns(th) PROVE Promise!Answered(th)
  <2>1. handler[th].at = "assigning" /\ file' = file /\ handler'[th].at = "idle"
        /\ \A h \in Handler : h # th => handler'[h] = handler[h]
    BY <1>4, <1>a, <1>b DEF UpdateReturns
  <2>2. Calls[th] = "done" /\ Calls' = [Calls EXCEPT ![th] = "idle"]
    BY <2>1 DEF Calls
  <2> QED  BY <2>1, <2>2 DEF Promise!Answered, Calls
<1>5. CASE PollerStep \/ (\E f \in Function : CommandShown(f)) \/ Tick \/ UNCHANGED vars
  BY <1>5, StoreUntouched DEF Calls
<1>6. CASE Restart
  <2>1. file' = file /\ \A h \in Handler : handler'[h].at = "idle"
    BY <1>6, <1>b DEF Restart, BootMemory
  <2>2. Calls' = [th \in Handler |-> "idle"]
    BY <2>1 DEF Calls
  <2> QED  BY <2>1, <2>2 DEF Promise!Restart, Promise!Next, Calls
<1>7. (\E th \in Handler : Promise!Called(th) \/ Promise!TakesEffect(th)
                            \/ Promise!Answered(th) \/ Promise!Raises(th)) => Promise!Next
  BY DEF Promise!Next
<1> QED
  BY <1>0, <1>1, <1>2, <1>3, <1>4, <1>5, <1>6, <1>7 DEF Next, HandlerContinues

\* Concurrent updates, failed writes and restarts of the process show as the atomic
\* changes of one function that PollingSettings promises.
THEOREM StoreImplementsSettings == Spec => SettingsPromise
  BY InitImplements, StepImplements, PollingInvariant, PTL
  DEF Spec, SettingsPromise, Promise!Spec

====
