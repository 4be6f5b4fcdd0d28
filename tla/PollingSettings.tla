---- MODULE PollingSettings ----
(***************************************************************************)
(* What the service promises of the settings of its reading functions,     *)
(* whatever threads, files and crashes lie behind: they change one         *)
(* function at a time, at one moment between the call and its answer, from *)
(* what they are at that moment; a call that raises changes nothing; a     *)
(* restart finds them as they are.  PollingControl implements it.          *)
(***************************************************************************)
CONSTANTS
  Function,       \* the Modbus reading functions, FC01 to FC04
  Handler,        \* threads that serve HTTP requests
  InitialSettings,
  Change          \* what a call may ask of a function: enabled, rate or both

\* A function with the fields a call gives replaced.
Changed(setting, change) ==
  [enabled |-> IF "enabled" \in DOMAIN change THEN change.enabled ELSE setting.enabled,
   rate    |-> IF "rate" \in DOMAIN change THEN change.rate ELSE setting.rate]

VARIABLES
  settings,       \* of each function
  call            \* what each handler is doing

vars == <<settings, call>>

Init ==
  /\ settings \in InitialSettings
  /\ call = [th \in Handler |-> "idle"]

Called(th) ==
  /\ call[th] = "idle"
  /\ call' = [call EXCEPT ![th] = "called"]
  /\ UNCHANGED settings

TakesEffect(th) ==
  /\ call[th] = "called"
  /\ \E f \in Function, change \in Change :
       settings' = [settings EXCEPT ![f] = Changed(@, change)]
  /\ call' = [call EXCEPT ![th] = "done"]

Answered(th) ==
  /\ call[th] = "done"
  /\ call' = [call EXCEPT ![th] = "idle"]
  /\ UNCHANGED settings

Raises(th) ==
  /\ call[th] = "called"
  /\ call' = [call EXCEPT ![th] = "idle"]
  /\ UNCHANGED settings

Restart ==
  /\ call' = [th \in Handler |-> "idle"]
  /\ UNCHANGED settings

Next ==
  \/ \E th \in Handler : Called(th) \/ TakesEffect(th) \/ Answered(th) \/ Raises(th)
  \/ Restart

Spec == Init /\ [][Next]_vars

====
