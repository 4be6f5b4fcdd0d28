---- MODULE MCFieldEmulator ----
(***************************************************************************)
(* Small instances of FieldEmulator.                                       *)
(***************************************************************************)
EXTENDS FieldEmulator

MCChamber == {"chamber"}
MCTanks == {"chamber", "reserve"}

MCLimits == {[floor |-> 0, ceiling |-> TopLevel], [floor |-> 1, ceiling |-> 1]}

MCSeasonalInlet == [season \in {50} |-> 100]
MCDailyConsumption == [t \in Time |-> IF t % 2 = 0 THEN 100 ELSE 50]

MCControl == [mode |-> "manual", season |-> 50, inlet |-> 100, outlet |-> 0]

MCAutomatic == [mode |-> "automatic", season |-> 50, inlet |-> 0, outlet |-> 0]

MCControlBody == {[mode |-> "automatic"], [inlet |-> 0, mode |-> "manual"]}
\* Half open, so that the levels fall between two millimetres.
MCValveBody == {[inlet |-> 50]}
MCNoBody == {}
====
