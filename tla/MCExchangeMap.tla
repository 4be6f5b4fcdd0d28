---- MODULE MCExchangeMap ----
(***************************************************************************)
(* Small maps for ExchangeMap: two that load, and those that differ from   *)
(* the first in one thing that must keep it from loading.                  *)
(***************************************************************************)
EXTENDS ExchangeMap

CONSTANTS eNv, gSp, gLim, yNv, bMar, cAut

MCTag == {eNv, gSp, gLim, yNv, bMar, cAut}

Reading(row, tag) == [row |-> row, tag |-> tag, mapped |-> TRUE, default |-> NoValue,
                      type |-> "int16", writable |-> FALSE, facade |-> FALSE]
Setpoint(row, tag, default) ==
  [row |-> row, tag |-> tag, mapped |-> FALSE, default |-> [is |-> "int", value |-> default],
   type |-> "int16", writable |-> TRUE, facade |-> tag \in InjectionTag]
Command(row, tag) ==
  [row |-> row, tag |-> tag, mapped |-> FALSE, default |-> [is |-> "bool", value |-> 0],
   type |-> "int16", writable |-> TRUE, facade |-> FALSE]

MCTable(name, count, rows) ==
  LET identity == ExchangeTable[name]
      digital == identity[3] \in {"mbit", "bit"}
  IN [id |-> identity[1], kind |-> identity[2], class |-> identity[3],
      positive |-> IF digital THEN TRUE ELSE NoValue,
      start |-> AceReference(identity[2], identity[1], 0, 0), count |-> count,
      writable |-> identity[3] \in {"iprm", "bit"},
      type |-> IF digital THEN NoValue ELSE "int16", signals |-> rows]

MCMap(reads, setpoints, bits, commands) ==
  [analog_reads |-> reads, analog_setpoints |-> setpoints, digital_reads |-> bits,
   digital_commands |-> commands]

MCReads == MCTable("analog_reads", 2, <<Reading(1, eNv)>>)
MCSetpoints == MCTable("analog_setpoints", 3, <<Setpoint(2, yNv, -1), Setpoint(0, gSp, 32767)>>)
MCBits == MCTable("digital_reads", 1, <<Reading(0, bMar)>>)
MCCommands == MCTable("digital_commands", 1, <<Command(0, cAut)>>)
MCGood == MCMap(MCReads, MCSetpoints, MCBits, MCCommands)

\* A setpoint without sign, and readings marked writable.
MCUnusual ==
  [MCGood EXCEPT !.analog_setpoints.signals[2].type = "uint16",
                 !.analog_reads.signals[1].writable = TRUE,
                 !.digital_reads.signals[1].writable = TRUE]

MCBad ==
  {[MCGood EXCEPT !.analog_setpoints =
      MCTable("analog_setpoints", 3, <<Setpoint(2, yNv, 0), Setpoint(0, gSp, 0), Setpoint(2, gLim, 0)>>)],
   [MCGood EXCEPT !.digital_reads.signals[1].tag = eNv],
   [MCGood EXCEPT !.digital_commands.start = 1],
   [MCGood EXCEPT !.digital_commands.kind = "discrete_input"],
   [MCGood EXCEPT !.analog_reads.signals[1].row = -1],
   [MCGood EXCEPT !.analog_reads.count = 1],
   [MCGood EXCEPT !.analog_reads.count = 3],
   [MCGood EXCEPT !.analog_setpoints.signals[1].default.value = 32768],
   [MCGood EXCEPT !.analog_setpoints.signals[1].facade = FALSE],
   [name \in TableName \ {"digital_reads"} |-> MCGood[name]]}

MCDocument == {MCGood, MCUnusual} \union MCBad
MCValue == {-32769, -32768, 1, 32768, 65535, 65536}
MCWord == {32767, 32768}
====
