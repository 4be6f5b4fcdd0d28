---- MODULE MCWritePath ----
(***************************************************************************)
(* Small instances of WritePath.                                           *)
(***************************************************************************)
EXTENDS WritePath

From(source, batches) == {[batch |-> b, source |-> source] : b \in batches}

\* The field emulator posts both levels in one body; a client may post one of them.
MCLevelPost == From("field-emulator", [LevelTags -> Reading])
                 \union From("other", [{<<"level", 1>>} -> {1}])

\* Two clients that post levels under the emulator's name, together and apart, and one
\* that posts all setpoints in one body, now and then with a value no register holds.
MCTurnPost == From("field-emulator",
                   UNION {[body -> Reading] : body \in {LevelTags} \union {{t} : t \in LevelTags}})
                \union From("other", [{"setpoint"} \X Setpoint -> Reading \union {65536}])

\* Setpoints, all in one body.
MCSetpointPost == From("other", [{"setpoint"} \X Setpoint -> Reading])

MCNoPost == {}
====
