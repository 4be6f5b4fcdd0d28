---- MODULE LevelHistory ----
(***************************************************************************)
(* field_emulator/history.py, class LevelHistoryStore: the level samples   *)
(* that the field emulator keeps in memory and in a CSV file.  A sample is *)
(* taken at most once per interval, appended to the file and then to       *)
(* memory; samples older than the window are dropped from memory at once   *)
(* and from the file when it is compacted.                                 *)
(*                                                                         *)
(* `now` is both clocks of the process: the wall clock is taken not to be  *)
(* set back.  A row that a failed write cuts short reads as anything or as *)
(* nothing, and the next row is glued to it.  The file keeps times and     *)
(* levels with three decimals: the moments and levels of the model are     *)
(* farther apart than that.  While the process is down, `points` is what   *)
(* the last one that was up had in memory.                                 *)
(***************************************************************************)
EXTENDS Integers, Sequences, FiniteSetsExt

CONSTANTS
  Sample,           \* the pairs of levels a point may hold
  Unreadable,       \* a line that the csv reader or float() rejects
  SampleInterval,   \* sample_interval_s
  Retention,        \* retention_real_s
  CompactionPeriod, \* SIMULATED_DAY_REAL_SECONDS
  Latency,          \* at most this long from the start of a tick to its record()
  LastMoment,       \* bound of the clock
  Fault             \* what may go wrong in the instance

ASSUME SampleAssumption == Unreadable \notin Sample
ASSUME PeriodAssumption ==
  /\ SampleInterval \in Nat \ {0} /\ Retention \in Nat \ {0}
  /\ CompactionPeriod \in Nat \ {0} /\ Latency \in Nat /\ LastMoment \in Nat
ASSUME FaultAssumption == Fault \subseteq {"append", "rewrite", "crash"}

VARIABLES
  now,          \* epoch_seconds() and monotonic_seconds()
  csv,          \* the lines of the file
  points,       \* _points, of the process that is up or of the last one that was
  revision,     \* _revision
  lastSample,   \* _last_sample_tick
  compactedAt,  \* _last_compaction_at
  running       \* the process is up

storeVars == <<points, revision, lastSample, compactedAt>>
historyVars == <<now, csv, storeVars, running>>

Never == -1   \* None

Time == 0..LastMoment
Point == [at : Time, level : Sample]
Line == [at : Time, level : Sample \union {Unreadable}, kind : {"whole", "torn", "glued"}]

----
\* The file.

Written(point) == [at |-> point.at, level |-> point.level, kind |-> "whole"]
Rewritten(s) == [i \in DOMAIN s |-> Written(s[i])]
Read(line) == [at |-> line.at, level |-> line.level]
Rows(lines) == [i \in DOMAIN lines |-> Read(lines[i])]

IsReadable == \A i \in DOMAIN csv : csv[i].level # Unreadable
AllWhole == \A i \in DOMAIN csv : csv[i].kind = "whole"
EndsTorn == csv # <<>> /\ csv[Len(csv)].kind = "torn"

\* The files that appending a point may leave: after a torn line the row ends up on it.
Appended(point) ==
  IF EndsTorn
  THEN {[csv EXCEPT ![Len(csv)] = [at |-> @.at, level |-> l, kind |-> "glued"]] :
          l \in Sample \union {Unreadable}}
  ELSE {Append(csv, Written(point))}

\* The files that an append which is cut short may leave.
CutShort(point) ==
  {csv} \union
  IF EndsTorn
  THEN {[csv EXCEPT ![Len(csv)].level = l] : l \in Sample \union {Unreadable}}
  ELSE {Append(csv, [at |-> point.at, level |-> l, kind |-> "torn"]) :
          l \in Sample \union {Unreadable}}

----
\* _trim drops from the front, up to the first point inside the window.

Trimmed(s, t) ==
  LET valid == {i \in DOMAIN s : s[i].at >= t - Retention}
  IN  IF valid = {} THEN <<>> ELSE SubSeq(s, Min(valid), Len(s))

----
HistoryInit ==
  /\ now = 0
  /\ csv = <<>> /\ points = <<>>
  /\ revision = 0 /\ lastSample = Never /\ compactedAt = 0
  /\ running = TRUE

IsDue == lastSample = Never \/ now - lastSample >= SampleInterval

CompactionIsDue == now - compactedAt >= CompactionPeriod

\* Fault: the points are counted before the new one is among them.
RemovesBesideNew(kept) == Len(kept) < Len(points)

\* With the new point appended, trimming left `kept`.
Removes(kept) == Len(kept) < Len(points) + 1

\* Fault: the revision is the number of points.
NextRevisionAsLength(kept) == Len(kept)

NextRevision(kept) == revision + 1

Compact(kept) == csv' = Rewritten(kept) /\ compactedAt' = now

\* Fault: the file is compacted before the new point is among the points.
StoreCompactingFirst(point) ==
  LET kept == Trimmed(points, point.at)
  IN  /\ points' = Append(kept, point)
      /\ lastSample' = now
      /\ revision' = NextRevision(points')
      /\ IF kept # points /\ CompactionIsDue
         THEN Compact(kept)
         ELSE csv' \in Appended(point) /\ UNCHANGED compactedAt

\* The point is in the file before it is in memory; compaction comes last and may raise.
Store(point) ==
  LET kept == Trimmed(Append(points, point), point.at)
  IN  /\ points' = kept
      /\ lastSample' = now
      /\ revision' = NextRevision(kept)
      /\ \/ Removes(kept) /\ CompactionIsDue /\ Compact(kept)
         \/ /\ Removes(kept) /\ CompactionIsDue => "rewrite" \in Fault
            /\ csv' \in Appended(point)
            /\ UNCHANGED compactedAt

AppendFails(point) ==
  /\ "append" \in Fault
  /\ csv' \in CutShort(point)
  /\ UNCHANGED storeVars

\* record(), called at the end of a tick that began at time t.
Record(t, level) ==
  /\ running
  /\ IF IsDue
     THEN LET point == [at |-> t, level |-> level]
          IN  Store(point) \/ AppendFails(point)
     ELSE UNCHANGED <<csv, storeVars>>
  /\ UNCHANGED <<now, running>>

\* Fault: the file is written anew in its place.
ReplacedInPlace(kept) == {SubSeq(Rewritten(kept), 1, n) : n \in 0..Len(kept)}

\* The files that a compaction which the process dies in may leave, if not the one before.
Replaced(kept) == {Rewritten(kept)}

\* The process dies inside record(): before the row is in the file, after, or when the file
\* has been compacted, which replaces it at once.  What record() had done to memory is gone.
DieRecording(t, level) ==
  /\ running /\ IsDue
  /\ LET point == [at |-> t, level |-> level]
         kept == Trimmed(Append(points, point), t)
     IN  \/ csv' \in {csv} \union Appended(point)
         \/ "append" \in Fault /\ csv' \in CutShort(point)
         \/ Removes(kept) /\ CompactionIsDue /\ csv' \in Replaced(kept)
  /\ running' = FALSE
  /\ UNCHANGED <<now, storeVars>>

----
\* _load, in __init__.  A file that cannot be read, or compacted, is not replaced: the
\* process does not start.  A restart takes a moment.
Load ==
  /\ now < LastMoment
  /\ now' = now + 1
  /\ LET kept == Trimmed(Rows(csv), now')
     IN  \/ /\ IsReadable
            /\ csv' = IF Len(kept) < Len(csv) THEN Rewritten(kept) ELSE csv
            /\ points' = kept /\ revision' = Len(kept)
            /\ running' = TRUE
         \/ /\ ~IsReadable \/ ("rewrite" \in Fault /\ Len(kept) < Len(csv))
            /\ revision' = 0
            /\ running' = FALSE
            /\ UNCHANGED <<csv, points>>
  /\ lastSample' = Never /\ compactedAt' = now'

----
Elapse ==
  /\ now < LastMoment
  /\ now' = now + 1
  /\ UNCHANGED <<csv, storeVars, running>>

\* One thread records: a tick begins after the record of the tick before it.
TickTimes == {t \in Time : now - Latency <= t /\ lastSample <= t /\ compactedAt <= t /\ t <= now}

HistoryNext ==
  \/ Elapse
  \/ \E t \in TickTimes, level \in Sample : Record(t, level)
  \/ "crash" \in Fault /\ \E t \in TickTimes, level \in Sample : DieRecording(t, level)
  \/ "crash" \in Fault /\ Load

HistorySpec == HistoryInit /\ [][HistoryNext]_historyVars

----
Holds(s, point) == \E i \in DOMAIN s : s[i] = point

Stale == 1..(Len(csv) - Len(points))   \* lines of points that memory has dropped

\* What a restart would load is what is in memory: the points are the last rows of the
\* file, unless a failed write has spoiled a line of it (record, _append, _rewrite).
PointsAreOnFile ==
  running /\ AllWhole =>
    /\ Len(points) <= Len(csv)
    /\ points = SubSeq(Rows(csv), Len(csv) - Len(points) + 1, Len(csv))

\* A restart brings back every point of memory that is still in the window and invents
\* none, whatever was under way when the process died and however many starts failed since:
\* only the sample that record() was storing then may be there as well (record, _append,
\* _rewrite, _load, _trim).  A file that a failed write has spoiled is another matter.
RestartKeepsPoints ==
  [][Load /\ running' /\ AllWhole =>
       /\ \A i \in DOMAIN points :
            points[i].at + Retention >= now' => Holds(points', points[i])
       /\ \A i \in DOMAIN points' :
            Holds(points, points'[i]) \/ (~running /\ i = Len(points'))]_historyVars

\* The file does not grow for ever: what it holds beyond memory left the window within
\* a compaction period of the last compaction (record, _load).
FileIsCompacted ==
  running /\ AllWhole =>
    \A i \in Stale : csv[i].at + Retention < compactedAt + CompactionPeriod

====
