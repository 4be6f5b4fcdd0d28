---- MODULE HistoryChart ----
(***************************************************************************)
(* The level history as the browser shows it: GET /history thins the       *)
(* points out (history.py, LevelHistoryStore._downsample), and the page    *)
(* asks for it again only when the revision it is told differs from the    *)
(* one of the history it holds (useTrasvaseData.ts).                       *)
(***************************************************************************)
EXTENDS LevelHistory, Rounding, SequencesExt

CONSTANT MaxPoints   \* max_points of the request

ASSUME MaxPointsAssumption == MaxPoints \in Nat \ {0, 1}

VARIABLE chart       \* levelHistory of the page

chartVars == <<historyVars, chart>>

\* Fault: the slots are spread over one more than there are.
ChosenOverMax(n, max) == {Round(slot * (n - 1), max) : slot \in 0..(max - 1)}

\* Which of n points are shown, counted from 0.
Chosen(n, max) == {Round(slot * (n - 1), max - 1) : slot \in 0..(max - 1)}

Downsampled(s, max) ==
  IF Len(s) <= max THEN s
  ELSE LET indexes == SetToSortSeq(Chosen(Len(s), max), <)
       IN  [k \in DOMAIN indexes |-> s[indexes[k] + 1]]

ChartInit == HistoryInit /\ chart = [revision |-> Never, points |-> <<>>]

\* snapshot() takes the revision and the points under one lock.
ChartFetches ==
  /\ running
  /\ chart.revision # revision
  /\ chart' = [revision |-> revision, points |-> Downsampled(points, MaxPoints)]
  /\ UNCHANGED historyVars

ChartNext == (HistoryNext /\ UNCHANGED chart) \/ ChartFetches

ChartSpec == ChartInit /\ [][ChartNext]_chartVars

----
\* A page that holds the current revision shows the current points, the ones that a
\* failed write or a compaction left: it never takes an old history for the new one
\* (record, useTrasvaseData.ts).
CurrentChartIsRight ==
  running /\ chart.revision = revision => chart.points = Downsampled(points, MaxPoints)

\* Thinning out keeps the first and the last point and gives exactly as many as were
\* asked for: rounding never makes two slots fall together (_downsample).
ThinningKeepsTheEnds ==
  \A max \in 2..(Len(points) - 1) :
    LET indexes == Chosen(Len(points), max)
    IN  {0, Len(points) - 1} \subseteq indexes /\ Cardinality(indexes) = max

====
