---- MODULE HistoryChart_proofs ----
(***************************************************************************)
(* Proofs about HistoryChart, for every value of its constants.            *)
(***************************************************************************)
EXTENDS HistoryChart, LevelHistory_proofs, FiniteSetTheorems, FunctionTheorems

(***************************************************************************)
(* Thinning out.                                                           *)
(***************************************************************************)
LEMMA QuotientAndRest ==
  ASSUME NEW a \in Nat, NEW d \in Nat \ {0}
  PROVE  /\ a \div d \in Nat /\ a % d \in 0..(d - 1)
         /\ a = d * (a \div d) + (a % d)
  OBVIOUS

LEMMA ProductOrder ==
  ASSUME NEW d \in Nat, NEW a \in Nat, NEW b \in Nat, a <= b
  PROVE  d * a \in Nat /\ d * b \in Nat /\ d * a <= d * b
<1>1. PICK c \in Nat : b = a + c
  <2>1. b - a \in Nat /\ b = a + (b - a)
    OBVIOUS
  <2> QED
    BY <2>1
<1>2. d * a \in Nat /\ d * c \in Nat /\ d * b \in Nat
  OBVIOUS
<1>3. d * (a + c) = d * a + d * c
  OBVIOUS
<1> DEFINE da == d * a
           dc == d * c
<1>4. d * b = da + dc /\ da \in Nat /\ dc \in Nat
  BY <1>1, <1>2, <1>3
<1> HIDE DEF da, dc
<1>5. da <= d * b
  BY <1>4
<1> QED
  BY <1>2, <1>5 DEF da

\* Rounding keeps two quotients apart that are more than one apart: the even neighbour of
\* two halves is never taken by both.
LEMMA RoundKeepsApart ==
  ASSUME NEW a \in Nat, NEW b \in Nat, NEW d \in Nat \ {0}, b > a + d
  PROVE  Round(a, d) \in Nat /\ Round(b, d) \in Nat /\ Round(a, d) < Round(b, d)
<1> DEFINE qa == a \div d
           ra == a % d
           qb == b \div d
           rb == b % d
<1>1. /\ qa \in Nat /\ ra \in 0..(d - 1) /\ a = d * qa + ra
      /\ qb \in Nat /\ rb \in 0..(d - 1) /\ b = d * qb + rb
  BY QuotientAndRest
<1>2. /\ Round(a, d) = IF 2 * ra > d \/ (2 * ra = d /\ qa % 2 = 1) THEN qa + 1 ELSE qa
      /\ Round(b, d) = IF 2 * rb > d \/ (2 * rb = d /\ qb % 2 = 1) THEN qb + 1 ELSE qb
  BY DEF Round
<1> HIDE DEF qa, ra, qb, rb
<1>3. d \in Nat /\ d > 0
  OBVIOUS
<1>4. qb > qa
  <2> SUFFICES ASSUME qb <= qa PROVE FALSE
    BY <1>1
  <2>1. d * qb <= d * qa /\ d * qa \in Nat /\ d * qb \in Nat
    BY <1>1, <1>3, ProductOrder
  <2> QED
    BY <1>1, <1>3, <2>1
<1>5. qb = qa + 1 => rb > ra
  <2> SUFFICES ASSUME qb = qa + 1 PROVE rb > ra
    OBVIOUS
  <2>1. d * (qa + 1) = d * qa + d /\ d * qa \in Nat
    BY <1>1, <1>3
  <2> DEFINE p == d * qa
  <2>2. b = p + d + rb /\ a = p + ra /\ p \in Nat
    BY <1>1, <2>1
  <2> HIDE DEF p
  <2> QED
    BY <1>1, <1>3, <2>2
<1> QED
  BY <1>1, <1>2, <1>3, <1>4, <1>5

\* Slots of a spacing that is greater than one are rounded to different indexes.
LEMMA SlotsKeepApart ==
  ASSUME NEW n \in Nat, NEW max \in Nat, max >= 2, n > max,
         NEW i \in 0..(max - 1), NEW j \in 0..(max - 1), i < j
  PROVE  /\ Round(i * (n - 1), max - 1) \in Nat /\ Round(j * (n - 1), max - 1) \in Nat
         /\ Round(i * (n - 1), max - 1) < Round(j * (n - 1), max - 1)
<1> DEFINE last == n - 1
           d == max - 1
<1>1. last \in Nat /\ d \in Nat \ {0} /\ last > d /\ i \in Nat /\ j \in Nat
  OBVIOUS
<1>2. last * (i + 1) <= last * j /\ last * (i + 1) \in Nat /\ last * j \in Nat
  <2> HIDE DEF last
  <2> QED
    BY <1>1, ProductOrder
<1>3. last * (i + 1) = i * last + last /\ last * j = j * last /\ i * last \in Nat
  <2> HIDE DEF last
  <2> QED
    BY <1>1
<1> DEFINE a == i * last
           b == j * last
<1>4. a \in Nat /\ b \in Nat /\ b > a + d
  <2>1. a + last <= b /\ a \in Nat /\ b \in Nat
    BY <1>2, <1>3
  <2> HIDE DEF a, b, last, d
  <2> QED
    BY <1>1, <2>1
<1> HIDE DEF a, b, d
<1>5. Round(a, d) \in Nat /\ Round(b, d) \in Nat /\ Round(a, d) < Round(b, d)
  BY <1>1, <1>4, RoundKeepsApart
<1> QED
  BY <1>5 DEF a, b, d

\* The indexes chosen of n points, fewer than there are: as many as were asked for, with the
\* first and the last (_downsample).
THEOREM ChosenKeepsTheEnds ==
  ASSUME NEW n \in Nat, NEW max \in 2..(n - 1)
  PROVE  {0, n - 1} \subseteq Chosen(n, max) /\ Cardinality(Chosen(n, max)) = max
<1> DEFINE Slot == 0..(max - 1)
           index == [slot \in Slot |-> Round(slot * (n - 1), max - 1)]
<1>1. max \in Nat /\ max >= 2 /\ n > max /\ max - 1 \in Nat \ {0}
  OBVIOUS
<1>2. index \in Surjection(Slot, Chosen(n, max))
  <2>1. Chosen(n, max) = {index[slot] : slot \in Slot}
    BY DEF Chosen
  <2>2. index \in [Slot -> Chosen(n, max)]
    BY <2>1
  <2> HIDE DEF index, Slot
  <2> QED
    BY <2>1, <2>2, Fun_IsSurj
<1>3. index \in Injection(Slot, Chosen(n, max))
  <2>1. ASSUME NEW i \in Slot, NEW j \in Slot, i < j PROVE index[i] # index[j]
    <3>1. /\ Round(i * (n - 1), max - 1) \in Nat /\ Round(j * (n - 1), max - 1) \in Nat
          /\ Round(i * (n - 1), max - 1) < Round(j * (n - 1), max - 1)
      BY <1>1, <2>1, SlotsKeepApart
    <3> QED
      BY <3>1
  <2>2. \A i, j \in Slot : index[i] = index[j] => i = j
    <3> SUFFICES ASSUME NEW i \in Slot, NEW j \in Slot, index[i] = index[j], i # j PROVE FALSE
      OBVIOUS
    <3>1. i < j \/ j < i
      BY <1>1
    <3> QED
      BY <2>1, <3>1
  <2>3. index \in [Slot -> Chosen(n, max)]
    BY DEF Chosen
  <2> HIDE DEF index, Slot
  <2> QED
    BY <2>2, <2>3, Fun_IsInj
<1>4. Cardinality(Chosen(n, max)) = max
  <2>1. IsFiniteSet(Slot) /\ Cardinality(Slot) = max
    BY <1>1, FS_Interval
  <2> HIDE DEF index, Slot
  <2> QED
    BY <1>2, <1>3, <2>1, FS_Surjection
<1>5. 0 \in Chosen(n, max)
  <2>1. Round(0 * (n - 1), max - 1) = 0
    <3>1. 0 * (n - 1) = 0 /\ 0 \div (max - 1) = 0 /\ 0 % (max - 1) = 0
      BY <1>1
    <3> QED
      BY <1>1, <3>1 DEF Round
  <2>2. 0 \in Slot
    BY <1>1
  <2> QED
    BY <2>1, <2>2 DEF Chosen
<1>6. n - 1 \in Chosen(n, max)
  <2> DEFINE d == max - 1
             last == n - 1
  <2>1. Round(d * last, d) = last
    <3>0. d \in Nat \ {0} /\ last \in Nat
      BY <1>1
    <3> HIDE DEF d, last
    <3> DEFINE q == (d * last) \div d
               r == (d * last) % d
    <3>1. q \in Nat /\ r \in 0..(d - 1) /\ d * last = d * q + r /\ d * last \in Nat
      <4>1. d * last \in Nat
        BY <3>0
      <4> QED
        BY <3>0, <4>1, QuotientAndRest
    <3>2. Round(d * last, d) = IF 2 * r > d \/ (2 * r = d /\ q % 2 = 1) THEN q + 1 ELSE q
      BY DEF Round
    <3> HIDE DEF q, r
    <3>3. ~(q < last)
      <4> SUFFICES ASSUME q < last PROVE FALSE
        OBVIOUS
      <4>1. d * (q + 1) <= d * last
        BY <3>0, <3>1, ProductOrder
      <4>2. d * (q + 1) = d * q + d /\ d * q \in Nat
        BY <3>0, <3>1
      <4> QED
        BY <3>0, <3>1, <4>1, <4>2
    <3>4. ~(last < q)
      <4> SUFFICES ASSUME last < q PROVE FALSE
        OBVIOUS
      <4>1. d * (last + 1) <= d * q
        BY <3>0, <3>1, ProductOrder
      <4>2. d * (last + 1) = d * last + d /\ d * q \in Nat
        BY <3>0, <3>1
      <4> QED
        BY <3>0, <3>1, <4>1, <4>2
    <3>5. q = last
      BY <3>0, <3>1, <3>3, <3>4
    <3>6. r = 0
      <4> DEFINE p == d * last
      <4>1. p = p + r /\ p \in Nat
        BY <3>1, <3>5
      <4> HIDE DEF p
      <4> QED
        BY <3>0, <3>1, <4>1
    <3> QED
      BY <3>0, <3>2, <3>5, <3>6
  <2>2. d \in Slot
    BY <1>1
  <2> QED
    BY <2>1, <2>2 DEF Chosen
<1> QED
  BY <1>4, <1>5, <1>6

\* The thinning of every history that memory can hold.
THEOREM EveryThinningKeepsTheEnds == ChartSpec => []ThinningKeepsTheEnds
<1>1. ChartSpec => HistorySpec
  <2>1. ChartInit => HistoryInit
    BY DEF ChartInit
  <2>2. [ChartNext]_chartVars => [HistoryNext]_historyVars
    BY DEF ChartNext, ChartFetches, chartVars
  <2> QED
    BY <2>1, <2>2, PTL DEF ChartSpec, HistorySpec
<1>2. HistoryInv => ThinningKeepsTheEnds
  BY TypedLengths, ChosenKeepsTheEnds DEF HistoryInv, ThinningKeepsTheEnds
<1> QED
  BY <1>1, <1>2, HistoryInvariance, PTL

(***************************************************************************)
(* The page.  While the process stays up a revision names one history:     *)
(* each that is stored has a greater one than the page was ever given.     *)
(***************************************************************************)
ChartInv ==
  /\ revision \in Nat /\ running = TRUE
  /\ chart.revision \in Int /\ chart.revision <= revision
  /\ chart.revision = revision => chart.points = Downsampled(points, MaxPoints)

LEMMA ChartStep ==
  ASSUME "crash" \notin Fault, ChartInv, [ChartNext]_chartVars
  PROVE  ChartInv'
<1>1. CASE UNCHANGED <<points, revision, running, chart>>
  BY <1>1 DEF ChartInv
<1>2. CASE ChartFetches
  <2>1. chart'.revision = revision /\ chart'.points = Downsampled(points, MaxPoints)
    BY <1>2 DEF ChartFetches
  <2> QED
    BY <1>2, <2>1 DEF ChartFetches, historyVars, storeVars, ChartInv
<1>3. CASE /\ \E t \in TickTimes, level \in Sample : Record(t, level)
           /\ UNCHANGED chart
  <2>1. \/ UNCHANGED <<points, revision>>
        \/ revision' = revision + 1
    BY <1>3 DEF Record, Store, NextRevision, AppendFails, storeVars
  <2>2. running' = running
    BY <1>3 DEF Record
  <2>3. CASE UNCHANGED <<points, revision>>
    BY <1>1, <1>3, <2>2, <2>3
  <2>4. CASE revision' = revision + 1
    BY <1>3, <2>2, <2>4 DEF ChartInv
  <2> QED
    BY <2>1, <2>3, <2>4
<1>4. CASE Elapse /\ UNCHANGED chart
  BY <1>1, <1>4 DEF Elapse, storeVars
<1>5. CASE UNCHANGED chartVars
  BY <1>1, <1>5 DEF chartVars, historyVars, storeVars
<1> QED
  BY <1>2, <1>3, <1>4, <1>5 DEF ChartNext, HistoryNext

\* A page that holds the current revision shows the current points.  A restart counts its
\* revisions anew, from the number of points it loads: the theorem is about one life of the
\* process, as the run is (record, useTrasvaseData.ts).
THEOREM CurrentChartsAreRight ==
  ASSUME "crash" \notin Fault
  PROVE  ChartSpec => []CurrentChartIsRight
<1>1. ChartInit => ChartInv
  BY DEF ChartInit, HistoryInit, ChartInv, Never
<1>2. ChartInv /\ [ChartNext]_chartVars => ChartInv'
  BY ChartStep
<1>3. ChartInv => CurrentChartIsRight
  BY DEF ChartInv, CurrentChartIsRight
<1> QED
  BY <1>1, <1>2, <1>3, PTL DEF ChartSpec

====
