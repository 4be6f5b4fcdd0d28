---- MODULE LevelHistory_proofs ----
(***************************************************************************)
(* Proofs about LevelHistory, for every value of its constants.            *)
(***************************************************************************)
EXTENDS LevelHistory, SequenceTheorems, WellFoundedInduction, TLAPS

(***************************************************************************)
(* Trimming.                                                               *)
(***************************************************************************)

\* A set of natural numbers that is not empty has a least one, and Min is it.
LEMMA MinIsLeast ==
  ASSUME NEW S, S \subseteq Nat, S # {}
  PROVE  Min(S) \in S /\ \A y \in S : Min(S) <= y
<1>1. PICK x \in S : \A y \in S : <<y, x>> \notin OpToRel(<, Nat)
  BY NatLessThanWellFounded, WFMin
<1>2. \A y \in S : ~(y < x)
  BY <1>1 DEF OpToRel
<1>3. \A y \in S : x <= y
  BY <1>2
<1> QED
  BY <1>3 DEF Min

\* The last points of a sequence: `s` is what is left of `whole` without its first rows.
LastOf(s, whole) ==
  /\ Len(s) <= Len(whole)
  /\ s = SubSeq(whole, Len(whole) - Len(s) + 1, Len(whole))

\* What is left after the first `cut` points, point by point.
LEMMA LastPoints ==
  ASSUME NEW S, NEW s \in Seq(S), NEW cut \in 0..Len(s)
  PROVE  LET rest == SubSeq(s, cut + 1, Len(s))
         IN  /\ rest \in Seq(S) /\ Len(rest) = Len(s) - cut
             /\ \A i \in 1..(Len(s) - cut) : rest[i] = s[i + cut]
<1>1. cut + 1 \in 1..(Len(s) + 1) /\ Len(s) \in 0..Len(s)
  OBVIOUS
<1>2. \A i \in (cut + 1)..Len(s) : s[i] \in S
  OBVIOUS
<1> QED
  BY <1>1, <1>2, SubSeqProperties

\* _trim drops the points in front of the first one inside the window, all of them outside.
LEMMA TrimmedCutsTheFront ==
  ASSUME NEW S, NEW s \in Seq(S), \A i \in 1..Len(s) : s[i].at \in Int, NEW t \in Int
  PROVE  \E cut \in 0..Len(s) :
           /\ Trimmed(s, t) = SubSeq(s, cut + 1, Len(s))
           /\ \A i \in 1..cut : s[i].at + Retention < t
           /\ cut < Len(s) => s[cut + 1].at + Retention >= t
<1> DEFINE valid == {i \in 1..Len(s) : s[i].at >= t - Retention}
<1>0. DOMAIN s = 1..Len(s) /\ Len(s) \in Nat /\ Retention \in Int
  BY PeriodAssumption
<1>1. CASE valid = {}
  <2>1. Trimmed(s, t) = <<>>
    BY <1>0, <1>1 DEF Trimmed
  <2>2. SubSeq(s, Len(s) + 1, Len(s)) = <<>>
    BY <1>0
  <2>3. \A i \in 1..Len(s) : ~(s[i].at >= t - Retention)
    BY <1>1
  <2>4. \A i \in 1..Len(s) : s[i].at + Retention < t
    BY <1>0, <2>3
  <2> QED
    BY <1>0, <2>1, <2>2, <2>4
<1>2. CASE valid # {}
  <2>1. valid \subseteq Nat
    OBVIOUS
  <2>2. Min(valid) \in valid /\ \A i \in valid : Min(valid) <= i
    BY <1>2, <2>1, MinIsLeast
  <2>3. Trimmed(s, t) = SubSeq(s, Min(valid), Len(s))
    BY <1>0, <1>2 DEF Trimmed
  <2> DEFINE cut == Min(valid) - 1
  <2>4. cut \in 0..Len(s) /\ cut + 1 = Min(valid)
    BY <1>0, <2>2
  <2>5. \A i \in 1..cut : i \notin valid
    BY <2>2, <2>4
  <2>6. \A i \in 1..cut : s[i].at + Retention < t
    <3> SUFFICES ASSUME NEW i \in 1..cut PROVE s[i].at + Retention < t
      OBVIOUS
    <3>1. i \in 1..Len(s)
      BY <2>4, <1>0
    <3> QED
      BY <3>1, <2>5, <1>0
  <2>7. s[cut + 1].at + Retention >= t
    BY <1>0, <2>2, <2>4
  <2> QED
    BY <2>3, <2>4, <2>6, <2>7
<1> QED
  BY <1>1, <1>2

(***************************************************************************)
(* The invariant.  Once every line of the file is whole, the points in     *)
(* memory are its last rows, and the lines in front of them have left the  *)
(* window.  A line that a failed write has spoiled stays spoiled until the *)
(* file is written anew.  Of a process that died, the points are the rows  *)
(* from some line on, up to one more row, that of the sample it was        *)
(* storing; the points before those rows, which a compaction dropped, and  *)
(* the lines before them have left the window.                             *)
(***************************************************************************)

HistoryTyped ==
  /\ now \in Time /\ running \in BOOLEAN
  /\ lastSample \in Time \union {Never} /\ compactedAt \in Time
  /\ csv \in Seq(Line) /\ points \in Seq(Point)

PointsAreRows ==
  /\ Len(points) <= Len(csv)
  /\ \A i \in 1..Len(points) : points[i] = Read(csv[i + (Len(csv) - Len(points))])

StaleLeftTheWindow == \A i \in Stale : csv[i].at + Retention < now

\* Point i is row i + d, and `extra` rows follow the last one.
Aligned(d, extra) ==
  /\ Len(csv) = Len(points) + d + extra
  /\ \A i \in 1..Len(points) : i + d >= 1 => points[i] = Read(csv[i + d])
  /\ \A i \in 1..Len(points) : i + d < 1 => points[i].at + Retention < now
  /\ \A i \in 1..d : csv[i].at + Retention < now

PointsAreAligned == \E d \in Int, extra \in {0, 1} : Aligned(d, extra)

HistoryInv ==
  /\ HistoryTyped
  /\ running /\ AllWhole => PointsAreRows /\ StaleLeftTheWindow
  /\ ~running /\ AllWhole => PointsAreAligned

LEMMA TimeIsNatural == Time \subseteq Nat /\ \A t \in Time : t <= LastMoment
  BY PeriodAssumption DEF Time

LEMMA TypedLengths ==
  ASSUME HistoryTyped
  PROVE  /\ Len(csv) \in Nat /\ DOMAIN csv = 1..Len(csv)
         /\ Len(points) \in Nat /\ DOMAIN points = 1..Len(points)
         /\ \A i \in 1..Len(csv) : csv[i] \in Line /\ csv[i].at \in Nat
         /\ \A i \in 1..Len(points) : points[i] \in Point /\ points[i].at \in Nat
         /\ now \in Nat /\ compactedAt \in Nat
<1>1. /\ \A i \in 1..Len(csv) : csv[i] \in Line
      /\ \A i \in 1..Len(points) : points[i] \in Point
  BY DEF HistoryTyped
<1>2. /\ \A l \in Line : l.at \in Time
      /\ \A p \in Point : p.at \in Time
  BY DEF Line, Point
<1>3. /\ Len(csv) \in Nat /\ DOMAIN csv = 1..Len(csv)
      /\ Len(points) \in Nat /\ DOMAIN points = 1..Len(points)
  BY DEF HistoryTyped
<1>4. now \in Nat /\ compactedAt \in Nat
  BY TimeIsNatural DEF HistoryTyped
<1>5. \A i \in 1..Len(csv) : csv[i] \in Line /\ csv[i].at \in Nat
  BY <1>1, <1>2, TimeIsNatural
<1>6. \A i \in 1..Len(points) : points[i] \in Point /\ points[i].at \in Nat
  BY <1>1, <1>2, TimeIsNatural
<1> QED
  BY <1>3, <1>4, <1>5, <1>6

\* The rows that are read back from a file.
LEMMA RowsOfLines ==
  ASSUME HistoryTyped
  PROVE  /\ Rows(csv) \in Seq([at : Time, level : Sample \union {Unreadable}])
         /\ Len(Rows(csv)) = Len(csv)
         /\ \A i \in 1..Len(csv) : Rows(csv)[i] = Read(csv[i])
         /\ IsReadable => Rows(csv) \in Seq(Point)
<1>1. Rows(csv) = [i \in 1..Len(csv) |-> Read(csv[i])] /\ Len(csv) \in Nat
  BY TypedLengths DEF Rows
<1>2. \A i \in 1..Len(csv) : Read(csv[i]) \in [at : Time, level : Sample \union {Unreadable}]
  BY TypedLengths DEF Line, Read
<1>3. IsReadable => \A i \in 1..Len(csv) : Read(csv[i]) \in Point
  BY TypedLengths, <1>2 DEF IsReadable, Read, Point
<1> QED
  BY <1>1, <1>2, <1>3

\* The points are the last rows of the file, said of the sequences.
LEMMA PointsAreTheLastRows ==
  ASSUME HistoryTyped, PointsAreRows
  PROVE  LastOf(points, Rows(csv))
<1> DEFINE cut == Len(csv) - Len(points)
           rows == Rows(csv)
           rest == SubSeq(rows, cut + 1, Len(rows))
<1>1. cut \in 0..Len(rows) /\ Len(rows) = Len(csv)
  BY TypedLengths, RowsOfLines DEF PointsAreRows
<1>2. /\ rest \in Seq([at : Time, level : Sample \union {Unreadable}])
      /\ Len(rest) = Len(points)
      /\ \A i \in 1..Len(points) : rest[i] = rows[i + cut]
  <2>1. rows \in Seq([at : Time, level : Sample \union {Unreadable}])
    BY RowsOfLines
  <2>2. Len(rows) - cut = Len(points)
    BY <1>1, TypedLengths
  <2> HIDE DEF rows, cut
  <2> QED
    BY <1>1, <2>1, <2>2, LastPoints
<1>3. \A i \in 1..Len(points) : rest[i] = points[i]
  <2> SUFFICES ASSUME NEW i \in 1..Len(points) PROVE rest[i] = points[i]
    OBVIOUS
  <2>1. i + cut \in 1..Len(csv)
    BY TypedLengths, <1>1
  <2> QED
    BY <1>2, <2>1, RowsOfLines DEF PointsAreRows
<1>4. rest = points
  <2> HIDE DEF rest
  <2> QED
    BY <1>2, <1>3, TypedLengths, SeqEqual DEF HistoryTyped
<1> QED
  BY <1>1, <1>4 DEF LastOf, PointsAreRows

\* A whole file that an append leaves is the whole file before it, one row longer.
LEMMA AppendingAPoint ==
  ASSUME HistoryTyped, NEW point \in Point, NEW file \in Appended(point)
  PROVE  /\ file \in Seq(Line)
         /\ (\A i \in DOMAIN file : file[i].kind = "whole") =>
              AllWhole /\ file = Append(csv, Written(point))
<1>1. CASE EndsTorn
  <2>1. PICK l \in Sample \union {Unreadable} :
          file = [csv EXCEPT ![Len(csv)] = [at |-> csv[Len(csv)].at, level |-> l,
                                            kind |-> "glued"]]
    BY <1>1 DEF Appended
  <2>2. Len(csv) \in 1..Len(csv)
    BY <1>1, TypedLengths DEF EndsTorn, HistoryTyped
  <2>3. [at |-> csv[Len(csv)].at, level |-> l, kind |-> "glued"] \in Line
    <3>1. csv[Len(csv)] \in Line
      BY <2>2, TypedLengths
    <3> QED
      BY <3>1 DEF Line
  <2>4. file \in Seq(Line)
    BY <2>1, <2>2, <2>3, ExceptSeq DEF HistoryTyped
  <2>5. DOMAIN file = 1..Len(csv) /\ file[Len(csv)].kind = "glued"
    BY <2>1, <2>2, TypedLengths
  <2> QED
    BY <2>2, <2>4, <2>5
<1>2. CASE ~EndsTorn
  <2>1. file = Append(csv, Written(point)) /\ Written(point) \in Line
    BY <1>2 DEF Appended, Written, Line, Point
  <2>2. file \in Seq(Line) /\ DOMAIN file = 1..(Len(csv) + 1)
    BY <2>1, AppendProperties, TypedLengths DEF HistoryTyped
  <2>3. \A i \in 1..Len(csv) : file[i] = csv[i]
    BY <2>1, AppendProperties, TypedLengths DEF HistoryTyped
  <2> QED
    BY <2>1, <2>2, <2>3, TypedLengths DEF AllWhole
<1> QED
  BY <1>1, <1>2

\* A whole file that an append cut short leaves is the file before it.
LEMMA CuttingAnAppendShort ==
  ASSUME HistoryTyped, NEW point \in Point, NEW file \in CutShort(point)
  PROVE  /\ file \in Seq(Line)
         /\ (\A i \in DOMAIN file : file[i].kind = "whole") => file = csv
<1>1. CASE file = csv
  BY <1>1 DEF HistoryTyped
<1>2. CASE file # csv /\ EndsTorn
  <2>1. PICK l \in Sample \union {Unreadable} : file = [csv EXCEPT ![Len(csv)].level = l]
    BY <1>2 DEF CutShort
  <2>2. Len(csv) \in 1..Len(csv) /\ csv[Len(csv)].kind = "torn"
    BY <1>2, TypedLengths DEF EndsTorn, HistoryTyped
  <2>3. csv[Len(csv)] \in Line
    BY <2>2, TypedLengths
  <2> DEFINE spoiled == [csv[Len(csv)] EXCEPT !.level = l]
  <2>4. spoiled \in Line /\ spoiled.kind = "torn"
    BY <2>2, <2>3 DEF Line
  <2>5. file = [csv EXCEPT ![Len(csv)] = spoiled]
    BY <2>1
  <2> HIDE DEF spoiled
  <2>6. file \in Seq(Line)
    BY <2>2, <2>4, <2>5, ExceptSeq DEF HistoryTyped
  <2>7. DOMAIN file = 1..Len(csv) /\ file[Len(csv)].kind = "torn"
    BY <2>2, <2>4, <2>5, TypedLengths
  <2> QED
    BY <2>2, <2>6, <2>7
<1>3. CASE file # csv /\ ~EndsTorn
  <2>1. PICK l \in Sample \union {Unreadable} :
          file = Append(csv, [at |-> point.at, level |-> l, kind |-> "torn"])
    BY <1>3 DEF CutShort
  <2> DEFINE line == [at |-> point.at, level |-> l, kind |-> "torn"]
  <2>2. line \in Line /\ line.kind = "torn"
    BY DEF Line, Point
  <2> HIDE DEF line
  <2>3. /\ file \in Seq(Line) /\ DOMAIN file = 1..(Len(csv) + 1)
        /\ file[Len(csv) + 1] = line
    <3>1. file = Append(csv, line)
      BY <2>1 DEF line
    <3> QED
      BY <3>1, <2>2, AppendProperties, TypedLengths DEF HistoryTyped
  <2>4. Len(csv) + 1 \in DOMAIN file
    BY <2>3, TypedLengths
  <2> QED
    BY <2>2, <2>3, <2>4
<1> QED
  BY <1>1, <1>2, <1>3

(***************************************************************************)
(* The steps keep it.                                                      *)
(***************************************************************************)

\* Trimming leaves points.
LEMMA TrimmedPoints ==
  ASSUME NEW s \in Seq(Point), NEW t \in Time
  PROVE  \E cut \in 0..Len(s) :
           /\ Trimmed(s, t) \in Seq(Point)
           /\ Len(Trimmed(s, t)) = Len(s) - cut
           /\ \A i \in 1..(Len(s) - cut) : Trimmed(s, t)[i] = s[i + cut]
           /\ \A i \in 1..cut : s[i].at + Retention < t
           /\ cut < Len(s) => s[cut + 1].at + Retention >= t
<1>1. \A i \in 1..Len(s) : s[i].at \in Int
  <2>1. \A p \in Point : p.at \in Time
    BY DEF Point
  <2>2. \A i \in 1..Len(s) : s[i] \in Point
    OBVIOUS
  <2>3. \A x \in Time : x \in Int
    BY TimeIsNatural
  <2> QED
    BY <2>1, <2>2, <2>3
<1>2. t \in Int
  BY TimeIsNatural
<1>3. PICK cut \in 0..Len(s) :
        /\ Trimmed(s, t) = SubSeq(s, cut + 1, Len(s))
        /\ \A i \in 1..cut : s[i].at + Retention < t
        /\ cut < Len(s) => s[cut + 1].at + Retention >= t
  BY <1>1, <1>2, TrimmedCutsTheFront
<1>4. LET rest == SubSeq(s, cut + 1, Len(s))
      IN  /\ rest \in Seq(Point) /\ Len(rest) = Len(s) - cut
          /\ \A i \in 1..(Len(s) - cut) : rest[i] = s[i + cut]
  BY LastPoints
<1> QED
  BY <1>3, <1>4

\* The file that a compaction writes holds the points.
LEMMA RewritingThePoints ==
  ASSUME NEW s \in Seq(Point)
  PROVE  /\ Rewritten(s) \in Seq(Line) /\ Len(Rewritten(s)) = Len(s)
         /\ \A i \in 1..Len(s) : s[i] = Read(Rewritten(s)[i])
<1>1. DOMAIN s = 1..Len(s) /\ Len(s) \in Nat /\ \A i \in 1..Len(s) : s[i] \in Point
  OBVIOUS
<1>2. \A p \in Point : Written(p) \in Line /\ Read(Written(p)) = p
  BY DEF Written, Read, Point, Line
<1>3. Rewritten(s) = [i \in 1..Len(s) |-> Written(s[i])]
  BY <1>1 DEF Rewritten
<1> QED
  BY <1>1, <1>2, <1>3

\* A row appended to a whole file and a point appended to its last rows, trimmed: the
\* lines that memory drops with it have left the window.
LEMMA StoringAPoint ==
  ASSUME HistoryTyped, PointsAreRows, NEW point \in Point,
         csv' = Append(csv, Written(point)),
         points' = Trimmed(Append(points, point), point.at)
  PROVE  /\ PointsAreRows'
         /\ \A i \in Stale' :
              \/ i \in Stale /\ csv'[i] = csv[i]
              \/ csv'[i].at + Retention < point.at /\ Removes(points')
<1> DEFINE more == Append(points, point)
           ahead == Len(csv) - Len(points)
<1>1. /\ Len(csv) \in Nat /\ Len(points) \in Nat
      /\ ahead \in Nat /\ Len(csv) = Len(points) + ahead
  BY TypedLengths DEF PointsAreRows
<1>2. /\ more \in Seq(Point) /\ Len(more) = Len(points) + 1
      /\ more[Len(points) + 1] = point
      /\ \A i \in 1..Len(points) : more[i] = points[i]
  BY AppendProperties, TypedLengths DEF HistoryTyped
<1>3. /\ Len(csv') = Len(csv) + 1 /\ csv'[Len(csv) + 1] = Written(point)
      /\ \A i \in 1..Len(csv) : csv'[i] = csv[i]
  <2>1. Written(point) \in Line
    BY DEF Written, Line, Point
  <2> QED
    BY <2>1, AppendProperties, TypedLengths DEF HistoryTyped
<1>4. \A i \in 1..(Len(points) + 1) : more[i] = Read(csv'[i + ahead])
  <2> SUFFICES ASSUME NEW i \in 1..(Len(points) + 1) PROVE more[i] = Read(csv'[i + ahead])
    OBVIOUS
  <2>1. CASE i \in 1..Len(points)
    <3>1. points[i] = Read(csv[i + ahead]) /\ i + ahead \in 1..Len(csv)
      BY <1>1, <2>1 DEF PointsAreRows
    <3> QED
      BY <1>2, <1>3, <2>1, <3>1
  <2>2. CASE i = Len(points) + 1
    <3>1. i + ahead = Len(csv) + 1
      BY <1>1, <2>2
    <3>2. Read(Written(point)) = point
      BY DEF Read, Written, Point
    <3> QED
      BY <1>2, <1>3, <2>2, <3>1, <3>2
  <2> QED
    BY <1>1, <2>1, <2>2
<1>5. point.at \in Time
  BY DEF Point
<1> HIDE DEF more, ahead
<1>6. PICK cut \in 0..Len(more) :
        /\ Len(points') = Len(more) - cut
        /\ \A i \in 1..(Len(more) - cut) : points'[i] = more[i + cut]
        /\ \A i \in 1..cut : more[i].at + Retention < point.at
  <2>1. points' = Trimmed(more, point.at)
    BY DEF more
  <2>2. PICK cut \in 0..Len(more) :
          /\ Trimmed(more, point.at) \in Seq(Point)
          /\ Len(Trimmed(more, point.at)) = Len(more) - cut
          /\ \A i \in 1..(Len(more) - cut) : Trimmed(more, point.at)[i] = more[i + cut]
          /\ \A i \in 1..cut : more[i].at + Retention < point.at
          /\ cut < Len(more) => more[cut + 1].at + Retention >= point.at
    BY <1>2, <1>5, TrimmedPoints
  <2> QED
    BY <2>1, <2>2
<1>7. /\ Len(points') = Len(points) + 1 - cut /\ cut \in 0..(Len(points) + 1)
      /\ Len(csv') - Len(points') = ahead + cut
  BY <1>1, <1>2, <1>3, <1>6
<1>8. PointsAreRows'
  <2>1. Len(points') <= Len(csv')
    BY <1>1, <1>3, <1>7
  <2>2. \A i \in 1..Len(points') : points'[i] = Read(csv'[i + (Len(csv') - Len(points'))])
    <3> SUFFICES ASSUME NEW i \in 1..Len(points')
                 PROVE  points'[i] = Read(csv'[i + (Len(csv') - Len(points'))])
      OBVIOUS
    <3>1. i + cut \in 1..(Len(points) + 1) /\ i \in 1..(Len(more) - cut)
      BY <1>1, <1>2, <1>7
    <3>2. points'[i] = Read(csv'[(i + cut) + ahead])
      BY <1>4, <1>6, <3>1
    <3>3. (i + cut) + ahead = i + (Len(csv') - Len(points'))
      BY <1>1, <1>7
    <3> QED
      BY <3>2, <3>3
  <2> QED
    BY <2>1, <2>2 DEF PointsAreRows
<1>9. ASSUME NEW i \in Stale'
      PROVE  \/ i \in Stale /\ csv'[i] = csv[i]
             \/ csv'[i].at + Retention < point.at /\ Removes(points')
  <2>1. i \in 1..(ahead + cut)
    BY <1>7, <1>9 DEF Stale
  <2>2. CASE i \in 1..ahead
    <3>1. i \in Stale /\ i \in 1..Len(csv)
      BY <1>1, <2>2 DEF Stale, ahead
    <3> QED
      BY <1>3, <3>1
  <2>3. CASE i \notin 1..ahead
    <3>1. i - ahead \in 1..cut /\ i - ahead \in 1..(Len(points) + 1) /\ (i - ahead) + ahead = i
      BY <1>1, <1>7, <2>1, <2>3
    <3>2. more[i - ahead] = Read(csv'[i])
      BY <1>4, <3>1
    <3>3. more[i - ahead].at + Retention < point.at
      BY <1>6, <3>1
    <3>4. more[i - ahead].at = csv'[i].at
      <4>1. Read(csv'[i]).at = csv'[i].at
        BY DEF Read
      <4> QED
        BY <3>2, <4>1
    <3>5. cut > 0
      BY <1>7, <3>1
    <3>6. Removes(points')
      BY <1>1, <1>7, <3>5 DEF Removes
    <3> QED
      BY <3>3, <3>4, <3>6
  <2> QED
    BY <2>2, <2>3
<1> QED
  BY <1>8, <1>9

\* What record() keeps, and with it what happens in it when the process dies.
LEMMA RecordKeepsHistory ==
  ASSUME HistoryInv, NEW t \in TickTimes, NEW level \in Sample, Record(t, level)
  PROVE  HistoryInv'
<1> DEFINE point == [at |-> t, level |-> level]
<1>1. running /\ now' = now /\ running' = running
  BY DEF Record
<1>2. t \in Time /\ t \in Nat /\ t <= now /\ point \in Point
  BY TimeIsNatural DEF TickTimes, Point
<1>3. HistoryTyped /\ now \in Time
  BY DEF HistoryInv, HistoryTyped
<1>4. CASE ~IsDue
  <2>1. UNCHANGED <<csv, points, lastSample, compactedAt>>
    BY <1>4 DEF Record, storeVars
  <2> QED
    BY <1>1, <2>1 DEF HistoryInv, HistoryTyped, AllWhole, PointsAreRows, StaleLeftTheWindow,
         Stale
<1>5. CASE AppendFails(point)
  <2>1. csv' \in CutShort(point) /\ UNCHANGED <<points, lastSample, compactedAt>>
    BY <1>5 DEF AppendFails, storeVars
  <2> HIDE DEF point
  <2>2. csv' \in Seq(Line) /\ (AllWhole' => csv' = csv)
    BY <1>2, <1>3, <2>1, CuttingAnAppendShort DEF AllWhole
  <2> QED
    BY <1>1, <2>1, <2>2 DEF HistoryInv, HistoryTyped, AllWhole, PointsAreRows,
         StaleLeftTheWindow, Stale
<1>6. CASE Store(point)
  <2> HIDE DEF point
  <2>1. /\ points' = Trimmed(Append(points, point), point.at) /\ lastSample' = now
        /\ \/ Compact(points')
           \/ csv' \in Appended(point) /\ UNCHANGED compactedAt
    BY <1>6 DEF Store
  <2>2. points' \in Seq(Point)
    <3>1. Append(points, point) \in Seq(Point) /\ point.at \in Time
      BY <1>2, <1>3, AppendProperties DEF HistoryTyped, Point
    <3> QED
      BY <2>1, <3>1, TrimmedPoints
  <2>3. CASE Compact(points')
    <3>1. csv' = Rewritten(points') /\ compactedAt' = now
      BY <2>3 DEF Compact
    <3>2. HistoryTyped'
      BY <1>1, <1>3, <2>1, <2>2, <3>1, RewritingThePoints DEF HistoryTyped
    <3>3. Len(csv') = Len(points') /\ \A i \in 1..Len(points') : points'[i] = Read(csv'[i])
      BY <2>2, <3>1, RewritingThePoints
    <3>4. PointsAreRows' /\ StaleLeftTheWindow'
      <4>1. Len(points') \in Nat
        BY <2>2
      <4> QED
        BY <3>3, <4>1 DEF PointsAreRows, StaleLeftTheWindow, Stale
    <3> QED
      BY <1>1, <3>2, <3>4 DEF HistoryInv
  <2>4. CASE csv' \in Appended(point) /\ UNCHANGED compactedAt
    <3>1. csv' \in Seq(Line) /\ (AllWhole' => AllWhole /\ csv' = Append(csv, Written(point)))
      BY <1>2, <1>3, <2>4, AppendingAPoint DEF AllWhole
    <3>2. HistoryTyped'
      BY <1>1, <1>3, <2>1, <2>2, <2>4, <3>1 DEF HistoryTyped
    <3>3. ASSUME AllWhole' PROVE PointsAreRows' /\ StaleLeftTheWindow'
      <4>1. /\ PointsAreRows /\ StaleLeftTheWindow
            /\ csv' = Append(csv, Written(point))
        BY <1>1, <3>1, <3>3 DEF HistoryInv
      <4>2. /\ PointsAreRows'
            /\ \A i \in Stale' :
                 \/ i \in Stale /\ csv'[i] = csv[i]
                 \/ csv'[i].at + Retention < point.at /\ Removes(points')
        BY <1>2, <1>3, <2>1, <4>1, StoringAPoint
      <4>3. ASSUME NEW i \in Stale' PROVE csv'[i].at + Retention < now'
        <5>1. CASE i \in Stale /\ csv'[i] = csv[i]
          BY <1>1, <4>1, <5>1 DEF StaleLeftTheWindow
        <5>2. CASE csv'[i].at + Retention < point.at
          <6>1. /\ csv'[i].at \in Nat
                /\ point.at \in Nat /\ point.at <= now /\ now \in Nat /\ Retention \in Nat
            <7>1. i \in 1..Len(csv')
              <8>1. Len(csv') \in Nat /\ Len(points') \in Nat
                BY <3>1, <2>2
              <8> QED
                BY <4>3, <8>1 DEF Stale
            <7>2. csv'[i] \in Line
              BY <3>1, <7>1
            <7>3. csv'[i].at \in Time
              BY <7>2 DEF Line
            <7> QED
              BY <1>2, <1>3, <7>3, TimeIsNatural, PeriodAssumption DEF point
          <6> QED
            BY <1>1, <5>2, <6>1
        <5> QED
          BY <4>2, <5>1, <5>2
      <4> QED
        BY <4>2, <4>3 DEF StaleLeftTheWindow
    <3> QED
      BY <1>1, <3>2, <3>3 DEF HistoryInv
  <2> QED
    BY <2>1, <2>3, <2>4
<1> QED
  BY <1>4, <1>5, <1>6 DEF Record

\* The points of a process that is up are aligned with the last rows.
LEMMA RunningIsAligned ==
  ASSUME HistoryTyped, PointsAreRows, StaleLeftTheWindow
  PROVE  PointsAreAligned /\ \E d \in Int : Aligned(d, 0)
<1>1. Len(csv) \in Nat /\ Len(points) \in Nat /\ Len(points) <= Len(csv)
  BY TypedLengths DEF PointsAreRows
<1>2. PICK d \in Int : d = Len(csv) - Len(points)
  BY <1>1
<1>3. Len(csv) = Len(points) + d + 0 /\ \A i \in 1..Len(points) : ~(i + d < 1)
  BY <1>1, <1>2
<1>4. Aligned(d, 0)
  BY <1>2, <1>3 DEF Aligned, PointsAreRows, StaleLeftTheWindow, Stale
<1> QED
  BY <1>2, <1>4 DEF PointsAreAligned

LEMMA HistoryIsAligned == HistoryInv /\ AllWhole => PointsAreAligned
  BY RunningIsAligned DEF HistoryInv, HistoryTyped

\* Points stay aligned while time passes.
LEMMA LaterIsAligned ==
  ASSUME HistoryTyped, NEW d \in Int, NEW extra \in {0, 1}, Aligned(d, extra),
         now' = now \/ now' = now + 1, UNCHANGED <<csv, points>>
  PROVE  Aligned(d, extra)'
<1>1. /\ Len(csv) \in Nat /\ Len(points) \in Nat /\ now \in Nat /\ Retention \in Nat
      /\ \A i \in 1..Len(csv) : csv[i].at \in Nat
      /\ \A i \in 1..Len(points) : points[i].at \in Nat
  BY TypedLengths, PeriodAssumption
<1>2. Len(csv) = Len(points) + d + extra
  BY DEF Aligned
<1>3. ASSUME NEW i \in 1..d PROVE csv[i].at + Retention < now'
  <2>1. i \in 1..Len(csv)
    BY <1>1, <1>2
  <2>2. csv[i].at + Retention < now /\ csv[i].at \in Nat
    BY <1>1, <2>1 DEF Aligned
  <2> QED
    BY <1>1, <2>2
<1>4. ASSUME NEW i \in 1..Len(points), i + d < 1 PROVE points[i].at + Retention < now'
  <2>1. points[i].at + Retention < now /\ points[i].at \in Nat
    BY <1>1, <1>4 DEF Aligned
  <2> QED
    BY <1>1, <2>1
<1> QED
  BY <1>3, <1>4 DEF Aligned

\* With the row of a sample in the file and the sample not in memory, points are aligned.
LEMMA AppendedIsAligned ==
  ASSUME HistoryTyped, PointsAreRows, StaleLeftTheWindow, NEW point \in Point,
         csv' = Append(csv, Written(point)), UNCHANGED <<now, points>>
  PROVE  PointsAreAligned'
<1>1. Len(csv) \in Nat /\ Len(points) \in Nat /\ Len(points) <= Len(csv)
  BY TypedLengths DEF PointsAreRows
<1>2. /\ Len(csv') = Len(csv) + 1
      /\ \A i \in 1..Len(csv) : csv'[i] = csv[i]
  <2>1. Written(point) \in Line
    BY DEF Written, Line, Point
  <2> QED
    BY <2>1, AppendProperties, TypedLengths DEF HistoryTyped
<1>3. PICK d \in Nat : d = Len(csv) - Len(points) /\ d <= Len(csv) /\ Len(csv) = Len(points) + d
  BY <1>1
<1>4. \A i \in 1..Len(points) : i + d >= 1 /\ i + d \in 1..Len(csv)
  BY <1>1, <1>3
<1>5. \A i \in 1..Len(points) : points[i] = Read(csv[i + d])
  BY <1>3 DEF PointsAreRows
<1>6. \A i \in 1..d : i \in 1..Len(csv) /\ csv[i].at + Retention < now
  BY <1>1, <1>3 DEF StaleLeftTheWindow, Stale
<1>7. Len(csv') = Len(points) + d + 1
  BY <1>1, <1>2, <1>3
<1>8. \A i \in 1..Len(points) : points[i] = Read(csv'[i + d])
  BY <1>2, <1>4, <1>5
<1>9. \A i \in 1..d : csv'[i].at + Retention < now
  BY <1>2, <1>6
<1>10. Aligned(d, 1)'
  BY <1>4, <1>7, <1>8, <1>9 DEF Aligned
<1> QED
  BY <1>10 DEF PointsAreAligned

\* With the file compacted and nothing of it in memory, they are too.
LEMMA CompactedIsAligned ==
  ASSUME HistoryTyped, NEW point \in Point, point.at <= now,
         csv' = Rewritten(Trimmed(Append(points, point), point.at)), UNCHANGED <<now, points>>
  PROVE  csv' \in Seq(Line) /\ PointsAreAligned'
<1> DEFINE more == Append(points, point)
<1>1. /\ Len(points) \in Nat /\ now \in Nat /\ Retention \in Nat
      /\ point.at \in Time /\ point.at \in Nat
      /\ \A i \in 1..Len(points) : points[i].at \in Nat
  BY TypedLengths, TimeIsNatural, PeriodAssumption DEF Point
<1>2. /\ more \in Seq(Point) /\ Len(more) = Len(points) + 1
      /\ \A i \in 1..Len(points) : more[i] = points[i]
  BY AppendProperties, TypedLengths DEF HistoryTyped
<1> HIDE DEF more
<1>3. PICK cut \in 0..Len(more) :
        /\ Trimmed(more, point.at) \in Seq(Point)
        /\ Len(Trimmed(more, point.at)) = Len(more) - cut
        /\ \A i \in 1..(Len(more) - cut) : Trimmed(more, point.at)[i] = more[i + cut]
        /\ \A i \in 1..cut : more[i].at + Retention < point.at
        /\ cut < Len(more) => more[cut + 1].at + Retention >= point.at
  BY <1>1, <1>2, TrimmedPoints
<1> DEFINE kept == Trimmed(more, point.at)
<1>4. csv' = Rewritten(kept)
  BY DEF more
<1>5. kept \in Seq(Point) /\ Len(kept) = Len(more) - cut
  BY <1>3
<1>6. \A i \in 1..(Len(more) - cut) : kept[i] = more[i + cut]
  BY <1>3
<1> HIDE DEF kept
<1>7. /\ csv' \in Seq(Line) /\ Len(csv') = Len(kept)
      /\ \A i \in 1..Len(kept) : kept[i] = Read(csv'[i])
  BY <1>4, <1>5, RewritingThePoints
<1>8. PICK d \in Int : d = 0 - cut
  OBVIOUS
<1>9. Len(csv') = Len(points') + d + 1
  BY <1>1, <1>2, <1>5, <1>7, <1>8
<1>10. ASSUME NEW i \in 1..Len(points), i + d >= 1 PROVE points[i] = Read(csv'[i + d])
  <2>1. i + d \in 1..(Len(more) - cut) /\ (i + d) + cut = i
    BY <1>1, <1>2, <1>8, <1>10
  <2>2. kept[i + d] = points[i]
    BY <1>2, <1>6, <2>1
  <2> QED
    BY <1>5, <1>7, <2>1, <2>2
<1>11. ASSUME NEW i \in 1..Len(points), i + d < 1 PROVE points[i].at + Retention < now
  <2>1. i \in 1..cut
    BY <1>1, <1>8, <1>11
  <2>2. points[i].at + Retention < point.at
    BY <1>2, <1>3, <2>1
  <2> QED
    BY <1>1, <2>2
<1>12. 1..d = {}
  BY <1>8
<1>13. Aligned(d, 1)'
  BY <1>9, <1>10, <1>11, <1>12 DEF Aligned
<1> QED
  BY <1>7, <1>13 DEF PointsAreAligned

LEMMA DyingKeepsHistory ==
  ASSUME HistoryInv, NEW t \in TickTimes, NEW level \in Sample, DieRecording(t, level)
  PROVE  HistoryInv'
<1> DEFINE point == [at |-> t, level |-> level]
<1>1. /\ \/ csv' \in {csv} \union Appended(point)
         \/ csv' \in CutShort(point)
         \/ csv' = Rewritten(Trimmed(Append(points, point), point.at))
      /\ running /\ running' = FALSE /\ UNCHANGED <<now, points, lastSample, compactedAt>>
  BY DEF DieRecording, Replaced, storeVars
<1>2. /\ point \in Point /\ HistoryTyped /\ point.at <= now
      /\ AllWhole => PointsAreRows /\ StaleLeftTheWindow
  BY <1>1 DEF TickTimes, Point, HistoryInv
<1> HIDE DEF point
<1>3. CASE csv' = csv \/ csv' \in CutShort(point)
  <2>1. csv' \in Seq(Line) /\ (AllWhole' => csv' = csv)
    BY <1>2, <1>3, CuttingAnAppendShort DEF AllWhole, HistoryTyped
  <2>2. ASSUME AllWhole' PROVE PointsAreAligned'
    <3>1. csv' = csv /\ AllWhole
      BY <2>1, <2>2 DEF AllWhole
    <3>2. PICK d \in Int, extra \in {0, 1} : Aligned(d, extra)
      BY <1>2, <3>1, RunningIsAligned DEF PointsAreAligned
    <3>3. Aligned(d, extra)'
      BY <1>1, <1>2, <3>1, <3>2, LaterIsAligned
    <3> QED
      BY <3>3 DEF PointsAreAligned
  <2> QED
    BY <1>1, <1>2, <2>1, <2>2 DEF HistoryInv, HistoryTyped
<1>4. CASE csv' \in Appended(point)
  <2>1. csv' \in Seq(Line) /\ (AllWhole' => AllWhole /\ csv' = Append(csv, Written(point)))
    BY <1>2, <1>4, AppendingAPoint DEF AllWhole
  <2>2. AllWhole' => PointsAreAligned'
    BY <1>1, <1>2, <2>1, AppendedIsAligned
  <2> QED
    BY <1>1, <1>2, <2>1, <2>2 DEF HistoryInv, HistoryTyped
<1>5. CASE csv' = Rewritten(Trimmed(Append(points, point), point.at))
  <2>1. csv' \in Seq(Line) /\ PointsAreAligned'
    BY <1>1, <1>2, <1>5, CompactedIsAligned
  <2> QED
    BY <1>1, <1>2, <2>1 DEF HistoryInv, HistoryTyped
<1> QED
  BY <1>1, <1>3, <1>4, <1>5

LEMMA ElapsingKeepsHistory ==
  ASSUME HistoryInv, Elapse
  PROVE  HistoryInv'
<1>1. /\ now' = now + 1 /\ now' \in Time /\ now \in Nat
      /\ UNCHANGED <<csv, points, lastSample, compactedAt, running>>
  BY TimeIsNatural, PeriodAssumption DEF Elapse, HistoryInv, HistoryTyped, Time, storeVars
<1>2. HistoryTyped /\ HistoryTyped'
  BY <1>1 DEF HistoryInv, HistoryTyped
<1>3. ASSUME running', AllWhole' PROVE PointsAreRows' /\ StaleLeftTheWindow'
  <2>1. PointsAreRows /\ StaleLeftTheWindow
    BY <1>1, <1>3 DEF HistoryInv, AllWhole
  <2>2. ASSUME NEW i \in Stale' PROVE csv'[i].at + Retention < now'
    <3>1. i \in Stale /\ csv'[i] = csv[i] /\ csv[i].at + Retention < now
      BY <1>1, <2>1, <2>2 DEF Stale, StaleLeftTheWindow
    <3>2. csv[i].at \in Nat /\ Retention \in Nat
      BY <1>2, <3>1, TypedLengths, PeriodAssumption DEF Stale
    <3> QED
      BY <1>1, <3>1, <3>2
  <2> QED
    BY <1>1, <2>1, <2>2 DEF PointsAreRows, StaleLeftTheWindow
<1>4. ASSUME ~running', AllWhole' PROVE PointsAreAligned'
  <2>1. PICK d \in Int, extra \in {0, 1} : Aligned(d, extra)
    BY <1>1, <1>4 DEF HistoryInv, AllWhole, PointsAreAligned
  <2>2. Aligned(d, extra)'
    BY <1>1, <1>2, <2>1, LaterIsAligned
  <2> QED
    BY <2>2 DEF PointsAreAligned
<1> QED
  BY <1>2, <1>3, <1>4 DEF HistoryInv

\* _load: memory holds what is left of the rows, and the file nothing else.
LEMMA LoadingKeepsHistory ==
  ASSUME HistoryInv, Load
  PROVE  /\ HistoryInv'
         /\ running' => Stale' = {} /\ points' = Trimmed(Rows(csv), now')
<1> DEFINE kept == Trimmed(Rows(csv), now')
<1>1. /\ now' = now + 1 /\ now' \in Time /\ lastSample' = Never /\ compactedAt' = now'
      /\ HistoryTyped
  BY TimeIsNatural, PeriodAssumption DEF Load, HistoryInv, HistoryTyped, Time
<1>2. CASE ~running'
  <2>1. points' = points /\ csv' = csv /\ running' = FALSE
    BY <1>2 DEF Load
  <2>2. HistoryTyped'
    BY <1>1, <2>1 DEF HistoryTyped
  <2>3. ASSUME AllWhole' PROVE PointsAreAligned'
    <3>1. AllWhole
      BY <2>1, <2>3 DEF AllWhole
    <3>2. PICK d \in Int, extra \in {0, 1} : Aligned(d, extra)
      BY <1>1, <3>1, HistoryIsAligned DEF PointsAreAligned
    <3>3. Aligned(d, extra)'
      BY <1>1, <2>1, <3>2, LaterIsAligned
    <3> QED
      BY <3>3 DEF PointsAreAligned
  <2> QED
    BY <1>2, <2>2, <2>3 DEF HistoryInv
<1>3. CASE running'
  <2>1. /\ IsReadable /\ points' = kept /\ running' = TRUE
        /\ csv' = IF Len(kept) < Len(csv) THEN Rewritten(kept) ELSE csv
    BY <1>3 DEF Load
  <2>2. /\ Rows(csv) \in Seq(Point) /\ Len(Rows(csv)) = Len(csv)
        /\ \A i \in 1..Len(csv) : Rows(csv)[i] = Read(csv[i])
    BY <1>1, <2>1, RowsOfLines
  <2>3. PICK cut \in 0..Len(Rows(csv)) :
          /\ kept \in Seq(Point)
          /\ Len(kept) = Len(Rows(csv)) - cut
          /\ \A i \in 1..(Len(Rows(csv)) - cut) : kept[i] = Rows(csv)[i + cut]
          /\ \A i \in 1..cut : Rows(csv)[i].at + Retention < now'
          /\ cut < Len(Rows(csv)) => Rows(csv)[cut + 1].at + Retention >= now'
    BY <1>1, <2>2, TrimmedPoints
  <2> HIDE DEF kept
  <2>4. /\ csv' \in Seq(Line) /\ Len(csv') = Len(kept)
        /\ \A i \in 1..Len(kept) : kept[i] = Read(csv'[i])
    <3>1. CASE Len(kept) < Len(csv)
      BY <2>1, <2>3, <3>1, RewritingThePoints
    <3>2. CASE ~(Len(kept) < Len(csv))
      <4>1. cut = 0 /\ Len(kept) = Len(csv) /\ csv' = csv
        BY <1>1, <2>1, <2>2, <2>3, <3>2, TypedLengths
      <4> QED
        BY <1>1, <2>2, <2>3, <4>1 DEF HistoryTyped
    <3> QED
      BY <3>1, <3>2
  <2>5. HistoryTyped'
    BY <1>1, <2>1, <2>3, <2>4 DEF HistoryTyped
  <2>6. Len(csv') \in Nat /\ Len(points') = Len(csv')
    BY <2>1, <2>4
  <2>7. Stale' = {}
    BY <2>6 DEF Stale
  <2>8. PointsAreRows'
    BY <2>1, <2>4, <2>6 DEF PointsAreRows
  <2> QED
    BY <2>1, <2>5, <2>7, <2>8 DEF HistoryInv, StaleLeftTheWindow, kept
<1> QED
  BY <1>2, <1>3

LEMMA HistoryStart == ASSUME HistoryInit PROVE HistoryInv
<1>1. HistoryTyped
  BY PeriodAssumption DEF HistoryInit, HistoryTyped, Time, Never
<1>2. Len(csv) = 0 /\ Len(points) = 0
  BY DEF HistoryInit
<1> QED
  BY <1>1, <1>2 DEF HistoryInit, HistoryInv, PointsAreRows, StaleLeftTheWindow, Stale

LEMMA HistoryStep == ASSUME HistoryInv, [HistoryNext]_historyVars PROVE HistoryInv'
<1>1. CASE Elapse
  BY <1>1, ElapsingKeepsHistory
<1>2. CASE \E t \in TickTimes, level \in Sample : Record(t, level)
  BY <1>2, RecordKeepsHistory
<1>3. CASE \E t \in TickTimes, level \in Sample : DieRecording(t, level)
  BY <1>3, DyingKeepsHistory
<1>4. CASE Load
  BY <1>4, LoadingKeepsHistory
<1>5. CASE UNCHANGED historyVars
  BY <1>5 DEF historyVars, storeVars, HistoryInv, HistoryTyped, AllWhole, PointsAreRows,
       StaleLeftTheWindow, Stale, PointsAreAligned, Aligned
<1> QED
  BY <1>1, <1>2, <1>3, <1>4, <1>5 DEF HistoryNext

LEMMA HistoryInvariance == HistorySpec => []HistoryInv
<1>1. HistoryInit => HistoryInv
  BY HistoryStart
<1>2. HistoryInv /\ [HistoryNext]_historyVars => HistoryInv'
  BY HistoryStep
<1> QED
  BY <1>1, <1>2, PTL DEF HistorySpec

\* What a restart would load is what is in memory (record, _append, _rewrite).
THEOREM PointsStayOnFile == HistorySpec => []PointsAreOnFile
<1>1. HistoryInv => PointsAreOnFile
  BY PointsAreTheLastRows, RowsOfLines, TypedLengths
     DEF HistoryInv, PointsAreOnFile, AllWhole, LastOf
<1> QED
  BY <1>1, HistoryInvariance, PTL

\* A restart forgets no point of the window, and brings back none that memory dropped:
\* those have left it.  What it brings back besides is the last row (_load, _trim).
LEMMA LoadingForgetsNothing ==
  ASSUME HistoryTyped, Load, running', NEW d \in Int, NEW extra \in {0, 1}, Aligned(d, extra),
         points' = Trimmed(Rows(csv), now')
  PROVE  /\ \A i \in DOMAIN points :
              points[i].at + Retention >= now' => Holds(points', points[i])
         /\ \A i \in DOMAIN points' :
              Holds(points, points'[i]) \/ (extra = 1 /\ i = Len(points'))
<1> DEFINE rows == Rows(csv)
<1>1. IsReadable /\ now' = now + 1 /\ now' \in Time /\ now' \in Nat /\ now \in Nat /\ Retention \in Nat
  BY TimeIsNatural, PeriodAssumption, TypedLengths DEF Load, HistoryTyped, Time
<1>2. /\ rows \in Seq(Point) /\ Len(rows) = Len(csv)
      /\ \A i \in 1..Len(csv) : rows[i] = Read(csv[i])
  BY <1>1, RowsOfLines
<1>3. /\ Len(points) \in Nat /\ Len(csv) \in Nat /\ DOMAIN points = 1..Len(points)
      /\ Len(csv) = Len(points) + d + extra
      /\ \A i \in 1..Len(points) : points[i].at \in Nat
  BY TypedLengths DEF Aligned
<1>4. \A i \in 1..Len(points) : i + d >= 1 => points[i] = rows[i + d]
  <2> SUFFICES ASSUME NEW i \in 1..Len(points), i + d >= 1 PROVE points[i] = rows[i + d]
    OBVIOUS
  <2>1. i + d \in 1..Len(csv)
    BY <1>3
  <2> QED
    BY <1>2, <2>1 DEF Aligned
<1>5. \A i \in 1..Len(rows) : rows[i].at = csv[i].at /\ rows[i].at \in Nat
  <2>1. \A i \in 1..Len(csv) : Read(csv[i]).at = csv[i].at
    BY DEF Read
  <2> QED
    BY <1>2, <2>1, TypedLengths
<1>6. \A i \in 1..d : rows[i].at + Retention < now'
  <2> SUFFICES ASSUME NEW i \in 1..d PROVE rows[i].at + Retention < now'
    OBVIOUS
  <2>1. i \in 1..Len(rows)
    BY <1>2, <1>3
  <2>2. csv[i].at + Retention < now
    BY DEF Aligned
  <2>3. rows[i].at = csv[i].at /\ rows[i].at \in Nat
    BY <1>5, <2>1
  <2> QED
    BY <1>1, <2>2, <2>3
<1>7. \A i \in 1..Len(points) : i + d < 1 => points[i].at + Retention < now
  BY DEF Aligned
<1>8. points' = Trimmed(rows, now')
  OBVIOUS
<1> HIDE DEF rows
<1>9. PICK cut \in 0..Len(rows) :
        /\ Trimmed(rows, now') \in Seq(Point)
        /\ Len(Trimmed(rows, now')) = Len(rows) - cut
        /\ \A i \in 1..(Len(rows) - cut) : Trimmed(rows, now')[i] = rows[i + cut]
        /\ \A i \in 1..cut : rows[i].at + Retention < now'
        /\ cut < Len(rows) => rows[cut + 1].at + Retention >= now'
  BY <1>1, <1>2, TrimmedPoints
<1>10. /\ Len(points') = Len(rows) - cut /\ DOMAIN points' = 1..(Len(rows) - cut)
       /\ \A i \in 1..(Len(rows) - cut) : points'[i] = rows[i + cut]
  BY <1>8, <1>9
<1>11. ASSUME NEW i \in DOMAIN points, points[i].at + Retention >= now'
       PROVE  Holds(points', points[i])
  <2>0. i + d >= 1
    <3> SUFFICES ASSUME i + d < 1 PROVE FALSE
      BY <1>3
    <3>1. points[i].at + Retention < now /\ points[i].at \in Nat
      BY <1>3, <1>7
    <3> QED
      BY <1>1, <1>11, <3>1
  <2>1. i + d \in 1..Len(rows) /\ points[i] = rows[i + d]
    BY <1>2, <1>3, <1>4, <2>0
  <2>2. i + d \notin 1..cut
    BY <1>1, <1>5, <1>9, <1>11, <2>1
  <2>3. (i + d) - cut \in 1..(Len(rows) - cut) /\ ((i + d) - cut) + cut = i + d
    BY <1>2, <1>3, <2>1, <2>2
  <2>4. points'[(i + d) - cut] = points[i]
    BY <1>10, <2>1, <2>3
  <2> QED
    BY <1>10, <2>3, <2>4 DEF Holds
<1>12. ASSUME NEW i \in DOMAIN points'
       PROVE  Holds(points, points'[i]) \/ (extra = 1 /\ i = Len(points'))
  <2>1. cut >= d
    <3> SUFFICES ASSUME cut < d PROVE FALSE
      BY <1>3
    <3>1. cut + 1 \in 1..d /\ cut < Len(rows) /\ cut + 1 \in 1..Len(rows)
      BY <1>2, <1>3
    <3>2. rows[cut + 1].at + Retention < now' /\ rows[cut + 1].at + Retention >= now'
      BY <1>6, <1>9, <3>1
    <3> QED
      BY <1>1, <1>5, <3>1, <3>2
  <2>2. i \in 1..(Len(rows) - cut) /\ points'[i] = rows[i + cut]
    BY <1>10
  <2>3. CASE (i + cut) - d \in 1..Len(points)
    <3>1. ((i + cut) - d) + d = i + cut /\ i + cut >= 1
      BY <1>3, <2>2
    <3>2. points[(i + cut) - d] = points'[i]
      BY <1>4, <2>2, <2>3, <3>1
    <3> QED
      BY <1>3, <2>3, <3>2 DEF Holds
  <2>4. CASE (i + cut) - d \notin 1..Len(points)
    <3>1. extra = 1 /\ i = Len(rows) - cut
      BY <1>2, <1>3, <2>1, <2>2, <2>4
    <3> QED
      BY <1>10, <3>1
  <2> QED
    BY <2>3, <2>4
<1> QED
  BY <1>11, <1>12

\* A restart brings back every point of memory that is still in the window and invents
\* none, wherever record() was when the process died and however many starts failed since.
THEOREM RestartsKeepPoints == HistorySpec => RestartKeepsPoints
<1> DEFINE Kept == /\ \A i \in DOMAIN points :
                        points[i].at + Retention >= now' => Holds(points', points[i])
                   /\ \A i \in DOMAIN points' :
                        Holds(points, points'[i]) \/ (~running /\ i = Len(points'))
<1>1. ASSUME HistoryInv, Load, running', AllWhole PROVE Kept
  <2>1. HistoryTyped /\ points' = Trimmed(Rows(csv), now')
    BY <1>1, LoadingKeepsHistory DEF HistoryInv
  <2>2. CASE running
    <3>1. PICK d \in Int : Aligned(d, 0)
      BY <1>1, <2>1, <2>2, RunningIsAligned DEF HistoryInv
    <3> QED
      BY <1>1, <2>1, <3>1, LoadingForgetsNothing
  <2>3. CASE ~running
    <3>1. PICK d \in Int, extra \in {0, 1} : Aligned(d, extra)
      BY <1>1, <2>3 DEF HistoryInv, PointsAreAligned
    <3> QED
      BY <1>1, <2>1, <2>3, <3>1, LoadingForgetsNothing
  <2> QED
    BY <2>2, <2>3
<1>2. ASSUME HistoryInv, [HistoryNext]_historyVars
      PROVE  [Load /\ running' /\ AllWhole => Kept]_historyVars
  BY <1>1, <1>2
<1>3. HistorySpec => [][HistoryNext]_historyVars
  BY DEF HistorySpec
<1> QED
  BY <1>2, <1>3, HistoryInvariance, PTL DEF RestartKeepsPoints

\* What a record does to the lines of a whole file that memory has dropped: those it had,
\* and those this record drops, which it may do only while no compaction is due.
LEMMA RecordingDrops ==
  ASSUME HistoryInv, "rewrite" \notin Fault, NEW t \in TickTimes, NEW level \in Sample,
         Record(t, level), AllWhole', NEW i \in Stale'
  PROVE  /\ compactedAt' = compactedAt /\ AllWhole
         /\ \/ i \in Stale /\ csv'[i] = csv[i]
            \/ csv'[i].at + Retention < t /\ ~CompactionIsDue
<1> DEFINE point == [at |-> t, level |-> level]
<1>1. running /\ HistoryTyped /\ point \in Point /\ point.at = t
  BY DEF Record, HistoryInv, TickTimes, Point
<1>2. CASE ~IsDue
  BY <1>2 DEF Record, storeVars, AllWhole, Stale
<1>3. CASE AppendFails(point)
  <2>1. csv' \in CutShort(point) /\ UNCHANGED <<points, lastSample, compactedAt>>
    BY <1>3 DEF AppendFails, storeVars
  <2> HIDE DEF point
  <2>2. csv' = csv
    BY <1>1, <2>1, CuttingAnAppendShort DEF AllWhole
  <2> QED
    BY <2>1, <2>2 DEF AllWhole, Stale
<1>4. CASE Store(point)
  <2> HIDE DEF point
  <2>1. /\ points' = Trimmed(Append(points, point), point.at)
        /\ \/ Compact(points')
           \/ /\ ~(Removes(points') /\ CompactionIsDue)
              /\ csv' \in Appended(point) /\ UNCHANGED compactedAt
    BY <1>4 DEF Store
  <2>2. CASE Compact(points')
    <3>1. Append(points, point) \in Seq(Point) /\ point.at \in Time
      BY <1>1, AppendProperties DEF HistoryTyped, Point
    <3>2. points' \in Seq(Point)
      BY <2>1, <3>1, TrimmedPoints
    <3>3. Len(csv') = Len(points') /\ Len(points') \in Nat
      BY <2>2, <3>2, RewritingThePoints DEF Compact
    <3> QED
      BY <3>3 DEF Stale
  <2>3. CASE /\ ~(Removes(points') /\ CompactionIsDue)
             /\ csv' \in Appended(point) /\ UNCHANGED compactedAt
    <3>1. AllWhole /\ csv' = Append(csv, Written(point))
      BY <1>1, <2>3, AppendingAPoint DEF AllWhole
    <3>2. PointsAreRows
      BY <1>1, <3>1 DEF HistoryInv
    <3>3. \/ i \in Stale /\ csv'[i] = csv[i]
          \/ csv'[i].at + Retention < point.at /\ Removes(points')
      BY <1>1, <2>1, <3>1, <3>2, StoringAPoint
    <3> QED
      BY <1>1, <2>3, <3>1, <3>3
  <2> QED
    BY <2>1, <2>2, <2>3
<1> QED
  BY <1>2, <1>3, <1>4 DEF Record

LEMMA CompactionStep ==
  ASSUME HistoryInv, FileIsCompacted, "rewrite" \notin Fault, [HistoryNext]_historyVars
  PROVE  FileIsCompacted'
<1>1. CASE \E t \in TickTimes, level \in Sample : Record(t, level)
  <2> SUFFICES ASSUME AllWhole', NEW i \in Stale'
               PROVE  csv'[i].at + Retention < compactedAt' + CompactionPeriod
    BY DEF FileIsCompacted, AllWhole
  <2>1. PICK t \in TickTimes, level \in Sample : Record(t, level)
    BY <1>1
  <2>2. /\ compactedAt' = compactedAt /\ AllWhole /\ running
        /\ \/ i \in Stale /\ csv'[i] = csv[i]
           \/ csv'[i].at + Retention < t /\ ~CompactionIsDue
    BY <2>1, RecordingDrops DEF Record
  <2>3. CASE i \in Stale /\ csv'[i] = csv[i]
    BY <2>2, <2>3 DEF FileIsCompacted, AllWhole
  <2>4. CASE csv'[i].at + Retention < t /\ ~CompactionIsDue
    <3>1. HistoryTyped'
      BY HistoryStep DEF HistoryInv
    <3>2. i \in 1..Len(csv') /\ csv'[i].at \in Nat
      <4>1. i \in 1..Len(csv')
        <5>1. Len(csv') \in Nat /\ Len(points') \in Nat
          BY <3>1 DEF HistoryTyped
        <5> QED
          BY <5>1 DEF Stale
      <4>2. csv'[i] \in Line
        BY <3>1, <4>1 DEF HistoryTyped
      <4>3. csv'[i].at \in Time
        BY <4>2 DEF Line
      <4> QED
        BY <4>1, <4>3, TimeIsNatural
    <3>3. t \in Nat /\ t <= now /\ now \in Nat /\ compactedAt \in Nat
      BY TimeIsNatural, TypedLengths DEF TickTimes, HistoryInv
    <3>4. now - compactedAt < CompactionPeriod /\ CompactionPeriod \in Nat /\ Retention \in Nat
      BY <2>4, <3>3, PeriodAssumption DEF CompactionIsDue
    <3> QED
      BY <2>2, <2>4, <3>2, <3>3, <3>4
  <2> QED
    BY <2>2, <2>3, <2>4
<1>2. CASE Elapse \/ UNCHANGED historyVars
  BY <1>2 DEF Elapse, historyVars, storeVars, FileIsCompacted, Stale, AllWhole
<1>3. CASE \E t \in TickTimes, level \in Sample : DieRecording(t, level)
  BY <1>3 DEF DieRecording, FileIsCompacted
<1>4. CASE Load
  BY <1>4, LoadingKeepsHistory DEF FileIsCompacted
<1> QED
  BY <1>1, <1>2, <1>3, <1>4 DEF HistoryNext

\* The file does not grow for ever, provided that it can be rewritten (record, _load).
THEOREM FileStaysCompacted ==
  ASSUME "rewrite" \notin Fault
  PROVE  HistorySpec => []FileIsCompacted
<1>1. HistoryInit => FileIsCompacted
  BY DEF HistoryInit, FileIsCompacted, Stale
<1>2. HistoryInv /\ FileIsCompacted /\ [HistoryNext]_historyVars => FileIsCompacted'
  BY CompactionStep
<1> QED
  BY <1>1, <1>2, HistoryInvariance, PTL DEF HistorySpec

====
