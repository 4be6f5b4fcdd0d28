---- MODULE RuntimeState_proofs ----
(***************************************************************************)
(* Proofs about RuntimeState, for every capacity, number of pumps, set of  *)
(* tags and body a client may post.                                        *)
(***************************************************************************)
EXTENDS RuntimeState, FiniteSetTheorems, SequenceTheorems, TLAPS

----
\* What the kind of a tag says of it.
LEMMA TagKinds ==
  ASSUME NEW t \in Tag
  PROVE  /\ t[1] \in {"level", "setpoint", "rtu", "emar", "arndo"}
         /\ t[1] \in {"rtu", "emar", "arndo"} => t[2] \in Pump /\ t = <<t[1], t[2]>>
  BY DEF Tag, LevelTags, EmarTags

LEMMA PumpTags ==
  ASSUME NEW p \in Pump
  PROVE  /\ Arndo(p) \in Tag /\ Emar(p) \in Tag /\ Rtu(p) \in Tag
         /\ Emar(p)[1] = "emar" /\ Emar(p)[2] = p
  BY DEF Tag, LevelTags, EmarTags, Arndo, Emar, Rtu

LEMMA BoundedFits ==
  ASSUME NEW S, NEW s \in Seq(S)
  PROVE  /\ Bounded(s) \in Seq(S)
         /\ Len(Bounded(s)) <= Capacity
         /\ Len(s) <= Capacity => Bounded(s) = s
<1>1. Capacity \in Nat /\ Len(s) \in Nat
  BY CapacityAssumption
<1>2. CASE Len(s) <= Capacity
  BY <1>1, <1>2 DEF Bounded
<1>3. CASE Len(s) > Capacity
  <2>1. \A i \in (Len(s) - Capacity + 1)..Len(s) : s[i] \in S
    BY <1>1, <1>3
  <2>2. /\ SubSeq(s, Len(s) - Capacity + 1, Len(s)) \in Seq(S)
        /\ Len(SubSeq(s, Len(s) - Capacity + 1, Len(s))) <= Capacity
    BY <1>1, <1>3, <2>1, SubSeqProperties
  <2> QED BY <1>1, <1>3, <2>2 DEF Bounded
<1> QED BY <1>1, <1>2, <1>3

\* An order of a finite set lists its members, each of them once.
LEMMA OrderIsSeq ==
  ASSUME NEW S, IsFiniteSet(S), NEW order \in Orders(S)
  PROVE  /\ order \in Seq(S)
         /\ Len(order) = Cardinality(S)
         /\ Cardinality(S) \in Nat
         /\ \A i \in 1..Len(order) : order[i] \in S
         /\ \A i, j \in 1..Len(order) : order[i] = order[j] => i = j
         /\ \A x \in S : \E i \in 1..Len(order) : order[i] = x
<1>1. Cardinality(S) \in Nat
  BY FS_CardinalityType
<1>2. order \in [1..Cardinality(S) -> S]
  BY DEF Orders
<1>3. order \in Seq(S) /\ Len(order) = Cardinality(S)
  BY <1>1, <1>2
<1>4. \A i, j \in 1..Cardinality(S) : order[i] = order[j] => i = j
  BY <1>2 DEF Orders
<1>5. Cardinality(1..Cardinality(S)) = Cardinality(S)
  BY <1>1, FS_Interval
<1>6. order \in Injection(1..Cardinality(S), S)
  BY <1>2, <1>4 DEF Injection, IsInjective
<1>7. order \in Surjection(1..Cardinality(S), S)
  BY <1>5, <1>6, FS_Injection
<1>8. \A x \in S : \E i \in 1..Cardinality(S) : order[i] = x
  BY <1>7 DEF Surjection
<1> QED BY <1>1, <1>2, <1>3, <1>4, <1>8

LEMMA RequestsType ==
  ASSUME NEW order \in Seq(Tag), NEW batch, NEW source \in Source,
         \A i \in 1..Len(order) : batch[order[i]] \in Value
  PROVE  /\ Requests(order, batch, source) \in Seq(Request)
         /\ Len(Requests(order, batch, source)) = Len(order)
         /\ \A i \in 1..Len(order) : /\ Requests(order, batch, source)[i].tag = order[i]
                                     /\ Requests(order, batch, source)[i].source = source
<1>1. \A i \in 1..Len(order) : order[i] \in Tag
  OBVIOUS
<1>2. Len(order) \in Nat
  OBVIOUS
<1> QED BY <1>1, <1>2 DEF Requests, Request

\* What a call appends: one command for each of the tags, with its value in the batch.
Commands(added, tags, batch, source) ==
  /\ added \in Seq(Request)
  /\ \A i \in 1..Len(added) : /\ added[i].tag \in tags
                              /\ added[i].value = batch[added[i].tag]
                              /\ added[i].source = source
  /\ \A t \in tags : \E i \in 1..Len(added) : added[i].tag = t

LEMMA RequestsAreCommands ==
  ASSUME NEW S, IsFiniteSet(S), NEW order \in Orders(S), NEW batch, NEW source \in Source,
         \A t \in S : t \in Tag /\ batch[t] \in Value
  PROVE  LET added == Requests(order, batch, source)
         IN  /\ Commands(added, S, batch, source)
             /\ Len(added) = Cardinality(S)
             /\ \A i, j \in 1..Len(added) : added[i].tag = added[j].tag => i = j
<1> DEFINE added == Requests(order, batch, source)
<1>1. /\ order \in Seq(S) /\ Len(order) = Cardinality(S)
      /\ \A i \in 1..Len(order) : order[i] \in S
      /\ \A i, j \in 1..Len(order) : order[i] = order[j] => i = j
      /\ \A t \in S : \E i \in 1..Len(order) : order[i] = t
  BY OrderIsSeq
<1>2. order \in Seq(Tag) /\ \A i \in 1..Len(order) : batch[order[i]] \in Value
  BY <1>1
<1>3. /\ added \in Seq(Request) /\ Len(added) = Len(order)
      /\ \A i \in 1..Len(order) : added[i].tag = order[i] /\ added[i].source = source
  BY <1>2, RequestsType
<1>4. \A i \in 1..Len(order) : added[i].value = batch[order[i]]
  BY <1>2 DEF Requests
<1> HIDE DEF added
<1> QED BY <1>1, <1>3, <1>4 DEF Commands, added

LEMMA RecordedType ==
  ASSUME NEW vals \in [Tag -> SignalValue], NEW batch, NEW quality \in Quality,
         \A t \in DOMAIN batch : batch[t] \in Value
  PROVE  Recorded(vals, batch, quality) \in [Tag -> SignalValue]
  BY DEF Recorded, SignalValue

LEMMA EmarValueType ==
  ASSUME NEW modes \in [Pump -> EmarMode], NEW vals, NEW p \in Pump
  PROVE  EmarValue(modes, vals, p) \in Bit /\ EmarValue(modes, vals, p) \in Value
  BY DEF EmarValue, EmarMode, Bit, Value

LEMMA WithRtuType ==
  ASSUME NEW ctl \in Controls, NEW batch,
         \A t \in DOMAIN batch : t \in Tag /\ batch[t] \in ValueOf(t)
  PROVE  /\ WithRtu(ctl, batch) \in Controls
         /\ \A p \in Pump : WithRtu(ctl, batch)[p].emar_mode = ctl[p].emar_mode
<1>1. \A p \in Pump : Rtu(p) \in DOMAIN batch => batch[Rtu(p)] \in Bit
  BY DEF ValueOf, Analog, Rtu
<1> QED BY <1>1 DEF WithRtu, Controls

LEMMA ValidatedType ==
  ASSUME NEW post \in Post, Validated(post)
  PROVE  /\ IsFiniteSet(DOMAIN post.batch)
         /\ DOMAIN post.batch \subseteq Tag
         /\ \A t \in DOMAIN post.batch : t \in Tag /\ post.batch[t] \in ValueOf(t)
                                                /\ post.batch[t] \in Value
         /\ post.source \in Source
  BY PostAssumption DEF Validated, ValueOf, Value, Source
----
(***************************************************************************)
(* The inductive invariant.  The type of the queue rests on the other two  *)
(* parts: coalescing rebuilds the queue unless every level has one pending *)
(* value, and appending drops the oldest items unless the depth is bounded.*)
(***************************************************************************)
QueueInv == TypeOK /\ DepthBounded /\ OnePendingPerLevel

\* A command of another tag or source than the emulator's levels.
Ordinary(r) == ~RequiresInjection(r.tag) \/ r.source # "field-emulator"

\* Appending as many requests as there is room for drops nothing from the deque.
LEMMA AppendFits ==
  ASSUME TypeOK, NEW kept \in Seq(Request), NEW added \in Seq(Request),
         Len(kept) + Len(added) + InFlightDepth <= Capacity,
         queue' = Bounded(kept \o added), UNCHANGED inFlight
  PROVE  /\ queue' = kept \o added
         /\ queue' \in Seq(Request)
         /\ Len(queue') = Len(kept) + Len(added)
         /\ DepthBounded'
<1>1. /\ Capacity \in Nat /\ Len(kept) \in Nat /\ Len(added) \in Nat /\ InFlightDepth \in 0..1
  BY CapacityAssumption DEF InFlightDepth
<1>2. /\ kept \o added \in Seq(Request)
      /\ Len(kept \o added) = Len(kept) + Len(added)
  OBVIOUS
<1>3. Len(kept \o added) <= Capacity
  BY <1>1, <1>2
<1>4. queue' = kept \o added
  BY <1>2, <1>3, BoundedFits
<1> QED BY <1>1, <1>2, <1>4 DEF DepthBounded, WriteDepth, InFlightDepth

\* If none of the commands appended is a level of the emulator, no level has two pending.
LEMMA AppendOrdinary ==
  ASSUME QueueInv, NEW added \in Seq(Request), queue' = queue \o added,
         \A i \in 1..Len(added) : Ordinary(added[i])
  PROVE  OnePendingPerLevel'
<1>1. queue \in Seq(Request) /\ Len(queue) \in Nat /\ Len(added) \in Nat
  BY DEF QueueInv, TypeOK
<1>2. DOMAIN queue' = 1..(Len(queue) + Len(added)) /\ DOMAIN queue = 1..Len(queue)
  BY <1>1
<1>3. ASSUME NEW i \in DOMAIN queue', ~Ordinary(queue'[i])
      PROVE  i \in DOMAIN queue /\ queue'[i] = queue[i]
  <2>1. CASE i <= Len(queue)
    BY <1>1, <1>2, <2>1
  <2>2. CASE i > Len(queue)
    <3>1. i - Len(queue) \in 1..Len(added) /\ queue'[i] = added[i - Len(queue)]
      BY <1>1, <1>2, <2>2
    <3> QED BY <1>3, <3>1
  <2> QED BY <1>1, <1>2, <2>1, <2>2
<1>4. ASSUME NEW i \in DOMAIN queue', NEW j \in DOMAIN queue',
             RequiresInjection(queue'[i].tag), queue'[i].tag = queue'[j].tag,
             queue'[i].source = "field-emulator", queue'[j].source = "field-emulator"
      PROVE  i = j
  <2>1. ~Ordinary(queue'[i]) /\ ~Ordinary(queue'[j])
    BY <1>4 DEF Ordinary
  <2> QED BY <1>3, <1>4, <2>1 DEF OnePendingPerLevel, QueueInv
<1> QED BY <1>4 DEF OnePendingPerLevel

\* Dropping commands from the front keeps it too.
LEMMA SuffixStep ==
  ASSUME QueueInv, NEW n \in 0..Len(queue), queue' = SubSeq(queue, n + 1, Len(queue))
  PROVE  /\ queue' \in Seq(Request)
         /\ Len(queue') = Len(queue) - n
         /\ \A i \in 1..Len(queue') : queue'[i] = queue[i + n]
         /\ OnePendingPerLevel'
<1>1. queue \in Seq(Request) /\ Len(queue) \in Nat
  BY DEF QueueInv, TypeOK
<1>2. \A i \in (n + 1)..Len(queue) : queue[i] \in Request
  BY <1>1
<1>3. /\ queue' \in Seq(Request)
      /\ Len(queue') = Len(queue) - n
      /\ \A i \in 1..Len(queue') : queue'[i] = queue[i + n]
  BY <1>1, <1>2, SubSeqProperties
<1>4. DOMAIN queue' = 1..(Len(queue) - n) /\ DOMAIN queue = 1..Len(queue)
  BY <1>1, <1>3
<1>5. \A i \in DOMAIN queue' : i \in Int /\ i + n \in DOMAIN queue /\ queue'[i] = queue[i + n]
  <2> SUFFICES ASSUME NEW i \in DOMAIN queue'
               PROVE  i \in Int /\ i + n \in DOMAIN queue /\ queue'[i] = queue[i + n]
    OBVIOUS
  <2>1. i \in 1..(Len(queue) - n)
    BY <1>4
  <2>2. i + n \in 1..Len(queue)
    BY <1>1, <2>1
  <2>3. i \in Int /\ queue'[i] = queue[i + n]
    BY <1>1, <1>3, <2>1
  <2> QED BY <1>4, <2>2, <2>3
<1>6. ASSUME NEW i \in DOMAIN queue', NEW j \in DOMAIN queue',
             RequiresInjection(queue'[i].tag), queue'[i].tag = queue'[j].tag,
             queue'[i].source = "field-emulator", queue'[j].source = "field-emulator"
      PROVE  i = j
  <2>1. i + n = j + n
    BY <1>5, <1>6 DEF OnePendingPerLevel, QueueInv
  <2> QED BY <1>1, <1>5, <2>1
<1>7. OnePendingPerLevel'
  BY <1>6 DEF OnePendingPerLevel
<1> QED BY <1>3, <1>7

----
\* A call that appends whole batches: a command for each tag of the body, or nothing.
LEMMA EnqueueAppends ==
  ASSUME QueueInv, NEW post \in Post, Validated(post), Enqueue(post)
  PROVE  \E added : /\ Commands(added, DOMAIN post.batch, post.batch, post.source)
                    /\ queue' = queue \o added
                    /\ queue' \in Seq(Request)
                    /\ DepthBounded'
<1> DEFINE batch == post.batch
<1>1. /\ IsFiniteSet(DOMAIN batch)
      /\ \A t \in DOMAIN batch : t \in Tag /\ batch[t] \in Value
      /\ post.source \in Source
  BY ValidatedType
<1>2. PICK order \in Orders(DOMAIN batch) :
        queue' = Bounded(queue \o Requests(order, batch, post.source))
  BY DEF Enqueue
<1> DEFINE added == Requests(order, batch, post.source)
<1>3. Commands(added, DOMAIN batch, batch, post.source) /\ Len(added) = Cardinality(DOMAIN batch)
  BY <1>1, RequestsAreCommands
<1>4. queue' = Bounded(queue \o added) /\ UNCHANGED inFlight
  BY <1>2 DEF Enqueue
<1> HIDE DEF added
<1>5. added \in Seq(Request) /\ Len(added) <= Capacity - WriteDepth
  BY <1>3 DEF Enqueue, HasRoomToEnqueue, Room, Commands
<1>6. Len(queue) + Len(added) + InFlightDepth <= Capacity
  <2>1. Len(queue) \in Nat /\ Len(added) \in Nat /\ InFlightDepth \in 0..1 /\ Capacity \in Nat
    BY <1>5, CapacityAssumption DEF QueueInv, TypeOK, InFlightDepth
  <2> QED BY <1>5, <2>1 DEF WriteDepth
<1>7. queue' = queue \o added /\ queue' \in Seq(Request) /\ DepthBounded'
  BY <1>4, <1>5, <1>6, AppendFits DEF QueueInv, TypeOK
<1> QED BY <1>3, <1>7

LEMMA EnqueueStep ==
  ASSUME QueueInv, NEW post \in Post, Validated(post), Enqueue(post),
         post.source # "field-emulator" \/ \A t \in DOMAIN post.batch : ~RequiresInjection(t)
  PROVE  QueueInv'
<1>1. /\ \A t \in DOMAIN post.batch : /\ t \in Tag /\ post.batch[t] \in Value
                                      /\ post.batch[t] \in ValueOf(t)
  BY ValidatedType
<1>2. PICK added : /\ Commands(added, DOMAIN post.batch, post.batch, post.source)
                   /\ queue' = queue \o added /\ queue' \in Seq(Request) /\ DepthBounded'
  BY EnqueueAppends
<1>3. added \in Seq(Request) /\ \A i \in 1..Len(added) : Ordinary(added[i])
  BY <1>2 DEF Commands, Ordinary
<1>4. OnePendingPerLevel'
  BY <1>2, <1>3, AppendOrdinary
<1>5. values' \in [Tag -> SignalValue]
  BY <1>1, RecordedType DEF Enqueue, QueueInv, TypeOK, Quality
<1>6. controls' \in Controls
  BY <1>1, WithRtuType DEF Enqueue, QueueInv, TypeOK
<1>7. inFlight' \in Request \union {NoRequest} /\ emarModes' \in [Pump -> EmarMode]
  BY DEF Enqueue, QueueInv, TypeOK
<1> QED BY <1>2, <1>4, <1>5, <1>6, <1>7 DEF QueueInv, TypeOK

LEMMA InjectionTags ==
  ASSUME NEW post, IsInjection(post), NEW t \in DOMAIN post.batch
  PROVE  RequiresInjection(t) /\ t[1] # "emar"
<1>1. t \in Tag /\ Facade(t) /\ t \notin EmarTags
  BY DEF IsInjection, Validated
<1>2. t[1] # "emar"
  BY <1>1 DEF Tag, LevelTags, EmarTags
<1> QED BY <1>1, <1>2 DEF Facade, RequiresInjection

\* With one value pending per level there is nothing to compact.
LEMMA CompactedIsQueue ==
  ASSUME QueueInv, NEW post \in Post, IsInjection(post)
  PROVE  Compacted(post.batch) = queue
<1>1. ASSUME NEW t \in DOMAIN post.batch, NEW i \in DOMAIN queue, NEW j \in DOMAIN queue,
             IsPending(i, t), IsPending(j, t)
      PROVE  i = j
  BY <1>1, InjectionTags DEF IsPending, QueueInv, OnePendingPerLevel
<1> QED BY <1>1 DEF Compacted

\* Replacing values leaves every request where it stands.
LEMMA NewValuesInPlace ==
  ASSUME QueueInv, NEW batch, \A t \in DOMAIN batch : batch[t] \in Value
  PROVE  LET kept == WithNewValues(queue, batch)
         IN  /\ kept \in Seq(Request)
             /\ Len(kept) = Len(queue)
             /\ \A i \in 1..Len(queue) :
                  /\ kept[i].tag = queue[i].tag /\ kept[i].source = queue[i].source
                  /\ kept[i].value = IF queue[i].tag \in DOMAIN batch
                                        /\ queue[i].source = "field-emulator"
                                     THEN batch[queue[i].tag] ELSE queue[i].value
<1> DEFINE kept == WithNewValues(queue, batch)
<1>1. queue \in Seq(Request) /\ Len(queue) \in Nat
  BY DEF QueueInv, TypeOK
<1>2. \A i \in 1..Len(queue) : queue[i] \in Request
  BY <1>1
<1>3. \A i \in 1..Len(queue) :
        /\ kept[i] \in Request
        /\ kept[i].tag = queue[i].tag /\ kept[i].source = queue[i].source
        /\ kept[i].value = IF queue[i].tag \in DOMAIN batch /\ queue[i].source = "field-emulator"
                           THEN batch[queue[i].tag] ELSE queue[i].value
  BY <1>1, <1>2 DEF WithNewValues, Request
<1>4. kept = [i \in 1..Len(queue) |-> kept[i]]
  BY DEF WithNewValues
<1> HIDE DEF kept
<1>5. kept \in Seq(Request) /\ Len(kept) = Len(queue)
  BY <1>1, <1>3, <1>4
<1> QED BY <1>3, <1>5 DEF kept

\* Coalescing replaces values in place and appends what was not pending, each tag once.
LEMMA CoalesceAppends ==
  ASSUME QueueInv, NEW post \in Post, IsInjection(post), CoalescePendingWrites(post.batch)
  PROVE  \E added : /\ Commands(added, DOMAIN post.batch \ PendingTags(post.batch),
                                post.batch, "field-emulator")
                    /\ \A i, j \in 1..Len(added) : added[i].tag = added[j].tag => i = j
                    /\ queue' = WithNewValues(queue, post.batch) \o added
                    /\ queue' \in Seq(Request)
                    /\ Len(queue') = Len(queue) + Len(added)
                    /\ DepthBounded'
<1> DEFINE batch == post.batch
           missing == DOMAIN batch \ PendingTags(batch)
           kept == WithNewValues(queue, batch)
<1>1. /\ IsFiniteSet(DOMAIN batch)
      /\ \A t \in DOMAIN batch : t \in Tag /\ batch[t] \in Value
  BY ValidatedType DEF IsInjection
<1>2. Compacted(batch) = queue
  BY CompactedIsQueue
<1>3. PICK order \in Orders(missing) :
        queue' = Bounded(kept \o Requests(order, batch, "field-emulator"))
  BY <1>2 DEF CoalescePendingWrites
<1> DEFINE added == Requests(order, batch, "field-emulator")
<1>4. IsFiniteSet(missing) /\ \A t \in missing : t \in Tag /\ batch[t] \in Value
  BY <1>1, FS_Subset
<1>5. /\ Commands(added, missing, batch, "field-emulator")
      /\ Len(added) = Cardinality(missing)
      /\ \A i, j \in 1..Len(added) : added[i].tag = added[j].tag => i = j
  <2> HIDE DEF missing, batch
  <2> QED BY <1>4, RequestsAreCommands DEF Source
<1>6. kept \in Seq(Request) /\ Len(kept) = Len(queue)
  BY <1>1, NewValuesInPlace
<1>7. queue' = Bounded(kept \o added) /\ UNCHANGED inFlight
  BY <1>3 DEF CoalescePendingWrites
<1> HIDE DEF kept, added
<1>8. Len(kept) + Len(added) + InFlightDepth <= Capacity
  <2>1. Len(queue) + InFlightDepth + Cardinality(missing) <= Capacity
    BY <1>2 DEF CoalescePendingWrites, HasRoomToCoalesce
  <2>2. /\ InFlightDepth \in 0..1 /\ Capacity \in Nat /\ Len(kept) \in Nat /\ Len(added) \in Nat
    BY <1>5, <1>6, CapacityAssumption DEF InFlightDepth, Commands
  <2>3. Cardinality(missing) = Len(added) /\ Len(queue) = Len(kept)
    BY <1>5, <1>6
  <2> HIDE DEF missing, batch
  <2> QED BY <2>1, <2>2, <2>3
<1>9. /\ queue' = kept \o added /\ queue' \in Seq(Request) /\ DepthBounded'
      /\ Len(queue') = Len(kept) + Len(added)
  <2>1. added \in Seq(Request) /\ TypeOK
    BY <1>5 DEF Commands, QueueInv
  <2> QED BY <1>6, <1>7, <1>8, <2>1, AppendFits
<1>10. Len(queue') = Len(queue) + Len(added)
  BY <1>6, <1>9
<1> QED BY <1>5, <1>9, <1>10 DEF kept

LEMMA CoalesceStep ==
  ASSUME QueueInv, NEW post \in Post, IsInjection(post), CoalescePendingWrites(post.batch)
  PROVE  QueueInv'
<1> DEFINE batch == post.batch
           missing == DOMAIN batch \ PendingTags(batch)
           kept == WithNewValues(queue, batch)
<1>1. \A t \in DOMAIN batch : t \in Tag /\ batch[t] \in ValueOf(t) /\ batch[t] \in Value
  BY ValidatedType DEF IsInjection
<1>2. PICK added : /\ Commands(added, missing, batch, "field-emulator")
                   /\ \A i, j \in 1..Len(added) : added[i].tag = added[j].tag => i = j
                   /\ queue' = kept \o added /\ queue' \in Seq(Request) /\ DepthBounded'
                   /\ Len(queue') = Len(queue) + Len(added)
  BY CoalesceAppends
<1>3. /\ kept \in Seq(Request) /\ Len(kept) = Len(queue)
      /\ \A i \in 1..Len(queue) : kept[i].tag = queue[i].tag /\ kept[i].source = queue[i].source
  BY <1>1, NewValuesInPlace
<1> HIDE DEF kept
<1>4. /\ added \in Seq(Request)
      /\ Len(queue) \in Nat /\ Len(added) \in Nat
      /\ DOMAIN queue = 1..Len(queue) /\ DOMAIN queue' = 1..(Len(queue) + Len(added))
  BY <1>2 DEF Commands, QueueInv, TypeOK
<1>5. ASSUME NEW k \in 1..Len(queue)
      PROVE  queue'[k].tag = queue[k].tag /\ queue'[k].source = queue[k].source
  <2>1. queue'[k] = kept[k]
    BY <1>2, <1>3, <1>4
  <2> QED BY <1>3, <2>1
<1>6. ASSUME NEW k \in 1..(Len(queue) + Len(added)), k > Len(queue)
      PROVE  /\ k - Len(queue) \in 1..Len(added)
             /\ queue'[k] = added[k - Len(queue)]
             /\ queue'[k].tag \in missing
  <2>1. k - Len(queue) \in 1..Len(added) /\ queue'[k] = added[k - Len(queue)]
    BY <1>2, <1>3, <1>4, <1>6
  <2> QED BY <1>2, <2>1 DEF Commands
<1>7. OnePendingPerLevel'
  <2> SUFFICES ASSUME NEW i \in DOMAIN queue', NEW j \in DOMAIN queue',
                      RequiresInjection(queue'[i].tag), queue'[i].tag = queue'[j].tag,
                      queue'[i].source = "field-emulator", queue'[j].source = "field-emulator"
               PROVE  i = j
    BY DEF OnePendingPerLevel
  <2>1. i \in 1..(Len(queue) + Len(added)) /\ j \in 1..(Len(queue) + Len(added))
    BY <1>4
  <2>2. ASSUME NEW k \in 1..Len(queue), NEW l \in 1..(Len(queue) + Len(added)), l > Len(queue),
               queue'[k].tag = queue'[l].tag, queue'[k].source = "field-emulator"
        PROVE  FALSE
    BY <1>4, <1>5, <1>6, <2>2 DEF IsPending, PendingTags
  <2>3. CASE i <= Len(queue) /\ j <= Len(queue)
    <3>1. i \in DOMAIN queue /\ j \in DOMAIN queue
      BY <1>4, <2>1, <2>3
    <3> QED BY <1>4, <1>5, <3>1 DEF QueueInv, OnePendingPerLevel
  <2>4. CASE i > Len(queue) /\ j > Len(queue)
    <3>1. i - Len(queue) = j - Len(queue)
      BY <1>2, <1>6, <2>1, <2>4
    <3> QED BY <1>4, <2>1, <3>1
  <2> QED BY <1>4, <2>1, <2>2, <2>3, <2>4
<1>8. values' \in [Tag -> SignalValue]
  BY <1>1, RecordedType DEF CoalescePendingWrites, QueueInv, TypeOK, Quality
<1>9. controls' \in Controls
  BY <1>1, WithRtuType DEF CoalescePendingWrites, QueueInv, TypeOK
<1>10. inFlight' \in Request \union {NoRequest} /\ emarModes' \in [Pump -> EmarMode]
  BY DEF CoalescePendingWrites, QueueInv, TypeOK
<1> QED BY <1>2, <1>7, <1>8, <1>9, <1>10 DEF QueueInv, TypeOK

----
\* The command that imposes a new mode goes last.
LEMMA SetModeAppends ==
  ASSUME QueueInv, NEW p \in Pump, NEW m \in EmarMode, SetPumpEmarMode(p, m)
  PROVE  LET batch == [t \in {Emar(p)} |-> EmarValue(emarModes', values, p)]
         IN  /\ \E added : /\ Commands(added, {Emar(p)}, batch, "other")
                           /\ queue' = queue \o added
             /\ queue' \in Seq(Request)
             /\ DepthBounded'
             /\ values' = Recorded(values, batch, "queued")
             /\ EmarValue(emarModes', values, p) \in Bit
<1> DEFINE batch == [t \in {Emar(p)} |-> EmarValue(emarModes', values, p)]
           added == Requests(<<Emar(p)>>, batch, "other")
<1>1. emarModes' \in [Pump -> EmarMode]
  BY DEF SetPumpEmarMode, QueueInv, TypeOK
<1>2. Emar(p) \in Tag /\ batch[Emar(p)] \in Value /\ EmarValue(emarModes', values, p) \in Bit
  BY <1>1, EmarValueType, PumpTags
<1>3. <<Emar(p)>> \in Orders({Emar(p)}) /\ IsFiniteSet({Emar(p)}) /\ Cardinality({Emar(p)}) = 1
  <2>1. IsFiniteSet({Emar(p)}) /\ Cardinality({Emar(p)}) = 1
    BY FS_Singleton
  <2> QED BY <2>1 DEF Orders
<1>4. queue' = Bounded(queue \o added) /\ values' = Recorded(values, batch, "queued")
  BY DEF SetPumpEmarMode
<1>5. Commands(added, {Emar(p)}, batch, "other") /\ Len(added) = 1
  <2>1. \A t \in {Emar(p)} : t \in Tag /\ batch[t] \in Value
    BY <1>2
  <2> HIDE DEF batch
  <2> QED BY <1>3, <2>1, RequestsAreCommands DEF Source
<1> HIDE DEF added, batch
<1>6. queue' = queue \o added /\ queue' \in Seq(Request) /\ DepthBounded'
  <2>1. Len(queue) + Len(added) + InFlightDepth <= Capacity /\ UNCHANGED inFlight
    BY <1>5, CapacityAssumption
       DEF SetPumpEmarMode, Room, WriteDepth, InFlightDepth, QueueInv, TypeOK
  <2>2. added \in Seq(Request) /\ queue \in Seq(Request) /\ TypeOK
    BY <1>5 DEF Commands, QueueInv, TypeOK
  <2> QED BY <1>4, <2>1, <2>2, AppendFits
<1> QED BY <1>2, <1>4, <1>5, <1>6 DEF batch

LEMMA SetModeStep ==
  ASSUME QueueInv, NEW p \in Pump, NEW m \in EmarMode, SetPumpEmarMode(p, m)
  PROVE  QueueInv'
<1> DEFINE batch == [t \in {Emar(p)} |-> EmarValue(emarModes', values, p)]
<1>1. /\ \E added : Commands(added, {Emar(p)}, batch, "other") /\ queue' = queue \o added
      /\ queue' \in Seq(Request) /\ DepthBounded' /\ values' = Recorded(values, batch, "queued")
      /\ EmarValue(emarModes', values, p) \in Bit
  BY SetModeAppends
<1>2. emarModes' \in [Pump -> EmarMode] /\ controls' \in Controls /\ UNCHANGED inFlight
  BY DEF SetPumpEmarMode, QueueInv, TypeOK, Controls
<1>3. values' \in [Tag -> SignalValue]
  <2>1. \A t \in DOMAIN batch : batch[t] \in Value
    BY <1>1 DEF Value
  <2> HIDE DEF batch
  <2> QED BY <1>1, <2>1, RecordedType DEF QueueInv, TypeOK, Quality
<1> HIDE DEF batch
<1>4. OnePendingPerLevel'
  BY <1>1, AppendOrdinary DEF Commands, Ordinary
<1> QED BY <1>1, <1>2, <1>3, <1>4 DEF QueueInv, TypeOK

\* A reading puts every value it brings on show and imposes as many modes as there is
\* room for, at the end of the queue.
LEMMA UpdateAppends ==
  ASSUME QueueInv, NEW updates, UpdateValues(updates),
         \A t \in DOMAIN updates : updates[t] \in Value
  PROVE  LET seen == Recorded(values, updates, "good")
         IN  /\ seen \in [Tag -> SignalValue]
             /\ \E added, batch :
                  /\ \A t \in DOMAIN batch : /\ t \in Tag /\ t[1] = "emar" /\ t[2] \in Pump
                                             /\ batch[t] = EmarValue(emarModes, seen, t[2])
                                             /\ batch[t] \in Bit /\ batch[t] \in Value
                  /\ Commands(added, DOMAIN batch, batch, "other")
                  /\ queue' = queue \o added
                  /\ values' = Recorded(seen, batch, "queued")
             /\ queue' \in Seq(Request)
             /\ DepthBounded'
             /\ UNCHANGED <<inFlight, emarModes, controls>>
<1> DEFINE seen == Recorded(values, updates, "good")
<1>1. seen \in [Tag -> SignalValue]
  BY RecordedType DEF QueueInv, TypeOK, Quality
<1>2. PICK pumps \in Synced(Unsynced(updates, seen), Room) :
        LET tags  == [i \in 1..Len(pumps) |-> Emar(pumps[i])]
            batch == [t \in {tags[i] : i \in 1..Len(tags)} |-> EmarValue(emarModes, seen, t[2])]
        IN /\ queue' = Bounded(queue \o Requests(tags, batch, "other"))
           /\ values' = Recorded(seen, batch, "queued")
           /\ UNCHANGED <<inFlight, emarModes, controls>>
  BY DEF UpdateValues
<1> DEFINE tags  == [i \in 1..Len(pumps) |-> Emar(pumps[i])]
           batch == [t \in {tags[i] : i \in 1..Len(tags)} |-> EmarValue(emarModes, seen, t[2])]
           added == Requests(tags, batch, "other")
<1>3. /\ queue' = Bounded(queue \o added)
      /\ values' = Recorded(seen, batch, "queued")
      /\ UNCHANGED <<inFlight, emarModes, controls>>
  BY <1>2
<1>4. PICK S \in SUBSET Unsynced(updates, seen) : pumps \in Orders(S)
  BY DEF Synced
<1>5. S \subseteq Pump /\ IsFiniteSet(S)
  <2>1. S \subseteq Pump
    BY DEF Unsynced
  <2>2. IsFiniteSet(Pump)
    BY CapacityAssumption, FS_Interval DEF Pump
  <2> QED BY <2>1, <2>2, FS_Subset
<1>6. pumps \in Seq(S) /\ \A i \in 1..Len(pumps) : pumps[i] \in Pump
  <2>1. pumps \in Seq(S) /\ \A i \in 1..Len(pumps) : pumps[i] \in S
    BY <1>4, <1>5, OrderIsSeq
  <2> QED BY <1>5, <2>1
<1>7. Len(pumps) <= Room /\ Len(pumps) \in Nat
  BY <1>6 DEF Synced
<1> HIDE DEF seen
<1>8. /\ tags \in Seq(Tag)
      /\ Len(tags) = Len(pumps)
      /\ \A i \in 1..Len(tags) : tags[i] \in Tag /\ tags[i][1] = "emar" /\ tags[i][2] \in Pump
  BY <1>6, <1>7, PumpTags
<1> HIDE DEF tags
<1>9. DOMAIN batch = {tags[i] : i \in 1..Len(tags)}
  OBVIOUS
<1>10. \A t \in DOMAIN batch : /\ t \in Tag /\ t[1] = "emar" /\ t[2] \in Pump
                              /\ batch[t] = EmarValue(emarModes, seen, t[2])
                              /\ batch[t] \in Bit /\ batch[t] \in Value
  BY <1>8, EmarValueType DEF QueueInv, TypeOK
<1>11. \A i \in 1..Len(tags) : batch[tags[i]] \in Value
  BY <1>9, <1>10
<1> HIDE DEF batch
<1>12. /\ added \in Seq(Request) /\ Len(added) = Len(tags)
       /\ \A i \in 1..Len(tags) : /\ added[i].tag = tags[i] /\ added[i].source = "other"
                                  /\ added[i].value = batch[tags[i]]
  <2>1. /\ added \in Seq(Request) /\ Len(added) = Len(tags)
        /\ \A i \in 1..Len(tags) : added[i].tag = tags[i] /\ added[i].source = "other"
    BY <1>8, <1>11, RequestsType DEF Source
  <2>2. \A i \in 1..Len(tags) : added[i].value = batch[tags[i]]
    BY DEF Requests
  <2> QED BY <2>1, <2>2
<1> HIDE DEF added
<1>13. Commands(added, DOMAIN batch, batch, "other")
  BY <1>9, <1>12 DEF Commands
<1>14. queue' = queue \o added /\ queue' \in Seq(Request) /\ DepthBounded'
  <2>1. /\ Capacity \in Nat /\ Len(queue) \in Nat /\ InFlightDepth \in 0..1
        /\ Len(added) = Len(pumps) /\ queue \in Seq(Request) /\ TypeOK
    BY <1>8, <1>12, CapacityAssumption DEF InFlightDepth, QueueInv, TypeOK
  <2>2. Len(queue) + Len(added) + InFlightDepth <= Capacity
    BY <1>7, <2>1 DEF Room, WriteDepth
  <2> QED BY <1>3, <1>12, <2>1, <2>2, AppendFits
<1> QED BY <1>1, <1>3, <1>10, <1>13, <1>14 DEF seen

LEMMA UpdateStep ==
  ASSUME QueueInv, NEW updates, UpdateValues(updates),
         \A t \in DOMAIN updates : updates[t] \in Value
  PROVE  QueueInv'
<1> DEFINE seen == Recorded(values, updates, "good")
<1>1. /\ seen \in [Tag -> SignalValue]
      /\ queue' \in Seq(Request) /\ DepthBounded'
      /\ UNCHANGED <<inFlight, emarModes, controls>>
  BY UpdateAppends
<1>2. PICK added, batch : /\ \A t \in DOMAIN batch : batch[t] \in Value
                          /\ Commands(added, DOMAIN batch, batch, "other")
                          /\ queue' = queue \o added
                          /\ values' = Recorded(seen, batch, "queued")
  BY UpdateAppends
<1> HIDE DEF seen
<1>3. OnePendingPerLevel'
  BY <1>2, AppendOrdinary DEF Commands, Ordinary
<1>4. values' \in [Tag -> SignalValue]
  BY <1>1, <1>2, RecordedType DEF Quality
<1> QED BY <1>1, <1>3, <1>4 DEF QueueInv, TypeOK

----
\* Calls that leave the queue alone.
LEMMA ValuesStep ==
  ASSUME QueueInv, UNCHANGED <<queue, inFlight, emarModes>>,
         values' \in [Tag -> SignalValue], controls' \in Controls
  PROVE  QueueInv'
  BY DEF QueueInv, TypeOK, DepthBounded, OnePendingPerLevel, WriteDepth, InFlightDepth

\* Calls of the poller that leave the values alone.
LEMMA QueueStep ==
  ASSUME QueueInv, NEW n \in 0..Len(queue), queue' = SubSeq(queue, n + 1, Len(queue)),
         inFlight' \in Request \union {NoRequest},
         inFlight' # NoRequest => inFlight # NoRequest \/ n > 0,
         UNCHANGED <<values, emarModes, controls>>
  PROVE  QueueInv'
<1>1. queue' \in Seq(Request) /\ Len(queue') = Len(queue) - n /\ OnePendingPerLevel'
  BY SuffixStep
<1>2. Len(queue) \in Nat /\ n \in Nat /\ Capacity \in Nat
  BY CapacityAssumption DEF QueueInv, TypeOK
<1>3. /\ InFlightDepth \in 0..1 /\ InFlightDepth' \in 0..1
      /\ InFlightDepth' <= InFlightDepth + n
  BY <1>2 DEF InFlightDepth
<1>4. Len(queue) + InFlightDepth <= Capacity
  BY DEF QueueInv, DepthBounded, WriteDepth
<1>5. Len(queue') + InFlightDepth' <= Capacity
  <2>1. Len(queue') = Len(queue) - n
    BY <1>1
  <2>2. Len(queue) - n + InFlightDepth' <= Capacity
    BY <1>2, <1>3, <1>4
  <2> QED BY <2>1, <2>2
<1>6. DepthBounded'
  BY <1>5 DEF DepthBounded, WriteDepth
<1> QED BY <1>1, <1>6 DEF QueueInv, TypeOK

LEMMA NextWriteStep ==
  ASSUME QueueInv, NextWrite
  PROVE  QueueInv'
<1>1. queue \in Seq(Request) /\ Len(queue) \in Nat
  BY DEF QueueInv, TypeOK
<1>2. CASE inFlight = NoRequest /\ queue # <<>>
  <2>1. Len(queue) >= 1 /\ Head(queue) \in Request
    BY <1>1, <1>2
  <2>2. queue' = SubSeq(queue, 1 + 1, Len(queue)) /\ inFlight' \in Request
    BY <1>1, <1>2, <2>1 DEF NextWrite
  <2>3. 1 \in 0..Len(queue) /\ UNCHANGED <<values, emarModes, controls>>
    BY <1>1, <2>1 DEF NextWrite
  <2> QED BY <2>2, <2>3, QueueStep
<1>3. CASE ~(inFlight = NoRequest /\ queue # <<>>)
  BY <1>3, ValuesStep DEF NextWrite, QueueInv, TypeOK
<1> QED BY <1>2, <1>3

LEMMA CompleteWriteStep ==
  ASSUME QueueInv, CompleteWrite
  PROVE  QueueInv'
<1>1. queue \in Seq(Request) /\ Len(queue) \in Nat
  BY DEF QueueInv, TypeOK
<1>2. SubSeq(queue, 0 + 1, Len(queue)) = queue
  BY <1>1
<1>3. 0 \in 0..Len(queue)
  BY <1>1
<1> QED BY <1>2, <1>3, QueueStep DEF CompleteWrite

LEMMA DrainWritesStep ==
  ASSUME QueueInv, DrainWrites
  PROVE  QueueInv'
<1>1. queue \in Seq(Request) /\ Len(queue) \in Nat /\ DrainLimit \in Nat
  BY DrainAssumption DEF QueueInv, TypeOK
<1>2. CASE Len(queue) <= DrainLimit
  <2>1. queue' = SubSeq(queue, Len(queue) + 1, Len(queue)) /\ Len(queue) \in 0..Len(queue)
    BY <1>1, <1>2 DEF DrainWrites
  <2> QED BY <2>1, QueueStep DEF DrainWrites
<1>3. CASE Len(queue) > DrainLimit
  <2>1. queue' = SubSeq(queue, DrainLimit + 1, Len(queue)) /\ DrainLimit \in 0..Len(queue)
    BY <1>1, <1>3 DEF DrainWrites
  <2> QED BY <2>1, QueueStep DEF DrainWrites
<1> QED BY <1>1, <1>2, <1>3

----
\* What a start or a restart builds.
LEMMA BootStep ==
  ASSUME NEW ctl \in Controls
  PROVE  /\ BootModes(ctl) \in [Pump -> EmarMode]
         /\ BootValues(ctl) \in [Tag -> SignalValue]
         /\ BootQueue(ctl) \in Seq(Request)
         /\ Len(BootQueue(ctl)) = PumpCount
         /\ \A p \in Pump : BootQueue(ctl)[p].tag = Emar(p)
<1>1. BootModes(ctl) \in [Pump -> EmarMode]
  BY DEF BootModes, Controls
<1>2. BootValues(ctl) \in [Tag -> SignalValue]
  <2> SUFFICES ASSUME NEW t \in Tag PROVE BootValues(ctl)[t] \in SignalValue
    BY DEF BootValues
  <2>1. 0 \in Value /\ 1 \in Value /\ {"unknown", "local", "queued"} \subseteq Quality
    BY ReadingAssumption DEF Value, Bit, Quality
  <2>2. CASE Analog(t)
    BY <2>1, <2>2 DEF BootValues, SignalValue, Analog
  <2>3. CASE t[1] = "rtu"
    <3>1. ctl[t[2]].rtu \in Value
      BY <2>3, TagKinds DEF Controls, Value
    <3> QED BY <2>1, <2>3, <3>1 DEF BootValues, SignalValue, Analog
  <2>4. CASE t[1] = "emar"
    BY <2>1, <2>4 DEF BootValues, SignalValue, Analog
  <2>5. CASE t[1] = "arndo"
    BY <2>1, <2>5 DEF BootValues, SignalValue, Analog
  <2> QED BY <2>2, <2>3, <2>4, <2>5, TagKinds DEF Analog
<1>3. \A p \in Pump : BootQueue(ctl)[p] \in Request /\ BootQueue(ctl)[p].tag = Emar(p)
  BY <1>1, EmarValueType, PumpTags DEF BootQueue, Request, Source
<1>4. BootQueue(ctl) = [p \in 1..PumpCount |-> BootQueue(ctl)[p]]
  BY DEF BootQueue, Pump
<1>5. BootQueue(ctl) \in Seq(Request) /\ Len(BootQueue(ctl)) = PumpCount
  BY <1>3, <1>4, CapacityAssumption DEF Pump
<1> QED BY <1>1, <1>2, <1>3, <1>5

LEMMA InitInv ==
  ASSUME StateInit
  PROVE  QueueInv
<1>1. /\ emarModes \in [Pump -> EmarMode] /\ values \in [Tag -> SignalValue]
      /\ queue \in Seq(Request) /\ Len(queue) = PumpCount /\ controls \in Controls
      /\ \A p \in Pump : queue[p].tag = Emar(p)
  BY BootStep DEF StateInit
<1>2. DepthBounded
  BY <1>1, CapacityAssumption DEF StateInit, DepthBounded, WriteDepth, InFlightDepth
<1>3. OnePendingPerLevel
  <2>1. DOMAIN queue = Pump
    BY <1>1, CapacityAssumption DEF Pump
  <2> QED BY <1>1, <2>1, PumpTags DEF OnePendingPerLevel, RequiresInjection
<1> QED BY <1>1, <1>2, <1>3 DEF StateInit, QueueInv, TypeOK

\* Whatever save a death interrupts, the file holds the controls of every pump.
LEMMA RebootControls ==
  ASSUME TypeOK, Reboot
  PROVE  controls' \in Controls
<1>1. CASE controls' = controls
  BY <1>1 DEF TypeOK
<1>2. ASSUME NEW p \in Pump, NEW m \in EmarMode,
             controls' = [controls EXCEPT ![p].emar_mode = m]
      PROVE  controls' \in Controls
  BY <1>2 DEF TypeOK, Controls
<1>3. ASSUME NEW post \in Post, IsInjection(post), controls' = WithRtu(controls, post.batch)
      PROVE  controls' \in Controls
  BY <1>3, ValidatedType, WithRtuType DEF TypeOK, IsInjection
<1> QED BY <1>1, <1>2, <1>3 DEF Reboot, InterruptedSaves

LEMMA RebootStep ==
  ASSUME QueueInv, Reboot
  PROVE  QueueInv'
<1>0. controls' \in Controls
  BY RebootControls DEF QueueInv
<1>1. /\ emarModes' \in [Pump -> EmarMode] /\ values' \in [Tag -> SignalValue]
      /\ queue' \in Seq(Request) /\ Len(queue') = PumpCount /\ controls' \in Controls
      /\ \A p \in Pump : queue'[p].tag = Emar(p)
  BY <1>0, BootStep DEF Reboot
<1>2. DepthBounded'
  BY <1>1, CapacityAssumption DEF Reboot, DepthBounded, WriteDepth, InFlightDepth
<1>3. OnePendingPerLevel'
  <2>1. DOMAIN queue' = Pump
    BY <1>1, CapacityAssumption DEF Pump
  <2> QED BY <1>1, <2>1, PumpTags DEF OnePendingPerLevel, RequiresInjection
<1> QED BY <1>1, <1>2, <1>3 DEF Reboot, QueueInv, TypeOK

----
LEMMA PostStep ==
  ASSUME QueueInv, NEW post \in Post,
         \/ EnqueueWrites(post) \/ QueueInjections(post)
         \/ UpdateRtuTags(post) \/ RecordDisabledInjections(post)
  PROVE  QueueInv'
<1>1. CASE EnqueueWrites(post)
  BY <1>1, EnqueueStep DEF EnqueueWrites, Facade, RequiresInjection
<1>2. CASE QueueInjections(post)
  BY <1>2, EnqueueStep, CoalesceStep DEF QueueInjections, IsInjection
<1>3. CASE UpdateRtuTags(post)
  <2>1. controls' \in Controls
    BY <1>3, ValidatedType, WithRtuType DEF UpdateRtuTags, IsInjection, QueueInv, TypeOK
  <2> QED BY <1>3, <2>1, ValuesStep DEF UpdateRtuTags, QueueInv, TypeOK
<1>4. CASE RecordDisabledInjections(post)
  <2>1. values' \in [Tag -> SignalValue]
    BY <1>4, ValidatedType, RecordedType
       DEF RecordDisabledInjections, IsInjection, QueueInv, TypeOK, Quality
  <2> QED BY <1>4, <2>1, ValuesStep DEF RecordDisabledInjections, QueueInv, TypeOK
<1> QED BY <1>1, <1>2, <1>3, <1>4

LEMMA MarkStep ==
  ASSUME QueueInv, NEW table, MarkTableError(table)
  PROVE  QueueInv'
<1>1. values' \in [Tag -> SignalValue]
  BY DEF MarkTableError, QueueInv, TypeOK, SignalValue, Quality
<1> QED BY <1>1, ValuesStep DEF MarkTableError, QueueInv, TypeOK

LEMMA ResultStep ==
  ASSUME QueueInv, NEW t \in Tag, NEW v \in Value, NEW ok \in BOOLEAN, WriteResult(t, v, ok)
  PROVE  QueueInv'
<1>1. values' \in [Tag -> SignalValue]
  BY DEF WriteResult, QueueInv, TypeOK, SignalValue, Quality
<1> QED BY <1>1, ValuesStep DEF WriteResult, QueueInv, TypeOK

\* Every call of RuntimeState keeps the invariant.
LEMMA NextInv ==
  ASSUME QueueInv, [StateNext]_stateVars
  PROVE  QueueInv'
<1>1. ASSUME NEW post \in Post,
             \/ EnqueueWrites(post) \/ QueueInjections(post)
             \/ UpdateRtuTags(post) \/ RecordDisabledInjections(post)
      PROVE  QueueInv'
  BY <1>1, PostStep
<1>2. ASSUME NEW p \in Pump, NEW m \in EmarMode, SetPumpEmarMode(p, m)
      PROVE  QueueInv'
  BY <1>2, SetModeStep
<1>3. ASSUME NEW table \in Table, MarkTableError(table)
      PROVE  QueueInv'
  BY <1>3, MarkStep
<1>4. ASSUME \E tags \in ReadTogether : \E updates \in [tags -> Value] :
               /\ \A t \in tags : updates[t] \in ValueOf(t)
               /\ UpdateValues(updates)
      PROVE  QueueInv'
  BY <1>4, UpdateStep
<1>5. ASSUME NEW t \in Tag, NEW v \in Value, NEW ok \in BOOLEAN, WriteResult(t, v, ok)
      PROVE  QueueInv'
  BY <1>5, ResultStep
<1>6. CASE NextWrite \/ CompleteWrite \/ DrainWrites \/ Reboot
  BY <1>6, NextWriteStep, CompleteWriteStep, DrainWritesStep, RebootStep
<1>7. CASE UNCHANGED stateVars
  BY <1>7, ValuesStep DEF stateVars, QueueInv, TypeOK
<1> QED BY <1>1, <1>2, <1>3, <1>4, <1>5, <1>6, <1>7, Zenon DEF StateNext

LEMMA Invariance == StateSpec => []QueueInv
<1>1. StateInit => QueueInv
  BY InitInv
<1>2. QueueInv /\ [StateNext]_stateVars => QueueInv'
  BY NextInv
<1> QED BY <1>1, <1>2, PTL DEF StateSpec

\* Every call leaves the state of RuntimeState well formed, in particular every request
\* in the queue names a tag and a value that can be written.
THEOREM TypeCorrect == StateSpec => []TypeOK
BY Invariance, PTL DEF QueueInv

\* Whoever enqueues and whatever is in flight, the depth never passes the capacity, so
\* that append never drops an accepted command from the other end of the deque.
THEOREM DepthIsBounded == StateSpec => []DepthBounded
BY Invariance, PTL DEF QueueInv

\* The emulator never has two values pending for one level.
THEOREM LevelsAreCoalesced == StateSpec => []OnePendingPerLevel
BY Invariance, PTL DEF QueueInv

----
LEMMA WithRtuKeepsModes ==
  ASSUME TypeOK, ModesAreSaved, NEW batch,
         controls' = WithRtu(controls, batch), UNCHANGED emarModes
  PROVE  ModesAreSaved'
<1>1. \A p \in Pump : controls'[p].emar_mode = controls[p].emar_mode
  BY DEF TypeOK, Controls, WithRtu
<1> QED BY <1>1 DEF ModesAreSaved, BootModes

LEMMA SetModeKeepsModes ==
  ASSUME TypeOK, ModesAreSaved, NEW p \in Pump, NEW m \in EmarMode, SetPumpEmarMode(p, m)
  PROVE  ModesAreSaved'
<1>1. \A q \in Pump : emarModes'[q] = controls'[q].emar_mode
  BY DEF SetPumpEmarMode, TypeOK, ModesAreSaved, BootModes, Controls
<1>2. emarModes' \in [Pump -> EmarMode]
  BY DEF SetPumpEmarMode, TypeOK
<1> QED BY <1>1, <1>2 DEF ModesAreSaved, BootModes

\* After every call, and after a restart, the modes in memory are those of the file: a
\* mode the full queue refuses is neither remembered nor saved.
THEOREM ModesSurvive == StateSpec => []ModesAreSaved
<1>1. StateInit => ModesAreSaved
  BY DEF StateInit, ModesAreSaved
<1>2. QueueInv /\ ModesAreSaved /\ [StateNext]_stateVars => ModesAreSaved'
  <2> SUFFICES ASSUME QueueInv, ModesAreSaved, [StateNext]_stateVars
               PROVE  ModesAreSaved'
    OBVIOUS
  <2>1. TypeOK
    BY DEF QueueInv
  <2>2. ASSUME NEW post \in Post,
               EnqueueWrites(post) \/ QueueInjections(post) \/ UpdateRtuTags(post)
        PROVE  ModesAreSaved'
    BY <2>1, <2>2, WithRtuKeepsModes
       DEF EnqueueWrites, QueueInjections, UpdateRtuTags, Enqueue, CoalescePendingWrites
  <2>3. ASSUME NEW p \in Pump, NEW m \in EmarMode, SetPumpEmarMode(p, m)
        PROVE  ModesAreSaved'
    BY <2>1, <2>3, SetModeKeepsModes
  <2>4. CASE UNCHANGED <<emarModes, controls>>
    BY <2>4 DEF ModesAreSaved, BootModes
  <2>5. CASE Reboot
    BY <2>5 DEF ModesAreSaved, BootModes, Reboot
  <2>6. ASSUME \/ \E post \in Post : RecordDisabledInjections(post)
               \/ \E table \in Table : MarkTableError(table)
               \/ \E tags \in ReadTogether : \E updates \in [tags -> Value] :
                    /\ \A t \in tags : updates[t] \in ValueOf(t)
                    /\ UpdateValues(updates)
               \/ \E t \in Tag, v \in Value, ok \in BOOLEAN : WriteResult(t, v, ok)
               \/ NextWrite \/ CompleteWrite \/ DrainWrites
               \/ UNCHANGED stateVars
        PROVE  UNCHANGED <<emarModes, controls>>
    BY <2>6 DEF RecordDisabledInjections, MarkTableError, UpdateValues, WriteResult,
                NextWrite, CompleteWrite, DrainWrites, stateVars
  <2> QED BY <2>2, <2>3, <2>4, <2>5, <2>6 DEF StateNext
<1> QED BY <1>1, <1>2, Invariance, PTL DEF StateSpec

----
(***************************************************************************)
(* What is pending, as one sequence: the request in flight, then the queue.*)
(***************************************************************************)
Depth(f) == IF f = NoRequest THEN 0 ELSE 1

LEMMA PendingSeq ==
  ASSUME NEW f \in Request \union {NoRequest}, NEW q \in Seq(Request)
  PROVE  LET pending == (IF f = NoRequest THEN <<>> ELSE <<f>>) \o q
         IN  /\ pending \in Seq(Request)
             /\ Len(pending) = Depth(f) + Len(q)
             /\ f # NoRequest => pending[1] = f
             /\ \A i \in 1..Len(q) : pending[Depth(f) + i] = q[i]
<1>1. CASE f = NoRequest
  BY <1>1 DEF Depth
<1>2. CASE f # NoRequest
  <2>1. <<f>> \in Seq(Request) /\ Len(<<f>>) = 1 /\ <<f>>[1] = f
    BY <1>2
  <2> QED BY <1>2, <2>1 DEF Depth
<1> QED BY <1>1, <1>2

LEMMA PendingType ==
  ASSUME TypeOK
  PROVE  /\ PendingWrites \in Seq(Request)
         /\ Len(PendingWrites) = InFlightDepth + Len(queue)
         /\ inFlight # NoRequest => PendingWrites[1] = inFlight
         /\ \A i \in 1..Len(queue) : PendingWrites[InFlightDepth + i] = queue[i]
  BY PendingSeq DEF TypeOK, PendingWrites, InFlightDepth, Depth

\* The same after a step.
LEMMA PendingTypeNext ==
  ASSUME TypeOK'
  PROVE  /\ PendingWrites' \in Seq(Request)
         /\ Len(PendingWrites') = InFlightDepth' + Len(queue')
         /\ inFlight' # NoRequest => PendingWrites'[1] = inFlight'
         /\ \A i \in 1..Len(queue') : PendingWrites'[InFlightDepth' + i] = queue'[i]
  BY PendingSeq DEF TypeOK, PendingWrites, InFlightDepth, Depth

\* A call that keeps the requests of the queue where they are, and appends, does the
\* same to what is pending.
LEMMA PendingGrows ==
  ASSUME TypeOK, TypeOK', NEW kept \in Seq(Request), NEW added \in Seq(Request),
         Len(kept) = Len(queue), queue' = kept \o added, UNCHANGED inFlight
  PROVE  /\ Len(PendingWrites') = Len(PendingWrites) + Len(added)
         /\ \A i \in 1..Len(PendingWrites) :
              \/ PendingWrites'[i] = PendingWrites[i]
              \/ \E k \in 1..Len(queue) : /\ i = InFlightDepth + k
                                          /\ PendingWrites[i] = queue[k]
                                          /\ PendingWrites'[i] = kept[k]
         /\ \A k \in 1..Len(queue) : PendingWrites'[InFlightDepth + k] = kept[k]
         /\ \A k \in 1..Len(added) : PendingWrites'[Len(PendingWrites) + k] = added[k]
<1>1. /\ Len(queue) \in Nat /\ Len(added) \in Nat /\ InFlightDepth \in 0..1
      /\ InFlightDepth' = InFlightDepth /\ Len(queue') = Len(queue) + Len(added)
  <2>1. Len(kept) \in Nat /\ Len(added) \in Nat /\ Len(kept \o added) = Len(kept) + Len(added)
    BY ConcatProperties, LenProperties
  <2>2. InFlightDepth \in 0..1 /\ InFlightDepth' = InFlightDepth
    BY DEF InFlightDepth
  <2> QED BY <2>1, <2>2
<1>2. /\ Len(PendingWrites) = InFlightDepth + Len(queue)
      /\ inFlight # NoRequest => PendingWrites[1] = inFlight
      /\ \A i \in 1..Len(queue) : PendingWrites[InFlightDepth + i] = queue[i]
  BY PendingType
<1>3. /\ Len(PendingWrites') = InFlightDepth' + Len(queue')
      /\ inFlight' # NoRequest => PendingWrites'[1] = inFlight'
      /\ \A i \in 1..Len(queue') : PendingWrites'[InFlightDepth' + i] = queue'[i]
  BY PendingTypeNext
<1>4. \A k \in 1..Len(queue) : queue'[k] = kept[k]
  BY <1>1
<1>5. \A k \in 1..Len(added) : queue'[Len(queue) + k] = added[k]
  BY <1>1
<1>6. ASSUME NEW i \in 1..Len(PendingWrites), i > InFlightDepth
      PROVE  /\ i - InFlightDepth \in 1..Len(queue)
             /\ i = InFlightDepth + (i - InFlightDepth)
  BY <1>1, <1>2, <1>6
<1>7. ASSUME NEW i \in 1..Len(PendingWrites), ~(i > InFlightDepth)
      PROVE  PendingWrites'[i] = PendingWrites[i]
  BY <1>1, <1>2, <1>3, <1>7 DEF InFlightDepth
<1>8. \A k \in 1..Len(queue) : /\ PendingWrites'[InFlightDepth + k] = kept[k]
                               /\ PendingWrites[InFlightDepth + k] = queue[k]
  BY <1>1, <1>2, <1>3, <1>4
<1>9. \A k \in 1..Len(added) : PendingWrites'[Len(PendingWrites) + k] = added[k]
  <2> TAKE k \in 1..Len(added)
  <2>1. Len(queue) + k \in 1..Len(queue')
    BY <1>1
  <2>2. PendingWrites'[InFlightDepth + (Len(queue) + k)] = added[k]
    BY <1>1, <1>3, <1>5, <2>1
  <2>3. InFlightDepth + (Len(queue) + k) = Len(PendingWrites) + k
    BY <1>1, <1>2
  <2> QED BY <2>2, <2>3
<1>10. Len(PendingWrites') = Len(PendingWrites) + Len(added)
  BY <1>1, <1>2, <1>3
<1> QED BY <1>6, <1>7, <1>8, <1>9, <1>10

\* Taking from the front leaves the end of what is pending.
LEMMA PendingShrinks ==
  ASSUME QueueInv, NextWrite \/ CompleteWrite \/ DrainWrites
  PROVE  \E n \in 0..Len(PendingWrites) :
           /\ Len(PendingWrites') = Len(PendingWrites) - n
           /\ \A i \in 1..Len(PendingWrites') : PendingWrites'[i] = PendingWrites[i + n]
<1>1. queue \in Seq(Request) /\ Len(queue) \in Nat /\ InFlightDepth \in 0..1
  BY DEF QueueInv, TypeOK, InFlightDepth
<1>2. /\ PendingWrites \in Seq(Request)
      /\ Len(PendingWrites) = InFlightDepth + Len(queue)
      /\ \A i \in 1..Len(queue) : PendingWrites[InFlightDepth + i] = queue[i]
  BY PendingType DEF QueueInv
<1>3. CASE NextWrite
  <2>1. PendingWrites' = PendingWrites
    <3>1. CASE inFlight = NoRequest /\ queue # <<>>
      <4>1. PendingWrites = queue /\ PendingWrites' = <<Head(queue)>> \o Tail(queue)
        <5>1. Head(queue) # NoRequest
          BY <1>1, <3>1, NoneAssumption
        <5> QED BY <1>1, <1>3, <3>1, <5>1 DEF PendingWrites, NextWrite
      <4>2. <<Head(queue)>> \o Tail(queue) = queue
        BY <1>1, <3>1
      <4> QED BY <4>1, <4>2
    <3>2. CASE ~(inFlight = NoRequest /\ queue # <<>>)
      BY <1>3, <3>2 DEF PendingWrites, NextWrite
    <3> QED BY <3>1, <3>2
  <2> QED BY <1>1, <1>2, <2>1
<1>4. CASE CompleteWrite
  <2>1. PendingWrites' = queue
    BY <1>1, <1>4 DEF PendingWrites, CompleteWrite
  <2> QED BY <1>1, <1>2, <2>1
<1>5. CASE DrainWrites
  <2>1. InFlightDepth = 0 /\ PendingWrites' = queue'
    BY <1>1, <1>5 DEF PendingWrites, DrainWrites, InFlightDepth
  <2>2. CASE Len(queue) <= DrainLimit
    <3>1. queue' = <<>>
      BY <1>5, <2>2 DEF DrainWrites
    <3> QED BY <1>1, <1>2, <2>1, <3>1
  <2>3. CASE Len(queue) > DrainLimit
    <3>1. DrainLimit \in 0..Len(queue) /\ queue' = SubSeq(queue, DrainLimit + 1, Len(queue))
      BY <1>1, <1>5, <2>3, DrainAssumption DEF DrainWrites
    <3>2. /\ Len(queue') = Len(queue) - DrainLimit
          /\ \A i \in 1..Len(queue') : queue'[i] = queue[i + DrainLimit]
      BY <3>1, SuffixStep
    <3>3. \A i \in 1..Len(queue') : PendingWrites[i + DrainLimit] = queue[i + DrainLimit]
      BY <1>1, <1>2, <2>1, <3>1, <3>2
    <3>4. /\ DrainLimit \in 0..Len(PendingWrites)
          /\ Len(PendingWrites') = Len(PendingWrites) - DrainLimit
      BY <1>1, <1>2, <2>1, <3>1, <3>2
    <3>5. \A i \in 1..Len(PendingWrites') : PendingWrites'[i] = PendingWrites[i + DrainLimit]
      BY <2>1, <3>2, <3>3
    <3> QED BY <3>4, <3>5
  <2>4. Len(queue) <= DrainLimit \/ Len(queue) > DrainLimit
    BY <1>1, DrainAssumption
  <2> QED BY <2>2, <2>3, <2>4
<1> QED BY <1>3, <1>4, <1>5

----
\* Calls that append: commands of a pump that are added carry the value its mode imposes,
\* those that stay are not touched, and a pump whose mode changes gets one.
LEMMA NewestWhenAppending ==
  ASSUME TypeOK, TypeOK', NewestEmarIsCommanded,
         NEW kept \in Seq(Request), NEW added \in Seq(Request),
         Len(kept) = Len(queue), queue' = kept \o added, UNCHANGED inFlight,
         \A i \in 1..Len(queue) : /\ kept[i].tag = queue[i].tag
                                  /\ kept[i].tag[1] = "emar" => kept[i].value = queue[i].value,
         \A p \in Pump : emarModes'[p] # "automatic" =>
           /\ \A k \in 1..Len(added) : added[k].tag = Emar(p) =>
                added[k].value = EmarValue(emarModes', values', p)
           /\ \/ emarModes'[p] = emarModes[p]
              \/ \E k \in 1..Len(added) : added[k].tag = Emar(p)
  PROVE  NewestEmarIsCommanded'
<1> SUFFICES ASSUME NEW p \in Pump, emarModes'[p] # "automatic",
                    NEW i \in 1..Len(PendingWrites'), PendingWrites'[i].tag = Emar(p),
                    \A j \in 1..Len(PendingWrites') : j > i => PendingWrites'[j].tag # Emar(p)
             PROVE  PendingWrites'[i].value = EmarValue(emarModes', values', p)
  <2>1. DOMAIN PendingWrites' = 1..Len(PendingWrites')
    <3>1. PendingWrites' \in Seq(Request)
      BY PendingTypeNext
    <3> QED BY <3>1
  <2> QED BY <2>1 DEF NewestEmarIsCommanded
<1> DEFINE n == Len(PendingWrites)
<1>1. /\ Len(PendingWrites') = n + Len(added)
      /\ \A k \in 1..n : \/ PendingWrites'[k] = PendingWrites[k]
                         \/ \E l \in 1..Len(queue) : /\ PendingWrites[k] = queue[l]
                                                     /\ PendingWrites'[k] = kept[l]
      /\ \A k \in 1..Len(added) : PendingWrites'[n + k] = added[k]
  BY PendingGrows
<1>2. /\ PendingWrites \in Seq(Request) /\ n \in Nat /\ Len(added) \in Nat
      /\ DOMAIN PendingWrites = 1..n
  BY PendingType
<1>3. \A k \in 1..n : /\ PendingWrites'[k].tag = PendingWrites[k].tag
                      /\ PendingWrites'[k].tag[1] = "emar" =>
                           PendingWrites'[k].value = PendingWrites[k].value
  BY <1>1
<1> HIDE DEF n
<1>4. CASE i > n
  <2>1. i - n \in 1..Len(added) /\ PendingWrites'[i] = added[i - n]
    <3>1. i - n \in 1..Len(added) /\ n + (i - n) = i
      BY <1>1, <1>2, <1>4
    <3> QED BY <1>1, <3>1
  <2> QED BY <2>1
<1>5. CASE i <= n
  <2>1. i \in 1..n
    BY <1>1, <1>2, <1>5
  <2>2. \A k \in 1..Len(added) : added[k].tag # Emar(p)
    <3> TAKE k \in 1..Len(added)
    <3>1. n + k \in 1..Len(PendingWrites') /\ n + k > i
      BY <1>1, <1>2, <2>1
    <3> QED BY <1>1, <3>1
  <2>3. emarModes[p] = emarModes'[p]
    BY <2>2
  <2>4. PendingWrites[i].tag = Emar(p) /\ PendingWrites'[i].value = PendingWrites[i].value
    BY <1>3, <2>1, PumpTags
  <2>5. ASSUME NEW j \in 1..n, j > i
        PROVE  PendingWrites[j].tag # Emar(p)
    <3>1. j \in 1..Len(PendingWrites')
      BY <1>1, <1>2
    <3> QED BY <1>3, <2>5, <3>1
  <2>6. PendingWrites[i].value = EmarValue(emarModes, values, p)
    BY <1>2, <2>1, <2>3, <2>4, <2>5 DEF NewestEmarIsCommanded
  <2>7. EmarValue(emarModes, values, p) = EmarValue(emarModes', values', p)
    BY <2>3 DEF TypeOK, EmarValue, EmarMode
  <2> QED BY <2>4, <2>6, <2>7
<1> QED BY <1>1, <1>2, <1>4, <1>5

\* Calls that take from the front, and calls that leave what is pending alone.
LEMMA NewestWhenShrinking ==
  ASSUME TypeOK, TypeOK', NewestEmarIsCommanded, UNCHANGED emarModes,
         NEW n \in 0..Len(PendingWrites), Len(PendingWrites') = Len(PendingWrites) - n,
         \A i \in 1..Len(PendingWrites') : PendingWrites'[i] = PendingWrites[i + n]
  PROVE  NewestEmarIsCommanded'
<1>1. PendingWrites \in Seq(Request) /\ PendingWrites' \in Seq(Request)
  BY PendingType, PendingTypeNext
<1>2. /\ DOMAIN PendingWrites = 1..Len(PendingWrites) /\ Len(PendingWrites) \in Nat
      /\ DOMAIN PendingWrites' = 1..(Len(PendingWrites) - n)
  BY <1>1
<1> SUFFICES ASSUME NEW p \in Pump, emarModes'[p] # "automatic",
                    NEW i \in DOMAIN PendingWrites', PendingWrites'[i].tag = Emar(p),
                    \A j \in DOMAIN PendingWrites' : j > i => PendingWrites'[j].tag # Emar(p)
             PROVE  PendingWrites'[i].value = EmarValue(emarModes', values', p)
  BY DEF NewestEmarIsCommanded
<1>3. i + n \in DOMAIN PendingWrites /\ PendingWrites[i + n] = PendingWrites'[i]
  BY <1>2
<1>4. ASSUME NEW j \in DOMAIN PendingWrites, j > i + n
      PROVE  PendingWrites[j].tag # Emar(p)
  <2>1. j - n \in DOMAIN PendingWrites' /\ j - n > i /\ (j - n) + n = j
    BY <1>2, <1>4
  <2>2. PendingWrites'[j - n] = PendingWrites[j]
    BY <1>2, <2>1
  <2> QED BY <2>1, <2>2
<1>5. PendingWrites[i + n].value = EmarValue(emarModes, values, p)
  BY <1>3, <1>4 DEF NewestEmarIsCommanded
<1>6. EmarValue(emarModes, values, p) = EmarValue(emarModes', values', p)
  BY DEF TypeOK, EmarValue, EmarMode
<1> QED BY <1>3, <1>5, <1>6

LEMMA InitNewest ==
  ASSUME NEW ctl \in Controls, queue = BootQueue(ctl), inFlight = NoRequest,
         emarModes = BootModes(ctl), values = BootValues(ctl)
  PROVE  NewestEmarIsCommanded
<1>1. PendingWrites = queue /\ DOMAIN queue = Pump
  <2>1. queue \in Seq(Request)
    BY BootStep
  <2> QED BY <2>1 DEF PendingWrites, BootQueue
<1>2. \A q \in Pump : /\ queue[q].tag = Emar(q)
                      /\ queue[q].value = EmarValue(emarModes, values, q)
  BY DEF BootQueue
<1>3. \A p, q \in Pump : Emar(p) = Emar(q) => p = q
  BY DEF Emar
<1> QED BY <1>1, <1>2, <1>3 DEF NewestEmarIsCommanded

LEMMA EnqueueNewest ==
  ASSUME QueueInv, TypeOK', NewestEmarIsCommanded, NEW post \in Post, Validated(post),
         Enqueue(post), \A t \in DOMAIN post.batch : t[1] # "emar"
  PROVE  NewestEmarIsCommanded'
<1>1. PICK added : /\ Commands(added, DOMAIN post.batch, post.batch, post.source)
                   /\ queue' = queue \o added
  BY EnqueueAppends
<1>2. added \in Seq(Request) /\ \A k \in 1..Len(added) : added[k].tag[1] # "emar"
  BY <1>1 DEF Commands
<1>3. TypeOK /\ queue \in Seq(Request) /\ UNCHANGED <<inFlight, emarModes>>
  BY DEF QueueInv, TypeOK, Enqueue
<1>4. \A p \in Pump, k \in 1..Len(added) : added[k].tag # Emar(p)
  BY <1>2, PumpTags
<1> QED BY <1>1, <1>2, <1>3, <1>4, NewestWhenAppending

LEMMA CoalesceNewest ==
  ASSUME QueueInv, TypeOK', NewestEmarIsCommanded, NEW post \in Post, IsInjection(post),
         CoalescePendingWrites(post.batch)
  PROVE  NewestEmarIsCommanded'
<1> DEFINE batch == post.batch
           kept == WithNewValues(queue, batch)
<1>1. \A t \in DOMAIN batch : t[1] # "emar" /\ batch[t] \in Value
  BY InjectionTags, ValidatedType DEF IsInjection
<1>2. PICK added : /\ Commands(added, DOMAIN batch \ PendingTags(batch), batch, "field-emulator")
                   /\ queue' = kept \o added
  BY CoalesceAppends
<1>3. added \in Seq(Request) /\ \A k \in 1..Len(added) : added[k].tag[1] # "emar"
  BY <1>1, <1>2 DEF Commands
<1>4. /\ kept \in Seq(Request) /\ Len(kept) = Len(queue)
      /\ \A i \in 1..Len(queue) : /\ kept[i].tag = queue[i].tag
                                  /\ kept[i].tag[1] = "emar" => kept[i].value = queue[i].value
  BY <1>1, NewValuesInPlace
<1> HIDE DEF kept, batch
<1>5. TypeOK /\ UNCHANGED <<inFlight, emarModes>>
  BY DEF QueueInv, CoalescePendingWrites
<1>6. \A p \in Pump, k \in 1..Len(added) : added[k].tag # Emar(p)
  BY <1>3, PumpTags
<1> QED BY <1>2, <1>3, <1>4, <1>5, <1>6, NewestWhenAppending

LEMMA SetModeNewest ==
  ASSUME QueueInv, TypeOK', NewestEmarIsCommanded, NEW p \in Pump, NEW m \in EmarMode,
         SetPumpEmarMode(p, m)
  PROVE  NewestEmarIsCommanded'
<1> DEFINE batch == [t \in {Emar(p)} |-> EmarValue(emarModes', values, p)]
<1>1. PICK added : Commands(added, {Emar(p)}, batch, "other") /\ queue' = queue \o added
  BY SetModeAppends
<1>2. /\ added \in Seq(Request)
      /\ \A k \in 1..Len(added) : /\ added[k].tag = Emar(p)
                                  /\ added[k].value = EmarValue(emarModes', values, p)
      /\ \E k \in 1..Len(added) : added[k].tag = Emar(p)
  BY <1>1 DEF Commands
<1>3. /\ TypeOK /\ queue \in Seq(Request) /\ UNCHANGED inFlight
      /\ \A q \in Pump : q # p => emarModes'[q] = emarModes[q] /\ Emar(q) # Emar(p)
  BY DEF QueueInv, TypeOK, SetPumpEmarMode, Emar
<1>4. \A q \in Pump : emarModes'[q] # "automatic" =>
        EmarValue(emarModes', values', q) = EmarValue(emarModes', values, q)
  BY DEF TypeOK, EmarValue, EmarMode
<1>5. \A q \in Pump : emarModes'[q] # "automatic" =>
        /\ \A k \in 1..Len(added) : added[k].tag = Emar(q) =>
             added[k].value = EmarValue(emarModes', values', q)
        /\ \/ emarModes'[q] = emarModes[q]
           \/ \E k \in 1..Len(added) : added[k].tag = Emar(q)
  BY <1>2, <1>3, <1>4
<1> QED BY <1>1, <1>2, <1>3, <1>5, NewestWhenAppending

LEMMA UpdateNewest ==
  ASSUME QueueInv, TypeOK', NewestEmarIsCommanded, NEW updates, UpdateValues(updates),
         \A t \in DOMAIN updates : updates[t] \in Value
  PROVE  NewestEmarIsCommanded'
<1> DEFINE seen == Recorded(values, updates, "good")
<1>1. PICK added, batch :
        /\ \A t \in DOMAIN batch : batch[t] = EmarValue(emarModes, seen, t[2])
        /\ Commands(added, DOMAIN batch, batch, "other")
        /\ queue' = queue \o added
  BY UpdateAppends
<1>2. /\ added \in Seq(Request)
      /\ \A k \in 1..Len(added) :
           added[k].value = EmarValue(emarModes, seen, added[k].tag[2])
  BY <1>1 DEF Commands
<1>3. TypeOK /\ queue \in Seq(Request) /\ UNCHANGED <<inFlight, emarModes>>
  BY UpdateAppends DEF QueueInv, TypeOK
<1> HIDE DEF seen
<1>4. \A q \in Pump : emarModes[q] # "automatic" =>
        EmarValue(emarModes', values', q) = EmarValue(emarModes, seen, q)
  BY <1>3 DEF TypeOK, EmarValue, EmarMode
<1>5. \A q \in Pump, k \in 1..Len(added) :
        emarModes[q] # "automatic" /\ added[k].tag = Emar(q) =>
          added[k].value = EmarValue(emarModes', values', q)
  BY <1>2, <1>4, PumpTags
<1> QED BY <1>1, <1>2, <1>3, <1>5, NewestWhenAppending

\* While a pump's mode is disabled or forced, the last of the commands for yB#EMar that
\* are pending is the one that mode imposes, whatever calls come in between.
THEOREM NewestCommands == StateSpec => []NewestEmarIsCommanded
<1>1. StateInit => NewestEmarIsCommanded
  BY InitNewest DEF StateInit
<1>2. /\ QueueInv /\ QueueInv' /\ NewestEmarIsCommanded /\ [StateNext]_stateVars
      => NewestEmarIsCommanded'
  <2> SUFFICES ASSUME QueueInv, QueueInv', NewestEmarIsCommanded, [StateNext]_stateVars
               PROVE  NewestEmarIsCommanded'
    OBVIOUS
  <2>1. TypeOK /\ TypeOK'
    BY DEF QueueInv
  <2>2. ASSUME UNCHANGED <<queue, inFlight, emarModes>>
        PROVE  NewestEmarIsCommanded'
    <3>1. PendingWrites' = PendingWrites /\ PendingWrites \in Seq(Request)
      BY <2>1, <2>2, PendingType DEF PendingWrites
    <3> QED BY <2>1, <2>2, <3>1, NewestWhenShrinking
  <2>3. ASSUME NEW post \in Post, EnqueueWrites(post) \/ QueueInjections(post)
        PROVE  NewestEmarIsCommanded'
    <3>1. CASE EnqueueWrites(post)
      BY <2>1, <3>1, EnqueueNewest DEF EnqueueWrites, Facade
    <3>2. CASE QueueInjections(post)
      BY <2>1, <3>2, EnqueueNewest, CoalesceNewest, InjectionTags
         DEF QueueInjections, IsInjection
    <3> QED BY <2>3, <3>1, <3>2
  <2>4. ASSUME NEW p \in Pump, NEW m \in EmarMode, SetPumpEmarMode(p, m)
        PROVE  NewestEmarIsCommanded'
    BY <2>1, <2>4, SetModeNewest
  <2>5. ASSUME \E tags \in ReadTogether : \E updates \in [tags -> Value] :
                 /\ \A t \in tags : updates[t] \in ValueOf(t)
                 /\ UpdateValues(updates)
        PROVE  NewestEmarIsCommanded'
    BY <2>1, <2>5, UpdateNewest
  <2>6. CASE NextWrite \/ CompleteWrite \/ DrainWrites
    <3>1. UNCHANGED emarModes
      BY <2>6 DEF NextWrite, CompleteWrite, DrainWrites
    <3> QED BY <2>1, <2>6, <3>1, PendingShrinks, NewestWhenShrinking
  <2>7. CASE Reboot
    <3>1. NewestEmarIsCommanded' <=>
            LET pending == PendingWrites'
            IN \A p \in Pump : emarModes'[p] # "automatic" =>
                 \A i \in DOMAIN pending :
                   /\ pending[i].tag = Emar(p)
                   /\ \A j \in DOMAIN pending : j > i => pending[j].tag # Emar(p)
                   => pending[i].value = EmarValue(emarModes', values', p)
      BY DEF NewestEmarIsCommanded
    <3>2. PendingWrites' = BootQueue(controls') /\ DOMAIN BootQueue(controls') = Pump
      <4>1. BootQueue(controls') \in Seq(Request)
        BY <2>1, <2>7, RebootControls, BootStep
      <4> QED BY <2>7, <4>1 DEF PendingWrites, BootQueue, Reboot
    <3>3. \A p \in Pump : /\ BootQueue(controls')[p].tag = Emar(p)
                          /\ BootQueue(controls')[p].value = EmarValue(emarModes', values', p)
      BY <2>7 DEF BootQueue, Reboot
    <3>4. \A p, q \in Pump : Emar(p) = Emar(q) => p = q
      BY DEF Emar
    <3> QED BY <3>1, <3>2, <3>3, <3>4
  <2>8. ASSUME \/ \E post \in Post : UpdateRtuTags(post) \/ RecordDisabledInjections(post)
               \/ \E table \in Table : MarkTableError(table)
               \/ \E t \in Tag, v \in Value, ok \in BOOLEAN : WriteResult(t, v, ok)
               \/ UNCHANGED stateVars
        PROVE  UNCHANGED <<queue, inFlight, emarModes>>
    BY <2>8 DEF UpdateRtuTags, RecordDisabledInjections, MarkTableError, WriteResult, stateVars
  <2> QED BY <2>2, <2>3, <2>4, <2>5, <2>6, <2>7, <2>8, Zenon DEF StateNext
<1> QED BY <1>1, <1>2, Invariance, PTL DEF StateSpec

----
\* Every request that is pending is for a signal that can be written, with a value it can
\* hold, so that writing it and recording it leave the PLC and the values shown well typed.
Fits(r) == Writable(r.tag) /\ r.value \in ValueOf(r.tag)

RequestsFit ==
  /\ \A i \in 1..Len(queue) : Fits(queue[i])
  /\ inFlight # NoRequest => Fits(inFlight)

LEMMA FitWhenAppending ==
  ASSUME RequestsFit, NEW kept \in Seq(Request), NEW added \in Seq(Request),
         queue' = kept \o added, UNCHANGED inFlight,
         \A i \in 1..Len(kept) : Fits(kept[i]),
         \A i \in 1..Len(added) : Fits(added[i])
  PROVE  RequestsFit'
<1>1. Len(kept) \in Nat /\ Len(added) \in Nat /\ Len(queue') = Len(kept) + Len(added)
  OBVIOUS
<1>2. ASSUME NEW i \in 1..Len(queue')
      PROVE  Fits(queue'[i])
  <2>1. CASE i <= Len(kept)
    BY <1>1, <2>1
  <2>2. CASE i > Len(kept)
    <3>1. i - Len(kept) \in 1..Len(added) /\ queue'[i] = added[i - Len(kept)]
      BY <1>1, <2>2
    <3> QED BY <3>1
  <2> QED BY <1>1, <2>1, <2>2
<1> QED BY <1>2 DEF RequestsFit

LEMMA EnqueueFits ==
  ASSUME QueueInv, RequestsFit, NEW post \in Post, Validated(post), Enqueue(post)
  PROVE  RequestsFit'
<1>1. PICK added : /\ Commands(added, DOMAIN post.batch, post.batch, post.source)
                   /\ queue' = queue \o added
  BY EnqueueAppends
<1>2. /\ added \in Seq(Request)
      /\ \A i \in 1..Len(added) : Fits(added[i])
  BY <1>1, ValidatedType DEF Commands, Validated, Fits
<1>3. queue \in Seq(Request) /\ UNCHANGED inFlight
  BY DEF QueueInv, TypeOK, Enqueue
<1>4. \A i \in 1..Len(queue) : Fits(queue[i])
  BY DEF RequestsFit
<1> QED BY <1>1, <1>2, <1>3, <1>4, FitWhenAppending

LEMMA CoalesceFits ==
  ASSUME QueueInv, RequestsFit, NEW post \in Post, IsInjection(post),
         CoalescePendingWrites(post.batch)
  PROVE  RequestsFit'
<1> DEFINE batch == post.batch
           kept == WithNewValues(queue, batch)
<1>1. \A t \in DOMAIN batch : Writable(t) /\ batch[t] \in Value /\ batch[t] \in ValueOf(t)
  BY ValidatedType DEF IsInjection, Validated
<1>2. PICK added : /\ Commands(added, DOMAIN batch \ PendingTags(batch), batch, "field-emulator")
                   /\ queue' = kept \o added
  BY CoalesceAppends
<1>3. /\ added \in Seq(Request)
      /\ \A i \in 1..Len(added) : Fits(added[i])
  BY <1>1, <1>2 DEF Commands, Fits
<1>4. /\ kept \in Seq(Request) /\ Len(kept) = Len(queue)
      /\ \A i \in 1..Len(queue) : Fits(kept[i])
  BY <1>1, NewValuesInPlace DEF RequestsFit, Fits
<1> HIDE DEF kept
<1>5. UNCHANGED inFlight
  BY DEF CoalescePendingWrites
<1> QED BY <1>2, <1>3, <1>4, <1>5, FitWhenAppending

LEMMA EmarHoldsBits ==
  ASSUME NEW t, t[1] = "emar"
  PROVE  ValueOf(t) = Bit /\ Writable(t)
  BY DEF ValueOf, Analog, Writable

LEMMA SetModeFits ==
  ASSUME QueueInv, RequestsFit, NEW p \in Pump, NEW m \in EmarMode, SetPumpEmarMode(p, m)
  PROVE  RequestsFit'
<1> DEFINE batch == [t \in {Emar(p)} |-> EmarValue(emarModes', values, p)]
<1>1. PICK added : Commands(added, {Emar(p)}, batch, "other") /\ queue' = queue \o added
  BY SetModeAppends
<1>2. EmarValue(emarModes', values, p) \in Bit
  BY SetModeAppends
<1>3. /\ added \in Seq(Request)
      /\ \A i \in 1..Len(added) : Fits(added[i])
  BY <1>1, <1>2, EmarHoldsBits, PumpTags DEF Commands, Fits
<1>4. queue \in Seq(Request) /\ UNCHANGED inFlight
  BY DEF QueueInv, TypeOK, SetPumpEmarMode
<1>5. \A i \in 1..Len(queue) : Fits(queue[i])
  BY DEF RequestsFit
<1> QED BY <1>1, <1>3, <1>4, <1>5, FitWhenAppending

LEMMA UpdateFits ==
  ASSUME QueueInv, RequestsFit, NEW updates, UpdateValues(updates),
         \A t \in DOMAIN updates : updates[t] \in Value
  PROVE  RequestsFit'
<1>1. PICK added, batch :
        /\ \A t \in DOMAIN batch : t[1] = "emar" /\ batch[t] \in Bit
        /\ Commands(added, DOMAIN batch, batch, "other")
        /\ queue' = queue \o added
  BY UpdateAppends
<1>2. /\ added \in Seq(Request)
      /\ \A i \in 1..Len(added) : Fits(added[i])
  BY <1>1, EmarHoldsBits DEF Commands, Fits
<1>3. queue \in Seq(Request) /\ UNCHANGED inFlight
  BY UpdateAppends DEF QueueInv, TypeOK
<1>4. \A i \in 1..Len(queue) : Fits(queue[i])
  BY DEF RequestsFit
<1> QED BY <1>1, <1>2, <1>3, <1>4, FitWhenAppending

LEMMA BootFits ==
  ASSUME NEW ctl \in Controls
  PROVE  \A i \in 1..Len(BootQueue(ctl)) :
           Fits(BootQueue(ctl)[i])
<1>1. /\ Len(BootQueue(ctl)) = PumpCount
      /\ \A p \in Pump : BootQueue(ctl)[p].tag = Emar(p)
      /\ BootModes(ctl) \in [Pump -> EmarMode]
  BY BootStep
<1>2. \A p \in Pump : BootQueue(ctl)[p].value \in Bit
  BY <1>1, EmarValueType DEF BootQueue
<1> QED BY <1>1, <1>2, EmarHoldsBits, PumpTags DEF Pump, Fits

LEMMA FitsAtStart ==
  ASSUME StateInit
  PROVE  RequestsFit
  BY BootFits DEF StateInit, RequestsFit

LEMMA FitsStep ==
  ASSUME QueueInv, RequestsFit, [StateNext]_stateVars
  PROVE  RequestsFit'
<1>1. TypeOK /\ queue \in Seq(Request) /\ Len(queue) \in Nat
  BY DEF QueueInv, TypeOK
<1>2. ASSUME UNCHANGED <<queue, inFlight>>
      PROVE  RequestsFit'
  BY <1>2 DEF RequestsFit
<1>3. ASSUME NEW post \in Post, EnqueueWrites(post) \/ QueueInjections(post)
      PROVE  RequestsFit'
  BY <1>3, EnqueueFits, CoalesceFits DEF EnqueueWrites, QueueInjections, IsInjection
<1>4. ASSUME NEW p \in Pump, NEW m \in EmarMode, SetPumpEmarMode(p, m)
      PROVE  RequestsFit'
  BY <1>4, SetModeFits
<1>5. ASSUME \E tags \in ReadTogether : \E updates \in [tags -> Value] :
               /\ \A t \in tags : updates[t] \in ValueOf(t)
               /\ UpdateValues(updates)
      PROVE  RequestsFit'
  BY <1>5, UpdateFits
<1>6. CASE NextWrite
  <2>1. CASE inFlight = NoRequest /\ queue # <<>>
    <3>1. /\ inFlight' = queue[1] /\ 1 \in 1..Len(queue)
          /\ Len(queue') = Len(queue) - 1
          /\ \A i \in 1..Len(queue') : queue'[i] = queue[i + 1]
      BY <1>1, <1>6, <2>1 DEF NextWrite
    <3> QED BY <1>1, <3>1 DEF RequestsFit
  <2> QED BY <1>2, <1>6, <2>1 DEF NextWrite
<1>7. CASE CompleteWrite
  BY <1>7 DEF CompleteWrite, RequestsFit
<1>8. CASE DrainWrites
  <2>1. CASE Len(queue) <= DrainLimit
    BY <1>8, <2>1 DEF DrainWrites, RequestsFit
  <2>2. CASE Len(queue) > DrainLimit
    <3>1. DrainLimit \in 0..Len(queue) /\ queue' = SubSeq(queue, DrainLimit + 1, Len(queue))
      BY <1>1, <1>8, <2>2, DrainAssumption DEF DrainWrites
    <3>2. /\ Len(queue') = Len(queue) - DrainLimit
          /\ \A i \in 1..Len(queue') : queue'[i] = queue[i + DrainLimit]
      BY <3>1, SuffixStep
    <3> QED BY <1>1, <1>8, <3>1, <3>2 DEF DrainWrites, RequestsFit
  <2> QED BY <1>1, <2>1, <2>2, DrainAssumption
<1>9. CASE Reboot
  BY <1>1, <1>9, RebootControls, BootFits DEF Reboot, RequestsFit
<1>10. ASSUME \/ \E post \in Post : UpdateRtuTags(post) \/ RecordDisabledInjections(post)
              \/ \E table \in Table : MarkTableError(table)
              \/ \E t \in Tag, v \in Value, ok \in BOOLEAN : WriteResult(t, v, ok)
              \/ UNCHANGED stateVars
       PROVE  UNCHANGED <<queue, inFlight>>
  BY <1>10 DEF UpdateRtuTags, RecordDisabledInjections, MarkTableError, WriteResult, stateVars
<1> QED BY <1>2, <1>3, <1>4, <1>5, <1>6, <1>7, <1>8, <1>9, <1>10, Zenon DEF StateNext

====
