---- MODULE ExchangeMap_proofs ----
(***************************************************************************)
(* Proofs about ExchangeMap, for every document that may be found: what    *)
(* load_config accepts suffices for readings and writes to be about the    *)
(* signal they name.                                                       *)
(***************************************************************************)
EXTENDS ExchangeMap, TLAPS

----
(***************************************************************************)
(* Addresses and registers.                                                *)
(***************************************************************************)

LEMMA BasesAreNumbers == ASSUME NEW k \in Kind PROVE Base[k] \in Int
  BY DEF Kind, Base

\* The two conversions of addressing.py undo each other.
THEOREM ReferencesConvert ==
  ASSUME NEW kind \in Kind, NEW n \in Int
  PROVE  /\ PduToReference(ReferenceToPdu(n, kind), kind) = n
         /\ ReferenceToPdu(PduToReference(n, kind), kind) = n
  BY BasesAreNumbers DEF PduToReference, ReferenceToPdu

\* No two cells of the controller's tables have the same reference: the ranges that
\* ace_reference accepts leave room for every column and row.
THEOREM AceReferencesDiffer ==
  ASSUME NEW kind \in Kind,
         NEW t1, NEW r1, NEW c1, IsAceCell(t1, r1, c1),
         NEW t2, NEW r2, NEW c2, IsAceCell(t2, r2, c2),
         AceReference(kind, t1, r1, c1) = AceReference(kind, t2, r2, c2)
  PROVE  t1 = t2 /\ r1 = r2 /\ c1 = c2
  BY BasesAreNumbers DEF IsAceCell, AceReference

LEMMA WordIsItself == ASSUME NEW n, IsWord(n) PROVE n % 65536 = n
  BY DEF IsWord

LEMMA NegativeIsFolded ==
  ASSUME NEW n, IsSigned(n), n < 0
  PROVE  n % 65536 = n + 65536
  BY DEF IsSigned

\* Every value that may be written fits in a register, and is read as itself.
THEOREM RegistersRoundTrip ==
  ASSUME NEW s, NEW value \in Int, CanBeWritten(s, value)
  PROVE  IsWord(Encode(value)) /\ Read(s, Encode(value)) = value
<1>1. CASE s.kind = "coil" /\ value \in Bit
  <2>1. IsWord(value)
    BY <1>1 DEF Bit, IsWord
  <2>2. Encode(value) = value
    BY <2>1, WordIsItself DEF Encode
  <2>3. Read(s, value) = value
    BY <1>1 DEF Read, IsRegister
  <2> QED  BY <2>1, <2>2, <2>3
<1>2. CASE s.kind = "holding_register" /\ s.type = "int16" /\ IsSigned(value)
  <2>1. Read(s, Encode(value)) = Decode(Encode(value), "int16")
    BY <1>2 DEF Read, IsRegister
  <2>2. CASE value < 0
    <3>1. Encode(value) = value + 65536
      BY <1>2, <2>2, NegativeIsFolded DEF Encode
    <3>2. Encode(value) >= 32768 /\ IsWord(Encode(value)) /\ Encode(value) - 65536 = value
      BY <1>2, <2>2, <3>1 DEF IsSigned, IsWord
    <3> QED  BY <2>1, <3>2 DEF Decode
  <2>3. CASE ~(value < 0)
    <3>1. IsWord(value) /\ ~(value >= 32768)
      BY <1>2, <2>3 DEF IsSigned, IsWord
    <3>2. Encode(value) = value
      BY <3>1, WordIsItself DEF Encode
    <3> QED  BY <2>1, <3>1, <3>2 DEF Decode
  <2> QED  BY <2>2, <2>3
<1>3. CASE s.kind = "holding_register" /\ s.type = "uint16" /\ IsWord(value)
  <2>1. Encode(value) = value
    BY <1>3, WordIsItself DEF Encode
  <2>2. Read(s, value) = value
    BY <1>3 DEF Read, Decode
  <2> QED  BY <1>3, <2>1, <2>2
<1> QED
  BY <1>1, <1>2, <1>3 DEF CanBeWritten

\* What a register holds is a number that can be shown.
LEMMA ReadingsAreShown ==
  ASSUME NEW s, NEW word, IsWord(word)
  PROVE  IsSigned(Read(s, word)) \/ IsWord(Read(s, word))
<1>1. Read(s, word) = word \/ (word >= 32768 /\ Read(s, word) = word - 65536)
  BY DEF Read, Decode
<1> QED
  BY <1>1 DEF IsSigned, IsWord

----
(***************************************************************************)
(* The map.                                                                *)
(***************************************************************************)

LEMMA KindsDiffer ==
  ASSUME NEW n \in TableName, NEW m \in TableName, ExchangeTable[n][2] = ExchangeTable[m][2]
  PROVE  n = m
  BY DEF TableName, ExchangeTable

\* s is what load_config makes of a valid row.
Row(s, doc, name, i) ==
  /\ s = LoadedSignal(doc, name, i)
  /\ doc[name] \in RawTable /\ doc[name].signals[i] \in RawSignal
  /\ ValidTable(name, doc[name]) /\ ValidSignal(doc[name], doc[name].signals[i])
  /\ RowsDiffer(doc[name])

\* What is used of a document that loads.
LEMMA LoadedDocument ==
  ASSUME NEW doc \in Document, Loads(doc), NEW s \in Signals(doc)
  PROVE  \E name \in TableName : \E i \in DOMAIN doc[name].signals : Row(s, doc, name, i)
<1>1. PICK name \in DOMAIN doc : \E i \in DOMAIN doc[name].signals : s = LoadedSignal(doc, name, i)
  BY DEF Signals
<1>2. PICK i \in DOMAIN doc[name].signals : s = LoadedSignal(doc, name, i)
  BY <1>1
<1>3. name \in TableName /\ doc[name] \in RawTable
  BY DocumentAssumption
<1>4. doc[name].signals \in Seq(RawSignal)
  BY <1>3 DEF RawTable
<1>5. doc[name].signals[i] \in RawSignal
  BY <1>2, <1>4
<1>6. Row(s, doc, name, i)
  BY <1>2, <1>3, <1>5 DEF Loads, Row
<1> QED
  BY <1>3, <1>6

LEMMA AddressesDiffer ==
  ASSUME NEW t, t.start \in Int, t.kind \in Kind,
         NEW s, s.row \in Int, NEW o, o.row \in Int, Address(t, s) = Address(t, o)
  PROVE  s.row = o.row
<1>1. Base[t.kind] \in Int
  BY BasesAreNumbers
<1> QED
  BY <1>1 DEF Address, ReferenceToPdu

\* Two signals of a document that loads share neither a tag nor a cell.
LEMMA LoadedApart ==
  ASSUME NEW doc \in Document, Loads(doc), NEW s \in Signals(doc), NEW o \in Signals(doc),
         s.tag = o.tag \/ Cell(s) = Cell(o)
  PROVE  s = o
<1>1. PICK n \in TableName : \E i \in DOMAIN doc[n].signals : Row(s, doc, n, i)
  BY LoadedDocument
<1>2. PICK i \in DOMAIN doc[n].signals : Row(s, doc, n, i)
  BY <1>1
<1>3. PICK m \in TableName : \E j \in DOMAIN doc[m].signals : Row(o, doc, m, j)
  BY LoadedDocument
<1>4. PICK j \in DOMAIN doc[m].signals : Row(o, doc, m, j)
  BY <1>3
<1>5. s = LoadedSignal(doc, n, i) /\ o = LoadedSignal(doc, m, j)
  BY <1>2, <1>4 DEF Row
<1>6. CASE s.tag = o.tag
  <2>1. doc[n].signals[i].tag = doc[m].signals[j].tag
    BY <1>5, <1>6 DEF LoadedSignal
  <2>2. n = m /\ i = j
    BY <2>1 DEF Loads, TagsDiffer
  <2> QED  BY <1>5, <2>2
<1>7. CASE Cell(s) = Cell(o)
  <2>1. s.kind = o.kind /\ s.address = o.address
    BY <1>7 DEF Cell
  <2>2. /\ s.kind = doc[n].kind /\ o.kind = doc[m].kind
        /\ s.address = Address(doc[n], doc[n].signals[i])
        /\ o.address = Address(doc[m], doc[m].signals[j])
    BY <1>5 DEF LoadedSignal
  <2>3. doc[n].kind = ExchangeTable[n][2] /\ doc[m].kind = ExchangeTable[m][2]
    BY <1>2, <1>4 DEF Row, ValidTable, ExchangeTable, TableName
  <2>4. n = m
    BY <2>1, <2>2, <2>3, KindsDiffer
  <2>5. Address(doc[n], doc[n].signals[i]) = Address(doc[n], doc[n].signals[j])
    BY <2>1, <2>2, <2>4
  <2>6. /\ doc[n].start \in Int /\ doc[n].kind \in Kind
        /\ doc[n].signals[i].row \in Int /\ doc[n].signals[j].row \in Int
    BY <1>2, <1>4, <2>4 DEF Row, RawTable, RawSignal
  <2>7. doc[n].signals[i].row = doc[n].signals[j].row
    BY <2>5, <2>6, AddressesDiffer
  <2>8. i = j
    BY <1>2, <2>4, <2>7 DEF Row, RowsDiffer
  <2> QED  BY <1>5, <2>4, <2>8
<1> QED
  BY <1>6, <1>7

\* A signal of a document that loads has its row in the response to its table's request.
LEMMA LoadedInResponse ==
  ASSUME NEW doc \in Document, Loads(doc), NEW s \in Signals(doc)
  PROVE  /\ s.row \in 0..(doc[s.table].count - 1)
         /\ s.address = ReferenceToPdu(doc[s.table].start, s.kind) + s.row
         /\ s.tag \in Tag /\ s.table \in TableName
<1>1. PICK n \in TableName : \E i \in DOMAIN doc[n].signals : Row(s, doc, n, i)
  BY LoadedDocument
<1>2. PICK i \in DOMAIN doc[n].signals : Row(s, doc, n, i)
  BY <1>1
<1>3. /\ s.table = n /\ s.kind = doc[n].kind /\ s.row = doc[n].signals[i].row
      /\ s.address = Address(doc[n], doc[n].signals[i])
      /\ s.tag = doc[n].signals[i].tag
  BY <1>2 DEF LoadedSignal, Row
<1>4. /\ doc[n].start \in Int /\ doc[n].kind \in Kind /\ doc[n].count \in Int
      /\ s.row \in Int /\ s.tag \in Tag
  BY <1>2, <1>3 DEF RawTable, RawSignal, Row
<1>5. s.row \in Rows(doc[n]) /\ s.row >= 0
  <2>1. s.row \in Rows(doc[n])
    BY <1>3 DEF Rows
  <2>2. ValidSignal(doc[n], doc[n].signals[i])
    BY <1>2 DEF Row
  <2>3. doc[n].signals[i].row >= 0
    BY <2>2 DEF ValidSignal
  <2> QED  BY <1>3, <2>1, <2>3
<1>6. s.row < doc[n].count
  BY <1>2, <1>5 DEF ValidTable, Row
<1> QED
  BY <1>3, <1>4, <1>5, <1>6, BasesAreNumbers DEF Address, ReferenceToPdu

----
(***************************************************************************)
(* The behaviour.                                                          *)
(***************************************************************************)

LoadedInv ==
  /\ stage \in {"starting", "running", "refused"} /\ map \in Document
  /\ IF stage = "running" THEN Loads(map) /\ signals = Signals(map) ELSE signals = {}

MemoryInv ==
  /\ stage = "running" => DOMAIN memory = {Cell(s) : s \in signals}
  /\ \A s \in signals : IsWord(memory[Cell(s)])

ShownInv ==
  /\ DOMAIN shown = Tag /\ fresh \subseteq Tag
  /\ stage # "running" => fresh = {}
  /\ \A tag \in Tag : shown[tag] # NoValue => IsSigned(shown[tag]) \/ IsWord(shown[tag])

MapInv == LoadedInv /\ MemoryInv /\ ShownInv /\ ReadBack

\* The signals in use are those of a map that loaded.
LEMMA InUse ==
  ASSUME LoadedInv, NEW s \in signals
  PROVE  /\ stage = "running" /\ Loads(map) /\ map \in Document
         /\ s \in Signals(map) /\ s.tag \in Tag
<1>1. stage = "running"
  BY DEF LoadedInv
<1>2. Loads(map) /\ map \in Document /\ s \in Signals(map)
  BY <1>1 DEF LoadedInv
<1> QED
  BY <1>1, <1>2, LoadedInResponse

LEMMA Apart == LoadedInv => SignalsApart
<1> SUFFICES ASSUME LoadedInv, NEW s \in signals, NEW other \in signals,
                    s.tag = other.tag \/ Cell(s) = Cell(other)
             PROVE  s = other
  BY DEF SignalsApart
<1> QED
  BY InUse, LoadedApart

LEMMA Starting == Init => MapInv
  BY DEF Init, MapInv, LoadedInv, MemoryInv, ShownInv, ReadBack

LEMMA LoadStep == ASSUME MapInv, Load PROVE MapInv'
<1>1. stage' \in {"starting", "running", "refused"} /\ UNCHANGED <<map, shown, fresh>>
  BY DEF Load
<1>2. signals = {} /\ map \in Document
  BY DEF MapInv, LoadedInv, Load
<1>3. LoadedInv'
  BY <1>1, <1>2 DEF Load, LoadedInv
<1>4. MemoryInv'
  <2>1. CASE Loads(map)
    <3>1. memory' = [c \in {Cell(s) : s \in signals'} |-> 0]
      BY <2>1 DEF Load
    <3>2. \A s \in signals' : memory'[Cell(s)] = 0
      BY <3>1
    <3> QED  BY <3>1, <3>2 DEF MemoryInv, IsWord
  <2>2. CASE ~Loads(map)
    BY <1>2, <2>2 DEF Load, MemoryInv
  <2> QED  BY <2>1, <2>2
<1>5. fresh = {}
  BY DEF MapInv, ShownInv, Load
<1>6. ShownInv'
  BY <1>1, <1>5 DEF MapInv, ShownInv
<1>7. ReadBack'
  BY <1>1, <1>5 DEF ReadBack
<1> QED
  BY <1>3, <1>4, <1>6, <1>7 DEF MapInv

\* What a reading of a table changes of the values shown.
LEMMA ReadingOfTable ==
  ASSUME MapInv, NEW name \in TableName, ReadTable(name)
  PROVE  /\ DOMAIN shown' = Tag
         /\ \A s \in signals : s.table = name => shown'[s.tag] = Read(s, memory[Cell(s)])
         /\ \A tag \in Tag : (\A s \in signals : s.tag = tag => s.table # name)
                               => shown'[tag] = shown[tag]
<1> DEFINE table == {s \in signals : s.table = name}
<1>1. shown' = [tag \in Tag |-> IF \E s \in table : s.tag = tag
                                THEN LET s == CHOOSE s \in table : s.tag = tag
                                     IN Read(s, memory[Cell(s)])
                                ELSE shown[tag]]
  BY DEF ReadTable
<1>2. SignalsApart
  BY Apart DEF MapInv
<1>3. ASSUME NEW s \in signals, s.table = name
      PROVE  shown'[s.tag] = Read(s, memory[Cell(s)])
  <2> DEFINE found == CHOOSE t \in table : t.tag = s.tag
  <2>1. s \in table /\ s.tag \in Tag
    BY <1>3, InUse DEF MapInv
  <2>2. found \in table /\ found.tag = s.tag
    BY <2>1
  <2>3. found = s
    BY <1>2, <2>2 DEF SignalsApart
  <2>4. shown'[s.tag] = Read(found, memory[Cell(found)])
    BY <1>1, <2>1
  <2> QED  BY <2>3, <2>4
<1>4. ASSUME NEW tag \in Tag, \A s \in signals : s.tag = tag => s.table # name
      PROVE  shown'[tag] = shown[tag]
  BY <1>1, <1>4
<1> QED
  BY <1>1, <1>3, <1>4

LEMMA ReadStep ==
  ASSUME MapInv, NEW name \in TableName, ReadTable(name)
  PROVE  MapInv'
<1>1. /\ UNCHANGED <<stage, map, signals, memory>> /\ stage = "running"
      /\ fresh' = fresh \union {s.tag : s \in {t \in signals : t.table = name}}
  BY DEF ReadTable
<1>2. LoadedInv' /\ MemoryInv'
  BY <1>1 DEF MapInv, LoadedInv, MemoryInv
<1>3. \A s \in signals : s.tag \in Tag /\ IsWord(memory[Cell(s)])
  BY InUse DEF MapInv, MemoryInv
<1>4. ShownInv'
  <2>1. fresh' \subseteq Tag
    BY <1>1, <1>3 DEF MapInv, ShownInv
  <2>2. ASSUME NEW tag \in Tag, shown'[tag] # NoValue
        PROVE  IsSigned(shown'[tag]) \/ IsWord(shown'[tag])
    <3>1. CASE \E s \in signals : s.tag = tag /\ s.table = name
      <4>1. PICK s \in signals : s.tag = tag /\ s.table = name
        BY <3>1
      <4>2. shown'[tag] = Read(s, memory[Cell(s)])
        BY <4>1, ReadingOfTable
      <4> QED  BY <1>3, <4>2, ReadingsAreShown
    <3>2. CASE \A s \in signals : s.tag = tag => s.table # name
      <4>1. shown'[tag] = shown[tag]
        BY <3>2, ReadingOfTable
      <4> QED  BY <2>2, <4>1 DEF MapInv, ShownInv
    <3> QED  BY <3>1, <3>2
  <2> QED  BY <1>1, <2>1, <2>2, ReadingOfTable DEF ShownInv
<1>5. ReadBack'
  <2> SUFFICES ASSUME NEW s \in signals, s.tag \in fresh'
               PROVE  shown'[s.tag] = Read(s, memory[Cell(s)])
    BY <1>1 DEF ReadBack
  <2>1. CASE s.table = name
    BY <2>1, ReadingOfTable
  <2>2. CASE s.table # name
    <3>1. SignalsApart
      BY Apart DEF MapInv
    <3>2. \A t \in signals : t.tag = s.tag => t.table # name
      BY <2>2, <3>1 DEF SignalsApart
    <3>3. shown'[s.tag] = shown[s.tag]
      BY <1>3, <3>2, ReadingOfTable
    <3>4. s.tag \in fresh
      BY <1>1, <3>2
    <3> QED  BY <3>3, <3>4 DEF MapInv, ReadBack
  <2> QED  BY <2>1, <2>2
<1> QED
  BY <1>2, <1>4, <1>5 DEF MapInv

\* A word put in the cell of a signal is in no other signal's.
LEMMA OneCell ==
  ASSUME MapInv, NEW s \in signals, NEW word, IsWord(word), UNCHANGED <<stage, map, signals>>,
         memory' = [memory EXCEPT ![Cell(s)] = word]
  PROVE  /\ LoadedInv' /\ MemoryInv'
         /\ memory'[Cell(s)] = word
         /\ \A t \in signals : t # s => memory'[Cell(t)] = memory[Cell(t)] /\ t.tag # s.tag
<1>1. LoadedInv'
  BY DEF MapInv, LoadedInv
<1>2. stage = "running" /\ SignalsApart
  BY InUse, Apart DEF MapInv
<1>3. DOMAIN memory = {Cell(t) : t \in signals}
  BY <1>2 DEF MapInv, MemoryInv
<1>4. memory'[Cell(s)] = word
  BY <1>3
<1>5. ASSUME NEW t \in signals, t # s
      PROVE  memory'[Cell(t)] = memory[Cell(t)] /\ t.tag # s.tag
  <2>1. Cell(t) # Cell(s) /\ t.tag # s.tag
    BY <1>2, <1>5 DEF SignalsApart
  <2>2. Cell(t) \in DOMAIN memory
    BY <1>3
  <2> QED  BY <2>1, <2>2
<1>6. MemoryInv'
  <2>1. \A t \in signals : IsWord(memory'[Cell(t)])
    BY <1>4, <1>5 DEF MapInv, MemoryInv
  <2>2. DOMAIN memory' = {Cell(t) : t \in signals}
    BY <1>3
  <2> QED  BY <2>1, <2>2 DEF MemoryInv
<1> QED
  BY <1>1, <1>4, <1>5, <1>6

LEMMA WriteStep ==
  ASSUME MapInv, NEW s \in signals, NEW value \in Value, WriteSignal(s, value)
  PROVE  MapInv'
<1>1. /\ UNCHANGED <<stage, map, signals>> /\ CanBeWritten(s, value) /\ stage = "running"
      /\ memory' = [memory EXCEPT ![Cell(s)] = Encode(value)]
      /\ \/ shown' = [shown EXCEPT ![s.tag] = value] /\ fresh' = fresh \union {s.tag}
         \/ UNCHANGED shown /\ fresh' = fresh \ {s.tag}
  BY DEF WriteSignal
<1>2. value \in Int
  BY WordAssumption
<1>3. IsWord(Encode(value)) /\ Read(s, Encode(value)) = value
  BY <1>1, <1>2, RegistersRoundTrip
<1>4. /\ LoadedInv' /\ MemoryInv' /\ memory'[Cell(s)] = Encode(value)
      /\ \A t \in signals : t # s => memory'[Cell(t)] = memory[Cell(t)] /\ t.tag # s.tag
  BY <1>1, <1>3, OneCell
<1>5. s.tag \in Tag /\ DOMAIN shown = Tag /\ fresh \subseteq Tag
  BY InUse DEF MapInv, ShownInv
<1>6. IsSigned(value) \/ IsWord(value)
  BY <1>1 DEF CanBeWritten, Bit, IsWord
<1>7. CASE shown' = [shown EXCEPT ![s.tag] = value] /\ fresh' = fresh \union {s.tag}
  <2>1. shown'[s.tag] = value /\ \A tag \in Tag : tag # s.tag => shown'[tag] = shown[tag]
    BY <1>5, <1>7
  <2>2. ShownInv'
    BY <1>1, <1>5, <1>6, <1>7, <2>1 DEF MapInv, ShownInv
  <2>3. ReadBack'
    <3> SUFFICES ASSUME NEW t \in signals, t.tag \in fresh'
                 PROVE  shown'[t.tag] = Read(t, memory'[Cell(t)])
      BY <1>1 DEF ReadBack
    <3>1. CASE t = s
      BY <1>3, <1>4, <2>1, <3>1
    <3>2. CASE t # s
      <4>1. t.tag \in Tag /\ t.tag # s.tag /\ t.tag \in fresh
        BY <1>4, <1>7, <3>2, InUse DEF MapInv
      <4> QED  BY <1>4, <2>1, <3>2, <4>1 DEF MapInv, ReadBack
    <3> QED  BY <3>1, <3>2
  <2> QED  BY <1>4, <2>2, <2>3 DEF MapInv
<1>8. CASE UNCHANGED shown /\ fresh' = fresh \ {s.tag}
  <2>1. ShownInv'
    BY <1>1, <1>5, <1>8 DEF MapInv, ShownInv
  <2>2. ReadBack'
    <3> SUFFICES ASSUME NEW t \in signals, t.tag \in fresh'
                 PROVE  shown'[t.tag] = Read(t, memory'[Cell(t)])
      BY <1>1 DEF ReadBack
    <3>1. t # s /\ t.tag \in fresh
      BY <1>8
    <3> QED  BY <1>4, <1>8, <3>1 DEF MapInv, ReadBack
  <2> QED  BY <1>4, <2>1, <2>2 DEF MapInv
<1> QED
  BY <1>1, <1>7, <1>8

LEMMA PlcStep ==
  ASSUME MapInv, NEW s \in signals, NEW word, PlcChanges(s, word)
  PROVE  MapInv'
<1>1. /\ UNCHANGED <<stage, map, signals, shown>> /\ fresh' = fresh \ {s.tag}
      /\ memory' = [memory EXCEPT ![Cell(s)] = word] /\ stage = "running"
      /\ word \in Word \/ word \in Bit
  BY DEF PlcChanges
<1>2. IsWord(word)
  BY <1>1, WordAssumption DEF Bit, IsWord
<1>3. /\ LoadedInv' /\ MemoryInv'
      /\ \A t \in signals : t # s => memory'[Cell(t)] = memory[Cell(t)] /\ t.tag # s.tag
  BY <1>1, <1>2, OneCell
<1>4. ShownInv'
  BY <1>1 DEF MapInv, ShownInv
<1>5. ReadBack'
  <2> SUFFICES ASSUME NEW t \in signals, t.tag \in fresh'
               PROVE  shown'[t.tag] = Read(t, memory'[Cell(t)])
    BY <1>1 DEF ReadBack
  <2>1. t # s /\ t.tag \in fresh
    BY <1>1
  <2> QED  BY <1>1, <1>3, <2>1 DEF MapInv, ReadBack
<1> QED
  BY <1>3, <1>4, <1>5 DEF MapInv

LEMMA Stuttering == ASSUME MapInv, UNCHANGED vars PROVE MapInv'
  BY DEF vars, MapInv, LoadedInv, MemoryInv, ShownInv, ReadBack

LEMMA Invariance == Spec => []MapInv
<1>1. Init => MapInv
  BY Starting
<1>2. MapInv /\ [Next]_vars => MapInv'
  BY LoadStep, ReadStep, WriteStep, PlcStep, Stuttering DEF Next
<1> QED
  BY <1>1, <1>2, PTL DEF Spec

\* For every document, well formed or not, the state of the map is well formed.
THEOREM MapTypes == Spec => []MapTypeOK
<1>1. MapInv => MapTypeOK
  BY DEF MapInv, LoadedInv, MemoryInv, ShownInv, MapTypeOK
<1> QED
  BY <1>1, Invariance, PTL

\* For every document, the checks of load_config keep two signals from sharing a tag, a
\* register or a bit.
THEOREM SignalsNeverShare == Spec => []SignalsApart
<1>1. MapInv => SignalsApart
  BY Apart DEF MapInv
<1> QED
  BY <1>1, Invariance, PTL

\* For every document, the one request of a table brings every row of it.
THEOREM ResponsesSuffice == Spec => []ResponsesHoldTheRows
<1>1. MapInv => ResponsesHoldTheRows
  BY InUse, LoadedInResponse DEF MapInv, ResponsesHoldTheRows
<1> QED
  BY <1>1, Invariance, PTL

\* For every document, value and word of the PLC, a confirmed write shows what the next
\* reading would, whatever else is read and written.
THEOREM WritesReadBack == Spec => []ReadBack
<1>1. MapInv => ReadBack
  BY DEF MapInv
<1> QED
  BY <1>1, Invariance, PTL
====
