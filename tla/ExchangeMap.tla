---- MODULE ExchangeMap ----
(***************************************************************************)
(* The map of the exchange with the PLC: what load_config (config.py)      *)
(* accepts, the addresses it gives (addressing.py), the coding of a        *)
(* register (modbus_client.py), and what readings and writes through that  *)
(* map do to the PLC's memory and to the values shown.                     *)
(*                                                                         *)
(* A document is the four tables by name, with the fields that the checks  *)
(* read; a field that a signal may leave to its table has the value it     *)
(* resolves to.  Left out: what comes from .env, labels, and write_kind    *)
(* and write_ref, which no map of the repository declares.  The value of a *)
(* bit is 0 or 1.                                                          *)
(*                                                                         *)
(* A definition marked "Fault" is not the code: it is the definition after *)
(* it with a mistake in it, and the runs are known to tell the two apart.  *)
(***************************************************************************)
EXTENDS Integers, Sequences

CONSTANTS
  Tag,
  InjectionTag,  \* tags that begin with y
  Document,      \* maps that may be found at the start
  Value,         \* what operators ask to write
  Word,          \* what the PLC may hold in a register
  NoValue        \* a field that is absent

Kind == {"coil", "discrete_input", "input_register", "holding_register"}
Class == {"mval", "iprm", "mbit", "bit"}
DataType == {"int16", "uint16"}
Default == [is : {"int", "bool"}, value : Int] \union {NoValue}
Bit == {0, 1}
IsWord(n) == n \in Int /\ 0 <= n /\ n <= 65535
IsSigned(n) == n \in Int /\ -32768 <= n /\ n <= 32767

ExchangeTable ==
  [analog_reads     |-> <<0, "input_register", "mval">>,
   analog_setpoints |-> <<1, "holding_register", "iprm">>,
   digital_reads    |-> <<2, "discrete_input", "mbit">>,
   digital_commands |-> <<3, "coil", "bit">>]
TableName == DOMAIN ExchangeTable

RawSignal == [row : Int, tag : Tag, mapped : BOOLEAN, default : Default, type : DataType,
              writable : BOOLEAN, facade : BOOLEAN]
RawTable == [id : Int, kind : Kind, class : Class, positive : BOOLEAN \union {NoValue},
             start : Int, count : Int, writable : BOOLEAN, type : DataType \union {NoValue},
             signals : Seq(RawSignal)]

ASSUME TagAssumption == InjectionTag \subseteq Tag
ASSUME DocumentAssumption ==
  \A doc \in Document : /\ DOMAIN doc \subseteq TableName
                        /\ \A name \in DOMAIN doc : doc[name] \in RawTable
ASSUME WordAssumption == (\A word \in Word : IsWord(word)) /\ Value \subseteq Int

VARIABLES
  stage,    \* "starting", "running", or "refused": load_config raised
  map,      \* the document
  signals,  \* signals_by_tag, none before the map has loaded
  memory,   \* the PLC's registers and bits that the map names
  shown,    \* _values, by tag
  fresh     \* history: tags whose value was read or written since the PLC last changed it

vars == <<stage, map, signals, memory, shown, fresh>>

----
\* addressing.py.

Base == [coil |-> 1, discrete_input |-> 10001, input_register |-> 30001,
         holding_register |-> 40001]

ReferenceToPdu(reference, kind) == reference - Base[kind]
PduToReference(address, kind) == Base[kind] + address

IsAceCell(table, row, column) == table \in 0..31 /\ column \in 0..7 /\ row \in 0..249
AceReference(kind, table, row, column) == Base[kind] + table * 2048 + column * 256 + row

----
\* load_config.

Rows(t) == {t.signals[i].row : i \in DOMAIN t.signals}
IsDigital(t) == t.class \in {"mbit", "bit"}
IsWritten(t) == t.class \in {"iprm", "bit"}

ValidTable(name, t) ==
  /\ <<t.id, t.kind, t.class>> = ExchangeTable[name]
  /\ t.positive = IF IsDigital(t) THEN TRUE ELSE NoValue
  /\ t.start = AceReference(t.kind, t.id, 0, 0)
  /\ t.count > 0
  /\ t.writable = IsWritten(t)
  /\ t.type = IF IsDigital(t) THEN NoValue ELSE "int16"
  /\ t.count - 1 \in Rows(t) /\ \A row \in Rows(t) : row < t.count

ValidSignal(t, s) ==
  /\ s.row >= 0
  /\ s.mapped = ~IsWritten(t)
  /\ t.class = "iprm" => /\ s.default # NoValue /\ s.default.is = "int"
                         /\ IsSigned(s.default.value)
  /\ t.class = "bit" => s.default # NoValue /\ s.default.is = "bool"
  /\ s.facade = (s.tag \in InjectionTag)

\* Fault: a row is compared with the one before it only.
RowsDifferFromTheLast(t) ==
  \A i \in DOMAIN t.signals : i > 1 => t.signals[i].row # t.signals[i - 1].row

RowsDiffer(t) ==
  \A i, j \in DOMAIN t.signals : t.signals[i].row = t.signals[j].row => i = j

TagsDiffer(doc) ==
  \A n, m \in TableName : \A i \in DOMAIN doc[n].signals, j \in DOMAIN doc[m].signals :
    doc[n].signals[i].tag = doc[m].signals[j].tag => n = m /\ i = j

Loads(doc) ==
  /\ DOMAIN doc = TableName
  /\ \A name \in TableName :
       /\ ValidTable(name, doc[name])
       /\ \A i \in DOMAIN doc[name].signals : ValidSignal(doc[name], doc[name].signals[i])
       /\ RowsDiffer(doc[name])
  /\ TagsDiffer(doc)

\* Fault: the row counts from one.
AddressFromOne(t, s) == ReferenceToPdu(t.start + s.row - 1, t.kind)

Address(t, s) == ReferenceToPdu(t.start + s.row, t.kind)

\* What load_config makes of a row.
LoadedSignal(doc, name, i) ==
  LET t == doc[name]
      s == t.signals[i]
  IN [table |-> name, kind |-> t.kind, row |-> s.row, tag |-> s.tag,
      address |-> Address(t, s), type |-> s.type, writable |-> s.writable]

Signals(doc) ==
  UNION {{LoadedSignal(doc, name, i) : i \in DOMAIN doc[name].signals} : name \in DOMAIN doc}

Cell(s) == <<s.kind, s.address>>
IsRegister(s) == s.kind \in {"input_register", "holding_register"}

----
\* _decode_register, _encode_register; bool() of a bit.

\* Fault: -32768 is taken for a positive number.
DecodeBeyondSign(word, type) == IF type = "int16" /\ word > 32768 THEN word - 65536 ELSE word

\* Fault: the sign is not folded into the word.
EncodeUnmasked(value) == value

Decode(word, type) == IF type = "int16" /\ word >= 32768 THEN word - 65536 ELSE word
Encode(value) == value % 65536

Read(s, word) == IF IsRegister(s) THEN Decode(word, s.type) ELSE word

\* _validate_write, before the request is queued.
CanBeWritten(s, value) ==
  /\ s.writable
  /\ \/ s.kind = "coil" /\ value \in Bit
     \/ s.kind = "holding_register" /\ s.type = "int16" /\ IsSigned(value)
     \/ s.kind = "holding_register" /\ s.type = "uint16" /\ IsWord(value)

----
Init ==
  /\ stage = "starting" /\ map \in Document
  /\ signals = {} /\ memory = <<>>
  /\ shown = [tag \in Tag |-> NoValue] /\ fresh = {}

\* Whatever the PLC holds at the start, nothing of it is shown yet.
Load ==
  /\ stage = "starting"
  /\ IF Loads(map)
     THEN /\ stage' = "running" /\ signals' = Signals(map)
          /\ memory' = [c \in {Cell(s) : s \in signals'} |-> 0]
     ELSE stage' = "refused" /\ UNCHANGED <<signals, memory>>
  /\ UNCHANGED <<map, shown, fresh>>

\* A response that is complete; another raises and changes none of the values.
ReadTable(name) ==
  /\ stage = "running"
  /\ LET table == {s \in signals : s.table = name} IN
       /\ shown' = [tag \in Tag |-> IF \E s \in table : s.tag = tag
                                    THEN LET s == CHOOSE s \in table : s.tag = tag
                                         IN Read(s, memory[Cell(s)])
                                    ELSE shown[tag]]
       /\ fresh' = fresh \union {s.tag : s \in table}
  /\ UNCHANGED <<stage, map, signals, memory>>

\* The PLC takes the word; its answer confirms the value, or is lost.
WriteSignal(s, value) ==
  /\ stage = "running" /\ CanBeWritten(s, value)
  /\ memory' = [memory EXCEPT ![Cell(s)] = Encode(value)]
  /\ \/ shown' = [shown EXCEPT ![s.tag] = value] /\ fresh' = fresh \union {s.tag}
     \/ UNCHANGED shown /\ fresh' = fresh \ {s.tag}
  /\ UNCHANGED <<stage, map, signals>>

PlcChanges(s, word) ==
  /\ stage = "running"
  /\ word \in IF IsRegister(s) THEN Word ELSE Bit
  /\ memory' = [memory EXCEPT ![Cell(s)] = word]
  /\ fresh' = fresh \ {s.tag}
  /\ UNCHANGED <<stage, map, signals, shown>>

Next ==
  \/ Load
  \/ \E name \in TableName : ReadTable(name)
  \/ \E s \in signals : \/ \E value \in Value : WriteSignal(s, value)
                        \/ \E word \in Word \union Bit : PlcChanges(s, word)

Spec == Init /\ [][Next]_vars

----
MapTypeOK ==
  /\ stage \in {"starting", "running", "refused"}
  /\ map \in Document
  /\ stage # "running" => signals = {}
  /\ stage = "running" => DOMAIN memory = {Cell(s) : s \in signals}
  /\ \A s \in signals : IsWord(memory[Cell(s)])
  /\ DOMAIN shown = Tag
  /\ \A tag \in Tag : shown[tag] # NoValue => IsSigned(shown[tag]) \/ IsWord(shown[tag])
  /\ fresh \subseteq Tag

\* No two signals of a map that loaded share a tag, or a register or bit of the PLC: each
\* check is made within a table or between tables, and together they suffice (load_config).
SignalsApart ==
  \A s, other \in signals : s.tag = other.tag \/ Cell(s) = Cell(other) => s = other

\* A signal is read from the word of its row in the response to the one request its table
\* makes, which starts at row 0 and asks for `count` words (_read_table, load_config).
ResponsesHoldTheRows ==
  \A s \in signals :
    /\ s.row \in 0..(map[s.table].count - 1)
    /\ s.address = ReferenceToPdu(map[s.table].start, s.kind) + s.row

\* What a confirmed write shows is what the next reading of the PLC would show, at the ends
\* of the range as well, until the PLC changes it: no write spoils what another signal
\* reads, and none comes back as another number (_encode_register, _decode_register).
ReadBack ==
  \A s \in signals : s.tag \in fresh => shown[s.tag] = Read(s, memory[Cell(s)])

====
