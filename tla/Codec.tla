-------------------------------- MODULE Codec --------------------------------
(***************************************************************************)
(* The format of a snapshot: ValueSerializationHelper.cpp,                 *)
(* Serializer/SerializationHelper.h and Strategies/BinarySerializer.h, the *)
(* serialize and deserialize of the values, and ValueFactory.cpp.          *)
(*                                                                         *)
(* A buffer is a sequence of cells: a number (8 bytes in the file) is one  *)
(* cell, and a string its length, 1, and one cell that holds it.  Hash     *)
(* containers are walked in some arbitrary order.  Left out: the fields of *)
(* stream messages, and the parameter b of a HyperLogLog, a constant.      *)
(***************************************************************************)
EXTENDS Naturals, SequencesExt

CONSTANTS Key, Registers    \* Registers: the number m of a HyperLogLog

NoRecord == [type |-> "none"]

\* appendToBuffer
AppendString(s) == <<1, s>>
AppendList(l) ==
    <<Len(l)>> \o FlattenSeq([i \in DOMAIN l |-> AppendString(l[i])])

\* Mutant of AppendHash: the value before its field.
AppendHashByValue(h) ==
    LET fields == SetToSeq(DOMAIN h)
    IN  <<Len(fields)>> \o FlattenSeq([i \in DOMAIN fields |->
            AppendString(h[fields[i]]) \o AppendString(fields[i])])

AppendHash(h) ==
    LET fields == SetToSeq(DOMAIN h)
    IN  <<Len(fields)>> \o FlattenSeq([i \in DOMAIN fields |->
            AppendString(fields[i]) \o AppendString(h[fields[i]])])
AppendRegisters(r) == <<Registers>> \o [i \in 1..Registers |-> r[i - 1]]

AppendMembers(set) == AppendList(SetToSeq(set))

\* serialize, of the class the value has
Serialize(v) ==
    CASE v.type = "string" -> AppendString(v.value)
      [] v.type = "hash" -> AppendHash(v.value)
      [] v.type \in {"list", "stream"} -> AppendList(v.value)
      [] v.type \in {"set", "sorted_set"} -> AppendMembers(v.value)
      [] v.type = "hyperloglog" -> AppendRegisters(v.value)

AppendValue(v) ==
    AppendString(v.type) \o <<Len(Serialize(v))>> \o Serialize(v)

SerializeDatabase(records) ==
    LET ids == SetToSeq({k \in Key : records[k] # NoRecord})
    IN  <<Len(ids)>> \o FlattenSeq([i \in DOMAIN ids |->
            AppendString(ids[i]) \o AppendValue(records[ids[i]])])
-----------------------------------------------------------------------------
\* readFromBuffer: what it read and the offset after it, or that it did not.
Fails == [ok |-> FALSE]
Read(val, offset) == [ok |-> TRUE, val |-> val, offset |-> offset]

ReadNumber(buffer, offset) ==
    IF offset + 1 > Len(buffer) THEN Fails
    ELSE Read(buffer[offset + 1], offset + 1)

ReadString(buffer, offset) ==
    LET len == ReadNumber(buffer, offset) IN
    IF ~len.ok THEN Fails
    ELSE IF len.offset + len.val > Len(buffer) THEN Fails
    ELSE Read(buffer[len.offset + 1], len.offset + len.val)

\* n items in a row, read with Item
ReadItems(buffer, offset, n, Item(_, _)) ==
    LET read[i \in 0..n] ==
            IF i = 0 THEN Read(<<>>, offset) ELSE
            LET before == read[i - 1]
                item == Item(buffer, before.offset)
            IN  IF ~before.ok \/ ~item.ok THEN Fails
                ELSE Read(Append(before.val, item.val), item.offset)
    IN  read[n]

\* A number, then so many times perItem items.
ReadCounted(buffer, perItem, Item(_, _)) ==
    LET n == ReadNumber(buffer, 0)
    IN  IF n.ok THEN ReadItems(buffer, n.offset, perItem * n.val, Item)
        ELSE Fails

\* A field, its value, a field, its value and so on: the last one stands.
Bindings(seq) ==
    LET fields == {i \in DOMAIN seq : i % 2 = 1}
        LastOf(f) == CHOOSE i \in fields :
            seq[i] = f /\ \A j \in fields : seq[j] = f => j <= i
    IN  [f \in {seq[i] : i \in fields} |-> seq[LastOf(f) + 1]]

\* deserialize, of each class: the value, or an exception.
Build(read, Value(_)) ==
    IF read.ok THEN [ok |-> TRUE, value |-> Value(read.val)] ELSE Fails

DeserializeString(data) == Build(ReadString(data, 0), LAMBDA s : s)
DeserializeHash(data) == Build(ReadCounted(data, 2, ReadString), Bindings)
DeserializeList(data) ==
    Build(ReadCounted(data, 1, ReadString), LAMBDA list : list)
DeserializeSet(data) == Build(ReadCounted(data, 1, ReadString), ToSet)
DeserializeRegisters(data) ==
    Build(ReadCounted(data, 1, ReadNumber),
          LAMBDA r : [i \in 0..(Registers - 1) |-> r[i + 1]])

\* A sorted set is read and written like a set.
Deserialize(type, data) ==
    CASE type = "string" -> DeserializeString(data)
      [] type = "hash" -> DeserializeHash(data)
      [] type \in {"list", "stream"} -> DeserializeList(data)
      [] type \in {"set", "sorted_set"} -> DeserializeSet(data)
      [] type = "hyperloglog" -> DeserializeRegisters(data)
      [] OTHER -> Fails

\* createValue of serialized data, or Fails, where it throws
CreateValue(type, data) ==
    LET built == Deserialize(type, data)
    IN  IF built.ok THEN [type |-> type, value |-> built.value] ELSE Fails

\* An id and a value: its type, a length and so many cells.  The length is
\* not compared with what is left of the buffer.
Overrun == [type |-> "overrun"]

ReadRecord(buffer, offset) ==
    LET id == ReadString(buffer, offset)
        type == ReadString(buffer, id.offset)
        len == ReadNumber(buffer, type.offset)
        end == len.offset + len.val
    IN  IF ~id.ok THEN Fails
        ELSE IF ~type.ok THEN Fails
        ELSE IF ~len.ok THEN Fails
        ELSE IF end > Len(buffer) THEN Read(<<id.val, Overrun>>, end)
        ELSE Read(<<id.val, CreateValue(type.val,
                                SubSeq(buffer, len.offset + 1, end))>>, end)

\* The records, up to the first that cannot be read.
DeserializeDatabase(buffer) ==
    LET n == ReadNumber(buffer, 0)
        load[i \in 0..n.val] ==
            IF i = 0
            THEN [go |-> TRUE, offset |-> n.offset,
                  records |-> [k \in Key |-> NoRecord]]
            ELSE
            LET before == load[i - 1]
                read == ReadRecord(buffer, before.offset)
            IN  IF ~before.go THEN before
                ELSE IF ~read.ok THEN [before EXCEPT !.go = FALSE]
                ELSE [go |-> read.val[2] # Overrun, offset |-> read.offset,
                      records |-> [before.records EXCEPT
                                       ![read.val[1]] = read.val[2]]]
    IN  IF n.ok THEN load[n.val].records ELSE [k \in Key |-> NoRecord]
=============================================================================
