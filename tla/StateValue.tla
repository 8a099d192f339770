---------------------------- MODULE StateValue -----------------------------
(***************************************************************************)
(* How a state's value is read: its type from the serializer snapshots of  *)
(* the header (src/src/parser/keyed_state.rs, src/src/parser/pojo.rs), and *)
(* the value from its bytes (src/src/parser/value.rs).                     *)
(*                                                                         *)
(* A serializer is [s |-> its name, of |-> the serializers nested in it];  *)
(* a type is [t |-> its name, of |-> its parameters]; a POJO's layout is   *)
(* the sequence of its fields' types and nested layouts. A scalar is shown *)
(* as its bytes: the rendering of numbers, dates and enum constants is     *)
(* left out, and so are the protobuf fields of a profile.                  *)
(***************************************************************************)
EXTENDS StringValue

CONSTANT MaxListItems   \* decode_list stops once it has more (1,000,000)

RECURSIVE Snapshots(_), Written(_, _), FieldInfo(_), DecodeField(_, _, _, _),
          DecodeList(_, _, _, _, _)

(***************************************************************************)
(* Values, as written and as shown.                                        *)
(***************************************************************************)

Null == [is |-> "null"]
Data(bytes) == [is |-> "data", v |-> bytes]
Items(values) == [is |-> "items", items |-> values]
\* Written only: an instance of a POJO's subclass, and what Kryo wrote.
Subclass == [is |-> "subclass"]
Kryo(bytes) == [is |-> "kryo", v |-> bytes]
\* Shown only: undecodable and not_decoded_after stand for one value, the marker at the
\* end of a list for the elements left.
Marker == [is |-> "marker"]
RestMarker == [is |-> "rest"]

\* The bytes of each scalar of fixed width.
Width == [Int |-> 4, Long |-> 8, Boolean |-> 1, Double |-> 8, Float |-> 4, Short |-> 2,
          Byte |-> 1, Char |-> 2, LocalDateTime |-> 13, LocalDate |-> 6, LocalTime |-> 7,
          Instant |-> 12, Date |-> 8, Timestamp |-> 12, Enum |-> 4]

\* The width of a primitive array's elements.
PrimWidth == [Ints |-> 4, Longs |-> 8, Doubles |-> 8, Floats |-> 4, Shorts |-> 2,
              Booleans |-> 1, Chars |-> 2]

(***************************************************************************)
(* What Flink writes: the snapshots of a state's serializers, and a value. *)
(***************************************************************************)

\* A composite snapshot is followed by those nested in it.
Snapshots(ser) == <<ser>> \o FlattenSeq([i \in DOMAIN ser.of |-> Snapshots(ser.of[i])])

IntBytes(n) == <<0, 0, 0, n>>
Concat(ser, vs) == FlattenSeq([i \in DOMAIN vs |-> Written(ser, vs[i])])
Flagged(flag, bytes) == <<flag>> \o bytes

Written(ser, v) ==
    CASE ser.s \in DOMAIN Width -> v.v
      [] ser.s \in {"ByteArray"} \cup DOMAIN PrimWidth ->
            IntBytes(Len(v.v) \div (IF ser.s = "ByteArray" THEN 1 ELSE PrimWidth[ser.s])) \o v.v
      [] ser.s = "String" -> IF v = Null THEN <<0>> ELSE WriteUnits(v.v)
      [] ser.s = "StringArray" ->
            IntBytes(Len(v.items)) \o Concat([s |-> "String", of |-> <<>>], v.items)
      [] ser.s = "BigInteger" ->
            CASE v = Null -> IntBytes(0)
              [] v.v = <<0>> -> IntBytes(1)
              [] OTHER -> IntBytes(4 + Len(v.v)) \o v.v
      [] ser.s = "BigDecimal" ->
            IF v = Null THEN IntBytes(0)
            ELSE Written([ser EXCEPT !.s = "BigInteger"], Data(SubSeq(v.v, 1, Len(v.v) - 4)))
                    \o SubSeq(v.v, Len(v.v) - 3, Len(v.v))
      [] ser.s = "Kryo" -> v.v
      [] ser.s = "List" -> IntBytes(Len(v.items)) \o Concat(ser.of[1], v.items)
      [] ser.s = "Array" ->
            IntBytes(Len(v.items)) \o
            FlattenSeq([i \in DOMAIN v.items |->
                IF v.items[i] = Null THEN <<0>> ELSE Flagged(1, Written(ser.of[1], v.items[i]))])
      [] ser.s = "Nullable" -> IF v = Null THEN <<1>> ELSE Flagged(0, Written(ser.of[1], v))
      [] ser.s \in {"Tuple", "Ttl"} ->
            FlattenSeq([i \in DOMAIN ser.of |-> Written(ser.of[i], v.items[i])])
      [] ser.s = "Map" ->     \* as a field: nothing reads it
            IntBytes(Len(v.items)) \o
            FlattenSeq([i \in DOMAIN v.items |->
                Written([s |-> "Tuple", of |-> ser.of], v.items[i])])
      [] ser.s = "Pojo" ->
            CASE v = Null -> <<1>>
              [] v = Subclass -> <<4, 0, 1, 66, 2>>      \* writeUTF("B"), then its own bytes
              [] OTHER -> <<2>> \o FlattenSeq([i \in DOMAIN ser.of |->
                    IF v.items[i] = Null THEN <<1>>
                    ELSE Flagged(0, Written(ser.of[i], v.items[i]))])

\* ListDelimitedSerializer: a keyed ListState.
Delimiter == 44
WrittenList(ser, vs) ==
    Written(ser, vs[1]) \o FlattenSeq([i \in 1 .. Len(vs) - 1 |->
        Flagged(Delimiter, Written(ser, vs[i + 1]))])

(***************************************************************************)
(* The types in the header.                                                *)
(***************************************************************************)

Type(name, of) == [t |-> name, of |-> of]
Plain(name) == Type(name, <<>>)
NoLayout == <<>>

\* extract_value_serializer_types: the type of a state's values, from the names of the
\* snapshots in its record, the nested ones in a row with the others.
ValueType(ser) ==
    LET all == [i \in DOMAIN Snapshots(ser) |-> Snapshots(ser)[i].s]
        n == Len(all)
    IN  CASE n >= 3 /\ all[1] = "Map" -> Type("Map", <<Plain(all[2]), Plain(all[3])>>)
          [] n >= 2 /\ all[1] = "List" -> Type("List", <<Plain(all[2])>>)
          [] n >= 2 /\ all[1] = "Tuple" -> Type("Tuple", [i \in 1 .. n - 1 |-> Plain(all[i + 1])])
          [] n >= 3 /\ all[1] = "Ttl" -> Type("Ttl", <<Plain(all[3])>>)
          [] OTHER -> Plain(all[1])

\* read_composite_nested: the snapshots in a composite one, up to the first that cannot
\* be read or that leaves the reader nowhere.
NestedInfos(sers) ==
    LET infos == [i \in DOMAIN sers |-> FieldInfo(sers[i])]
        read == {i \in DOMAIN sers :
                    infos[i].ok /\ \A k \in 1 .. i - 1 : infos[k].ok /\ infos[k].there}
    IN  SubSeq(infos, 1, Cardinality(read))

\* parse_pojo_from_reader: the fields' types. The snapshot of a field is framed: one
\* that cannot be read costs only its type.
PojoLayout(sers) ==
    LET field(info) == IF info.ok THEN [type |-> info.type, layout |-> info.layout]
                       ELSE [type |-> Plain("?"), layout |-> NoLayout]
    IN  <<[i \in DOMAIN sers |-> field(FieldInfo(sers[i]))]>>

\* skip_snapshot_data: the end of any other snapshot than a known one is not found.
IsSkipped(ser) == ser.s # "Kryo"

\* interpret_snapshot_class: a field's type, the layout it or its elements have, and
\* whether the reader is at the end of the snapshot.
FieldInfo(ser) ==
    LET inner == NestedInfos(ser.of)
        all == Len(inner) = Len(ser.of) /\ \A i \in DOMAIN inner : inner[i].there
        info(type, layout, there) ==
            [ok |-> TRUE, there |-> there, type |-> type, layout |-> layout]
    IN  CASE ser.s = "Pojo" -> info(Plain("Pojo"), PojoLayout(ser.of), TRUE)
          [] ser.s = "Tuple" ->
                info(IF Len(inner) = Len(ser.of)
                     THEN Type("Tuple", [i \in DOMAIN inner |-> inner[i].type])
                     ELSE Plain("?"), NoLayout, all)
          [] ser.s \in {"List", "Array", "Nullable"} ->
                IF inner = <<>> THEN info(Type(ser.s, <<Plain("?")>>), NoLayout, FALSE)
                ELSE info(Type(ser.s, <<inner[1].type>>), inner[1].layout, all)
          [] ser.s = "Map" ->
                info(Plain("Map"), IF Len(inner) = 2 THEN inner[2].layout ELSE NoLayout, all)
          [] IsSkipped(ser) -> info(Plain(ser.s), NoLayout, TRUE)
          [] OTHER -> [ok |-> FALSE]

\* extract_value_pojo_classes, extract_pojo_infos: the layout of the first POJO in the
\* state's record.
ValueLayout(ser) ==
    LET all == Snapshots(ser)
        pojos == {i \in DOMAIN all : all[i].s = "Pojo"}
    IN  IF pojos = {} THEN NoLayout ELSE FieldInfo(all[Min(pojos)]).layout

(***************************************************************************)
(* Decoding. The reader is the bytes and the position of the next one; a   *)
(* value that is not ok is what could be read, and leaves the reader       *)
(* nowhere a value is known to start.                                      *)
(***************************************************************************)

Read(v, next) == [ok |-> TRUE, v |-> v, next |-> next]
Lost(v, next) == [ok |-> FALSE, v |-> v, next |-> next]

Has(b, p, n) == p + n - 1 <= Len(b)
ReadBytes(b, p, n) ==
    IF Has(b, p, n) THEN Read(Data(SubSeq(b, p, p + n - 1)), p + n)
    ELSE Lost(Marker, Len(b) + 1)
ReadInt(b, p) == ((b[p] * 256 + b[p + 1]) * 256 + b[p + 2]) * 256 + b[p + 3]

\* read_len_bytes, read_prim_array: the count, then so many elements of that width.
ReadCounted(b, p, width) ==
    IF Has(b, p, 4) THEN ReadBytes(b, p + 4, ReadInt(b, p) * width) ELSE Lost(Marker, Len(b) + 1)

ReadString(b, p) ==
    LET u == ReadUnits(SubSeq(b, p, Len(b)))
    IN  IF u.ok THEN Read(IF u.null THEN Null ELSE Data(u.units), p + u.next - 1)
        ELSE Lost(Marker, Len(b) + 1)

\* read_big_integer: three numbers have a length of their own, 0 is null.
ReadBigInteger(b, p) ==
    LET len == ReadInt(b, p)
    IN  CASE ~Has(b, p, 4) -> Lost(Marker, Len(b) + 1)
          [] len = 0 -> Read(Null, p + 4)
          [] len \in 1 .. 3 -> Read(Data(<<IF len = 3 THEN 10 ELSE len - 1>>), p + 4)
          [] len = 4 -> Lost(Marker, p + 4)
          [] OTHER -> ReadBytes(b, p + 4, len - 4)

\* read_big_decimal: nothing follows a null.
ReadBigDecimal(b, p) ==
    LET unscaled == ReadBigInteger(b, p)
        scale == ReadBytes(b, unscaled.next, 4)
    IN  CASE ~unscaled.ok \/ unscaled.v = Null -> unscaled
          [] scale.ok -> Read(Data(unscaled.v.v \o scale.v.v), scale.next)
          [] OTHER -> scale

DecodeScalar(b, p, t) ==
    CASE t \in DOMAIN Width -> ReadBytes(b, p, Width[t])
      [] t = "ByteArray" -> ReadCounted(b, p, 1)
      [] t \in DOMAIN PrimWidth -> ReadCounted(b, p, PrimWidth[t])
      [] t = "String" -> ReadString(b, p)
      [] t = "BigInteger" -> ReadBigInteger(b, p)
      [] t = "BigDecimal" -> ReadBigDecimal(b, p)
      [] OTHER -> Lost(Marker, p)

\* A boolean that is `null` for a null, then the value.
DecodeFlagged(b, p, null, type, layout) ==
    CASE ~Has(b, p, 1) -> Lost(Marker, Len(b) + 1)
      [] (b[p] # 0) = null -> Read(Null, p + 1)
      [] OTHER -> DecodeField(b, p + 1, type, layout)

\* Mutant: a field is read from wherever the one before it was lost.
ReadsOn(d) == TRUE

\* Whether the next field can be located.
Located(d) == d.ok

\* The fields of a tuple, or of a POJO behind their flags, back to back; those after a
\* lost one are not read.
DecodeFields(b, p, fields, flagged) ==
    LET field(f, q) == IF flagged THEN DecodeFlagged(b, q, TRUE, f.type, f.layout)
                       ELSE DecodeField(b, q, f.type, f.layout)
        one(d, f) == IF ~Located(d) THEN [d EXCEPT !.v = Append(@, Marker)]
                     ELSE LET e == field(f, d.next)
                          IN  [ok |-> d.ok /\ e.ok, v |-> Append(d.v, e.v), next |-> e.next]
        all == FoldLeft(one, Read(<<>>, p), fields)
    IN  [all EXCEPT !.v = Items(@)]

\* decode_pojo, decode_pojo_body: the flags, after the isNull byte of a nullable one
\* (the flags are never 0), then the fields.
DecodePojo(b, p, layout) ==
    LET at == IF Has(b, p, 1) /\ b[p] = 0 THEN p + 1 ELSE p
        flags == b[at]
        bit(k) == (flags \div k) % 2 = 1
    IN  CASE ~Has(b, at, 1) -> Lost(Marker, Len(b) + 1)
          [] bit(1) -> Read(Null, at + 1)
          [] bit(4) -> Lost(Marker, IF Has(b, at + 1, 2) THEN at + 3 + b[at + 2] ELSE Len(b) + 1)
          [] bit(8) -> Lost(Marker, at + 2)
          [] OTHER -> DecodeFields(b, at + 1, layout[1], TRUE)

MaxElements == 1000000

\* decode_list_field, decode_string_array, stopped_at: the count, then the elements, each
\* of an array behind a flag; a lost one ends the list.
DecodeCounted(b, p, array, type, layout) ==
    LET size == ReadInt(b, p)
        element(q) == IF array THEN DecodeFlagged(b, q, FALSE, type, layout)
                      ELSE DecodeField(b, q, type, layout)
        one(d, i) == IF ~d.ok THEN d
                     ELSE LET e == element(d.next)
                          IN  [e EXCEPT !.v = Append(d.v, e.v)]
        all == FoldLeft(one, Read(<<>>, p + 4), [i \in 1 .. size |-> i])
        rest == IF Len(all.v) < size THEN <<RestMarker>> ELSE <<>>
    IN  IF ~Has(b, p, 4) \/ size > MaxElements THEN Lost(Marker, Len(b) + 1)
        ELSE [all EXCEPT !.v = Items(@ \o rest)]

DecodeField(b, p, type, layout) ==
    CASE layout # NoLayout /\ type.t \notin {"List", "Array", "Nullable", "Map"} ->
            DecodePojo(b, p, layout)
      [] type.t = "StringArray" -> DecodeCounted(b, p, FALSE, Plain("String"), NoLayout)
      [] type.t = "Tuple" /\ type.of # <<>> ->
            LET fields == [i \in DOMAIN type.of |-> [type |-> type.of[i], layout |-> NoLayout]]
            IN  DecodeFields(b, p, fields, FALSE)
      [] type.t \in {"List", "Array"} /\ type.of # <<>> ->
            DecodeCounted(b, p, type.t = "Array", type.of[1], layout)
      [] type.t = "Nullable" /\ type.of # <<>> ->
            DecodeFlagged(b, p, TRUE, type.of[1], layout)
      [] OTHER -> DecodeScalar(b, p, type.t)

\* decode_list: a keyed ListState; anything but a delimiter ends it, and so do too many
\* elements, without a marker.
DecodeList(b, p, type, layout, items) ==
    LET e == IF layout # NoLayout THEN DecodePojo(b, p, layout)
             ELSE DecodeField(b, p, type, NoLayout)
        all == Append(items, e.v)
    IN  CASE ~e.ok -> IF e.next <= Len(b) THEN Append(all, RestMarker) ELSE all
          [] Len(all) > MaxListItems -> all
          [] e.next <= Len(b) /\ b[e.next] = Delimiter ->
                DecodeList(b, e.next + 1, type, layout, all)
          [] OTHER -> all

\* decode_state_value.
DecodeStateValue(b, type, layout) ==
    LET inner == type.of[1]
        user == IF layout # NoLayout THEN DecodePojo(b, 9, layout)
                ELSE DecodeField(b, 9, inner, NoLayout)
    IN  CASE b = <<>> -> Null
          [] type.t = "Ttl" /\ type.of # <<>> ->
                IF Has(b, 1, 8) THEN Items(<<Data(SubSeq(b, 1, 8)), user.v>>) ELSE Marker
          [] type.t \in {"List", "Array"} /\ type.of # <<>> ->
                Items(DecodeList(b, 1, inner, IF inner.t = "Pojo" THEN layout ELSE NoLayout, <<>>))
          [] layout # NoLayout /\ type.of = <<>> -> DecodePojo(b, 1, layout).v
          [] OTHER -> DecodeField(b, 1, type, NoLayout).v

\* decode_map_entry, with the types split_map_types finds: the key behind the namespace's
\* byte, the value behind its isNull byte.
DecodeMapEntry(namespace, b, type, layout) ==
    LET value == CASE b = <<>> -> Marker
                   [] b[1] = 1 -> Null
                   [] OTHER -> DecodeStateValue(SubSeq(b, 2, Len(b)), type.of[2], layout)
    IN  Items(<<DecodeField(namespace, 2, type.of[1], NoLayout).v, value>>)

\* decode_entry_value, of a state whose header was resolved.
DecodeEntryValue(state, ser, namespace, b) ==
    IF state = "MAP" THEN DecodeMapEntry(namespace, b, ValueType(ser), ValueLayout(ser))
    ELSE DecodeStateValue(b, ValueType(ser), ValueLayout(ser))
=============================================================================
