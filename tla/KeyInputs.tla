----------------------------- MODULE KeyInputs -----------------------------
(***************************************************************************)
(* The pure algorithms a key or a value passes through between the screen  *)
(* and the savepoint, each against what it is for, over inputs that grow   *)
(* one symbol, digit, byte or day at a time: glob patterns and the texts   *)
(* they are tried on, the UTF-16 units of String keys, the digits of       *)
(* BigInteger and BigDecimal keys, hash codes, the days of the calendar,   *)
(* and state values of every shape, whole or cut short.                    *)
(***************************************************************************)
EXTENDS Glob, KeyText, KeyHash, StateValue

CONSTANTS PatternSymbols, TextSymbols, MaxPattern, MaxText,
          Units, MaxUnits,           \* UTF-16 units of String keys
          MaxDigits, MaxScale,       \* BigInteger and BigDecimal keys
          HashBytes,                 \* bytes of the hash codes
          Parallelisms,              \* <<max_parallelism, parallelism>>
          FirstDate, Days,           \* the calendar is walked from here so far
          Shapes,                    \* the shapes of values: [state, ser]
          ValueBytes, MaxItems       \* what they are made of

VARIABLES kind,   \* what is being entered
          pat,    \* "glob": the pattern
          text,   \* the symbols entered
          date,   \* "date": the date reached, and its day number
          val     \* "value": the state, its serializer, the value written, the bytes cut off

vars == <<kind, pat, text, date, val>>

RECURSIVE ValuesOf(_), Shows(_, _), Decodable(_, _, _)

Kinds == {"glob", "string", "integer", "hash", "date", "value"}
NoValue == [state |-> "none"]

Init ==
    /\ kind \in Kinds
    /\ pat = <<>>
    /\ text = <<>>
    /\ date = FirstDate
    /\ val = NoValue

Grow(what, symbols, max) ==
    /\ kind = what
    /\ Len(text) < max
    /\ \E c \in symbols : text' = Append(text, c)
    /\ UNCHANGED <<kind, pat, date, val>>

TypePattern ==
    /\ kind = "glob"
    /\ text = <<>>
    /\ Len(pat) < MaxPattern
    /\ \E c \in PatternSymbols : pat' = Append(pat, c)
    /\ UNCHANGED <<kind, text, date, val>>

TypeText == Grow("glob", TextSymbols, MaxText)
AddUnit == Grow("string", Units, MaxUnits)
AddDigit == Grow("integer", 0 .. 9, MaxDigits)
AddByte == Grow("hash", HashBytes, 4)

IsLeap(y) == y % 4 = 0 /\ (y % 100 # 0 \/ y % 400 = 0)
MonthDays(y, m) ==
    IF m = 2 THEN IF IsLeap(y) THEN 29 ELSE 28 ELSE IF m \in {4, 6, 9, 11} THEN 30 ELSE 31
DayAfter(t) ==
    IF t.d < MonthDays(t.y, t.m) THEN [t EXCEPT !.d = t.d + 1]
    ELSE IF t.m < 12 THEN [t EXCEPT !.m = t.m + 1, !.d = 1]
    ELSE [t EXCEPT !.y = t.y + 1, !.m = 1, !.d = 1]

PassDay ==
    /\ kind = "date"
    /\ date.n < FirstDate.n + Days
    /\ date' = [DayAfter(date) EXCEPT !.n = date.n + 1]
    /\ UNCHANGED <<kind, pat, text, val>>

UpTo(max, set) == UNION {[1 .. n -> set] : n \in 0 .. max}

\* The values a serializer is given. Every null is one Flink can store there.
ValuesOf(ser) ==
    LET upTo(set) == UpTo(MaxItems, set)
        some(i) == ValuesOf(ser.of[i])
        fields(sets) == {Items(f) : f \in {f \in [DOMAIN sets -> UNION Range(sets)] :
                                               \A i \in DOMAIN sets : f[i] \in sets[i]}}
        bytes(n) == {[i \in 1 .. n |-> b] : b \in ValueBytes}
    IN  CASE ser.s \in DOMAIN Width -> {Data(b) : b \in bytes(Width[ser.s])}
          [] ser.s \in DOMAIN PrimWidth ->
                {Data(b) : b \in UNION {bytes(n * PrimWidth[ser.s]) : n \in 0 .. MaxItems}}
          [] ser.s = "ByteArray" -> {Data(b) : b \in upTo(ValueBytes)}
          [] ser.s = "String" -> {Null} \cup {Data(u) : u \in upTo(ValueBytes)}
          [] ser.s = "StringArray" ->
                {Items(f) : f \in upTo({Null, Data(<<>>)} \cup {Data(<<u>>) : u \in ValueBytes})}
          [] ser.s = "BigInteger" -> {Null} \cup {Data(b) : b \in upTo(ValueBytes) \ {<<>>}}
          [] ser.s = "BigDecimal" -> {Null} \cup {Data(<<b, 0, 0, 0, c>>) : b, c \in ValueBytes}
          [] ser.s = "Kryo" -> {Kryo(<<b>>) : b \in ValueBytes}
          [] ser.s = "List" -> {Items(f) : f \in upTo(some(1))}
          [] ser.s = "Array" -> {Items(f) : f \in upTo(some(1) \cup {Null})}
          [] ser.s = "Nullable" -> some(1) \cup {Null}
          [] ser.s \in {"Tuple", "Ttl"} -> fields([i \in DOMAIN ser.of |-> some(i)])
          [] ser.s = "Map" -> {Items(f) : f \in upTo(fields([i \in 1 .. 2 |-> some(i)]))}
          [] ser.s = "Pojo" ->
                {Null, Subclass} \cup fields([i \in DOMAIN ser.of |-> some(i) \cup {Null}])

\* An entry of a state: the bytes of its value, and what precedes them in the key.
ValueBytesOf(v) ==
    CASE v.state = "LIST" -> WrittenList(v.ser.of[1], v.v.items)
      [] v.state = "MAP" ->
            LET value == v.v.items[2]
            IN  IF value = Null THEN <<1>> ELSE Flagged(0, Written(v.ser.of[2], value))
      [] OTHER -> Written(v.ser, v.v)
NamespaceOf(v) ==
    Flagged(0, IF v.state = "MAP" THEN Written(v.ser.of[1], v.v.items[1]) ELSE <<>>)

\* What a state may hold: an entry of a map, a list that is not empty and has up to one
\* element more than decode_list reads, a value.
EntriesOf(s) ==
    CASE s.state = "MAP" ->
            {Items(<<k, x>>) : k \in ValuesOf(s.ser.of[1]), x \in ValuesOf(s.ser.of[2]) \cup {Null}}
      [] s.state = "LIST" ->
            {Items(f) : f \in UpTo(MaxListItems + 2, ValuesOf(s.ser.of[1])) \ {<<>>}}
      [] OTHER -> ValuesOf(s.ser)

WriteValue ==
    /\ kind = "value"
    /\ val = NoValue
    /\ \E s \in Shapes : \E v \in EntriesOf(s) :
          val' = [state |-> s.state, ser |-> s.ser, v |-> v, cut |-> 0]
    /\ UNCHANGED <<kind, pat, text, date>>

\* The bytes of a value may end anywhere.
CutByte ==
    /\ kind = "value"
    /\ val # NoValue
    /\ val.cut < Len(ValueBytesOf(val))
    /\ val' = [val EXCEPT !.cut = @ + 1]
    /\ UNCHANGED <<kind, pat, text, date>>

Next ==
    TypePattern \/ TypeText \/ AddUnit \/ AddDigit \/ AddByte \/ PassDay \/ WriteValue \/ CutByte

Spec == Init /\ [][Next]_vars

(***************************************************************************)
(* Properties.                                                             *)
(***************************************************************************)

\* The matcher that goes back to the last star only finds every match there is; a
\* substring search is the glob between two stars (glob_chars, KeyMatcher::matches).
GlobFindsMatches ==
    kind = "glob" =>
        /\ Matches("glob", pat, text) = GlobMeaning(Lower(pat), Lower(text))
        /\ (\A i \in DOMAIN pat : pat[i] \notin {"*", "?"}) =>
              Matches("substring", pat, text) = Matches("glob", <<"*">> \o pat \o <<"*">>, text)

\* The text a String key renders as is read back as that key and no other, lone
\* surrogates, backslashes and texts that look escaped included, and is what a typed
\* key is compared by (key_string, parse_key_string, canonical_text, parse_char).
StringKeysReadBack ==
    kind = "string" =>
        /\ ParseKeyString(KeyString(text)) = text
        /\ CanonicalString(text) = KeyString(text)
        /\ Len(text) = 1 => ParseChar(CharValue(text[1])) = text

\* What two's complement bytes stand for.
ValueOf(bytes) ==
    LET n == Len(bytes)
        unsigned == FoldFunctionOnSet(+, 0, [i \in 1 .. n |-> bytes[i] * Byte ^ (n - i)], 1 .. n)
    IN  IF SignBit(bytes[1]) THEN unsigned - Byte ^ n ELSE unsigned

NumberOf(digits) == FoldLeft(LAMBDA v, d : v * 10 + d, 0, digits)

IntegersReadBack ==
    \A negative \in BOOLEAN :
        LET n     == NumberOf(text)
            mag   == ParseDigits(text)
            bytes == ToByteArray(negative /\ mag # <<>>, mag)
            value == IF negative THEN -n ELSE n
            half  == Byte ^ (Len(bytes) - 1) \div 2
        IN  /\ ValueOf(bytes) = value
            /\ Len(bytes) = 1 \/ value \notin -half .. half - 1
            /\ CanonicalInteger(negative, text)
                  = (IF negative /\ n # 0 THEN <<Minus>> ELSE <<>>) \o Digits(n, 1)

\* The digits and the scale of a decimal's text.
ReadDecimal(t) ==
    LET n == Len(t)
        e == IF Exp \in ToSet(t) THEN CHOOSE i \in 1 .. n : t[i] = Exp ELSE n + 1
        p == IF Point \in ToSet(t) THEN CHOOSE i \in 1 .. n : t[i] = Point ELSE e - 1
        shown == SelectSeq(SubSeq(t, 1, e - 1), LAMBDA c : c \in 0 .. 9)
        exponent == IF e > n THEN 0
                    ELSE NumberOf(SubSeq(t, e + 2, n)) * (IF t[e + 1] = Minus THEN -1 ELSE 1)
    IN  [negative |-> t[1] = Minus, n |-> NumberOf(shown), scale |-> e - 1 - p - exponent]

DecimalsReadBack ==
    \A negative \in BOOLEAN, scale \in -MaxScale .. MaxScale :
        ReadDecimal(BigDecimalToString(negative, Digits(NumberOf(text), 1), scale))
            = [negative |-> negative, n |-> NumberOf(text), scale |-> scale]

\* A BigInteger key typed in decimal is written as the shortest two's complement of
\* its value, and those bytes render as the same number; two BigDecimals render alike
\* only if sign, digits and scale are the same (parse_decimal,
\* big_integer_to_byte_array, twos_complement_to_decimal, big_decimal_to_string).
NumberKeysReadBack ==
    (kind = "integer" /\ text # <<>>) => IntegersReadBack /\ DecimalsReadBack

\* Whatever its hash code, a key belongs to one key-group, which one subtask holds:
\* the one computed from it (murmur_hash, range_for_subtask, subtask_for_key_group).
KeysHaveOneOwner ==
    (kind = "hash" /\ Len(text) = 4) =>
        \A mp \in Parallelisms :
            LET max == mp[1]
                p   == mp[2]
                kg  == KeyGroupForHash(text, max)
            IN  /\ kg \in 0 .. max - 1
                /\ {s \in 0 .. p - 1 : kg \in RangeForSubtask(max, p, s)}
                      = {SubtaskForKeyGroup(max, p, kg)}

\* Every day of the calendar renders as its date and is read back as that day; a date
\* that is none is refused, never read as another day (millis_to_iso,
\* days_from_civil, parse_iso_millis).
DateKeysReadBack ==
    kind = "date" =>
        LET as(t) == [y |-> t.y, m |-> t.m, d |-> t.d]
        IN  /\ Civil(date.n) = as(date)
            /\ ParseDate(as(date)) = <<date.n>>
            /\ \A d \in {0, 29, 30, 31, 32} :
                  d \notin 1 .. MonthDays(date.y, date.m) =>
                      ParseDate([y |-> date.y, m |-> date.m, d |-> d]) = None
            /\ \A m \in {0, 13} : ParseDate([y |-> date.y, m |-> m, d |-> date.d]) = None

\* Whether what is shown is what was written, as far as no marker stands for it.
Shows(shown, v) ==
    \/ shown = Marker
    \/ shown = v
    \/ /\ shown.is = "items" /\ v.is = "items"
       /\ \A i \in DOMAIN shown.items :
              \/ shown.items[i] \in {Marker, RestMarker}
              \/ i <= Len(v.items) /\ Shows(shown.items[i], v.items[i])
       /\ Len(shown.items) < Len(v.items) => Last(shown.items) = RestMarker

\* Whether nothing in a value is out of the decoder's reach: Kryo, a subclass, a map
\* inside a value, a POJO inside a tuple, or a composite inside a composite, of which
\* the header's types keep only the outermost (but the fields of a POJO).
Decodable(ser, v, depth) ==
    LET parts == IF v.is = "items" THEN DOMAIN v.items ELSE {}
        part(i) == IF ser.s \in {"List", "Array"} THEN ser.of[1] ELSE ser.of[i]
        inField == depth = "field"
        inner == IF inField THEN "field" ELSE "part"
    IN  CASE v.is \in {"subclass", "kryo"} -> FALSE
          [] ser.s \in {"Kryo", "Map"} -> FALSE
          [] ser.s = "Nullable" ->
                /\ inField \/ ser.of[1].s = "Pojo"
                /\ v = Null \/ Decodable(ser.of[1], v, depth)
          [] ser.s = "Pojo" ->
                \A i \in parts : v.items[i] = Null \/ Decodable(ser.of[i], v.items[i], "field")
          [] ser.s \in {"Tuple", "List", "Array", "Ttl"} ->
                /\ depth # "part"
                /\ ser.s = "Tuple" => \A i \in DOMAIN Snapshots(ser) : Snapshots(ser)[i].s # "Pojo"
                /\ \A i \in parts : v.items[i] = Null \/ Decodable(part(i), v.items[i], inner)
          [] OTHER -> TRUE

Reached(v) ==
    IF v.state = "MAP"
    THEN /\ Decodable(v.ser.of[1], v.v.items[1], "part")
         /\ v.v.items[2] = Null \/ Decodable(v.ser.of[2], v.v.items[2], "part")
    ELSE Decodable(v.ser, v.v, "top")

\* What a reader of the first n bytes of an entry can be told: a value of which nothing
\* is left is a null (of a map's, nothing after its isNull byte), and a keyed list ends
\* with its last element that a delimiter announces, or silently after MaxListItems + 1.
Told(w, n) ==
    LET announced == {i \in DOMAIN w.v.items :
                        i = 1 \/ Len(WrittenList(w.ser.of[1], SubSeq(w.v.items, 1, i - 1))) < n}
    IN  CASE w.state = "MAP" -> IF n = 1 THEN Items(<<w.v.items[1], Null>>) ELSE w.v
          [] n = 0 -> Null
          [] w.state = "LIST" ->
                Items(SubSeq(w.v.items, 1, Min({Cardinality(announced), MaxListItems + 1})))
          [] OTHER -> w.v

ReadsBack(w) ==
    LET b == ValueBytesOf(w)
        n == Len(b) - w.cut
        shown == DecodeEntryValue(w.state, w.ser, NamespaceOf(w), SubSeq(b, 1, n))
    IN  /\ Shows(shown, Told(w, n))
        /\ (w.cut = 0 /\ Reached(w)) => shown = Told(w, n)

\* Whatever a value is made of and wherever its bytes end, what is shown is what Flink
\* wrote there or a marker: no null, field or element that was not stored, none after one
\* that could not be read; and a value within the decoder's reach is shown whole. The
\* exceptions are those of Told: a value cut to no byte at all is shown as null, not as
\* undecodable, and the elements of a keyed list beyond MaxListItems + 1, or beyond a
\* cut between two elements, are left out without a marker
\* (extract_value_serializer_types, decode_state_value, decode_map_entry, decode_list).
ValuesReadBack == [][kind = "value" => ReadsBack(val')]_vars
=============================================================================
