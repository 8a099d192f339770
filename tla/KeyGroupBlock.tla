--------------------------- MODULE KeyGroupBlock ---------------------------
(***************************************************************************)
(* One key-group block, byte by byte, as src/src/parser/keyed_state.rs     *)
(* reads it: runs of entries, each run under a stateId, an entry being two *)
(* arrays with their lengths. The first bit of an entry's key says that a  *)
(* stateId, or the end mark, follows the entry. Positions start at 1.      *)
(*                                                                         *)
(* Keys are Strings ("String") or of a serializer the reader does not know *)
(* ("Kryo"); the map keys of MAP states are Strings. A rendered key is the *)
(* text of its units, or its bytes when it is opaque.                      *)
(***************************************************************************)
EXTENDS StringValue

CONSTANTS PrefixLen,      \* key_group_prefix_bytes: 1 or 2
          NumStates,      \* the states the header registers: 0 .. NumStates - 1
          StateType,      \* [stateIds -> "VALUE", "MAP" or "TIMER"]
          NamespaceLen    \* [stateIds -> bytes of its namespace, or UnknownLen]

ASSUME KeyGroupBlockAssumption ==
    /\ PrefixLen \in {1, 2}
    /\ NumStates \in Nat

UnknownLen == -1
EndOfKeyGroupMark == 65535
Flag == 128

Slice(s, from, n) == SubSeq(s, from, from + n - 1)
From(s, i) == SubSeq(s, i, Len(s))

(***************************************************************************)
(* Keys.                                                                   *)
(***************************************************************************)

Text(units) == [opaque |-> FALSE, v |-> units]
OpaqueKey(bytes) == [opaque |-> TRUE, v |-> bytes]

\* decode_key: the key at the start of the payload and its length; a null string is
\* rendered opaquely. Nothing for a type that cannot be decoded.
DecodeKey(payload, keyType) ==
    LET read == ReadUnits(payload)
    IN  IF keyType # "String" \/ ~read.ok THEN [ok |-> FALSE, key |-> Text(<<>>), used |-> 0]
        ELSE [ok |-> TRUE, used |-> read.next - 1,
              key |-> IF read.null THEN OpaqueKey(Slice(payload, 1, read.next - 1))
                      ELSE Text(read.units)]

\* decoded_len of one map key at the start of bytes, 0 if it does not decode.
MapKeyLen(bytes) == LET read == ReadUnits(bytes) IN IF read.ok THEN read.next - 1 ELSE 0

\* tail_fits: a namespace, then for a MAP state exactly one map key.
TailFits(tail, n, isMap) ==
    \/ n = UnknownLen
    \/ ~isMap /\ Len(tail) = n
    \/ /\ isMap
       /\ Len(tail) > n
       /\ n = 1 => tail[1] = 0
       /\ MapKeyLen(From(tail, n + 1)) \in {0, Len(tail) - n}

\* Where the map key may start: a well-formed namespace before it, and the rest is
\* exactly one map key.
MapKeyStarts(payload, n) ==
    {i \in n + 1 .. Len(payload) :
        /\ n = 1 => payload[i - 1] = 0
        /\ MapKeyLen(From(payload, i)) = Len(payload) - i + 1}

\* The length of a key that was not decoded: up to the namespace, before the shortest
\* suffix that is a map key; all of it when that is not known.
OpaqueLen(payload, n, isMap) ==
    LET starts == MapKeyStarts(payload, n)
    IN  IF n = UnknownLen THEN Len(payload)
        ELSE IF ~isMap THEN Max({0, Len(payload) - n})
        ELSE IF starts = {} THEN Len(payload) ELSE Max(starts) - 1 - n

\* split_key: the rendered key and its length.
SplitKey(payload, keyType, n, isMap) ==
    LET decoded == DecodeKey(payload, keyType)
        len == OpaqueLen(payload, n, isMap)
    IN  IF decoded.ok /\ TailFits(From(payload, decoded.used + 1), n, isMap)
        THEN [key |-> decoded.key, len |-> decoded.used]
        ELSE [key |-> OpaqueKey(Slice(payload, 1, len)), len |-> len]

\* read_timer_key: eight bytes of time before the key, and nothing after its namespace.
ReadTimerKey(bytes, keyType, n) ==
    IF PrefixLen + 8 > Len(bytes) THEN [key |-> Text(<<>>), namespace |-> <<>>]
    ELSE [key |-> SplitKey(From(bytes, PrefixLen + 9), keyType, n, FALSE).key, namespace |-> <<>>]

\* read_key_from_bytes: the namespace keeps the map key.
ReadKeyFromBytes(bytes, keyType, n, isMap) ==
    LET payload == From(bytes, PrefixLen + 1)
        split == SplitKey(payload, keyType, n, isMap)
    IN  IF payload = <<>> THEN [key |-> OpaqueKey(<<Len(bytes)>>), namespace |-> <<>>]
        ELSE [key |-> split.key, namespace |-> From(payload, split.len + 1)]

(***************************************************************************)
(* The block.                                                              *)
(***************************************************************************)

NoDefect == "none"

\* read_be_u16 and read_be_i32 at position p. Lengths past 2^23 are all one, longer
\* than any block, and so are the negative ones.
U16(data, p) == data[p] * 256 + data[p + 1]
I32(data, p) ==
    IF data[p] >= 128 THEN -1
    ELSE IF data[p] > 0 \/ data[p + 1] >= 128 THEN 2 ^ 23
    ELSE data[p + 1] * 65536 + data[p + 2] * 256 + data[p + 3]

\* Mutant: what follows an entry is taken for the next one when the block has room.
NoEndOfRun(keyByte) == FALSE

\* Whether a stateId, or the end mark, follows the entry.
LastOfRun(keyByte) == keyByte >= Flag

\* The entry of a known state, from its key bytes.
Entry(id, bytes, keyType) ==
    LET n == NamespaceLen[id]
        read == IF StateType[id] = "TIMER" THEN ReadTimerKey(bytes, keyType, n)
                ELSE ReadKeyFromBytes(bytes, keyType, n, StateType[id] = "MAP")
    IN  [state |-> id, key |-> read.key, namespace |-> read.namespace]

\* parse_key_group_block: the entries emitted and the defect met. A run under a
\* stateId the header does not register is skipped, and reported if nothing worse is.
ParseBlock(data, keyType) ==
    LET room(p) == Len(data) - p + 1
        stop(defect) == [entries |-> <<>>, defect |-> defect]
        after(e, rest) == [rest EXCEPT !.entries = e \o @]
        seen(id, rest) == IF id >= NumStates /\ rest.defect = NoDefect
                          THEN [rest EXCEPT !.defect = "unknown state"] ELSE rest
        run[p \in 1 .. Len(data) + 1, id \in 0 .. EndOfKeyGroupMark] ==
            LET kl    == I32(data, p)
                value == p + 4 + kl
                vl    == I32(data, value)
                next  == value + 4 + vl
                entry == IF id < NumStates THEN <<Entry(id, Slice(data, p + 4, kl), keyType)>>
                         ELSE <<>>
            IN  IF id = EndOfKeyGroupMark THEN stop(NoDefect)
                ELSE IF room(p) < 4 THEN stop("truncated")
                ELSE IF kl < PrefixLen THEN stop("bad length")
                ELSE IF kl > room(p + 4) THEN stop("truncated")
                ELSE IF room(value) < 4 THEN stop("truncated")
                ELSE IF vl < 0 THEN stop("bad length")
                ELSE IF vl > room(value + 4) THEN stop("truncated")
                ELSE after(entry,
                           IF ~LastOfRun(data[p + 4]) THEN seen(id, run[next, id])
                           ELSE IF room(next) < 2 THEN stop("truncated")
                           ELSE seen(id, run[next + 2, U16(data, next)]))
    IN  IF room(1) < 2 THEN stop("truncated") ELSE run[3, U16(data, 1)]
=============================================================================
