---------------------------- MODULE MCKeyInputs ----------------------------
(***************************************************************************)
(* KeyInputs on small alphabets: a letter in both cases and another for    *)
(* the globs; for String keys a backslash, a u, hex digits and surrogates  *)
(* (so that a literal "\uD800" can be typed); the bytes of the one hash    *)
(* code that murmur's mixing takes to i32::MIN. The calendar is walked     *)
(* through an era and over both its ends. Values are made of the bytes     *)
(* that could be taken for a flag or for the delimiter of a list.          *)
(***************************************************************************)
EXTENDS KeyInputs

MCLower == [A |-> "a"]
MCPattern == {"a", "A", "b", "*", "?"}
MCText == {"a", "A", "b"}
MCUnits == {92, 117, 68, 56, 48, 55296, 56320}
MCHashBytes == {0, 127, 128, 255, 131, 111, 7, 85}
MCParallelisms == {<<1, 1>>, <<3, 2>>, <<128, 3>>, <<32768, 7>>}
MCFirst == [y |-> -1, m |-> 12, d |-> 1, n |-> -719468 - 91]

Ser(name, of) == [s |-> name, of |-> of]
Leaf(name) == Ser(name, <<>>)
ByteSer == Leaf("Byte")
Str == Leaf("String")
Inner == Ser("Pojo", <<ByteSer>>)
Fielded(ser) == Ser("Pojo", <<ser, ByteSer>>)
Scalars ==
    {Leaf(t) : t \in DOMAIN Width \cup DOMAIN PrimWidth
                     \cup {"ByteArray", "StringArray", "String", "BigInteger", "BigDecimal"}}
Composites == {Ser("List", <<ByteSer>>), Ser("List", <<Inner>>), Ser("Array", <<Str>>),
               Ser("Array", <<Inner>>), Ser("Nullable", <<ByteSer>>), Ser("Nullable", <<Inner>>),
               Ser("Tuple", <<ByteSer, Str>>), Ser("Tuple", <<Inner, ByteSer>>),
               Ser("List", <<Leaf("Kryo")>>), Ser("Tuple", <<Leaf("Kryo"), ByteSer>>),
               Ser("List", <<Ser("Tuple", <<Leaf("Kryo"), ByteSer>>)>>),
               Ser("Map", <<ByteSer, Inner>>), Inner, Leaf("Kryo")}
State(state, sers) == {[state |-> state, ser |-> s] : s \in sers}
\* Value states of scalars, of POJOs with a field of every kind, tuples, TTL; keyed
\* lists; maps with scalar keys.
MCStates ==
    State("VALUE", Scalars \cup {Fielded(s) : s \in Scalars \cup Composites}
                   \cup {Ser("Tuple", <<ByteSer, Str>>), Ser("Tuple", <<Inner, ByteSer>>),
                         Ser("Nullable", <<ByteSer>>), Ser("Nullable", <<Inner>>),
                         Ser("Ttl", <<Leaf("Long"), ByteSer>>), Ser("Ttl", <<Leaf("Long"), Inner>>),
                         Leaf("Kryo")})
    \cup State("LIST", {Ser("List", <<s>>) :
                          s \in {ByteSer, Leaf("Short"), Str, Leaf("Kryo"), Inner,
                                 Fielded(Leaf("Kryo"))}})
    \cup State("MAP", {Ser("Map", <<Str, v>>) :
                          v \in {ByteSer, Inner, Leaf("Kryo"), Ser("List", <<ByteSer>>),
                                 Ser("Tuple", <<ByteSer, Str>>)}}
                      \cup {Ser("Map", <<Leaf(k), ByteSer>>) : k \in {"Enum", "Kryo"}})
\* A value state that holds a list.
ListInValue == State("VALUE", {Ser("List", <<Leaf("Short")>>)})

\* The hash codes and key-groups that Java and Flink compute (tests/key_group_test.rs).
ASSUME TestedKeyGroups ==
    /\ JavaUtf16Hash(<<104, 101, 108, 108, 111>>) = Int32(1513, 6354)
    /\ KeyGroupForHash(Int32(1513, 6354), 128) = 35
    /\ KeyGroupForHash(Int32(0, 42), 32768) = 28189
    /\ KeyGroupForHash(MinInt, 128) = 108
    /\ JavaTupleHash(<<JavaUtf16Hash(<<97, 44, 98>>), JavaLongHash(Zero32, Int32(0, 7))>>)
          = Int32(44, 51472)
=============================================================================
