---------------------------- MODULE BlockLookup ----------------------------
(***************************************************************************)
(* A key-group block from Flink's hand to the reader's answers. Flink      *)
(* writes one run of entries for each state that has any; the file may be  *)
(* cut anywhere afterwards. The reader (src/src/reader/mod.rs) parses the  *)
(* block, groups its entries by key, and answers what it is asked about a  *)
(* key: get, the record it returns, and the pages of entries that continue *)
(* a record cut at the entry limit.                                        *)
(***************************************************************************)
EXTENDS KeyGroupBlock

CONSTANTS KeyTypes, Keys,   \* the keys, by their UTF-16 units
          MapKeys,          \* the map keys of MAP states, by their units
          StateIds,         \* the states Flink writes, registered or not
          Named,            \* the registered states whose metadata was recognised
          EntryLimit,       \* entries of a state that a record holds
          MaxEntries        \* entries Flink writes

ASSUME BlockLookupAssumption ==
    /\ EntryLimit \in Nat \ {0}
    /\ Named \subseteq 0 .. NumStates - 1

VARIABLES keyType,
          block,     \* the bytes on disk
          written,   \* the entries written: state, key bytes, map key, where they end
          run,       \* the stateId of the run being written, or NoRun
          phase      \* "writing", "whole" or "cut"

vars == <<keyType, block, written, run, phase>>

NoRun == -1

Init ==
    /\ keyType \in KeyTypes
    /\ block = <<>>
    /\ written = <<>>
    /\ run = NoRun
    /\ phase = "writing"

(***************************************************************************)
(* Flink's FullSnapshotAsyncWriter.                                        *)
(***************************************************************************)

Short(n) == <<n \div 256, n % 256>>
Int4(n) == <<0, 0>> \o Short(n)

\* The key array of an entry: the key-group prefix with its flag, the key, its
\* namespace and map key; a timer has its time first.
KeyArray(id, key, mapKey, last) ==
    LET prefix == [i \in 1 .. PrefixLen |-> IF i = 1 /\ last THEN Flag ELSE 0]
        namespace == [i \in 1 .. NamespaceLen[id] |-> 0]
        time == IF StateType[id] = "TIMER" THEN <<128, 0, 0, 0, 0, 0, 0, 1>> ELSE <<>>
    IN  prefix \o time \o key \o namespace \o mapKey

Value(id) == IF StateType[id] = "TIMER" THEN <<>> ELSE <<7>>

\* The first entry of a run brings its stateId; the last one is followed by another
\* run's first entry or by the end mark.
WriteEntry(id, key, mapKey, last) ==
    LET array == KeyArray(id, key, mapKey, last)
        bytes == (IF run = NoRun THEN Short(id) ELSE <<>>)
                 \o Int4(Len(array)) \o array \o Int4(Len(Value(id))) \o Value(id)
    IN  /\ phase = "writing"
        /\ Len(written) < MaxEntries
        /\ IF run = NoRun THEN \A i \in DOMAIN written : written[i].state # id ELSE run = id
        /\ block' = block \o bytes
        /\ written' = Append(written, [state |-> id, key |-> key, mapKey |-> mapKey,
                                       end |-> Len(block) + Len(bytes)])
        /\ run' = IF last THEN NoRun ELSE id
        /\ UNCHANGED <<keyType, phase>>

WriteEnd ==
    /\ phase = "writing"
    /\ run = NoRun
    /\ written # <<>>
    /\ block' = block \o Short(EndOfKeyGroupMark)
    /\ phase' = "whole"
    /\ UNCHANGED <<keyType, written, run>>

\* Bytes are lost at the end of the block.
Cut(n) ==
    /\ phase = "whole"
    /\ n < Len(block)
    /\ block' = Slice(block, 1, n)
    /\ phase' = "cut"
    /\ UNCHANGED <<keyType, written, run>>

Flink ==
    \/ \E id \in StateIds, key \in Keys, last \in BOOLEAN :
          \E mapKey \in IF StateType[id] = "MAP" THEN MapKeys ELSE {<<>>} :
              WriteEntry(id, WriteUnits(key),
                         IF StateType[id] = "MAP" THEN WriteUnits(mapKey) ELSE <<>>, last)
    \/ WriteEnd

Next == Flink \/ \E n \in 0 .. Len(block) - 1 : Cut(n)

Spec == Init /\ [][Next]_vars

(***************************************************************************)
(* The reader.                                                             *)
(***************************************************************************)

\* group_block: a key's entries together, keys in order of first appearance.
GroupBlock(entries) ==
    LET first == {i \in DOMAIN entries : \A j \in 1 .. i - 1 : entries[j].key # entries[i].key}
        of(k) == SelectSeq(entries, LAMBDA e : e.key = k)
        order == SetToSortSeq(first, LAMBDA i, j : i < j)
    IN  [i \in DOMAIN order |-> [key |-> entries[order[i]].key, entries |-> of(entries[order[i]].key)]]

OfState(raw, id) == SelectSeq(raw.entries, LAMBDA e : e.state = id)

\* The entries of a record: the first EntryLimit of each state, in order.
Kept(raw, i) ==
    Cardinality({j \in 1 .. i : raw.entries[j].state = raw.entries[i].state}) <= EntryLimit

\* StateReader::record: its entries, and the states that had more, with their totals.
Record(raw) ==
    LET kept == SetToSortSeq({i \in DOMAIN raw.entries : Kept(raw, i)}, LAMBDA i, j : i < j)
    IN  [entries |-> [i \in DOMAIN kept |-> raw.entries[kept[i]]],
         truncated |-> {[state |-> id, total |-> Len(OfState(raw, id)), returned |-> EntryLimit] :
                            id \in {x \in StateIds : Len(OfState(raw, x)) > EntryLimit}}]

\* Mutant: a key that is not in the block is absent, whatever became of the block.
AlwaysAbsent(defect) == "absent"

\* What a key not among those read is said to be.
NotRead(defect) == IF defect = NoDefect THEN "absent" ELSE "malformed"

\* StateReader::get, from the block on; a key that has no text must be scanned for.
Get(parsed, key) ==
    LET keys == GroupBlock(parsed.entries)
        at == {i \in DOMAIN keys : keys[i].key = key}
    IN  IF keyType # "String" THEN [answer |-> "needs scan"]
        ELSE IF at = {} THEN [answer |-> NotRead(parsed.defect)]
        ELSE LET ord == CHOOSE i \in at : TRUE
             IN  [answer |-> "found", ordinal |-> ord, record |-> Record(keys[ord]),
                  malformed |-> parsed.defect # NoDefect]

\* StateReader::entries: entries offset .. offset + limit of a named state of the key at
\* an ordinal, and where to go on.
Entries(parsed, ordinal, id, offset, limit) ==
    LET all == OfState(GroupBlock(parsed.entries)[ordinal], id)
        end == Min({offset + Max({1, limit}), Len(all)})
    IN  [entries |-> SubSeq(all, offset + 1, end), total |-> Len(all),
         next |-> IF end < Len(all) THEN end ELSE -1]

(***************************************************************************)
(* Properties.                                                             *)
(***************************************************************************)

NamespaceOf(w) == [i \in 1 .. NamespaceLen[w.state] |-> 0]

\* What the reader should see of an entry: its key, and its namespace with the map key.
Rendered(w) ==
    [state |-> w.state,
     key |-> IF keyType = "String" THEN Text(ReadUnits(w.key).units) ELSE OpaqueKey(w.key),
     namespace |-> IF StateType[w.state] = "TIMER" THEN <<>> ELSE NamespaceOf(w) \o w.mapKey]

\* Inside the map key that follows a key without a text, a shorter suffix looks like a
\* namespace and a map key again: a unit 0 and what reads as a whole string.
Ambiguous(w) ==
    /\ keyType # "String" /\ StateType[w.state] = "MAP"
    /\ MapKeyStarts(NamespaceOf(w) \o w.mapKey, NamespaceLen[w.state]) # {NamespaceLen[w.state] + 1}

\* split_key takes the shortest one: the beginning of the map key leaks into the key.
Leaked(e, w) ==
    /\ Ambiguous(w)
    /\ e.state = w.state /\ e.key.opaque
    /\ Len(e.key.v) > Len(w.key)
    /\ e.key.v \o e.namespace = w.key \o NamespaceOf(w) \o w.mapKey

\* The entries of w that are whole among the bytes b, of registered states.
Whole(b, w) == SelectSeq(w, LAMBDA e : e.end <= Len(b) /\ e.state < NumStates)

UnknownRead(w) == \E i \in DOMAIN w : w[i].state >= NumStates

BlockReadBack(b, w, whole) ==
    LET parsed == ParseBlock(b, keyType)
        kept == Whole(b, w)
    IN  /\ Len(parsed.entries) = Len(kept)
        /\ \A i \in DOMAIN kept :
              IF Ambiguous(kept[i]) THEN Leaked(parsed.entries[i], kept[i])
              ELSE parsed.entries[i] = Rendered(kept[i])
        /\ (parsed.defect = NoDefect) = (whole /\ ~UnknownRead(w))

\* Whatever Flink writes next and wherever the block is cut, it gives back every entry
\* that is whole in it, in order, each under its state and its key, and nothing else,
\* but for the entries of a map under an undecodable key whose map key is Ambiguous:
\* those come back under a longer key. The block is without a defect only if it was read
\* to its end mark and every run was registered (parse_key_group_block, split_key).
BlocksReadBack == [][BlockReadBack(block', written', phase' = "whole")]_vars

\* The pages of a state's entries, from an offset on until one says there is no more.
PagesFrom(parsed, ordinal, id, limit) ==
    LET from[offset \in 0 .. MaxEntries] ==
            LET page == Entries(parsed, ordinal, id, offset, limit)
            IN  page.entries \o (IF page.next = -1 THEN <<>> ELSE from[page.next])
    IN  from

\* The record of the key at an ordinal and the pages that continue it are its entries.
RecordTrue(parsed, ordinal) ==
    LET raw == GroupBlock(parsed.entries)[ordinal]
        record == Record(raw)
        recorded(id) == SelectSeq(record.entries, LAMBDA e : e.state = id)
        first(all) == Slice(all, 1, Min({EntryLimit, Len(all)}))
    IN  /\ \A id \in {x \in StateIds : x < NumStates} : recorded(id) = first(OfState(raw, id))
        /\ \A id \in Named, limit \in 0 .. 2 :
              LET pages == PagesFrom(parsed, ordinal, id, limit)
              IN  /\ pages[0] = OfState(raw, id)
                  /\ \A t \in record.truncated :
                        t.state = id => recorded(id) \o pages[t.returned] = OfState(raw, id)

LookupTrue(b, w, k) ==
    LET parsed == ParseBlock(b, keyType)
        ofK == SelectSeq(w, LAMBDA e : e.key = WriteUnits(k))
        whole == Whole(b, ofK)
        got == Get(parsed, Text(k))
    IN  /\ got.answer = "absent" => ofK = <<>>
        /\ (got.answer = "found") = (whole # <<>>)
        /\ got.answer = "found" =>
            /\ (\E i \in DOMAIN ofK : ofK[i].end > Len(b)) => got.malformed
            /\ GroupBlock(parsed.entries)[got.ordinal].entries
                  = [i \in DOMAIN whole |-> Rendered(whole[i])]

\* A String key is found with what is whole of it, told absent only if it was never
\* written, and a block that lost entries says so; the record of any key and the pages
\* that continue it give each state's entries once, in order (get, record, entries).
LookupsTrue ==
    [][phase' # "writing" =>
          /\ keyType = "String" => \A k \in Keys : LookupTrue(block', written', k)
          /\ LET parsed == ParseBlock(block', keyType)
             IN  \A ordinal \in DOMAIN GroupBlock(parsed.entries) : RecordTrue(parsed, ordinal)]_vars
=============================================================================
