--------------------------- MODULE KeyGroupLayout ---------------------------
(***************************************************************************)
(* Where the keyed state of one operator lies: the pure part of the lazy   *)
(* reader (src/src/reader/mod.rs), over one parsed savepoint `sp`.         *)
(*                                                                         *)
(*   sp.sub[s]      the managed keyed handle of subtask s:                 *)
(*     kind     "null", "unsupported" (incremental, changelog) or          *)
(*              "key_groups" (canonical)                                   *)
(*     open     what source_for says of its stream: "ok", "error" (missing,*)
(*              short or refused file) or "no_stream"                      *)
(*     header   whether the header bytes can be read                       *)
(*     start, offsets   first key-group and KeyGroupsStateHandle.offsets   *)
(*     len      length of the stream                                       *)
(*     names    state names by stateId, as this subtask's header registers *)
(*   sp.blocks[k]   the keys of key-group k in order of first appearance,  *)
(*                  each with the stateIds of its entries and whether the  *)
(*                  searched predicate holds of its text                   *)
(*   sp.defect[k]   the block is malformed after those keys                *)
(*                                                                         *)
(* Stream and file contents are abstracted to these fields; every decision *)
(* the reader takes from them is kept.                                     *)
(***************************************************************************)
EXTENDS Integers, Sequences, FiniteSets, FiniteSetsExt, TLC

CONSTANTS MaxParallelism,   \* the operator's key-groups are 0 .. MaxParallelism-1
          Parallelism,      \* its subtasks are 0 .. Parallelism-1
          Savepoints        \* the savepoints considered

ASSUME ParallelismAssumption ==
    /\ MaxParallelism \in Nat \ {0}
    /\ Parallelism \in 1 .. MaxParallelism

KeyGroups == 0 .. MaxParallelism - 1
Subtasks  == 0 .. Parallelism - 1

(***************************************************************************)
(* One subtask's handle.                                                   *)
(***************************************************************************)

\* The inclusive key-group range of a unit.
UnitStart(h) == h.start
UnitEnd(h)   == h.start + Len(h.offsets) - 1

\* check_offsets: every non-empty key-group starts inside the stream.
CheckOffsets(h) ==
    \A i \in DOMAIN h.offsets : h.offsets[i] > 0 => h.offsets[i] < h.len

\* OpContext::open: a null handle or a handle without a stream is no unit at
\* all; an unsupported handle or one that cannot be opened is a failed unit.
IsUnit(h) ==
    \/ h.kind = "unsupported"
    \/ h.kind = "key_groups" /\ h.open # "no_stream"

OpenFails(h) ==
    \/ h.kind = "unsupported"
    \/ h.open = "error"
    \/ ~CheckOffsets(h)

\* unit_error: the unit cannot be read at all.
UnitError(h) == OpenFails(h) \/ ~h.header

\* header_len: the header runs from offset 0 to the first key-group.
HeaderLen(h) ==
    Min({h.offsets[i] : i \in {j \in DOMAIN h.offsets : h.offsets[j] > 0}} \cup {h.len})

\* block_range: the stored bytes of key-group k, ending where the next
\* non-empty key-group starts; NoBlock when k is empty (offset 0).
NoBlock == <<0, 0>>
BlockRange(h, k) ==
    LET i     == k - h.start + 1
        first == h.offsets[i]
        later == {j \in (i + 1) .. Len(h.offsets) : h.offsets[j] > first}
        end   == Min({h.len} \cup (IF later = {} THEN {} ELSE {h.offsets[Min(later)]}))
    IN  IF first <= 0 \/ first < HeaderLen(h) \/ first >= h.len \/ end <= first
        THEN NoBlock
        ELSE <<first, end>>

NonEmpty(h, k)  == BlockRange(h, k) # NoBlock
StoredLen(h, k) == BlockRange(h, k)[2] - BlockRange(h, k)[1]

(***************************************************************************)
(* The operator: units in key-group order, cursors, seek.                  *)
(***************************************************************************)

Units(sp) == {s \in Subtasks : IsUnit(sp.sub[s])}

\* unit_of: the units whose range holds key-group k (at most one: WellFormed).
Holders(sp, k) ==
    {s \in Units(sp) : UnitStart(sp.sub[s]) <= k /\ k <= UnitEnd(sp.sub[s])}

\* subtask_for_key_group: Flink's owner of a key-group.
SubtaskForKeyGroup(k) == (k * Parallelism) \div MaxParallelism

\* A position of the walk, and Position::End. The end is given the key-group
\* after the last one, so that positions are ordered by <<kg, ord>>.
Pos(at, s, k, o) == [at |-> at, sub |-> s, kg |-> k, ord |-> o]
EndPos == Pos("end", 0, MaxParallelism, 0)

\* The first key-group at or after `from` that holds a block or whose unit
\* cannot be read, in a unit.
FirstStop(h, from) == Max({UnitStart(h), from})
BlocksFrom(h, from) ==
    {k \in FirstStop(h, from) .. UnitEnd(h) : NonEmpty(h, k)}
StopsIn(h, from) ==
    /\ UnitEnd(h) >= from
    /\ UnitError(h) \/ BlocksFrom(h, from) # {}

\* Mutant: the ordinal is kept when its key-group is skipped.
OrdinalCarried(k, from, ord) == ord

\* The ordinal to start at in key-group k, when `ord` was meant for `from`.
OrdinalAt(k, from, ord) == IF k = from THEN ord ELSE 0

\* seek: the first non-empty key-group at or after `from`, with the ordinal to
\* start at in it, or the first unit that cannot be read.
Seek(sp, from, ord) ==
    LET stops == {s \in Units(sp) : StopsIn(sp.sub[s], from)}
        s == CHOOSE s \in stops :
                 \A t \in stops : UnitStart(sp.sub[s]) <= UnitStart(sp.sub[t])
        h == sp.sub[s]
        k == Min(BlocksFrom(h, from))
    IN  IF stops = {} THEN EndPos
        ELSE IF UnitError(h) THEN Pos("unreadable", s, FirstStop(h, from), 0)
        ELSE Pos("block", s, k, OrdinalAt(k, from, ord))

\* cursor_of, and the cursor of a finished walk (None).
Cursor(s, k, o) == [subtask |-> s, key_group |-> k, ordinal |-> o]
NoCursor == Cursor(0, MaxParallelism, 0)
\* Mutant: the cursor names the operator's first subtask.
CursorOfFirstSubtask(p) == IF p.at = "end" THEN NoCursor ELSE Cursor(0, p.kg, p.ord)

CursorOf(p) == IF p.at = "end" THEN NoCursor ELSE Cursor(p.sub, p.kg, p.ord)

\* cursor_at: the first key at or after key-group k.
CursorAt(sp, k) ==
    Cursor(IF Holders(sp, k) # {} THEN CHOOSE s \in Holders(sp, k) : TRUE
           ELSE SubtaskForKeyGroup(k), k, 0)

\* check_cursor: a cursor names a key-group of the operator, and the subtask
\* that holds it (any subtask, when none holds it).
CheckCursor(sp, c) ==
    /\ c.key_group < MaxParallelism
    /\ \A s \in Holders(sp, c.key_group) : s = c.subtask

(***************************************************************************)
(* Names and sizes.                                                        *)
(***************************************************************************)

\* state_label: a subtask resolves a stateId with the names of its own header.
StateLabel(h, id) ==
    IF id < Len(h.names) THEN h.names[id + 1] ELSE "#" \o ToString(id)

\* progress: stored bytes of the blocks of key-groups below `done`, and of all
\* of them, over the streams that opened (their headers readable or not).
Streams(sp) == {s \in Units(sp) : ~OpenFails(sp.sub[s])}
\* Each block's bytes are told apart by its subtask and its key-group: blocks
\* that overlap in a stream count twice.
StoredBytes(sp, first, done) ==
    UNION {{b} \X (1 .. StoredLen(sp.sub[b[1]], b[2])) :
              b \in {c \in Streams(sp) \X (first .. done - 1) :
                        c[1] \in Holders(sp, c[2]) /\ NonEmpty(sp.sub[c[1]], c[2])}}
StoredBelow(sp, first, done) == Cardinality(StoredBytes(sp, first, done))

(***************************************************************************)
(* The savepoints a Flink job writes: disjoint key-group ranges inside     *)
(* 0 .. MaxParallelism-1, keys only where a handle records a block (or     *)
(* where it cannot be read), and headers that register a name once, so that*)
(* the stateIds of a key have different labels.                            *)
(***************************************************************************)

Handles ==
    [kind : {"null", "unsupported", "key_groups"},
     open : {"ok", "error", "no_stream"},
     header : BOOLEAN,
     start : KeyGroups,
     offsets : Seq(Nat),
     len : Nat,
     names : Seq(STRING)]

KeyRecords == [hit : BOOLEAN, ids : Seq(Nat)]

\* A key-group may hold keys: some unit holds it, and it cannot be read or
\* its block is not empty.
MayHoldKeys(sp, k) ==
    \E s \in Holders(sp, k) : UnitError(sp.sub[s]) \/ NonEmpty(sp.sub[s], k)

WellFormed(sp) ==
    /\ DOMAIN sp.sub = Subtasks
    /\ \A s \in Subtasks :
          /\ sp.sub[s] \in Handles
          /\ IsUnit(sp.sub[s]) =>
                /\ Len(sp.sub[s].offsets) > 0
                /\ UnitEnd(sp.sub[s]) < MaxParallelism
    /\ \A k \in KeyGroups : \A s, t \in Holders(sp, k) : s = t
    /\ sp.blocks \in [KeyGroups -> Seq(KeyRecords)]
    /\ sp.defect \in [KeyGroups -> BOOLEAN]
    /\ \A k \in KeyGroups :
          sp.blocks[k] # <<>> \/ sp.defect[k] => MayHoldKeys(sp, k)
    /\ \A k \in KeyGroups : \A s \in Holders(sp, k), i \in DOMAIN sp.blocks[k] :
          \A a, b \in Range(sp.blocks[k][i].ids) :
             StateLabel(sp.sub[s], a) = StateLabel(sp.sub[s], b) => a = b

ASSUME SavepointsAssumption == \A sp \in Savepoints : WellFormed(sp)
=============================================================================
