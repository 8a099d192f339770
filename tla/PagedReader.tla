----------------------------- MODULE PagedReader -----------------------------
(***************************************************************************)
(* A client walks the keys of one operator page by page, as the key table, *)
(* the searches and the counts of src/src/reader/mod.rs do:                *)
(*   key_page    up to `limit` keys from a cursor                          *)
(*   scan_with   the keys whose text matches, up to a byte budget, a match *)
(*               cap and an optional last key-group                        *)
(*   count       whole blocks, up to a byte budget                         *)
(* Every page starts where the cursor of the page before it points. One    *)
(* step is one turn of the page's loop; a block read may fail at any time  *)
(* (the file is removed, shortened or corrupt).                            *)
(*                                                                         *)
(* `times`, `rep`, `malformed`, `tally` and `bytes` are what the client    *)
(* has been given over the pages of its walk.                              *)
(***************************************************************************)
EXTENDS KeyGroupLayout

CONSTANTS Limits,          \* page limits and match caps a client asks for
          Budgets,         \* byte budgets a client asks for
          StartOrdinals    \* ordinals a first cursor may name

ASSUME PagingAssumption ==
    /\ Limits \subseteq Nat
    /\ Budgets \subseteq Nat
    /\ StartOrdinals \subseteq Nat

VARIABLES
    sp,          \* the savepoint
    mode,        \* "key_page", "scan" or "count"
    last,        \* ScanOptions.last_key_group; MaxParallelism when None
    start,       \* the first cursor
    cursor,      \* the cursor of the next page
    pos,         \* the Position of the page being read, or Idle, or Refused
    page,        \* keys or matches so far, blocks visited, block_bytes, limits
    times,       \* how often each key was returned (counted)
    rep,         \* how often each key-group was listed as unreadable
    malformed,   \* key-groups whose block was listed as malformed
    tally,       \* count: the merged StateCounts
    bytes        \* the block_bytes of all pages

vars == <<sp, mode, last, start, cursor, pos, page, times, rep, malformed, tally, bytes>>
walk == <<sp, mode, last, start>>
got  == <<times, rep, malformed, tally>>

Idle    == Pos("idle", 0, 0, 0)
Refused == Pos("refused", 0, 0, 0)
NoPage  == [n |-> 0, visited |-> FALSE, bytes |-> 0, limit |-> 1, budget |-> 0]

Positions == UNION {{k} \X (0 .. Len(sp.blocks[k]) - 1) : k \in KeyGroups}
KeyAt(p)  == sp.blocks[p[1]][p[2] + 1]

\* The keys this walk is asked for.
Wanted(p) == p[1] <= last /\ (mode = "scan" => KeyAt(p).hit)

LabelOf(k, id) == StateLabel(sp.sub[CHOOSE s \in Holders(sp, k) : TRUE], id)
Labels == UNION {{LabelOf(p[1], id) : id \in Range(KeyAt(p).ids)} : p \in Positions}

TypeOK ==
    /\ WellFormed(sp)
    /\ mode \in {"key_page", "scan", "count"}
    /\ last \in 0 .. MaxParallelism
    /\ \A c \in {start, cursor} :
          c \in [subtask : Subtasks, key_group : 0 .. MaxParallelism, ordinal : Nat]
    /\ pos \in [at : {"idle", "refused", "block", "unreadable", "end"},
                sub : Subtasks, kg : 0 .. MaxParallelism, ord : Nat]
    /\ page \in [n : Nat, visited : BOOLEAN, bytes : Nat, limit : Nat \ {0}, budget : Nat]
    /\ times \in [Positions -> Nat]
    /\ rep \in [KeyGroups -> Nat]
    /\ malformed \subseteq KeyGroups
    /\ bytes \in Nat

Init ==
    /\ sp \in Savepoints
    /\ \/ mode \in {"key_page", "count"} /\ last = MaxParallelism
       \/ mode = "scan" /\ last \in 0 .. MaxParallelism
    /\ start \in {Cursor(s, k, o) : s \in Subtasks, k \in KeyGroups, o \in StartOrdinals}
    /\ cursor = start
    /\ pos = Idle
    /\ page = NoPage
    /\ times = [p \in Positions |-> 0]
    /\ rep = [k \in KeyGroups |-> 0]
    /\ malformed = {}
    /\ tally = [l \in Labels |-> [keys |-> 0, entries |-> 0]]
    /\ bytes = 0

-----------------------------------------------------------------------------
(***************************************************************************)
(* The loop of a page.                                                     *)
(***************************************************************************)

\* Mutant: the last key-group is taken as exclusive.
BoundedExclusive(p) == IF p.kg >= last THEN EndPos ELSE p

\* scan_with stops past its last key-group; the other walks have none.
Bounded(p) == IF p.kg > last THEN EndPos ELSE p

\* count starts at the beginning of the cursor's key-group.
OrdinalOf(c) == IF mode = "count" THEN 0 ELSE c.ordinal

\* Mutant: the budget is looked at before the page has visited anything.
PageFullAtOnce ==
    \/ mode = "key_page" /\ page.n >= page.limit
    \/ /\ mode \in {"scan", "count"}
       /\ pos.at # "end"
       /\ \/ page.bytes >= page.budget
          \/ mode = "scan" /\ page.n >= page.limit

\* The page is full: it is returned with the cursor of `pos`.
PageFull ==
    \/ mode = "key_page" /\ page.n >= page.limit
    \/ /\ mode \in {"scan", "count"}
       /\ pos.at # "end"
       /\ \/ page.visited /\ page.bytes >= page.budget
          \/ mode = "scan" /\ page.n >= page.limit

\* Mutant: a limit of 0 is kept.
LimitAsAsked(l) == l

\* A limit of 0 is taken as 1.
AtLeastOne(l) == Max({l, 1})

Return(c) == cursor' = c /\ pos' = Idle /\ page' = NoPage

\* The client asks for the next page.
Begin ==
    /\ pos = Idle
    /\ cursor # NoCursor
    /\ CheckCursor(sp, cursor)
    /\ \E l \in Limits, b \in Budgets :
          page' = [NoPage EXCEPT !.limit = AtLeastOne(l), !.budget = b]
    /\ pos' = Bounded(Seek(sp, cursor.key_group, OrdinalOf(cursor)))
    /\ UNCHANGED <<walk, cursor, got, bytes>>

\* ReaderError::BadCursor: the client has no further page.
Refuse ==
    /\ pos = Idle
    /\ cursor # NoCursor
    /\ ~CheckCursor(sp, cursor)
    /\ pos' = Refused
    /\ UNCHANGED <<walk, cursor, page, got, bytes>>

\* The page ends before `pos`.
Cut ==
    /\ pos.at \in {"block", "unreadable", "end"}
    /\ PageFull
    /\ Return(CursorOf(pos))
    /\ UNCHANGED <<walk, got, bytes>>

\* The page ends at the end of the operator (or of the range).
Finish ==
    /\ pos.at = "end"
    /\ ~PageFull
    /\ Return(NoCursor)
    /\ UNCHANGED <<walk, got, bytes>>

\* A unit that cannot be read is listed, from `pos` to its end, and skipped.
SkipUnreadable ==
    /\ pos.at = "unreadable"
    /\ ~PageFull
    /\ LET end == UnitEnd(sp.sub[pos.sub])
       IN  /\ rep' = [k \in KeyGroups |-> IF pos.kg <= k /\ k <= end THEN rep[k] + 1 ELSE rep[k]]
           /\ pos' = Bounded(Seek(sp, end + 1, 0))
    /\ page' = [page EXCEPT !.visited = TRUE]
    /\ UNCHANGED <<walk, cursor, times, malformed, tally, bytes>>

\* Past the block at `pos`.
AfterBlock == Bounded(Seek(sp, pos.kg + 1, 0))

\* grouped: the stored size of the block counts before it is read.
Charge  == bytes' = bytes + StoredLen(sp.sub[pos.sub], pos.kg)
Charged == [page EXCEPT !.bytes = @ + StoredLen(sp.sub[pos.sub], pos.kg), !.visited = TRUE]

\* A block that cannot be read or inflated is listed and skipped.
ReadFails ==
    /\ pos.at = "block"
    /\ ~PageFull
    /\ Charge
    /\ page' = Charged
    /\ rep' = [rep EXCEPT ![pos.kg] = @ + 1]
    /\ pos' = AfterBlock
    /\ UNCHANGED <<walk, cursor, times, malformed, tally>>

\* The wanted keys of key-group k with ordinals lo .. hi-1.
WantedIn(k, lo, hi) == {p \in Positions : p[1] = k /\ lo <= p[2] /\ p[2] < hi /\ Wanted(p)}

\* The ordinal at which the keys of the block at `pos` fill the page, or the
\* number of its keys.
BlockStop ==
    LET len  == Len(sp.blocks[pos.kg])
        full == {o \in pos.ord .. len - 1 :
                    page.n + Cardinality(WantedIn(pos.kg, pos.ord, o)) >= page.limit}
    IN  IF full = {} THEN len ELSE Min(full)

\* Mutant: a defect is listed only by a page that starts at the block's first key.
ListDefectAtFirstKey ==
    malformed' = malformed \cup (IF sp.defect[pos.kg] /\ pos.ord = 0 THEN {pos.kg} ELSE {})

\* The block is parsed; its defect, if any, is listed.
ListDefect ==
    malformed' = malformed \cup (IF sp.defect[pos.kg] THEN {pos.kg} ELSE {})

Returned(keys) == times' = [p \in Positions |-> IF p \in keys THEN times[p] + 1 ELSE times[p]]

\* key_page and scan_with: the keys of the block from `pos` on. The page ends
\* inside the block when it is full before the block's last key.
KeysOfBlock ==
    /\ mode \in {"key_page", "scan"}
    /\ pos.at = "block"
    /\ ~PageFull
    /\ Charge
    /\ ListDefect
    /\ LET keys == WantedIn(pos.kg, pos.ord, BlockStop)
       IN  /\ Returned(keys)
           /\ \/ /\ BlockStop < Len(sp.blocks[pos.kg])
                 /\ Return(Cursor(pos.sub, pos.kg, BlockStop))
              \/ /\ BlockStop >= Len(sp.blocks[pos.kg])
                 /\ page' = [Charged EXCEPT !.n = @ + Cardinality(keys)]
                 /\ pos' = AfterBlock
                 /\ UNCHANGED cursor
    /\ UNCHANGED <<walk, rep, tally>>

\* The entries of label l of the key at p, and the stateIds they are under.
EntriesOf(p, l) == {i \in DOMAIN KeyAt(p).ids : LabelOf(p[1], KeyAt(p).ids[i]) = l}
\* Mutant: a key counts once per entry of the state.
IdsPerEntry(p, l) == EntriesOf(p, l)
IdsOf(p, l) == {id \in Range(KeyAt(p).ids) : LabelOf(p[1], id) = l}

\* What `keys` add to the counts of label l: one per stateId of a key, and one
\* per entry.
AddedKeys(keys, l)    == UNION {{p} \X IdsOf(p, l) : p \in keys}
AddedEntries(keys, l) == UNION {{p} \X EntriesOf(p, l) : p \in keys}

\* count: every key of the block, each of its states once.
CountBlock ==
    /\ mode = "count"
    /\ pos.at = "block"
    /\ ~PageFull
    /\ Charge
    /\ ListDefect
    /\ LET keys == WantedIn(pos.kg, 0, Len(sp.blocks[pos.kg]))
       IN  /\ Returned(keys)
           /\ tally' = [l \in Labels |->
                 [keys    |-> tally[l].keys + Cardinality(AddedKeys(keys, l)),
                  entries |-> tally[l].entries + Cardinality(AddedEntries(keys, l))]]
           /\ page' = [Charged EXCEPT !.n = @ + Cardinality(keys)]
    /\ pos' = AfterBlock
    /\ UNCHANGED <<walk, cursor, rep>>

WalkOver == pos = Refused \/ (pos = Idle /\ cursor = NoCursor)
Done == WalkOver /\ UNCHANGED vars

Next ==
    \/ Begin
    \/ Refuse
    \/ Cut
    \/ Finish
    \/ SkipUnreadable
    \/ ReadFails
    \/ KeysOfBlock
    \/ CountBlock
    \/ Done

Spec == Init /\ [][Next]_vars

-----------------------------------------------------------------------------
(***************************************************************************)
(* Properties.                                                             *)
(***************************************************************************)

\* Where the walk is: the position of the page being read, or its cursor. An
\* unreadable unit is reached with ordinal 0 wherever the cursor pointed.
FrontOf(c) == <<c.key_group, OrdinalOf(c)>>
Frontier ==
    IF \/ pos.at \in {"block", "end"}
       \/ pos.at = "unreadable" /\ pos.kg # cursor.key_group
    THEN <<pos.kg, pos.ord>>
    ELSE FrontOf(cursor)

\* The keys of the savepoint the walk is asked for.
WantedKeys == {p \in Positions : Wanted(p)}

Stream == INSTANCE KeyStream WITH
    keys <- WantedKeys, first <- FrontOf(start), front <- Frontier

\* However pages are cut (inside a block, by bytes, at a limit) and wherever
\* reads fail, a key behind the frontier was returned exactly once or its
\* key-group was listed as unreadable; no key is returned twice, none from
\* ahead of the frontier, and none that was not asked for.
NothingLostOrRepeated ==
    \A p \in Positions :
       /\ times[p] <= 1
       /\ times[p] = 1 => Wanted(p) /\ Stream!NotAfter(FrontOf(start), p) /\ Stream!Before(p, Frontier)
       /\ Wanted(p) /\ Stream!NotAfter(FrontOf(start), p) /\ Stream!Before(p, Frontier)
             => times[p] = 1 \/ rep[p[1]] = 1

\* KeyPage::unreadable: an unreadable key-group is listed once per walk, and
\* only once the walk is past it.
ReportedOnce ==
    \A k \in KeyGroups : rep[k] <= 1 /\ (rep[k] = 1 => k < Frontier[1])

\* A malformed block the walk is past was listed as malformed, or its
\* key-group as unreadable: a walk without a complaint saw undamaged blocks.
DefectsReported ==
    \A k \in KeyGroups :
       /\ sp.defect[k] /\ k <= last
       /\ start.key_group <= k /\ k < Frontier[1]
       => k \in malformed \/ rep[k] = 1

\* A cursor that a page or cursor_at returned is accepted by the next page:
\* check_cursor refuses only a cursor the client made up.
IssuedCursorsAccepted ==
    /\ pos = Idle /\ cursor \notin {start, NoCursor} => CheckCursor(sp, cursor)
    /\ \A k \in KeyGroups : CheckCursor(sp, CursorAt(sp, k))

\* Every page moves its walk forward: the cursor it returns lies after the one
\* it was given, whatever the limit and the budget (0 included).
PagesAdvance == [][cursor' # cursor => Stream!Before(FrontOf(cursor), FrontOf(cursor)')]_vars

\* The counts shown as exact (no unreadable and no malformed key-group) are
\* the number of keys and entries each state name has in the operator, though
\* subtasks number their states differently and blocks were added up page by
\* page; and on the way, the bytes `progress` calls done are the blocks the count
\* paid for and those of streams whose header cannot be read.
CountsExact ==
    mode = "count" /\ pos = Idle =>
       /\ WalkOver /\ start.key_group = 0
          /\ malformed = {} /\ (\A k \in KeyGroups : rep[k] = 0)
          => \A l \in Labels :
                /\ tally[l].keys = Cardinality({p \in Positions : EntriesOf(p, l) # {}})
                /\ tally[l].entries = Cardinality(AddedEntries(Positions, l))
       /\ StoredBelow(sp, start.key_group, cursor.key_group) = bytes +
             Cardinality({b \in StoredBytes(sp, start.key_group, cursor.key_group) :
                             ~sp.sub[b[1][1]].header})

\* The walk implements the stream of keys.
StreamsKeys == Stream!SSpec
=============================================================================
