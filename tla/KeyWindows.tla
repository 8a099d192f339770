------------------------------ MODULE KeyWindows ------------------------------
(***************************************************************************)
(* The sequences of keys the terminal tree pages through                   *)
(* (src/src/tui/tree.rs: KeySeq, KeyedSnapshot, ensure_window): pure       *)
(* operators on the snapshot of one operator.                              *)
(*                                                                         *)
(* Items[o] lists the keys of operator o in reader order, each with its    *)
(* key-group and its rendered text. A cursor is an index into it, NoNext   *)
(* the end: that pages of cursors stream exactly these keys is what module *)
(* PagedReader shows of the reader. `bad` is the set of <<o, key-group>>   *)
(* that cannot be read now, and `rd` the reader (its protobuf context) the *)
(* tree reads through. A read refused outright (BadCursor) needs a cursor  *)
(* the reader did not issue; only a key-group filter makes one, see Sought.*)
(***************************************************************************)
EXTENDS Integers, Sequences, FiniteSets, SequencesExt, FiniteSetsExt, Kept

CONSTANTS Ops,        \* keyed operators, 1 .. n, in display order
          Items,      \* [Ops -> sequence of [kg, name]]
          Hashable,   \* operators whose key type has a known hashCode()
          Sought,     \* [Ops -> key-groups whose cursor fits a subtask]
          PageSize    \* PARTITION_PAGE_SIZE

AnyGroup == 65535   \* a key-group is a u16

ASSUME KeyWindowsAssumption ==
    /\ PageSize \in Nat \ {0}
    /\ Ops \subseteq Nat /\ IsFiniteSet(Ops)
    /\ Hashable \subseteq Ops
    /\ Items \in [Ops -> Seq([kg : 0 .. AnyGroup, name : STRING])]
    /\ \A o \in Ops : \A i, j \in DOMAIN Items[o] :
           i < j => /\ Items[o][i].kg <= Items[o][j].kg
                    /\ Items[o][i].name # Items[o][j].name

NoNext == 0
Start == 1
Indices(o, from) == {i \in DOMAIN Items[o] : i >= from}
InOrder(S) == [n \in 1 .. Cardinality(S) |-> CHOOSE i \in S : UpTo(S, i) = n]
AtOrEnd(o, i) == IF i \in DOMAIN Items[o] THEN i ELSE NoNext

(***************************************************************************)
(* The reader, as the tree sees it.                                        *)
(***************************************************************************)

\* The key-groups of o that hold an item of S and cannot be read: the
\* errors a page that passes S reports.
Unreadable(o, S, bad) ==
    {g \in {Items[o][i].kg : i \in S} : <<o, g>> \in bad}

Readable(o, from, bad) == {i \in Indices(o, from) : <<o, Items[o][i].kg>> \notin bad}

\* The last key of a page of at most `limit` of the keys found, and of a block.
LastOfPage(o, found, limit) ==
    IF Cardinality(found) < limit THEN Len(Items[o])
    ELSE Max({i \in found : Cardinality({j \in found : j < i}) < limit})
LastOfBlock(o, found) ==
    IF found = {} THEN Len(Items[o])
    ELSE Max({i \in DOMAIN Items[o] : Items[o][i].kg = Items[o][Min(found)].kg})

\* What was read from `from` to `last`.
ReadTo(o, from, last, bad) ==
    [keys   |-> {i \in Readable(o, from, bad) : i <= last},
     next   |-> AtOrEnd(o, last + 1),
     errors |-> Unreadable(o, {i \in Indices(o, from) : i <= last}, bad)]

\* key_page: the first `limit` readable keys from `from` on.
Page(o, from, limit, bad) ==
    ReadTo(o, from, LastOfPage(o, Readable(o, from, bad), limit), bad)

Matching(o, page, names) == [page EXCEPT !.keys = {i \in @ : Items[o][i].name \in names}]

\* Mutant: key-groups that cannot be read are tried again.
ScanAgain(o, from, names, bad) ==
    IF <<o, Items[o][from].kg>> \in bad
    THEN [keys |-> {}, next |-> from, errors |-> Unreadable(o, {from}, bad)]
    ELSE Matching(o, ReadTo(o, from, LastOfBlock(o, {from}), bad), names)

\* scan with a budget of one block: unreadable key-groups are passed, then one
\* block is read whole, and its keys that match are returned.
ScanBlock(o, from, names, bad) ==
    Matching(o, ReadTo(o, from, LastOfBlock(o, Readable(o, from, bad)), bad), names)

\* get: a key of a type whose hashCode() is not known needs a scan; a key whose
\* block cannot be read is an error, not an absent one.
Lookup(o, name, bad) ==
    LET at == {i \in DOMAIN Items[o] : Items[o][i].name = name}
    IN  IF o \notin Hashable THEN [is |-> "needs_scan", keys |-> {}, errors |-> {}]
        ELSE IF at = {} THEN [is |-> "absent", keys |-> {}, errors |-> {}]
        ELSE IF at \cap Readable(o, 1, bad) = {}
             THEN [is |-> "error", keys |-> {}, errors |-> Unreadable(o, at, bad)]
             ELSE [is |-> "found", keys |-> at, errors |-> {}]

(***************************************************************************)
(* KeySeq and KeyedSnapshot.                                               *)
(***************************************************************************)

Browse(from) ==
    [pos |-> <<>>, next |-> from, start |-> 0, stop |-> AnyGroup,
     matches |-> FALSE, offset |-> 0]

Done(seq) == seq.next = NoNext

\* Mutant: a match found twice is listed twice.
NewAgain(seq, S) == InOrder(S)

\* push_match: a key found by get and again by the scan is listed once.
NewMatches(seq, S) == InOrder(S \ ToSet(seq.pos))

NoSeq == [pos |-> <<>>, next |-> NoNext, start |-> 0, stop |-> 0,
          matches |-> FALSE, offset |-> -1]

\* rows: the keys that are loaded, with the reader that decoded each.
Snapshot ==
    [all |-> Browse(Start), filtered |-> NoSeq, rows |-> << >>, errors |-> {}]

Filtered(k) == k.filtered # NoSeq
Listed(k) == IF Filtered(k) THEN k.filtered ELSE k.all
WithSeq(k, seq) ==
    IF Filtered(k) THEN [k EXCEPT !.filtered = seq] ELSE [k EXCEPT !.all = seq]

\* The rows of keys S decoded by reader rd, over the ones already loaded.
Loaded(rows, S, rd) == [i \in DOMAIN rows \cup S |-> IF i \in S THEN rd ELSE rows[i]]

Note(k, errors) == [k EXCEPT !.errors = @ \cup errors]

\* The keys listed: at most PageSize from the offset on.
WindowStart(seq) == IF seq.offset < Len(seq.pos) THEN seq.offset ELSE Len(seq.pos)
WindowEnd(seq) ==
    LET e == WindowStart(seq) + PageSize IN IF e < Len(seq.pos) THEN e ELSE Len(seq.pos)
Window(seq) == (WindowStart(seq) + 1) .. WindowEnd(seq)

\* KeyedSnapshot::child_estimate: an operator may hold keys until it is known
\* not to; TreeView hides one that is empty, unless something was unreadable.
ChildEstimate(k) ==
    IF Filtered(k)
    THEN IF Done(k.filtered) \/ Len(k.filtered.pos) > 0 THEN Len(k.filtered.pos) ELSE 1
    ELSE IF Done(k.all) /\ k.errors = {} THEN Len(k.all.pos) ELSE 1
Shown(k) == ChildEstimate(k) > 0 \/ k.errors # {}

(***************************************************************************)
(* ensure_window.                                                          *)
(***************************************************************************)

\* The keys of one page that belong to the sequence: keys before the range's
\* first key-group are skipped, a key past its last one ends it.
InRange(o, seq, S) == {i \in S : Items[o][i].kg \in seq.start .. seq.stop}
PastRange(o, seq, S) == \E i \in S : Items[o][i].kg > seq.stop

Wanted(seq) == seq.offset + 2 * PageSize

\* Where a page of `limit` keys from c on ends (the index after its last one).
PageEnd(o, c, limit, bad) == LastOfPage(o, Readable(o, c, bad), limit) + 1

\* The keys passed by reading from one index to another.
Between(o, from, to, bad) == {i \in Readable(o, from, bad) : i < to}

\* The positions still wanted once the sequence was browsed to c, and where the
\* page that looks for them ends.
Lack(o, seq, c, bad) ==
    Wanted(seq) - (Len(seq.pos) + Cardinality(InRange(o, seq, Between(o, seq.next, c, bad))))
NextPage(o, seq, c, bad) ==
    LET lack == Lack(o, seq, c, bad)
    IN  PageEnd(o, c, IF lack > PageSize THEN lack ELSE PageSize, bad)

\* The browsing loop: positions are found by paging forward, at least a page at
\* a time, until the window and a page of look-ahead are known, or the sequence
\* ends. Where it stops.
BrowseEnd(o, seq, bad) ==
    LET Stop[c \in 1 .. Len(Items[o]) + 1] ==
            IF Lack(o, seq, c, bad) <= 0 \/ c > Len(Items[o]) THEN c
            ELSE IF PastRange(o, seq, Between(o, c, NextPage(o, seq, c, bad), bad))
                 THEN NextPage(o, seq, c, bad)
                 ELSE Stop[NextPage(o, seq, c, bad)]
    IN  Stop[seq.next]

\* The sequence and its rows once it was browsed from where it ended to `to`.
BrowsedTo(o, k, seq, to, bad, rd) ==
    LET read == Between(o, seq.next, to, bad)
        mine == InRange(o, seq, read)
        grown == [seq EXCEPT !.pos = @ \o InOrder(mine),
                             !.next = IF PastRange(o, seq, read) THEN NoNext
                                      ELSE AtOrEnd(o, to)]
    IN  [Note(WithSeq(k, grown), Unreadable(o, Indices(o, seq.next) \ Indices(o, to), bad))
            EXCEPT !.rows = Loaded(@, mine, rd)]

Known(seq) == seq.matches \/ Done(seq) \/ Wanted(seq) <= Len(seq.pos)

Browsed(o, k, bad, rd) ==
    IF Known(Listed(k)) THEN k
    ELSE BrowsedTo(o, k, Listed(k), BrowseEnd(o, Listed(k), bad), bad, rd)

\* Mutant: the matches of a search are read as if they were consecutive keys.
StartsAnyRun(seq, missing, i) == i - 1 \notin missing

\* The window's keys that are not loaded are read in runs: consecutive
\* browsing positions are consecutive keys, matches are fetched one by one.
StartsRun(seq, missing, i) == seq.matches \/ i - 1 \notin missing
RunFrom(seq, missing, i) ==
    IF seq.matches THEN 1
    ELSE Min({j \in (i + 1) .. (Len(seq.pos) + 1) : j \notin missing}) - i

FillWindow(o, k, bad, rd) ==
    LET seq     == Listed(k)
        missing == {i \in Window(seq) : seq.pos[i] \notin DOMAIN k.rows}
        pages   == {Page(o, seq.pos[i], RunFrom(seq, missing, i), bad) :
                        i \in {j \in missing : StartsRun(seq, missing, j)}}
    IN  [Note(k, UNION {p.errors : p \in pages})
            EXCEPT !.rows = Loaded(@, UNION {p.keys : p \in pages}, rd)]

\* Rows are kept for the window, the page before and the page after it.
Kept(seq) ==
    {seq.pos[i] : i \in {j \in DOMAIN seq.pos : /\ j > seq.offset - PageSize
                                                /\ j <= Wanted(seq)}}
Retain(k) ==
    [k EXCEPT !.rows = [i \in DOMAIN @ \cap Kept(Listed(k)) |-> @[i]]]

(***************************************************************************)
(* scroll, of the window of keys.                                          *)
(***************************************************************************)

Scrolled(seq, forward, amount) ==
    LET fits == Len(seq.pos) - PageSize
        to   == IF seq.offset + amount < fits THEN seq.offset + amount ELSE fits
    IN  [seq EXCEPT !.offset =
            IF forward THEN IF to > @ THEN to ELSE @
            ELSE IF @ > amount THEN @ - amount ELSE 0]

\* The pager rows: what lies before and after the window.
PagerUp(seq)   == WindowStart(seq) > 0
PagerDown(seq) == WindowEnd(seq) < Len(seq.pos)
==============================================================================
