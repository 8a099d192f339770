-------------------------- MODULE TreeSearch_proofs --------------------------
(***************************************************************************)
(* Proof that a search nobody stopped ran to the end of every operator:    *)
(* no report is lost between the worker, the channel and the drain.        *)
(***************************************************************************)
EXTENDS TreeSearch, Kept_proofs

(***************************************************************************)
(* Types.                                                                  *)
(***************************************************************************)

KeySeqs == [pos : Seq(Nat), next : Nat, start : Nat, stop : Nat,
            matches : BOOLEAN, offset : Int]
RowMaps == UNION {[D -> Nat] : D \in SUBSET Nat}
Snaps   == [all : KeySeqs, filtered : KeySeqs, rows : RowMaps, errors : SUBSET Nat]

\* The indices of keys.
Keys == UNION {DOMAIN Items[o] : o \in Ops}

Workers == [pc : {"scan", "send", "ended"}, targets : Seq(Ops), cur : Nat,
            found : SUBSET Keys, errors : SUBSET Nat, blocks : Nat, rd : Nat,
            names : SUBSET STRING]
Reports == [op : Ops, keys : SUBSET Keys, next : Nat, errors : SUBSET Nat, rd : Nat]
Uis     == [at : {"idle", "poll", "join", "joinonly"}, then : FilterRecords, ended : BOOLEAN]

TypeInv ==
    /\ snap \in [Ops -> Snaps]
    /\ rd \in Nat
    /\ queue \in SUBSET Ops
    /\ worker \in Workers
    /\ chan \in Seq(Reports)
    /\ cancel \in BOOLEAN
    /\ ui \in Uis
    /\ stopped \in BOOLEAN

(***************************************************************************)
(* The inductive invariant.                                                *)
(***************************************************************************)

\* The event loop is not waiting for the worker's end.
Watching == ui.at \in {"idle", "poll"}

\* The worker has operators left exactly while it runs, none of them twice.
WorkerInv ==
    /\ (worker.pc = "ended") <=> (worker.targets = <<>>)
    /\ \A i, j \in 1 .. Len(worker.targets) :
          worker.targets[i] = worker.targets[j] => i = j

\* The report that ends an operator is the last one about it, and is sent when
\* the worker is done with it.
ChannelInv ==
    /\ \A i, j \in 1 .. Len(chan) :
          i < j /\ chan[i].op = chan[j].op => chan[i].next # NoNext
    /\ \A i \in 1 .. Len(chan) :
          chan[i].next = NoNext =>
             \A j \in 1 .. Len(worker.targets) : worker.targets[j] # chan[i].op

\* Every operator of the queue is still ahead of the worker or was searched to
\* its end by a report not drained yet, and the worker reports on no other one.
QueueInv ==
    Watching =>
       /\ queue # {} =>
             /\ ~cancel
             /\ \A j \in 1 .. Len(worker.targets) : worker.targets[j] \in queue
             /\ \A i \in 1 .. Len(chan) : chan[i].op \in queue
       /\ \A o \in queue : \/ \E j \in 1 .. Len(worker.targets) : worker.targets[j] = o
                           \/ \E i \in 1 .. Len(chan) : chan[i].op = o /\ chan[i].next = NoNext

\* What the event loop saw before it drains the channel.
PollInv ==
    /\ ui.at = "idle" => ui = Idle
    /\ ui.at = "poll" => queue # {}
    /\ ui.at \in {"join", "joinonly"} => queue = {}
    /\ ui.at = "poll" /\ ui.ended => worker.pc = "ended"

\* An operator whose matches are not all known is queued, unless the user
\* stopped the search or a new filter is about to replace it.
SearchInv ==
    ui.at # "join" /\ ~stopped =>
       \A o \in Ops :
          snap[o].filtered.matches /\ snap[o].filtered.next # NoNext => o \in queue

FlowInv == WorkerInv /\ ChannelInv /\ QueueInv /\ PollInv /\ SearchInv
IInv == TypeInv /\ FlowInv

(***************************************************************************)
(* The operators on one snapshot.                                          *)
(***************************************************************************)

\* A sequence over a set is one over a larger set.
LEMMA SeqWiden ==
  ASSUME NEW T, NEW S \in SUBSET T, NEW q \in Seq(S)
  PROVE  q \in Seq(T)
<1>1. Len(q) \in Nat /\ q \in [1 .. Len(q) -> S]
  OBVIOUS
<1>2. q \in [1 .. Len(q) -> T]
  BY <1>1
<1> QED
  BY <1>1, <1>2

\* The elements of a finite set of numbers, in order: all of them, none twice.
LEMMA InOrderFacts ==
  ASSUME NEW S, S \subseteq Nat, IsFiniteSet(S)
  PROVE  /\ InOrder(S) \in Seq(S) /\ InOrder(S) \in Seq(Nat)
         /\ Len(InOrder(S)) = Cardinality(S)
         /\ \A i, j \in 1 .. Len(InOrder(S)) : InOrder(S)[i] = InOrder(S)[j] => i = j
         /\ \A x \in S : \E i \in 1 .. Len(InOrder(S)) : InOrder(S)[i] = x
         /\ InOrder(S) = <<>> <=> S = {}
<1> DEFINE n == Cardinality(S)
           f == [k \in 1 .. n |-> CHOOSE i \in S : UpTo(S, i) = k]
<1>1. n \in Nat
  BY FS_CardinalityType
<1>2. ASSUME NEW k \in 1 .. n
      PROVE  f[k] \in S /\ UpTo(S, f[k]) = k
  BY UpToOnto
<1>3. InOrder(S) = f
  BY DEF InOrder
<1>4. \A x \in S : UpTo(S, x) \in 1 .. n /\ \A y \in S : y < x => UpTo(S, y) < UpTo(S, x)
  BY UpToGrows
<1>5. f \in [1 .. n -> S]
  BY <1>2
<1>6. f \in [1 .. n -> Nat]
  BY <1>5
<1> HIDE DEF f, n
<1>7. f \in Seq(S) /\ f \in Seq(Nat) /\ Len(f) = n
  BY <1>1, <1>5, <1>6
<1>8. ASSUME NEW i \in 1 .. n, NEW j \in 1 .. n, f[i] = f[j] PROVE i = j
  BY <1>2, <1>8
<1>9. ASSUME NEW x \in S PROVE \E i \in 1 .. n : f[i] = x
  <2>1. PICK m \in 1 .. n : m = UpTo(S, x)
    BY <1>4
  <2>2. PICK y \in S : y = f[m] /\ UpTo(S, y) = m
    BY <1>2
  <2>3. UpTo(S, x) \in Int /\ UpTo(S, y) \in Int
    BY <1>1, <1>4
  <2>4. ~(y < x) /\ ~(x < y)
    BY <1>4, <2>1, <2>2, <2>3
  <2>5. y = x
    BY <2>4
  <2> QED
    BY <2>2, <2>5
<1>10. f = <<>> <=> S = {}
  <2>1. f = <<>> <=> n = 0
    BY <1>1, <1>7
  <2>2. n = 0 <=> S = {}
    BY FS_EmptySet DEF n
  <2> QED
    BY <2>1, <2>2
<1> QED
  BY <1>3, <1>7, <1>8, <1>9, <1>10 DEF n

\* The keys of an operator are finitely many numbers.
LEMMA ItemsTyped ==
  ASSUME NEW o \in Ops
  PROVE  /\ Items[o] \in Seq([kg : 0 .. AnyGroup, name : STRING])
         /\ Len(Items[o]) \in Nat /\ DOMAIN Items[o] = 1 .. Len(Items[o])
         /\ DOMAIN Items[o] \subseteq Nat
         /\ \A S \in SUBSET DOMAIN Items[o] : S \subseteq Nat /\ IsFiniteSet(S)
         /\ \A S \in SUBSET DOMAIN Items[o] : {Items[o][i].kg : i \in S} \subseteq Nat
<1>1. Items[o] \in Seq([kg : 0 .. AnyGroup, name : STRING])
  BY KeyWindowsAssumption
<1>2. Len(Items[o]) \in Nat /\ DOMAIN Items[o] = 1 .. Len(Items[o])
  BY <1>1
<1>3. IsFiniteSet(1 .. Len(Items[o]))
  <2>1. \A n \in Nat : IsFiniteSet(1 .. n)
    BY FS_Interval
  <2> QED
    BY <1>2, <2>1
<1>4. \A S \in SUBSET DOMAIN Items[o] : S \subseteq Nat /\ IsFiniteSet(S)
  BY <1>2, <1>3, FS_Subset
<1>5. ASSUME NEW i \in DOMAIN Items[o] PROVE Items[o][i].kg \in Nat
  <2> DEFINE K == [kg : 0 .. AnyGroup, name : STRING]
  <2> HIDE DEF K
  <2>1. Items[o] \in Seq(K)
    BY <1>1 DEF K
  <2>2. Items[o][i] \in K
    BY <1>2, <2>1
  <2> QED
    BY <2>2 DEF K
<1> QED
  BY <1>1, <1>2, <1>4, <1>5

\* Loaded rows are rows.
LEMMA LoadedTyped ==
  ASSUME NEW rows \in RowMaps, NEW S \in SUBSET Nat, NEW r \in Nat
  PROVE  Loaded(rows, S, r) \in RowMaps
<1>1. PICK D \in SUBSET Nat : rows \in [D -> Nat]
  BY DEF RowMaps
<1>2. Loaded(rows, S, r) \in [D \cup S -> Nat]
  BY <1>1 DEF Loaded
<1> QED
  BY <1>2 DEF RowMaps

\* Paging on, scrolling and reading rows leave a list of matches as far searched
\* as it was, and make none.
SameSearch(k, l) ==
    /\ l.filtered.matches = k.filtered.matches
    /\ k.filtered.matches => l.filtered.next = k.filtered.next

\* Reading the keys of an operator from one index to another.
LEMMA BrowsedTyped ==
  ASSUME NEW o \in Ops, NEW k \in Snaps, NEW b, NEW r \in Nat
  PROVE  Browsed(o, k, b, r) \in Snaps /\ SameSearch(k, Browsed(o, k, b, r))
<1> DEFINE seq == Listed(k)
           to == BrowseEnd(o, seq, b)
           read == Between(o, seq.next, to, b)
           mine == InRange(o, seq, read)
           past == PastRange(o, seq, read)
           next == IF past THEN NoNext ELSE AtOrEnd(o, to)
           pos == seq.pos \o InOrder(mine)
           grown == [seq EXCEPT !.pos = pos, !.next = next]
           errs == Unreadable(o, Indices(o, seq.next) \ Indices(o, to), b)
<1>1. seq \in KeySeqs
  BY DEF Listed, Snaps
<1>2. mine \in SUBSET DOMAIN Items[o]
  BY DEF InRange, Between, Readable, Indices
<1>3. errs \in SUBSET Nat
  <2>1. Indices(o, seq.next) \ Indices(o, to) \in SUBSET DOMAIN Items[o]
    BY DEF Indices
  <2> HIDE DEF seq, to
  <2> QED
    BY <2>1, ItemsTyped DEF Unreadable
<1>4. AtOrEnd(o, to) \in Nat
  BY ItemsTyped DEF AtOrEnd, NoNext
<1>5. CASE Known(seq)
  BY <1>5 DEF Browsed, SameSearch
<1>6. CASE ~Known(seq)
  <2>1. Browsed(o, k, b, r) = [Note(WithSeq(k, grown), errs) EXCEPT !.rows = Loaded(@, mine, r)]
    BY <1>6 DEF Browsed, BrowsedTo
  <2>2. ~seq.matches /\ NoSeq.matches = FALSE
    BY <1>6 DEF Known, NoSeq
  <2>3. ~k.filtered.matches
    BY <2>2 DEF Listed, Filtered
  <2>4. pos \in Seq(Nat)
    <3>1. InOrder(mine) \in Seq(Nat)
      BY <1>2, ItemsTyped, InOrderFacts
    <3>2. seq.pos \in Seq(Nat)
      BY <1>1 DEF KeySeqs
    <3> DEFINE p == seq.pos
               q == InOrder(mine)
    <3> HIDE DEF p, q
    <3>3. p \o q \in Seq(Nat)
      BY <3>1, <3>2 DEF p, q
    <3> QED
      BY <3>3 DEF p, q
  <2>5. next \in Nat
    BY <1>4 DEF NoNext
  <2> HIDE DEF pos, next, past, seq, mine, errs, read
  <2>6. grown \in KeySeqs /\ grown.matches = seq.matches
    BY <1>1, <2>4, <2>5 DEF KeySeqs
  <2> HIDE DEF grown
  <2>7. WithSeq(k, grown) \in Snaps /\ ~WithSeq(k, grown).filtered.matches
    BY <2>2, <2>3, <2>6 DEF WithSeq, Snaps
  <2>8. mine \in SUBSET Nat
    BY <1>2, ItemsTyped
  <2> DEFINE w == WithSeq(k, grown)
  <2> HIDE DEF w
  <2>9. Loaded(w.rows, mine, r) \in RowMaps
    BY <2>7, <2>8, LoadedTyped DEF w, Snaps
  <2>10. Note(w, errs) \in Snaps /\ Note(w, errs).filtered = w.filtered /\ Note(w, errs).rows = w.rows
    BY <1>3, <2>7 DEF w, Snaps, Note
  <2> DEFINE v == Note(w, errs)
  <2> HIDE DEF v
  <2>11. [v EXCEPT !.rows = Loaded(v.rows, mine, r)] \in Snaps
         /\ [v EXCEPT !.rows = Loaded(v.rows, mine, r)].filtered = w.filtered
    BY <2>9, <2>10 DEF v, Snaps
  <2>12. Browsed(o, k, b, r) = [v EXCEPT !.rows = Loaded(v.rows, mine, r)]
    BY <2>1 DEF v, w
  <2>13. ~w.filtered.matches
    BY <2>7 DEF w
  <2> HIDE DEF v, w
  <2> QED
    BY <2>3, <2>11, <2>12, <2>13 DEF SameSearch, Snaps, KeySeqs
<1> QED
  BY <1>5, <1>6

\* What a read returns are keys and key-groups of the operator.
LEMMA ReadToTyped ==
  ASSUME NEW o \in Ops, NEW from, NEW to, NEW b
  PROVE  LET page == ReadTo(o, from, to, b) IN
         /\ page.keys \in SUBSET DOMAIN Items[o] /\ page.keys \in SUBSET Nat
         /\ page.errors \in SUBSET Nat
         /\ page.next \in Nat
<1> DEFINE page == ReadTo(o, from, to, b)
           passed == {i \in Indices(o, from) : i <= to}
<1>1. /\ page.keys = {i \in Readable(o, from, b) : i <= to}
      /\ page.errors = Unreadable(o, passed, b)
      /\ page.next = AtOrEnd(o, to + 1)
  BY DEF ReadTo
<1>2. page.keys \in SUBSET DOMAIN Items[o]
  BY <1>1 DEF Readable, Indices
<1>3. passed \in SUBSET DOMAIN Items[o]
  BY DEF Indices
<1> HIDE DEF page, passed
<1>4. page.errors \in SUBSET Nat
  BY <1>1, <1>3, ItemsTyped DEF Unreadable
<1>5. page.next \in Nat
  BY <1>1, ItemsTyped DEF AtOrEnd, NoNext
<1>6. page.keys \in SUBSET Nat
  BY <1>2, ItemsTyped
<1> QED
  BY <1>2, <1>4, <1>5, <1>6 DEF page

\* Reading the keys of the window that are not loaded.
LEMMA FillWindowTyped ==
  ASSUME NEW o \in Ops, NEW k \in Snaps, NEW b, NEW r \in Nat
  PROVE  FillWindow(o, k, b, r) \in Snaps /\ SameSearch(k, FillWindow(o, k, b, r))
<1> DEFINE seq == Listed(k)
           missing == {i \in Window(seq) : seq.pos[i] \notin DOMAIN k.rows}
           pages == {Page(o, seq.pos[i], RunFrom(seq, missing, i), b) :
                        i \in {j \in missing : StartsRun(seq, missing, j)}}
           errs == UNION {p.errors : p \in pages}
           keys == UNION {p.keys : p \in pages}
           v == Note(k, errs)
           rows == Loaded(v.rows, keys, r)
<1>1. FillWindow(o, k, b, r) = [v EXCEPT !.rows = rows]
  BY DEF FillWindow
<1>2. \A p \in pages : p.errors \in SUBSET Nat /\ p.keys \in SUBSET Nat
  <2>1. \A from, limit : LET p == Page(o, from, limit, b)
                         IN  p.errors \in SUBSET Nat /\ p.keys \in SUBSET Nat
    BY ReadToTyped DEF Page
  <2> HIDE DEF seq, missing
  <2> QED
    BY <2>1
<1> HIDE DEF pages
<1>3. errs \in SUBSET Nat /\ keys \in SUBSET Nat
  BY <1>2
<1> HIDE DEF errs, keys
<1>4. v \in Snaps /\ v.filtered = k.filtered
  BY <1>3 DEF Note, Snaps
<1> HIDE DEF v
<1>5. rows \in RowMaps
  BY <1>3, <1>4, LoadedTyped DEF Snaps
<1> HIDE DEF rows
<1>6. [v EXCEPT !.rows = rows] \in Snaps /\ [v EXCEPT !.rows = rows].filtered = v.filtered
  BY <1>4, <1>5 DEF Snaps
<1> QED
  BY <1>1, <1>4, <1>6 DEF SameSearch

\* Dropping the rows that are far from the window.
LEMMA RetainTyped ==
  ASSUME NEW k \in Snaps
  PROVE  Retain(k) \in Snaps /\ SameSearch(k, Retain(k))
<1> DEFINE rows == [i \in DOMAIN k.rows \cap Kept(Listed(k)) |-> k.rows[i]]
<1>1. Retain(k) = [k EXCEPT !.rows = rows]
  BY DEF Retain
<1>2. PICK D \in SUBSET Nat : k.rows \in [D -> Nat]
  BY DEF Snaps, RowMaps
<1>3. rows \in [D \cap Kept(Listed(k)) -> Nat]
  BY <1>2
<1>4. rows \in RowMaps
  BY <1>3 DEF RowMaps
<1> HIDE DEF rows
<1> QED
  BY <1>1, <1>4 DEF SameSearch, Snaps

\* rebuild_flat_list pages and reads; it does not touch the state of a search.
LEMMA RebuildKeeps ==
  ASSUME NEW sn \in [Ops -> Snaps], NEW open, NEW r \in Nat, Rebuild(sn, open, r)
  PROVE  /\ snap' \in [Ops -> Snaps]
         /\ \A o \in Ops : SameSearch(sn[o], snap'[o])
<1> DEFINE A == [o \in Ops |-> IF o \in open THEN Browsed(o, sn[o], bad, r) ELSE sn[o]]
           B == [o \in Ops |-> IF o \in open THEN FillWindow(o, A[o], bad, r) ELSE A[o]]
           C == [o \in Ops |-> IF o \in open THEN Retain(B[o]) ELSE B[o]]
<1>1. snap' = C
  BY DEF Rebuild, Staged
<1>2. ASSUME NEW o \in Ops PROVE A[o] \in Snaps /\ SameSearch(sn[o], A[o])
  BY BrowsedTyped DEF SameSearch
<1> HIDE DEF A
<1>3. ASSUME NEW o \in Ops PROVE B[o] \in Snaps /\ SameSearch(A[o], B[o])
  BY <1>2, FillWindowTyped DEF SameSearch
<1> HIDE DEF B
<1>4. ASSUME NEW o \in Ops PROVE C[o] \in Snaps /\ SameSearch(B[o], C[o])
  BY <1>3, RetainTyped DEF SameSearch
<1>5. C = [o \in Ops |-> C[o]]
  OBVIOUS
<1> HIDE DEF C
<1>6. \A o \in Ops : SameSearch(sn[o], C[o])
  BY <1>2, <1>3, <1>4 DEF SameSearch
<1>7. C \in [Ops -> Snaps]
  BY <1>4, <1>5
<1> QED
  BY <1>1, <1>6, <1>7

\* A lookup finds keys of the operator; only a key type without a known
\* hashCode() needs a scan.
LEMMA LookupTyped ==
  ASSUME NEW o \in Ops, NEW name, NEW b
  PROVE  LET got == Lookup(o, name, b) IN
         /\ got.keys \in SUBSET DOMAIN Items[o] /\ got.keys \in SUBSET Nat
         /\ IsFiniteSet(got.keys) /\ got.errors \in SUBSET Nat
<1> DEFINE at == {i \in DOMAIN Items[o] : Items[o][i].name = name}
           got == Lookup(o, name, b)
<1>1. at \in SUBSET DOMAIN Items[o]
  OBVIOUS
<1>2. /\ got.keys \in {{}, at}
      /\ got.errors \in {{}, Unreadable(o, at, b)}
  BY DEF Lookup
<1> HIDE DEF at, got
<1>3. Unreadable(o, at, b) \in SUBSET Nat
  BY <1>1, ItemsTyped DEF Unreadable
<1>4. got.keys \in SUBSET DOMAIN Items[o]
  BY <1>1, <1>2
<1>5. got.keys \in SUBSET Nat /\ IsFiniteSet(got.keys)
  BY <1>4, ItemsTyped
<1> QED
  BY <1>2, <1>3, <1>4, <1>5 DEF got

\* The index a key-group range starts at.
LEMMA FirstFromTyped ==
  ASSUME NEW o \in Ops, NEW g \in Nat
  PROVE  FirstFrom(o, g) \in Nat
<1> DEFINE S == {i \in DOMAIN Items[o] : Items[o][i].kg >= g} \cup {Len(Items[o]) + 1}
<1>1. S \subseteq Nat /\ S # {}
  <2>1. DOMAIN Items[o] \subseteq Nat /\ Len(Items[o]) \in Nat
    BY ItemsTyped
  <2>2. Len(Items[o]) + 1 \in Nat
    BY <2>1
  <2> QED
    BY <2>1, <2>2
<1>2. FirstFrom(o, g) = Min(S)
  BY DEF FirstFrom
<1> HIDE DEF S
<1>3. PICK x \in S : \A y \in S : x <= y
  BY <1>1, LeastOf
<1> QED
  BY <1>1, <1>2, <1>3 DEF Min

\* A list of keys that is still empty.
LEMMA BrowseTyped ==
  ASSUME NEW from \in Nat
  PROVE  Browse(from) \in KeySeqs /\ Browse(from).matches = FALSE /\ Browse(from).next = from
<1>1. <<>> \in Seq(Nat) /\ AnyGroup \in Nat
  BY DEF AnyGroup
<1> QED
  BY <1>1 DEF Browse, KeySeqs

\* A new filter lists matches that are not all known only in the operators it
\* leaves to the search worker.
LEMMA FilteredByTyped ==
  ASSUME NEW o \in Ops, NEW k \in Snaps, NEW f \in FilterRecords, rd \in Nat
  PROVE  /\ FilteredBy(o, k, f) \in Snaps
         /\ LET seq == FilteredBy(o, k, f).filtered
            IN  seq.matches /\ seq.next # NoNext => o \in ToSearch(f)
<1> DEFINE plain == [k EXCEPT !.all.offset = 0, !.filtered = NoSeq]
           got == Lookup(o, f.plain, bad)
           from == IF f.lo \in Sought[o] THEN FirstFrom(o, f.lo) ELSE Start
           range == [Browse(from) EXCEPT !.start = f.lo, !.stop = f.hi]
           first == IF f.kind = "exact" /\ got.is # "needs_scan" THEN NoNext ELSE Start
           found == SetToSeq(got.keys)
           match == [Browse(first) EXCEPT !.matches = TRUE, !.pos = found]
           rows == Loaded(plain.rows, got.keys, rd)
           errs == plain.errors \cup IF f.kind = "exact" THEN got.errors ELSE {}
<1>1. f.kind \in {"none", "range", "exact", "pattern"} /\ f.lo \in Nat /\ f.hi \in Nat
  BY DEF FilterRecords
<1>2. NoSeq \in KeySeqs /\ NoSeq.matches = FALSE
  BY DEF NoSeq, KeySeqs, NoNext
<1>3. plain \in Snaps /\ plain.filtered = NoSeq
  <2> DEFINE a == [k.all EXCEPT !.offset = 0]
  <2>1. k.all \in KeySeqs
    BY DEF Snaps
  <2>2. a \in KeySeqs
    <3>1. ASSUME NEW x \in KeySeqs PROVE [x EXCEPT !.offset = 0] \in KeySeqs
      BY SMTT(30) DEF KeySeqs
    <3> QED
      BY <2>1, <3>1
  <2> HIDE DEF a
  <2>3. [k EXCEPT !.all = a, !.filtered = NoSeq] \in Snaps
        /\ [k EXCEPT !.all = a, !.filtered = NoSeq].filtered = NoSeq
    BY <1>2, <2>2 DEF Snaps
  <2> QED
    BY <2>3 DEF a
<1>4. got.keys \in SUBSET Nat /\ IsFiniteSet(got.keys) /\ got.errors \in SUBSET Nat
  BY LookupTyped
<1>5. from \in Nat /\ first \in Nat
  BY <1>1, FirstFromTyped DEF Start, NoNext
<1>6. found \in Seq(Nat)
  <2> DEFINE K == got.keys
  <2>1. K \subseteq Nat /\ IsFiniteSet(K) /\ found = SetToSeq(K)
    BY <1>4
  <2> HIDE DEF K
  <2>2. SetToSeq(K) \in Seq(K)
    BY <2>1, SetAsSeq
  <2>3. SetToSeq(K) \in Seq(Nat)
    BY <2>1, <2>2, SeqWiden
  <2> QED
    BY <2>1, <2>3
<1>7. o \in ToSearch(f) <=> \/ f.kind = "exact" /\ got.is = "needs_scan"
                            \/ f.kind = "pattern"
  BY <1>1 DEF ToSearch
<1>8. /\ f.kind = "none" => FilteredBy(o, k, f) = plain
      /\ f.kind = "range" => FilteredBy(o, k, f) = [plain EXCEPT !.filtered = range]
      /\ f.kind \in {"exact", "pattern"} =>
            FilteredBy(o, k, f) = [plain EXCEPT !.filtered = match, !.rows = rows, !.errors = errs]
  BY <1>1 DEF FilteredBy
<1> HIDE DEF from, found, got
<1>9. range \in KeySeqs /\ range.matches = FALSE
  <2> DEFINE b == Browse(from)
  <2>1. b \in KeySeqs /\ b.matches = FALSE
    BY <1>5, BrowseTyped
  <2> HIDE DEF b
  <2>2. [b EXCEPT !.start = f.lo, !.stop = f.hi] \in KeySeqs
        /\ [b EXCEPT !.start = f.lo, !.stop = f.hi].matches = FALSE
    BY <1>1, <2>1 DEF KeySeqs
  <2> QED
    BY <2>2 DEF b
<1>10. match \in KeySeqs /\ match.next = first
  <2> HIDE DEF first
  <2> DEFINE b == Browse(first)
  <2>1. b \in KeySeqs /\ b.next = first
    BY <1>5, BrowseTyped
  <2> HIDE DEF b
  <2>2. [b EXCEPT !.matches = TRUE, !.pos = found] \in KeySeqs
        /\ [b EXCEPT !.matches = TRUE, !.pos = found].next = first
    BY <1>6, <2>1 DEF KeySeqs
  <2> QED
    BY <2>2 DEF b
<1> HIDE DEF plain, range, match
<1>11. rows \in RowMaps /\ errs \in SUBSET Nat
  BY <1>3, <1>4, LoadedTyped DEF Snaps
<1> HIDE DEF rows, errs
<1>12. CASE f.kind = "none"
  BY <1>2, <1>3, <1>8, <1>12
<1>13. CASE f.kind = "range"
  BY <1>3, <1>8, <1>9, <1>13 DEF Snaps
<1>14. CASE f.kind \in {"exact", "pattern"}
  BY <1>3, <1>7, <1>8, <1>10, <1>11, <1>14 DEF Snaps
<1> QED
  BY <1>1, <1>12, <1>13, <1>14

\* Reports add matches and tell how far the search is.
LEMMA ReportsTyped ==
  ASSUME NEW k \in Snaps, NEW keys \in SUBSET Nat, IsFiniteSet(keys),
         NEW errors \in SUBSET Nat, NEW next \in Nat, NEW r \in Nat
  PROVE  LET l == ApplyReports(k, keys, errors, next, r) IN
         /\ l \in Snaps
         /\ l.filtered.matches = k.filtered.matches
         /\ l.filtered.next = next
<1> DEFINE new == NewMatches(k.filtered, keys)
           pos == k.filtered.pos \o new
           near == {pos[i] : i \in {j \in Len(k.filtered.pos) + 1 .. Len(pos) :
                                       j > k.filtered.offset /\ j <= Wanted(k.filtered)}}
           v == Note(k, errors)
           rows == Loaded(v.rows, near, r)
           l == [v EXCEPT !.filtered.pos = pos, !.filtered.next = next, !.rows = rows]
<1>1. ApplyReports(k, keys, errors, next, r) = l
  BY DEF ApplyReports
<1>2. new \in Seq(Nat)
  <2> DEFINE S == keys \ ToSet(k.filtered.pos)
  <2>1. S \subseteq Nat /\ IsFiniteSet(S)
    BY FS_Subset
  <2>2. new = InOrder(S)
    BY DEF NewMatches
  <2> HIDE DEF S, new
  <2>3. InOrder(S) \in Seq(Nat)
    BY <2>1, InOrderFacts
  <2> QED
    BY <2>2, <2>3
<1>3. k.filtered.pos \in Seq(Nat)
  BY DEF Snaps, KeySeqs
<1>4. pos \in Seq(Nat) /\ \A i \in Len(k.filtered.pos) + 1 .. Len(pos) : pos[i] \in Nat
  <2> DEFINE p == k.filtered.pos
             q == new
  <2> HIDE DEF p, q
  <2>1. p \in Seq(Nat) /\ q \in Seq(Nat)
    BY <1>2, <1>3 DEF p, q
  <2>2. p \o q \in Seq(Nat) /\ \A i \in Len(p) + 1 .. Len(p \o q) : (p \o q)[i] \in Nat
    BY <2>1
  <2> QED
    BY <2>2 DEF p, q
<1>5. near \in SUBSET Nat
  BY <1>4
<1> HIDE DEF pos, near
<1>6. v \in Snaps /\ v.filtered = k.filtered
  BY DEF Note, Snaps
<1> HIDE DEF v
<1>7. rows \in RowMaps
  BY <1>5, <1>6, LoadedTyped DEF Snaps
<1> HIDE DEF rows
<1>8. l \in Snaps /\ l.filtered.matches = v.filtered.matches /\ l.filtered.next = next
  BY <1>4, <1>6, <1>7 DEF Snaps, KeySeqs
<1> QED
  BY <1>1, <1>6, <1>8

(***************************************************************************)
(* The steps.                                                              *)
(***************************************************************************)

\* The event loop when it is idle, or when it waits for the worker to end.
LEMMA IdleTyped ==
  /\ NoFilter \in FilterRecords
  /\ Idle \in Uis /\ Idle.at = "idle"
  /\ \A at \in {"join", "joinonly", "poll"}, f \in FilterRecords, e \in BOOLEAN :
        [at |-> at, then |-> f, ended |-> e] \in Uis
<1>1. NoFilter \in FilterRecords
  BY DEF NoFilter, FilterRecords
<1> QED
  BY <1>1 DEF Idle, Uis

\* A worker that has ended.
LEMMA EndedTyped == Ended \in Workers /\ Ended.pc = "ended" /\ Ended.targets = <<>>
BY DEF Ended, Workers, NoNext

LEMMA InitIInv == Init => IInv
<1> SUFFICES ASSUME Init PROVE IInv
  OBVIOUS
<1>2. Ended \in Workers /\ Ended.pc = "ended" /\ Ended.targets = <<>>
  BY EndedTyped
<1>3. Idle \in Uis /\ Idle.at = "idle"
  BY IdleTyped
<1>4. Snapshot \in Snaps /\ Snapshot.filtered.matches = FALSE
  <2>1. NoSeq \in KeySeqs /\ NoSeq.matches = FALSE
    BY DEF NoSeq, KeySeqs, NoNext
  <2>2. Browse(Start) \in KeySeqs
    BY BrowseTyped DEF Start
  <2>3. << >> \in [{} -> Nat]
    OBVIOUS
  <2>4. << >> \in RowMaps
    BY <2>3 DEF RowMaps
  <2> QED
    BY <2>1, <2>2, <2>4 DEF Snapshot, Snaps
<1>5. TypeInv
  <2>1. snap \in [Ops -> Snaps] /\ rd \in Nat /\ queue \in SUBSET Ops
    BY <1>4 DEF Init
  <2>2. worker \in Workers /\ ui \in Uis /\ chan \in Seq(Reports)
    BY <1>2, <1>3 DEF Init
  <2> QED
    BY <2>1, <2>2 DEF TypeInv, Init
<1>6. WorkerInv /\ ChannelInv
  BY <1>2 DEF Init, WorkerInv, ChannelInv
<1>7. QueueInv /\ PollInv
  BY <1>3 DEF Init, QueueInv, PollInv
<1>8. SearchInv
  BY <1>4 DEF Init, SearchInv
<1> QED
  BY <1>5, <1>6, <1>7, <1>8 DEF IInv, FlowInv

\* A key of the tree: the windows change, no search does.
LEMMA RebuildIInv ==
  ASSUME IInv, NEW sn \in [Ops -> Snaps], NEW open, NEW r \in Nat, Rebuild(sn, open, r),
         \A o \in Ops : SameSearch(snap[o], sn[o]),
         rd' \in Nat, UNCHANGED <<queue, ui, stopped, thread>>
  PROVE  IInv'
<1>1. snap' \in [Ops -> Snaps] /\ \A o \in Ops : SameSearch(sn[o], snap'[o])
  BY RebuildKeeps
<1>2. TypeInv'
  BY <1>1 DEF IInv, TypeInv, thread
<1>3. WorkerInv' /\ ChannelInv'
  BY DEF IInv, FlowInv, WorkerInv, ChannelInv, thread
<1>4. QueueInv' /\ PollInv'
  BY DEF IInv, FlowInv, QueueInv, PollInv, Watching, thread, Idle
<1>5. SearchInv'
  BY <1>1 DEF IInv, FlowInv, SearchInv, SameSearch
<1> QED
  BY <1>2, <1>3, <1>4, <1>5 DEF IInv, FlowInv

LEMMA ToggleIInv ==
  ASSUME IInv, NEW o \in Ops, Toggle(o)
  PROVE  IInv'
<1>1. snap \in [Ops -> Snaps] /\ rd \in Nat
  BY DEF IInv, TypeInv
<1>2. \A p \in Ops : SameSearch(snap[p], snap[p])
  BY DEF SameSearch
<1>3. PICK open : Rebuild(snap, open, rd)
  BY DEF Toggle
<1>4. rd' = rd /\ UNCHANGED <<queue, ui, stopped, thread>>
  BY DEF Toggle
<1> QED
  BY <1>1, <1>2, <1>3, <1>4, RebuildIInv

\* scroll moves the window of one operator.
LEMMA ScrollIInv ==
  ASSUME IInv, NEW o \in Ops, NEW forward \in BOOLEAN, NEW n \in 1 .. MaxScroll, Scroll(o, forward, n)
  PROVE  IInv'
<1> DEFINE k == snap[o]
           seq == Scrolled(Listed(k), forward, n)
           sn == [snap EXCEPT ![o] = WithSeq(k, seq)]
<1>1. snap \in [Ops -> Snaps] /\ rd \in Nat /\ k \in Snaps
  BY DEF IInv, TypeInv
<1>2. Listed(k) \in KeySeqs
  BY <1>1 DEF Listed, Snaps
<1>3. seq \in KeySeqs /\ seq.matches = Listed(k).matches /\ seq.next = Listed(k).next
  <2>1. ASSUME NEW x \in KeySeqs
        PROVE  LET y == Scrolled(x, forward, n)
               IN  y \in KeySeqs /\ y.matches = x.matches /\ y.next = x.next
    <3> DEFINE fits == Len(x.pos) - PageSize
               to == IF x.offset + n < fits THEN x.offset + n ELSE fits
               off == IF forward THEN IF to > x.offset THEN to ELSE x.offset
                      ELSE IF x.offset > n THEN x.offset - n ELSE 0
    <3>1. x.pos \in Seq(Nat) /\ x.offset \in Int
      BY DEF KeySeqs
    <3>2. Len(x.pos) \in Nat /\ PageSize \in Nat
      BY <3>1, KeyWindowsAssumption
    <3>3. off \in Int
      BY <3>1, <3>2
    <3>4. Scrolled(x, forward, n) = [x EXCEPT !.offset = off]
      BY DEF Scrolled
    <3> HIDE DEF off
    <3> QED
      BY <3>3, <3>4 DEF KeySeqs
  <2> QED
    BY <1>2, <2>1
<1> HIDE DEF seq
<1>4. WithSeq(k, seq) \in Snaps /\ SameSearch(k, WithSeq(k, seq))
  <2>1. ASSUME NEW x \in Snaps, NEW y \in KeySeqs,
               y.matches = Listed(x).matches, y.next = Listed(x).next
        PROVE  WithSeq(x, y) \in Snaps /\ SameSearch(x, WithSeq(x, y))
    BY <2>1 DEF WithSeq, Snaps, SameSearch, Listed
  <2> QED
    BY <1>1, <1>3, <2>1
<1>5. sn \in [Ops -> Snaps] /\ \A p \in Ops : SameSearch(snap[p], sn[p])
  BY <1>1, <1>4 DEF SameSearch
<1>6. Rebuild(sn, opened, rd) /\ rd' = rd /\ UNCHANGED <<queue, ui, stopped, thread>>
  BY DEF Scroll, seq
<1> HIDE DEF sn
<1> QED
  BY <1>1, <1>5, <1>6, RebuildIInv

\* A new reader drops the loaded keys, not the matches found.
LEMMA SelectProfileIInv == IInv /\ SelectProfile => IInv'
<1> SUFFICES ASSUME IInv, SelectProfile PROVE IInv'
  OBVIOUS
<1> DEFINE sn == [o \in Ops |-> [snap[o] EXCEPT !.rows = << >>]]
<1>1. snap \in [Ops -> Snaps] /\ rd \in Nat
  BY DEF IInv, TypeInv
<1>2. ASSUME NEW x \in Snaps
      PROVE  [x EXCEPT !.rows = << >>] \in Snaps /\ SameSearch(x, [x EXCEPT !.rows = << >>])
  <2>1. << >> \in [{} -> Nat]
    OBVIOUS
  <2>2. << >> \in RowMaps
    BY <2>1 DEF RowMaps
  <2> QED
    BY <2>2 DEF Snaps, SameSearch
<1>3. sn \in [Ops -> Snaps] /\ \A o \in Ops : SameSearch(snap[o], sn[o])
  BY <1>1, <1>2
<1>4. Rebuild(sn, opened, rd') /\ rd' \in Nat /\ UNCHANGED <<queue, ui, stopped, thread>>
  BY <1>1 DEF SelectProfile
<1> HIDE DEF sn
<1> QED
  BY <1>3, <1>4, RebuildIInv

\* A filter is applied, or a search stopped, once its worker has ended.
LEMMA ApplyIInv ==
  ASSUME IInv, NEW f \in Filters \cup {NoFilter}, Apply(f)
  PROVE  IInv'
<1>1. f \in FilterRecords
  BY TreeSearchAssumption, IdleTyped
<1>2. ui' = [at |-> "join", then |-> f, ended |-> FALSE] /\ queue' = {} /\ cancel' = TRUE
      /\ UNCHANGED <<snap, rd, worker, chan, stopped>>
  BY DEF Apply
<1>3. ui' \in Uis /\ ui'.at = "join"
  BY <1>1, <1>2, IdleTyped
<1>4. TypeInv'
  BY <1>2, <1>3 DEF IInv, TypeInv
<1>5. WorkerInv' /\ ChannelInv'
  BY <1>2 DEF IInv, FlowInv, WorkerInv, ChannelInv
<1>6. QueueInv' /\ PollInv' /\ SearchInv'
  BY <1>2, <1>3 DEF QueueInv, PollInv, SearchInv, Watching
<1> QED
  BY <1>4, <1>5, <1>6 DEF IInv, FlowInv

LEMMA CancelSearchIInv == IInv /\ CancelSearch => IInv'
<1> SUFFICES ASSUME IInv, CancelSearch PROVE IInv'
  OBVIOUS
<1>1. /\ ui' = [at |-> "joinonly", then |-> NoFilter, ended |-> FALSE]
      /\ queue' = {} /\ cancel' = TRUE /\ stopped' = TRUE
      /\ UNCHANGED <<snap, rd, worker, chan>>
  BY DEF CancelSearch
<1>2. ui' \in Uis /\ ui'.at = "joinonly"
  BY <1>1, IdleTyped
<1>3. TypeInv'
  BY <1>1, <1>2 DEF IInv, TypeInv
<1>4. WorkerInv' /\ ChannelInv'
  BY <1>1 DEF IInv, FlowInv, WorkerInv, ChannelInv
<1>5. QueueInv' /\ PollInv' /\ SearchInv'
  BY <1>1, <1>2 DEF QueueInv, PollInv, SearchInv, Watching
<1> QED
  BY <1>3, <1>4, <1>5 DEF IInv, FlowInv

\* What is received while the event loop waits is dropped.
LEMMA JoinReceiveIInv == IInv /\ JoinReceive => IInv'
<1> SUFFICES ASSUME IInv, JoinReceive PROVE IInv'
  OBVIOUS
<1>1. /\ ui.at \in {"join", "joinonly"} /\ chan # <<>> /\ chan' = Tail(chan)
      /\ UNCHANGED <<snap, rd, queue, ui, stopped, worker, cancel>>
  BY DEF JoinReceive, Joining, loop
<1>2. chan \in Seq(Reports)
  BY DEF IInv, TypeInv
<1>3. /\ chan' \in Seq(Reports) /\ Len(chan') = Len(chan) - 1 /\ Len(chan) \in Nat
      /\ \A i \in 1 .. Len(chan') : chan'[i] = chan[i + 1] /\ i + 1 \in 1 .. Len(chan)
  <2> DEFINE R == Reports
  <2> HIDE DEF R
  <2>1. chan \in Seq(R)
    BY <1>2 DEF R
  <2>2. /\ Tail(chan) \in Seq(R) /\ Len(Tail(chan)) = Len(chan) - 1 /\ Len(chan) \in Nat
        /\ \A i \in 1 .. Len(Tail(chan)) : Tail(chan)[i] = chan[i + 1] /\ i + 1 \in 1 .. Len(chan)
    BY <1>1, <2>1
  <2> QED
    BY <1>1, <2>2 DEF R
<1>4. TypeInv'
  BY <1>1, <1>3 DEF IInv, TypeInv
<1>5. WorkerInv'
  BY <1>1 DEF IInv, FlowInv, WorkerInv
<1>6. ChannelInv'
  <2>1. ASSUME NEW i \in 1 .. Len(chan'), NEW j \in 1 .. Len(chan'),
               i < j, chan'[i].op = chan'[j].op
        PROVE  chan'[i].next # NoNext
    <3>1. /\ i + 1 \in 1 .. Len(chan) /\ j + 1 \in 1 .. Len(chan)
          /\ i + 1 < j + 1 /\ chan'[i] = chan[i + 1] /\ chan'[j] = chan[j + 1]
      BY <1>3, <2>1
    <3> QED
      BY <2>1, <3>1 DEF IInv, FlowInv, ChannelInv
  <2>2. ASSUME NEW i \in 1 .. Len(chan'), chan'[i].next = NoNext,
               NEW j \in 1 .. Len(worker'.targets)
        PROVE  worker'.targets[j] # chan'[i].op
    <3>1. i + 1 \in 1 .. Len(chan) /\ chan'[i] = chan[i + 1] /\ j \in 1 .. Len(worker.targets)
      BY <1>1, <1>3, <2>2
    <3> QED
      BY <1>1, <2>2, <3>1 DEF IInv, FlowInv, ChannelInv
  <2> QED
    BY <2>1, <2>2 DEF ChannelInv
<1>7. QueueInv' /\ PollInv'
  BY <1>1 DEF IInv, FlowInv, QueueInv, PollInv, Watching
<1>8. SearchInv'
  BY <1>1 DEF IInv, FlowInv, SearchInv
<1> QED
  BY <1>4, <1>5, <1>6, <1>7, <1>8 DEF IInv, FlowInv

(***************************************************************************)
(* The steps of the worker.                                                *)
(***************************************************************************)

\* The keys of all operators are finitely many numbers.
LEMMA KeysFinite ==
  /\ Keys \subseteq Nat /\ IsFiniteSet(Keys)
  /\ \A o \in Ops : DOMAIN Items[o] \subseteq Keys
<1> DEFINE U == {DOMAIN Items[o] : o \in Ops}
<1>1. IsFiniteSet(U)
  <2> DEFINE d == [o \in Ops |-> DOMAIN Items[o]]
  <2>1. U = {d[o] : o \in Ops} /\ d \in Surjection(Ops, U)
    BY DEF Surjection
  <2> QED
    BY <2>1, KeyWindowsAssumption, FS_Surjection
<1>2. \A D \in U : IsFiniteSet(D) /\ D \subseteq Nat
  BY ItemsTyped
<1>3. IsFiniteSet(UNION U)
  BY <1>1, <1>2, FS_UNION
<1> QED
  BY <1>2, <1>3 DEF Keys

\* The parts of a worker's list of operators.
LEMMA TargetsParts ==
  ASSUME NEW t \in Seq(Ops), t # <<>>
  PROVE  /\ Len(t) \in Nat /\ 1 \in 1 .. Len(t) /\ Head(t) = t[1] /\ Head(t) \in Ops
         /\ Tail(t) \in Seq(Ops) /\ Len(Tail(t)) = Len(t) - 1
         /\ \A i \in 1 .. Len(Tail(t)) : Tail(t)[i] = t[i + 1] /\ i + 1 \in 1 .. Len(t)
         /\ \A j \in 1 .. Len(t) :
               j = 1 \/ (j - 1 \in 1 .. Len(Tail(t)) /\ Tail(t)[j - 1] = t[j])
OBVIOUS

\* Scanning a block changes neither the operators left nor the channel; a worker
\* told to stop leaves both, and then nothing is queued.
LEMMA WorkerScanIInv == IInv /\ WorkerScan => IInv'
<1> SUFFICES ASSUME IInv, WorkerScan PROVE IInv'
  OBVIOUS
<1> DEFINE o == Head(worker.targets)
           page == ScanBlock(o, worker.cur, worker.names, bad)
           due == page.next = NoNext \/ worker.blocks + 1 >= StepBlocks
           pc == IF due THEN "send" ELSE "scan"
           w == [worker EXCEPT !.cur = page.next, !.found = @ \cup page.keys,
                               !.errors = @ \cup page.errors, !.blocks = @ + 1, !.pc = pc]
<1>1. /\ worker.pc = "scan" /\ worker' = (IF cancel THEN Ended ELSE w)
      /\ UNCHANGED <<snap, rd, queue, ui, stopped, chan, cancel>>
  BY DEF WorkerScan, loop
<1>2. TypeInv /\ worker \in Workers /\ WorkerInv /\ ChannelInv /\ QueueInv /\ PollInv /\ SearchInv
  BY DEF IInv, FlowInv, TypeInv
<1>3. worker.targets \in Seq(Ops) /\ worker.targets # <<>>
  BY <1>1, <1>2 DEF WorkerInv, Workers
<1>4. o \in Ops
  BY <1>3, TargetsParts
<1>5. page.keys \in SUBSET Keys /\ page.next \in Nat /\ page.errors \in SUBSET Nat
  <2> DEFINE last == LastOfBlock(o, Readable(o, worker.cur, bad))
             whole == ReadTo(o, worker.cur, last, bad)
  <2>1. page = [whole EXCEPT !.keys = {i \in whole.keys : Items[o][i].name \in worker.names}]
    BY DEF ScanBlock, Matching
  <2>2. whole.keys \in SUBSET DOMAIN Items[o] /\ whole.next \in Nat /\ whole.errors \in SUBSET Nat
    BY <1>4, ReadToTyped
  <2>3. /\ page.next = whole.next /\ page.errors = whole.errors
        /\ page.keys = {i \in whole.keys : Items[o][i].name \in worker.names}
    BY <2>1 DEF ReadTo
  <2> HIDE DEF whole, page, o
  <2> QED
    BY <1>4, <2>2, <2>3, KeysFinite
<1> HIDE DEF o, page, due
<1>6. pc \in {"scan", "send"}
  OBVIOUS
<1> HIDE DEF pc
<1>7. w \in Workers /\ w.targets = worker.targets /\ w.pc = pc
  <2> DEFINE c == page.next
             f == worker.found \cup page.keys
             e == worker.errors \cup page.errors
             b == worker.blocks + 1
  <2>1. c \in Nat /\ f \in SUBSET Keys /\ e \in SUBSET Nat /\ b \in Nat
    BY <1>2, <1>5 DEF Workers
  <2>2. w = [worker EXCEPT !.cur = c, !.found = f, !.errors = e, !.blocks = b, !.pc = pc]
    OBVIOUS
  <2> HIDE DEF c, f, e, b, w
  <2> QED
    BY <1>2, <1>6, <2>1, <2>2 DEF Workers
<1> HIDE DEF w
<1>8. Ended \in Workers /\ Ended.pc = "ended" /\ Ended.targets = <<>>
  BY EndedTyped
<1>9. worker' \in Workers
  BY <1>1, <1>7, <1>8
<1>10. TypeInv'
  BY <1>1, <1>2, <1>9 DEF TypeInv
<1>11. PollInv' /\ SearchInv'
  BY <1>1, <1>2 DEF PollInv, SearchInv, Idle
<1>12. CASE cancel
  <2>1. worker'.pc = "ended" /\ worker'.targets = <<>> /\ Len(worker'.targets) = 0
    BY <1>1, <1>8, <1>12
  <2>2. WorkerInv' /\ ChannelInv'
    BY <1>1, <1>2, <2>1 DEF WorkerInv, ChannelInv
  <2>3. Watching => queue = {}
    BY <1>2, <1>12 DEF QueueInv
  <2>4. QueueInv'
    BY <1>1, <2>3 DEF QueueInv, Watching
  <2> QED
    BY <1>10, <1>11, <2>2, <2>4 DEF IInv, FlowInv
<1>13. CASE ~cancel
  <2>1. worker'.pc # "ended" /\ worker'.targets = worker.targets
    BY <1>1, <1>6, <1>7, <1>13
  <2>2. WorkerInv' /\ ChannelInv' /\ QueueInv'
    BY <1>1, <1>2, <1>3, <2>1 DEF WorkerInv, ChannelInv, QueueInv, Watching
  <2> QED
    BY <1>10, <1>11, <2>2 DEF IInv, FlowInv
<1> QED
  BY <1>12, <1>13

\* What the worker has left once it has sent a report: the operator it is at,
\* unless the report ended it, and those after it.
LEMMA SentTyped ==
  ASSUME NEW w \in Workers, w.pc = "send", w.targets # <<>>
  PROVE  /\ Sent(w) \in Workers
         /\ w.cur # NoNext => Sent(w).targets = w.targets
         /\ w.cur = NoNext => Sent(w).targets = Tail(w.targets)
         /\ (Sent(w).pc = "ended") <=> (Sent(w).targets = <<>>)
<1>1. w.targets \in Seq(Ops)
  BY DEF Workers
<1>2. Tail(w.targets) \in Seq(Ops)
  BY <1>1, TargetsParts
<1>3. Ended \in Workers /\ Ended.pc = "ended" /\ Ended.targets = <<>>
  BY EndedTyped
<1>4. ASSUME NEW x \in Workers
      PROVE  LET y == [x EXCEPT !.pc = "scan", !.found = {}, !.errors = {}, !.blocks = 0]
             IN  y \in Workers /\ y.targets = x.targets /\ y.pc = "scan"
  BY DEF Workers
<1>5. CASE w.cur # NoNext
  <2>1. Sent(w) = [w EXCEPT !.pc = "scan", !.found = {}, !.errors = {}, !.blocks = 0]
    BY <1>5 DEF Sent
  <2> QED
    BY <1>4, <1>5, <2>1
<1>6. CASE w.cur = NoNext /\ Tail(w.targets) = <<>>
  <2>1. Sent(w) = Ended
    BY <1>6 DEF Sent
  <2> QED
    BY <1>3, <1>6, <2>1
<1>7. CASE w.cur = NoNext /\ Tail(w.targets) # <<>>
  <2> DEFINE t == Tail(w.targets)
             Y(x, s) == [x EXCEPT !.pc = "scan", !.found = {}, !.errors = {}, !.blocks = 0,
                                  !.targets = s, !.cur = Start]
  <2>1. Sent(w) = Y(w, t)
    BY <1>7 DEF Sent
  <2>2. t \in Seq(Ops) /\ t # <<>>
    BY <1>2, <1>7
  <2>3. ASSUME NEW x \in Workers, NEW s \in Seq(Ops)
        PROVE  Y(x, s) \in Workers /\ Y(x, s).targets = s /\ Y(x, s).pc = "scan"
    BY DEF Workers, Start
  <2> HIDE DEF t, Y
  <2>4. Sent(w) \in Workers /\ Sent(w).targets = t /\ Sent(w).pc = "scan"
    BY <2>1, <2>2, <2>3
  <2> QED
    BY <1>7, <2>2, <2>4 DEF t
<1> QED
  BY <1>5, <1>6, <1>7

\* A report that ends an operator is sent when the worker leaves it, so it is
\* the last one about it.
LEMMA WorkerSendIInv == IInv /\ WorkerSend => IInv'
<1> SUFFICES ASSUME IInv, WorkerSend PROVE IInv'
  OBVIOUS
<1> DEFINE t == worker.targets
           u == worker'.targets
           n == Len(chan)
           rep == [op |-> Head(t), keys |-> worker.found, next |-> worker.cur,
                   errors |-> worker.errors, rd |-> worker.rd]
<1>1. /\ worker.pc = "send" /\ worker' = Sent(worker) /\ chan' = Append(chan, rep)
      /\ UNCHANGED <<snap, rd, queue, ui, stopped, cancel>>
  BY DEF WorkerSend, loop
<1>2. /\ TypeInv /\ worker \in Workers /\ chan \in Seq(Reports)
      /\ WorkerInv /\ ChannelInv /\ QueueInv /\ PollInv /\ SearchInv
  BY DEF IInv, FlowInv, TypeInv
<1>3. t \in Seq(Ops) /\ t # <<>>
  BY <1>1, <1>2 DEF WorkerInv, Workers
<1>4. /\ worker' \in Workers
      /\ worker.cur # NoNext => u = t
      /\ worker.cur = NoNext => u = Tail(t)
      /\ (worker'.pc = "ended") <=> (u = <<>>)
  BY <1>1, <1>2, <1>3, SentTyped
<1>5. /\ Len(t) \in Nat /\ 1 \in 1 .. Len(t) /\ Head(t) = t[1] /\ Head(t) \in Ops
      /\ Len(Tail(t)) = Len(t) - 1
      /\ \A i \in 1 .. Len(Tail(t)) : Tail(t)[i] = t[i + 1] /\ i + 1 \in 1 .. Len(t)
      /\ \A j \in 1 .. Len(t) :
            j = 1 \/ (j - 1 \in 1 .. Len(Tail(t)) /\ Tail(t)[j - 1] = t[j])
  BY <1>3, TargetsParts
<1>6. rep \in Reports /\ rep.op = t[1] /\ rep.next = worker.cur
  BY <1>2, <1>5 DEF Reports, Workers
<1> HIDE DEF rep
<1>7. /\ chan' \in Seq(Reports) /\ n \in Nat /\ Len(chan') = n + 1
      /\ \A i \in 1 .. n : chan'[i] = chan[i]
      /\ chan'[n + 1] = rep
  <2> DEFINE R == Reports
  <2> HIDE DEF R
  <2>1. chan \in Seq(R) /\ rep \in R
    BY <1>2, <1>6 DEF R
  <2>2. /\ Append(chan, rep) \in Seq(R) /\ Len(chan) \in Nat
        /\ Len(Append(chan, rep)) = Len(chan) + 1
        /\ \A i \in 1 .. Len(chan) : Append(chan, rep)[i] = chan[i]
        /\ Append(chan, rep)[Len(chan) + 1] = rep
    BY <2>1
  <2> QED
    BY <1>1, <2>2 DEF R
<1>8. \A i, j \in 1 .. Len(t) : t[i] = t[j] => i = j
  BY <1>2 DEF WorkerInv
<1> HIDE DEF n
\* What is left of the operators, and what left it.
<1>9. /\ \A i \in 1 .. Len(u) : \E j \in 1 .. Len(t) : u[i] = t[j] /\ (worker.cur = NoNext => j # 1)
      /\ \A j \in 1 .. Len(t) : \/ \E i \in 1 .. Len(u) : u[i] = t[j]
                                \/ worker.cur = NoNext /\ j = 1
      /\ \A i, j \in 1 .. Len(u) : u[i] = u[j] => i = j
  <2> HIDE DEF t, u
  <2>1. CASE worker.cur # NoNext
    BY <1>4, <1>8, <2>1
  <2>2. CASE worker.cur = NoNext
    <3>1. u = Tail(t)
      BY <1>4, <2>2
    <3>2. \A i \in 1 .. Len(u) : u[i] = t[i + 1] /\ i + 1 \in 1 .. Len(t) /\ i + 1 # 1
      BY <1>5, <3>1
    <3>3. \A j \in 1 .. Len(t) : j = 1 \/ (j - 1 \in 1 .. Len(u) /\ u[j - 1] = t[j])
      BY <1>5, <3>1
    <3>4. ASSUME NEW i \in 1 .. Len(u), NEW j \in 1 .. Len(u), u[i] = u[j]
          PROVE  i = j
      <4>1. i + 1 = j + 1
        BY <1>8, <3>2, <3>4
      <4> QED
        BY <4>1
    <3> QED
      BY <2>2, <3>2, <3>3, <3>4
  <2> QED
    BY <2>1, <2>2
<1>10. TypeInv'
  BY <1>1, <1>2, <1>4, <1>7 DEF TypeInv
<1>11. WorkerInv'
  BY <1>4, <1>9 DEF WorkerInv
<1>12. ChannelInv'
  <2>1. ASSUME NEW i \in 1 .. n + 1, NEW j \in 1 .. n + 1, i < j, chan'[i].op = chan'[j].op,
               chan'[i].next = NoNext
        PROVE  FALSE
    <3>1. i \in 1 .. n /\ chan'[i] = chan[i] /\ i \in 1 .. Len(chan)
      BY <1>7, <2>1 DEF n
    <3>2. CASE j \in 1 .. n
      <4>1. j \in 1 .. Len(chan) /\ chan'[j] = chan[j]
        BY <1>7, <3>2 DEF n
      <4> QED
        BY <1>2, <2>1, <3>1, <4>1 DEF ChannelInv
    <3>3. CASE j = n + 1
      <4>1. chan[i].op = t[1] /\ chan[i].next = NoNext
        BY <1>6, <1>7, <2>1, <3>1, <3>3
      <4> QED
        BY <1>2, <1>5, <3>1, <4>1 DEF ChannelInv
    <3> QED
      BY <1>7, <3>2, <3>3
  <2>2. ASSUME NEW i \in 1 .. n + 1, chan'[i].next = NoNext, NEW j \in 1 .. Len(u)
        PROVE  u[j] # chan'[i].op
    <3>1. PICK m \in 1 .. Len(t) : u[j] = t[m] /\ (worker.cur = NoNext => m # 1)
      BY <1>9
    <3>2. CASE i \in 1 .. n
      <4>1. i \in 1 .. Len(chan) /\ chan'[i] = chan[i]
        BY <1>7, <3>2 DEF n
      <4> QED
        BY <1>2, <2>2, <3>1, <4>1 DEF ChannelInv
    <3>3. CASE i = n + 1
      <4>1. worker.cur = NoNext /\ chan'[i].op = t[1]
        BY <1>6, <1>7, <2>2, <3>3
      <4> QED
        BY <1>5, <1>8, <3>1, <4>1
    <3> QED
      BY <1>7, <3>2, <3>3
  <2> QED
    BY <1>7, <2>1, <2>2 DEF ChannelInv
<1>13. QueueInv'
  <2> SUFFICES ASSUME Watching PROVE QueueInv'
    BY <1>1 DEF QueueInv, Watching
  <2>1. ASSUME queue # {}
        PROVE  /\ ~cancel
               /\ \A j \in 1 .. Len(u) : u[j] \in queue
               /\ \A i \in 1 .. n + 1 : chan'[i].op \in queue
    <3>1. /\ ~cancel /\ \A j \in 1 .. Len(t) : t[j] \in queue
          /\ \A i \in 1 .. Len(chan) : chan[i].op \in queue
      BY <1>2, <2>1 DEF QueueInv
    <3>2. \A j \in 1 .. Len(u) : u[j] \in queue
      BY <1>9, <3>1
    <3>3. ASSUME NEW i \in 1 .. n + 1 PROVE chan'[i].op \in queue
      <4>1. CASE i \in 1 .. n
        BY <1>7, <3>1, <4>1 DEF n
      <4>2. CASE i = n + 1
        BY <1>5, <1>6, <1>7, <3>1, <4>2
      <4> QED
        BY <1>7, <4>1, <4>2
    <3> QED
      BY <3>1, <3>2, <3>3
  <2>2. ASSUME NEW o \in queue
        PROVE  \/ \E j \in 1 .. Len(u) : u[j] = o
               \/ \E i \in 1 .. n + 1 : chan'[i].op = o /\ chan'[i].next = NoNext
    <3>1. CASE \E j \in 1 .. Len(t) : t[j] = o
      <4>1. PICK j \in 1 .. Len(t) : t[j] = o
        BY <3>1
      <4>2. CASE \E i \in 1 .. Len(u) : u[i] = t[j]
        BY <4>1, <4>2
      <4>3. CASE worker.cur = NoNext /\ j = 1
        <5>1. n + 1 \in 1 .. n + 1 /\ chan'[n + 1].op = o /\ chan'[n + 1].next = NoNext
          BY <1>6, <1>7, <4>1, <4>3
        <5> QED
          BY <5>1
      <4> QED
        BY <1>9, <4>2, <4>3
    <3>2. CASE \E i \in 1 .. Len(chan) : chan[i].op = o /\ chan[i].next = NoNext
      <4>1. PICK i \in 1 .. n : chan[i].op = o /\ chan[i].next = NoNext
        BY <3>2 DEF n
      <4>2. i \in 1 .. n + 1 /\ chan'[i].op = o /\ chan'[i].next = NoNext
        BY <1>7, <4>1
      <4> QED
        BY <4>2
    <3> QED
      BY <1>2, <3>1, <3>2 DEF QueueInv
  <2> QED
    BY <1>1, <1>7, <2>1, <2>2 DEF QueueInv
<1>14. PollInv' /\ SearchInv'
  BY <1>1, <1>2 DEF PollInv, SearchInv, Idle
<1> QED
  BY <1>10, <1>11, <1>12, <1>13, <1>14 DEF IInv, FlowInv

(***************************************************************************)
(* The steps of the event loop about the search.                           *)
(***************************************************************************)

\* A new search: the worker has every operator of the queue to search, once.
LEMMA StartSearchFacts ==
  ASSUME NEW f \in FilterRecords, rd \in Nat, StartSearch(f)
  PROVE  /\ queue' = ToSearch(f) /\ queue' \in SUBSET Ops
         /\ worker' \in Workers /\ WorkerInv'
         /\ \A j \in 1 .. Len(worker'.targets) : worker'.targets[j] \in queue'
         /\ \A o \in queue' : \E j \in 1 .. Len(worker'.targets) : worker'.targets[j] = o
         /\ chan' = <<>> /\ Len(chan') = 0 /\ cancel' = FALSE
<1> DEFINE q == queue'
           t == InOrder(q)
           Y(x, r, n, s) == [x EXCEPT !.pc = "scan", !.rd = r, !.names = n, !.targets = s,
                                      !.cur = Start]
<1>1. /\ q = ToSearch(f) /\ chan' = <<>> /\ cancel' = FALSE
      /\ worker' = IF q = {} THEN Ended ELSE Y(Ended, rd, f.names, t)
  BY DEF StartSearch
<1>2. f.kind \in {"none", "range", "exact", "pattern"} /\ f.names \in SUBSET STRING
  BY DEF FilterRecords
<1>3. q \in SUBSET Ops
  BY <1>1, <1>2 DEF ToSearch
<1>4. q \subseteq Nat /\ IsFiniteSet(q)
  BY <1>3, KeyWindowsAssumption, FS_Subset
<1>5. Len(chan') = 0
  BY <1>1
<1>6. ASSUME NEW x \in Workers, NEW r \in Nat, NEW n \in SUBSET STRING, NEW s \in Seq(Ops)
      PROVE  Y(x, r, n, s) \in Workers /\ Y(x, r, n, s).targets = s /\ Y(x, r, n, s).pc = "scan"
  BY DEF Workers, Start
<1> HIDE DEF q, Y
<1>7. /\ t \in Seq(q)
      /\ \A i, j \in 1 .. Len(t) : t[i] = t[j] => i = j
      /\ \A x \in q : \E i \in 1 .. Len(t) : t[i] = x
      /\ t = <<>> <=> q = {}
  BY <1>4, InOrderFacts
<1>8. Ended \in Workers /\ Ended.pc = "ended" /\ Ended.targets = <<>>
  BY EndedTyped
<1> HIDE DEF t
<1>9. t \in Seq(Ops)
  BY <1>3, <1>7, SeqWiden
<1>10. /\ worker' \in Workers /\ worker'.targets = t
       /\ (worker'.pc = "ended") <=> (t = <<>>)
  <2>1. CASE q = {}
    BY <1>1, <1>7, <1>8, <2>1
  <2>2. CASE q # {}
    <3> DEFINE y == Y(Ended, rd, f.names, t)
    <3>1. y \in Workers /\ y.targets = t /\ y.pc = "scan"
      BY <1>2, <1>6, <1>8, <1>9
    <3> HIDE DEF y
    <3>2. worker' = y
      BY <1>1, <2>2 DEF y
    <3> QED
      BY <1>7, <2>2, <3>1, <3>2
  <2> QED
    BY <2>1, <2>2
<1>11. \A j \in 1 .. Len(t) : t[j] \in q
  BY <1>7
<1>12. WorkerInv'
  BY <1>7, <1>10 DEF WorkerInv
<1> QED
  BY <1>1, <1>3, <1>5, <1>7, <1>10, <1>11, <1>12 DEF q

\* The worker has ended: the filter is applied and its search started, or what
\* was found stays.
LEMMA JoinEndIInv == IInv /\ JoinEnd => IInv'
<1> SUFFICES ASSUME IInv, JoinEnd PROVE IInv'
  OBVIOUS
<1>1. /\ ui.at \in {"join", "joinonly"} /\ worker.pc = "ended" /\ ui' = Idle /\ rd' = rd
      /\ snap \in [Ops -> Snaps] /\ rd \in Nat /\ ui \in Uis
  BY DEF JoinEnd, Joining, IInv, TypeInv
<1>2. Idle \in Uis /\ Idle.at = "idle"
  BY IdleTyped
<1>3. CASE /\ ui.at = "join" /\ stopped' = FALSE /\ StartSearch(ui.then)
           /\ Rebuild([o \in Ops |-> FilteredBy(o, snap[o], ui.then)], opened, rd)
  <2> DEFINE f == ui.then
             sn == [o \in Ops |-> FilteredBy(o, snap[o], f)]
  <2>1. f \in FilterRecords
    BY <1>1 DEF Uis
  <2> HIDE DEF f
  <2>2. /\ queue' = ToSearch(f) /\ queue' \in SUBSET Ops
        /\ worker' \in Workers /\ WorkerInv'
        /\ \A j \in 1 .. Len(worker'.targets) : worker'.targets[j] \in queue'
        /\ \A o \in queue' : \E j \in 1 .. Len(worker'.targets) : worker'.targets[j] = o
        /\ chan' = <<>> /\ Len(chan') = 0 /\ cancel' = FALSE
    BY <1>1, <1>3, <2>1, StartSearchFacts DEF f
  <2>3. ASSUME NEW o \in Ops
        PROVE  /\ sn[o] \in Snaps
               /\ sn[o].filtered.matches /\ sn[o].filtered.next # NoNext => o \in queue'
    BY <1>1, <2>1, <2>2, FilteredByTyped
  <2>4. sn \in [Ops -> Snaps] /\ Rebuild(sn, opened, rd)
    BY <1>3, <2>3 DEF f
  <2> HIDE DEF sn
  <2>5. snap' \in [Ops -> Snaps] /\ \A o \in Ops : SameSearch(sn[o], snap'[o])
    BY <1>1, <2>4, RebuildKeeps
  <2>6. TypeInv'
    <3>1. chan' \in Seq(Reports) /\ ui' \in Uis /\ rd' \in Nat
      BY <1>1, <1>2, <2>2
    <3>2. stopped' \in BOOLEAN /\ cancel' \in BOOLEAN
      BY <1>3, <2>2
    <3> QED
      BY <2>2, <2>5, <3>1, <3>2 DEF TypeInv
  <2>7. ChannelInv' /\ QueueInv'
    BY <2>2 DEF ChannelInv, QueueInv
  <2>8. PollInv'
    BY <1>1, <1>2 DEF PollInv, Idle
  <2>9. SearchInv'
    BY <2>3, <2>5 DEF SearchInv, SameSearch
  <2> QED
    BY <2>2, <2>6, <2>7, <2>8, <2>9 DEF IInv, FlowInv
<1>4. CASE /\ ui.at = "joinonly" /\ chan' = <<>> /\ Rebuild(snap, opened, rd)
           /\ UNCHANGED <<queue, worker, cancel, stopped>>
  <2>1. snap' \in [Ops -> Snaps] /\ \A o \in Ops : SameSearch(snap[o], snap'[o])
    BY <1>1, <1>4, RebuildKeeps
  <2>2. TypeInv'
    BY <1>1, <1>2, <1>4, <2>1 DEF IInv, TypeInv
  <2>3. WorkerInv' /\ ChannelInv'
    BY <1>4 DEF IInv, FlowInv, WorkerInv, ChannelInv
  <2>4. PollInv'
    BY <1>1, <1>2 DEF PollInv, Idle
  <2>5. SearchInv'
    BY <1>4, <2>1 DEF IInv, FlowInv, SearchInv, SameSearch
  <2>6. queue = {}
    BY <1>4 DEF IInv, FlowInv, PollInv
  <2>7. QueueInv'
    BY <1>4, <2>6 DEF QueueInv
  <2> QED
    BY <2>2, <2>3, <2>4, <2>5, <2>7 DEF IInv, FlowInv
<1> QED
  BY <1>3, <1>4 DEF JoinEnd

LEMMA PollCheckIInv == IInv /\ PollCheck => IInv'
<1> SUFFICES ASSUME IInv, PollCheck PROVE IInv'
  OBVIOUS
<1> DEFINE e == worker.pc = "ended"
<1>1. /\ ui = Idle /\ queue # {} /\ ui' = [at |-> "poll", then |-> NoFilter, ended |-> e]
      /\ UNCHANGED <<snap, rd, queue, worker, chan, cancel, stopped>>
  BY DEF PollCheck, thread
<1>2. ui.at = "idle" /\ ui'.at = "poll" /\ ui'.ended = e /\ ui' \in Uis
  BY <1>1, IdleTyped
<1>3. TypeInv'
  BY <1>1, <1>2 DEF IInv, TypeInv
<1>4. WorkerInv' /\ ChannelInv'
  BY <1>1 DEF IInv, FlowInv, WorkerInv, ChannelInv
<1>5. QueueInv' /\ PollInv' /\ SearchInv'
  BY <1>1, <1>2 DEF IInv, FlowInv, QueueInv, PollInv, SearchInv, Watching
<1> QED
  BY <1>3, <1>4, <1>5 DEF IInv, FlowInv

LEMMA LoseIInv ==
  ASSUME IInv, UNCHANGED <<loop, thread>>
  PROVE  IInv'
<1>1. UNCHANGED <<snap, rd, queue, worker, chan, cancel, ui, stopped>>
  BY DEF loop, thread
<1>2. TypeInv'
  BY <1>1 DEF IInv, TypeInv
<1>3. WorkerInv' /\ ChannelInv' /\ QueueInv' /\ PollInv' /\ SearchInv'
  BY <1>1 DEF IInv, FlowInv, WorkerInv, ChannelInv, QueueInv, PollInv, SearchInv, Watching, Idle
<1> QED
  BY <1>2, <1>3 DEF IInv, FlowInv

\* The reports of one operator, drained together, leave it as far searched as
\* the last of them says.
LEMMA DrainedFacts ==
  ASSUME IInv, NEW o \in Ops
  PROVE  LET mine == {i \in DOMAIN chan : chan[i].op = o}
             k == ApplyDrained(o, snap[o])
         IN  /\ k \in Snaps
             /\ k.filtered.matches = snap[o].filtered.matches
             /\ mine = {} => k = snap[o]
             /\ mine # {} => \E m \in 1 .. Len(chan) :
                   /\ chan[m].op = o /\ \A i \in mine : i <= m
                   /\ k.filtered.next = chan[m].next
<1> DEFINE mine == {i \in DOMAIN chan : chan[i].op = o}
           keys == UNION {chan[i].keys : i \in mine}
           errors == UNION {chan[i].errors : i \in mine}
           m == Max(mine)
           k == ApplyDrained(o, snap[o])
<1>1. snap[o] \in Snaps /\ chan \in Seq(Reports)
  BY DEF IInv, TypeInv
<1>2. Len(chan) \in Nat /\ DOMAIN chan = 1 .. Len(chan) /\ \A i \in 1 .. Len(chan) : chan[i] \in Reports
  <2> DEFINE R == Reports
  <2> HIDE DEF R
  <2>1. chan \in Seq(R)
    BY <1>1 DEF R
  <2>2. Len(chan) \in Nat /\ DOMAIN chan = 1 .. Len(chan) /\ \A i \in 1 .. Len(chan) : chan[i] \in R
    BY <2>1
  <2> QED
    BY <2>2 DEF R
<1>3. \A i \in mine : i \in 1 .. Len(chan) /\ chan[i].op = o /\ chan[i].keys \in SUBSET Keys
                      /\ chan[i].errors \in SUBSET Nat /\ chan[i].next \in Nat /\ chan[i].rd \in Nat
  BY <1>2 DEF Reports
<1>4. k = IF mine = {} THEN snap[o] ELSE ApplyReports(snap[o], keys, errors, chan[m].next, chan[m].rd)
  BY DEF ApplyDrained
<1> HIDE DEF mine, k
<1>5. CASE mine = {}
  BY <1>1, <1>4, <1>5 DEF mine, k
<1>6. CASE mine # {}
  <2>1. keys \in SUBSET Keys /\ errors \in SUBSET Nat
    BY <1>3
  <2> HIDE DEF keys, errors
  <2>2. keys \in SUBSET Nat /\ IsFiniteSet(keys)
    BY <2>1, KeysFinite, FS_Subset
  <2>3. m \in mine /\ \A i \in mine : i <= m
    <3>1. mine \subseteq Nat /\ \A i \in mine : i <= Len(chan)
      BY <1>2, <1>3
    <3> QED
      BY <1>2, <1>6, <3>1, MaxOfBounded
  <2> HIDE DEF m
  <2>4. chan[m].next \in Nat /\ chan[m].rd \in Nat /\ chan[m].op = o /\ m \in 1 .. Len(chan)
    BY <1>3, <2>3
  <2>5. /\ k \in Snaps /\ k.filtered.matches = snap[o].filtered.matches
        /\ k.filtered.next = chan[m].next
    <3> DEFINE x == snap[o]
               n == chan[m].next
               r == chan[m].rd
    <3>1. x \in Snaps /\ n \in Nat /\ r \in Nat
      BY <1>1, <2>4
    <3>2. k = ApplyReports(x, keys, errors, n, r)
      BY <1>4, <1>6
    <3> HIDE DEF x, n, r
    <3>3. errors \in SUBSET Nat
      BY <2>1
    <3>4. /\ ApplyReports(x, keys, errors, n, r) \in Snaps
          /\ ApplyReports(x, keys, errors, n, r).filtered.matches = x.filtered.matches
          /\ ApplyReports(x, keys, errors, n, r).filtered.next = n
      BY <2>2, <3>1, <3>3, ReportsTyped
    <3> QED
      BY <3>2, <3>4 DEF x, n
  <2> QED
    BY <1>6, <2>3, <2>4, <2>5 DEF mine, k
<1> QED
  BY <1>5, <1>6

\* No report is lost: whatever is not in the queue after the drain was searched
\* to its end, and a worker that had ended before the drain left nothing queued.
LEMMA PollDrainIInv == IInv /\ PollDrain => IInv'
<1> SUFFICES ASSUME IInv, PollDrain PROVE IInv'
  OBVIOUS
<1> DEFINE after == [o \in Ops |-> ApplyDrained(o, snap[o])]
           left == queue \ {chan[i].op : i \in {j \in DOMAIN chan : chan[j].next = NoNext}}
           over == left = {} \/ ui.ended
<1>1. /\ ui.at = "poll" /\ chan' = <<>>
      /\ queue' = (IF over THEN {} ELSE left)
      /\ cancel' = (cancel \/ over)
      /\ ui' = (IF over THEN [at |-> "joinonly", then |-> NoFilter, ended |-> FALSE] ELSE Idle)
      /\ IF chan # <<>> \/ ui.ended THEN Rebuild(after, opened, rd) ELSE UNCHANGED <<snap, opened>>
      /\ UNCHANGED <<rd, worker, stopped>>
  BY DEF PollDrain, HasEnded
<1>2. TypeInv /\ WorkerInv /\ ChannelInv /\ QueueInv /\ PollInv /\ SearchInv
  BY DEF IInv, FlowInv
<1>3. Watching /\ queue # {} /\ ~cancel /\ (ui.ended => worker.pc = "ended")
  BY <1>1, <1>2 DEF Watching, PollInv, QueueInv
<1>4. snap \in [Ops -> Snaps] /\ rd \in Nat /\ queue \in SUBSET Ops /\ chan \in Seq(Reports)
      /\ Len(chan) \in Nat /\ DOMAIN chan = 1 .. Len(chan)
  BY <1>2 DEF TypeInv
<1>5. /\ left \subseteq queue
      /\ \A o \in queue : o \in left <=> \A i \in 1 .. Len(chan) : chan[i].op = o => chan[i].next # NoNext
  BY <1>4
<1> HIDE DEF left
<1>6. ui.ended => left = {}
  <2> SUFFICES ASSUME ui.ended, NEW o \in left PROVE FALSE
    OBVIOUS
  <2>1. worker.targets = <<>>
    BY <1>2, <1>3 DEF WorkerInv
  <2>2. Len(worker.targets) = 0
    BY <2>1
  <2>3. \E i \in 1 .. Len(chan) : chan[i].op = o /\ chan[i].next = NoNext
    BY <1>2, <1>3, <1>5, <2>2 DEF QueueInv
  <2> QED
    BY <1>5, <2>3
<1>7. queue' = left /\ (over <=> left = {})
  BY <1>1, <1>6
<1>8. /\ \A o \in Ops : after[o] \in Snaps /\ after[o].filtered.matches = snap[o].filtered.matches
      /\ \A o \in Ops : after[o].filtered.matches /\ after[o].filtered.next # NoNext /\ ~stopped
                          => o \in left
      /\ chan = <<>> => \A o \in Ops : after[o] = snap[o]
  <2> SUFFICES ASSUME NEW o \in Ops
               PROVE  /\ after[o] \in Snaps
                      /\ after[o].filtered.matches = snap[o].filtered.matches
                      /\ after[o].filtered.matches /\ after[o].filtered.next # NoNext /\ ~stopped
                            => o \in left
                      /\ chan = <<>> => after[o] = snap[o]
    OBVIOUS
  <2> DEFINE mine == {i \in DOMAIN chan : chan[i].op = o}
             k == ApplyDrained(o, snap[o])
  <2>1. /\ k \in Snaps
        /\ k.filtered.matches = snap[o].filtered.matches
        /\ mine = {} => k = snap[o]
        /\ mine # {} => \E m \in 1 .. Len(chan) :
              /\ chan[m].op = o /\ \A i \in mine : i <= m
              /\ k.filtered.next = chan[m].next
    BY DrainedFacts
  <2>2. after[o] = k
    OBVIOUS
  <2>3. \A i \in 1 .. Len(chan) : chan[i].op = o <=> i \in mine
    BY <1>4
  <2>4. mine \subseteq 1 .. Len(chan)
    BY <1>4
  <2> HIDE DEF after, k, mine
  <2>5. chan = <<>> => k = snap[o]
    <3> SUFFICES ASSUME chan = <<>> PROVE mine = {}
      BY <2>1
    <3>1. Len(chan) = 0
      OBVIOUS
    <3> QED
      BY <2>4, <3>1
  <2>6. ASSUME k.filtered.matches, k.filtered.next # NoNext, ~stopped
        PROVE  o \in left
    <3>1. CASE mine = {}
      <4>1. o \in queue
        BY <1>1, <1>2, <2>1, <2>6, <3>1 DEF SearchInv
      <4> QED
        BY <1>5, <2>3, <3>1, <4>1
    <3>2. CASE mine # {}
      <4>1. PICK m \in 1 .. Len(chan) : /\ chan[m].op = o /\ \A i \in mine : i <= m
                                        /\ k.filtered.next = chan[m].next
        BY <2>1, <3>2
      <4>2. o \in queue
        BY <1>2, <1>3, <4>1 DEF QueueInv
      <4>3. ASSUME NEW i \in 1 .. Len(chan), chan[i].op = o PROVE chan[i].next # NoNext
        <5>1. i <= m
          BY <2>3, <4>1, <4>3
        <5>2. CASE i = m
          BY <2>6, <4>1, <5>2
        <5>3. CASE i < m
          BY <1>2, <4>1, <4>3, <5>3 DEF ChannelInv
        <5> QED
          BY <1>4, <5>1, <5>2, <5>3
      <4> QED
        BY <1>5, <4>2, <4>3
    <3> QED
      BY <3>1, <3>2
  <2> QED
    BY <2>1, <2>2, <2>5, <2>6
<1>9. after \in [Ops -> Snaps]
  BY <1>8
<1> HIDE DEF after
<1>10. /\ snap' \in [Ops -> Snaps]
       /\ \A o \in Ops : snap'[o].filtered.matches /\ snap'[o].filtered.next # NoNext /\ ~stopped
                            => o \in left
  <2>1. CASE chan # <<>> \/ ui.ended
    <3>1. snap' \in [Ops -> Snaps] /\ \A o \in Ops : SameSearch(after[o], snap'[o])
      BY <1>1, <1>4, <1>9, <2>1, RebuildKeeps
    <3> QED
      BY <1>8, <3>1 DEF SameSearch
  <2>2. CASE ~(chan # <<>> \/ ui.ended)
    BY <1>1, <1>4, <1>8, <2>2
  <2> QED
    BY <2>1, <2>2
<1>11. Len(chan') = 0 /\ chan' \in Seq(Reports)
  BY <1>1
<1>12. /\ ui' \in Uis /\ ui'.at = (IF over THEN "joinonly" ELSE "idle")
       /\ ~over => ui' = Idle
  BY <1>1, IdleTyped
<1>13. TypeInv'
  <2>1. queue' \in SUBSET Ops /\ cancel' \in BOOLEAN /\ stopped' \in BOOLEAN
    BY <1>1, <1>2, <1>4, <1>5, <1>7 DEF TypeInv
  <2>2. rd' \in Nat /\ worker' \in Workers
    BY <1>1, <1>2 DEF TypeInv
  <2> QED
    BY <1>10, <1>11, <1>12, <2>1, <2>2 DEF TypeInv
<1>14. WorkerInv' /\ ChannelInv'
  BY <1>1, <1>2, <1>11 DEF WorkerInv, ChannelInv
<1>15. QueueInv'
  <2> SUFFICES ASSUME Watching' PROVE QueueInv'
    BY DEF QueueInv
  <2>1. ~over /\ ~cancel' /\ left # {}
    BY <1>1, <1>3, <1>7, <1>12 DEF Watching
  <2>2. ASSUME NEW j \in 1 .. Len(worker.targets) PROVE worker.targets[j] \in left
    <3>1. worker.targets[j] \in queue
      BY <1>2, <1>3, <2>2 DEF QueueInv
    <3>2. \A i \in 1 .. Len(chan) : chan[i].op = worker.targets[j] => chan[i].next # NoNext
      BY <1>2, <2>2 DEF ChannelInv
    <3> QED
      BY <1>5, <3>1, <3>2
  <2>3. ASSUME NEW o \in left PROVE \E j \in 1 .. Len(worker.targets) : worker.targets[j] = o
    BY <1>2, <1>3, <1>5, <2>3 DEF QueueInv
  <2>4. queue' = left /\ worker' = worker
    BY <1>1, <1>7
  <2>5. \A j \in 1 .. Len(worker'.targets) : worker'.targets[j] \in queue'
    BY <2>2, <2>4
  <2>6. \A o \in queue' : \E j \in 1 .. Len(worker'.targets) : worker'.targets[j] = o
    BY <2>3, <2>4
  <2>7. \A i \in 1 .. Len(chan') : chan'[i].op \in queue'
    BY <1>11
  <2> QED
    BY <2>1, <2>5, <2>6, <2>7 DEF QueueInv
<1>16. PollInv'
  BY <1>7, <1>12 DEF PollInv
<1>17. SearchInv'
  BY <1>1, <1>7, <1>10 DEF SearchInv
<1> QED
  BY <1>13, <1>14, <1>15, <1>16, <1>17 DEF IInv, FlowInv

(***************************************************************************)
(* The theorem.                                                            *)
(***************************************************************************)

LEMMA NextIInv == IInv /\ [Next]_vars => IInv'
<1> SUFFICES ASSUME IInv, [Next]_vars PROVE IInv'
  OBVIOUS
<1>1. CASE User
  BY <1>1, ToggleIInv, ScrollIInv, ApplyIInv, CancelSearchIInv, SelectProfileIInv DEF User
<1>2. CASE Worker
  BY <1>2, WorkerScanIInv, WorkerSendIInv DEF Worker
<1>3. CASE Tick
  BY <1>3, PollCheckIInv, PollDrainIInv DEF Tick
<1>4. CASE Join
  BY <1>4, JoinReceiveIInv, JoinEndIInv DEF Join
<1>5. CASE \E o \in Ops : \E g \in Groups(o) : Lose(o, g)
  <2>1. UNCHANGED <<loop, thread>>
    BY <1>5 DEF Lose
  <2> QED
    BY <2>1, LoseIInv
<1>6. CASE UNCHANGED vars
  <2>1. UNCHANGED <<loop, thread>>
    BY <1>6 DEF vars
  <2> QED
    BY <2>1, LoseIInv
<1> QED
  BY <1>1, <1>2, <1>3, <1>4, <1>5, <1>6 DEF Next

\* Types, and where the operators of a running search are: ahead of the worker
\* or ended by a report of the channel. For any operators, keys, filters,
\* channel capacity and step of the worker.
THEOREM Invariant == Spec => []IInv
<1> QED
  BY InitIInv, NextIInv, PTL DEF Spec

\* Once no search runs and the user stopped none, every list of matches is
\* complete to the operator's end: poll_search, which reads whether the thread
\* has ended before it drains the channel, loses no report of the worker.
THEOREM SearchesRunToEnd == Spec => []SearchRunsToEnd
<1>1. IInv => SearchRunsToEnd
  <2> SUFFICES ASSUME IInv, ui = Idle, queue = {}, ~stopped,
                      NEW o \in Ops, snap[o].filtered.matches
               PROVE  Done(snap[o].filtered)
    BY DEF SearchRunsToEnd
  <2>1. ui.at = "idle"
    BY IdleTyped
  <2> QED
    BY <2>1 DEF IInv, FlowInv, SearchInv, Done
<1> QED
  BY Invariant, <1>1, PTL

(***************************************************************************)
(* What the lists of keys hold.                                            *)
(***************************************************************************)

\* Key x comes before the cursor n.
Before(x, n) == n = NoNext \/ x < n

GroupOf(o, x) == Items[o][x].kg
Lists(seq, x) == \E i \in 1 .. Len(seq.pos) : seq.pos[i] = x

\* A list that is browsed holds the keys of its range in order and as far as it
\* was browsed, but for key-groups that could not be read and are reported.
BrowseInv(o, seq, errs, b) ==
    /\ ~seq.matches
    /\ seq.offset >= 0
    /\ seq.next \in 0 .. Len(Items[o]) + 1
    /\ \A i \in 1 .. Len(seq.pos) :
          /\ seq.pos[i] \in DOMAIN Items[o]
          /\ Before(seq.pos[i], seq.next)
          /\ GroupOf(o, seq.pos[i]) \in seq.start .. seq.stop
    /\ \A i, j \in 1 .. Len(seq.pos) : i < j => seq.pos[i] < seq.pos[j]
    /\ \A x \in DOMAIN Items[o] :
          Before(x, seq.next) /\ GroupOf(o, x) \in seq.start .. seq.stop =>
             Lists(seq, x) \/ (GroupOf(o, x) \in errs /\ <<o, GroupOf(o, x)>> \in b)

\* A list of matches holds the keys the filter is about, each once, as far as it
\* was searched.
MatchInv(o, seq, errs, f) ==
    /\ seq.matches
    /\ seq.offset >= 0
    /\ \A i \in 1 .. Len(seq.pos) : seq.pos[i] \in Hits(o, f)
    /\ \A i, j \in 1 .. Len(seq.pos) : seq.pos[i] = seq.pos[j] => i = j
    /\ \A x \in Hits(o, f) :
          Before(x, seq.next) => Lists(seq, x) \/ GroupOf(o, x) \in errs

AllInv(o, k, b) ==
    /\ k.all.start = 0 /\ k.all.stop = AnyGroup
    /\ BrowseInv(o, k.all, k.errors, b)

FilteredInv(o, k, f, b) ==
    /\ f.kind = "none" => k.filtered = NoSeq
    /\ f.kind = "range" => /\ k.filtered.start = f.lo /\ k.filtered.stop = f.hi
                           /\ BrowseInv(o, k.filtered, k.errors, b)
    /\ f.kind \in {"exact", "pattern"} => MatchInv(o, k.filtered, k.errors, f)

\* The lists of an operator; while a filter is about to replace the last one, only
\* the list of all keys counts.
ListsInv ==
    /\ filter \in Filters \cup {NoFilter}
    /\ opened \subseteq Ops
    /\ ui.at = "join" => ui.then = filter
    /\ \A o \in Ops : AllInv(o, snap[o], bad)
    /\ ui.at # "join" => \A o \in Ops : FilteredInv(o, snap[o], filter, bad)

\* What snapshot k of operator o and the first n reports of the channel ch tell
\* of key x.
Told(k, ch, o, x, n) ==
    \/ Lists(k.filtered, x) \/ GroupOf(o, x) \in k.errors
    \/ \E j \in 1 .. n : /\ ch[j].op = o
                         /\ x \in ch[j].keys \/ GroupOf(o, x) \in ch[j].errors

\* A report is about the filter, and together with what is known before it tells
\* of every match before its cursor.
ReportOk(sn, ch, f, j) ==
    /\ f.kind \in {"exact", "pattern"}
    /\ ch[j].keys \subseteq Hits(ch[j].op, f)
    /\ \A x \in Hits(ch[j].op, f) :
          Before(x, ch[j].next) => Told(sn[ch[j].op], ch, ch[j].op, x, j)

\* So does what the worker has found in the operator it is at.
WorkerOk(sn, ch, f, w) ==
    /\ f.kind \in {"exact", "pattern"}
    /\ w.names = f.names
    /\ w.found \subseteq Hits(w.targets[1], f)
    /\ \A x \in Hits(w.targets[1], f) :
          Before(x, w.cur) => \/ Told(sn[w.targets[1]], ch, w.targets[1], x, Len(ch))
                              \/ x \in w.found \/ GroupOf(w.targets[1], x) \in w.errors

ReportsInv ==
    Watching => /\ \A j \in 1 .. Len(chan) : ReportOk(snap, chan, filter, j)
                /\ worker.pc # "ended" => WorkerOk(snap, chan, filter, worker)

\* The window of an expanded operator is loaded.
LoadedInv(o, k) ==
    LET seq == Listed(k)
    IN  \A i \in Window(seq) : \/ seq.pos[i] \in DOMAIN k.rows
                               \/ GroupOf(o, seq.pos[i]) \in k.errors
WindowInv == \A o \in opened : LoadedInv(o, snap[o])

DataInv == ListsInv /\ ReportsInv /\ WindowInv

(***************************************************************************)
(* Where browsing stops.                                                   *)
(***************************************************************************)

\* A walk over 1 .. L + 1 that goes forward until it comes to a stop, and where
\* it ends from each of its places.
Walk(L, S, end, to) ==
    /\ L + 1 \in S
    /\ end \in [1 .. L + 1 -> 1 .. L + 1] /\ to \in [1 .. L + 1 -> 1 .. L + 1]
    /\ \A c \in 1 .. L + 1 : c \notin S => c < to[c]
    /\ \A c \in 1 .. L + 1 : c \in S => end[c] \in c .. L + 1
Walked(g, L, S, end, to) ==
    \A c \in 1 .. L + 1 : g[c] = IF c \in S THEN end[c] ELSE g[to[c]]

\* The recursive definition of where it ends has a solution.
LEMMA WalkExists ==
  ASSUME NEW L \in Nat, NEW S, NEW end, NEW to, Walk(L, S, end, to)
  PROVE  \E g : /\ DOMAIN g = 1 .. L + 1 /\ g = [c \in DOMAIN g |-> g[c]]
                /\ Walked(g, L, S, end, to)
<1> USE DEF Walk
<1> DEFINE Solves(g, c) == g[c] = IF c \in S THEN end[c] ELSE g[to[c]]
           From(m) == (L + 1 - m) .. (L + 1)
           Bad == {m \in 0 .. L : ~ \E g : \A c \in From(m) : Solves(g, c)}
<1>1. Bad = {}
  <2> SUFFICES ASSUME Bad # {} PROVE FALSE
    OBVIOUS
  <2>0. Bad \subseteq Nat
    OBVIOUS
  <2>1. PICK m \in Bad : \A l \in Bad : m <= l
    <3> HIDE DEF Bad
    <3> QED
      BY <2>0, LeastOf
  <2>2. m \in 0 .. L /\ ~ \E g : \A c \in From(m) : Solves(g, c)
    OBVIOUS
  <2>3. CASE m = 0
    <3> DEFINE h == [c \in {L + 1} |-> end[c]]
    <3>1. \A c \in From(m) : Solves(h, c)
      BY <2>3
    <3> QED
      BY <2>2, <3>1
  <2>4. CASE m # 0
    <3> DEFINE a == L + 1 - m
    <3>0. m - 1 \in 0 .. L /\ ~(m <= m - 1) /\ a \in 1 .. L + 1
      BY <2>2, <2>4
    <3>1. m - 1 \in 0 .. L /\ m - 1 \notin Bad /\ a \in 1 .. L + 1
      <4> HIDE DEF Bad
      <4> QED
        BY <2>1, <3>0
    <3>2. PICK g : \A c \in From(m - 1) : Solves(g, c)
      <4> HIDE DEF From, Solves
      <4> QED
        BY <3>1
    <3> DEFINE h == [c \in 1 .. L + 1 |-> IF c # a THEN g[c]
                                          ELSE IF a \in S THEN end[a] ELSE g[to[a]]]
    <3>3. ASSUME NEW c \in From(m) PROVE Solves(h, c)
      <4>1. c \in 1 .. L + 1 /\ (c = a \/ c \in From(m - 1))
        BY <2>2, <2>4
      <4>2. c \notin S => to[c] # a /\ to[c] \in 1 .. L + 1
        BY <2>2, <4>1
      <4> QED
        BY <3>1, <3>2, <4>1, <4>2
    <3> QED
      BY <2>2, <3>3
  <2> QED
    BY <2>3, <2>4
<1>2. PICK g : \A c \in From(L) : Solves(g, c)
  <2>0. L \in 0 .. L
    OBVIOUS
  <2>1. L \in 0 .. L /\ L \notin Bad
    <3> HIDE DEF Bad
    <3> QED
      BY <1>1, <2>0
  <2> HIDE DEF From, Solves
  <2> QED
    BY <2>1
<1> DEFINE h == [c \in 1 .. L + 1 |-> g[c]]
<1>3. DOMAIN h = 1 .. L + 1 /\ h = [c \in DOMAIN h |-> h[c]]
  OBVIOUS
<1>4. Walked(h, L, S, end, to)
  BY <1>2, SMTT(30) DEF Walked
<1> HIDE DEF h
<1> QED
  BY <1>3, <1>4

\* It ends no earlier than it starts.
LEMMA WalkForward ==
  ASSUME NEW L \in Nat, NEW S, NEW end, NEW to, Walk(L, S, end, to),
         NEW g, Walked(g, L, S, end, to)
  PROVE  \A c \in 1 .. L + 1 : g[c] \in c .. L + 1
<1> USE DEF Walk, Walked
<1> DEFINE Bad == {m \in 0 .. L : g[L + 1 - m] \notin (L + 1 - m) .. (L + 1)}
<1>1. Bad = {}
  <2> SUFFICES ASSUME Bad # {} PROVE FALSE
    OBVIOUS
  <2>0. Bad \subseteq Nat
    OBVIOUS
  <2>1. PICK m \in Bad : \A l \in Bad : m <= l
    <3> HIDE DEF Bad
    <3> QED
      BY <2>0, LeastOf
  <2> DEFINE a == L + 1 - m
  <2>2. m \in 0 .. L /\ a \in 1 .. L + 1 /\ g[a] \notin a .. L + 1
    OBVIOUS
  <2>3. a \notin S /\ g[a] = g[to[a]]
    BY <2>2
  <2>4. to[a] \in 1 .. L + 1 /\ a < to[a]
    BY <2>2, <2>3
  <2> DEFINE l == L + 1 - to[a]
  <2>5. l \in 0 .. L /\ l < m /\ L + 1 - l = to[a]
    <3> DEFINE t == to[a]
    <3>1. t \in 1 .. L + 1 /\ a < t
      BY <2>4
    <3> HIDE DEF t
    <3>2. L + 1 - t \in 0 .. L /\ L + 1 - t < m /\ L + 1 - (L + 1 - t) = t
      BY <2>2, <3>1
    <3> QED
      BY <3>2 DEF t
  <2>6. l \notin Bad
    <3>1. ~(m <= l)
      BY <2>2, <2>5
    <3> HIDE DEF Bad, l
    <3> QED
      BY <2>1, <3>1
  <2>7. g[to[a]] \in to[a] .. L + 1
    BY <2>5, <2>6
  <2> DEFINE t == to[a]
             e == g[t]
  <2>8. t \in 1 .. L + 1 /\ a < t /\ e \in t .. L + 1 /\ g[a] = e
    BY <2>3, <2>4, <2>7
  <2>9. a \in Int /\ g[a] \notin a .. L + 1
    BY <2>2
  <2> HIDE DEF t, e, a
  <2> QED
    BY <2>8, <2>9
<1>2. ASSUME NEW c \in 1 .. L + 1 PROVE g[c] \in c .. L + 1
  <2>1. L + 1 - c \in 0 .. L /\ L + 1 - (L + 1 - c) = c
    OBVIOUS
  <2> QED
    BY <1>1, <2>1
<1> QED
  BY <1>2

\* The last key of a page: not before a key that fewer than `limit` of the keys
\* found come before.
LEMMA PageLast ==
  ASSUME NEW o \in Ops, NEW found, found \subseteq DOMAIN Items[o],
         NEW limit \in Int, limit >= 1
  PROVE  LET last == LastOfPage(o, found, limit) IN
         /\ last \in Nat /\ last <= Len(Items[o])
         /\ last = Len(Items[o]) \/ last \in found
         /\ \A p \in DOMAIN Items[o] :
               Cardinality({y \in found : y < p}) < limit => p <= last
<1> DEFINE last == LastOfPage(o, found, limit)
           L == Len(Items[o])
           Prior(p) == {y \in found : y < p}
           F == {i \in found : Cardinality(Prior(i)) < limit}
<1>1. /\ L \in Nat /\ DOMAIN Items[o] = 1 .. L /\ found \subseteq Nat /\ IsFiniteSet(found)
      /\ \A p : IsFiniteSet(Prior(p))
  BY ItemsTyped
<1>2. last = IF Cardinality(found) < limit THEN L ELSE Max(F)
  BY DEF LastOfPage
<1> HIDE DEF last, L, F
<1>3. Cardinality(found) \in Nat /\ \A p : Cardinality(Prior(p)) \in Nat
  BY <1>1, FS_CardinalityType
<1>4. F \subseteq found /\ F \subseteq Nat /\ \A x \in F : x <= L
  <2>1. \A x \in found : x \in Nat /\ x <= L
    BY <1>1
  <2>2. F \subseteq found
    BY DEF F
  <2> HIDE DEF Prior
  <2> QED
    BY <2>1, <2>2
<1>5. CASE Cardinality(found) < limit
  BY <1>1, <1>2, <1>5 DEF last
<1>6. CASE ~(Cardinality(found) < limit)
  <2>1. ASSUME NEW p \in Nat, Cardinality(Prior(p)) < limit
        PROVE  \E z \in F : p <= z
    <3>1. found \ Prior(p) # {}
      <4>1. found # Prior(p)
        BY <1>3, <1>6, <2>1
      <4> QED
        BY <4>1
    <3>2. PICK z \in found \ Prior(p) : \A y \in found \ Prior(p) : z <= y
      BY <1>1, <3>1, LeastOf
    <3>3. p <= z
      BY <1>1
    <3>4. Prior(z) = Prior(p)
      <4>0. p \in Nat /\ z \in Nat /\ found \subseteq Nat
        BY <1>1
      <4>1. \A y \in found : y < z <=> y < p
        BY <3>2, <3>3, <4>0
      <4> QED
        BY <4>1, Zenon
    <3> HIDE DEF Prior
    <3>5. z \in F
      BY <2>1, <3>4 DEF F
    <3> QED
      BY <3>3, <3>5
  <2>2. F # {}
    <3>1. Prior(0) = {}
      <4>1. \A y \in found : ~(y < 0)
        BY <1>1
      <4> QED
        BY <4>1, Zenon
    <3>2. Cardinality(Prior(0)) = 0
      BY <3>1, FS_EmptySet
    <3> HIDE DEF Prior
    <3> QED
      BY <2>1, <3>2
  <2>3. Max(F) \in F /\ \A y \in F : y <= Max(F)
    BY <1>1, <1>4, <2>2, MaxOfBounded
  <2>4. last \in found /\ last \in Nat /\ last <= L /\ \A z \in F : z <= last
    BY <1>2, <1>4, <1>6, <2>3
  <2>5. ASSUME NEW p \in DOMAIN Items[o], Cardinality(Prior(p)) < limit PROVE p <= last
    <3>1. p \in Nat
      BY <1>1
    <3>2. PICK z \in F : p <= z
      BY <2>1, <2>5, <3>1
    <3> QED
      BY <1>4, <2>4, <3>1, <3>2
  <2> QED
    BY <2>4, <2>5 DEF L, last
<1> QED
  BY <1>5, <1>6

\* The loop of ensure_window ends where it began or further on.
LEMMA BrowseEndForward ==
  ASSUME NEW o \in Ops, NEW seq \in KeySeqs, seq.next \in 1 .. Len(Items[o]) + 1, NEW b
  PROVE  BrowseEnd(o, seq, b) \in seq.next .. Len(Items[o]) + 1
<1> DEFINE L == Len(Items[o])
           D == 1 .. L + 1
           S == {c \in D : \/ Lack(o, seq, c, b) <= 0 \/ c > L
                           \/ PastRange(o, seq, Between(o, c, NextPage(o, seq, c, b), b))}
           end == [c \in D |-> IF Lack(o, seq, c, b) <= 0 \/ c > L THEN c ELSE NextPage(o, seq, c, b)]
           to == [c \in D |-> IF c > L THEN c ELSE NextPage(o, seq, c, b)]
           Body(g) == [c \in D |->
                          IF Lack(o, seq, c, b) <= 0 \/ c > L THEN c
                          ELSE IF PastRange(o, seq, Between(o, c, NextPage(o, seq, c, b), b))
                               THEN NextPage(o, seq, c, b)
                               ELSE g[NextPage(o, seq, c, b)]]
           f == CHOOSE g : g = Body(g)
<1>1. L \in Nat /\ DOMAIN Items[o] = 1 .. L
  BY ItemsTyped
<1>2. ASSUME NEW c \in 1 .. L
      PROVE  NextPage(o, seq, c, b) \in c + 1 .. L + 1
  <2> DEFINE lack == Lack(o, seq, c, b)
             limit == IF lack > PageSize THEN lack ELSE PageSize
             found == Readable(o, c, b)
             last == LastOfPage(o, found, limit)
  <2>1. lack \in Int
    <3> DEFINE M == InRange(o, seq, Between(o, seq.next, c, b))
    <3>1. M \in SUBSET DOMAIN Items[o]
      BY DEF InRange, Between, Readable, Indices
    <3> HIDE DEF M
    <3>2. Cardinality(M) \in Nat
      BY <3>1, ItemsTyped, FS_CardinalityType
    <3>3. Len(seq.pos) \in Nat /\ seq.offset \in Int
      BY DEF KeySeqs
    <3> DEFINE n == Len(seq.pos)
               m == Cardinality(M)
    <3>4. lack = (seq.offset + 2 * PageSize) - (n + m)
      BY DEF Lack, M, Wanted
    <3>5. n \in Nat /\ m \in Nat /\ PageSize \in Nat
      BY <3>2, <3>3, KeyWindowsAssumption
    <3> HIDE DEF lack, n, m
    <3> QED
      BY <3>3, <3>4, <3>5
  <2> HIDE DEF lack
  <2>2. limit \in Int /\ limit >= 1
    BY <2>1, KeyWindowsAssumption
  <2>3. found \subseteq DOMAIN Items[o] /\ \A x \in found : x >= c
    BY DEF Readable, Indices
  <2>4. NextPage(o, seq, c, b) = last + 1
    BY DEF NextPage, PageEnd, lack
  <2> HIDE DEF limit, found
  <2>5. last \in Nat /\ last <= L /\ (last = L \/ last \in found)
    BY <2>2, <2>3, PageLast
  <2> HIDE DEF last
  <2> QED
    BY <1>1, <2>3, <2>4, <2>5
<1>3. to \in [D -> D] /\ \A c \in D : c \notin S => c < to[c]
  <2>1. \A c \in D : to[c] \in D /\ (c \notin S => c < to[c])
    BY <1>1, <1>2
  <2> HIDE DEF S
  <2> QED
    BY <2>1
<1>4. /\ L + 1 \in S /\ \A c \in D : c \in S => end[c] \in c .. L + 1
      /\ end \in [D -> D]
  <2>1. L + 1 \in S
    BY <1>1
  <2>2. \A c \in D : end[c] \in D /\ (c \in S => end[c] \in c .. L + 1)
    BY <1>1, <1>2
  <2> HIDE DEF S
  <2> QED
    BY <2>1, <2>2
<1>5. \A g : Body(g) = [c \in D |-> IF c \in S THEN end[c] ELSE g[to[c]]]
  OBVIOUS
<1>6. BrowseEnd(o, seq, b) = f[seq.next]
  BY DEF BrowseEnd
<1> HIDE DEF L, S, end, to, Body
<1>0. Walk(L, S, end, to)
  BY <1>3, <1>4 DEF Walk
<1>7. \E g : g = Body(g)
  <2>1. PICK g : /\ DOMAIN g = 1 .. L + 1 /\ g = [c \in DOMAIN g |-> g[c]]
                 /\ Walked(g, L, S, end, to)
    BY <1>1, <1>0, WalkExists
  <2>2. g = [c \in 1 .. L + 1 |-> IF c \in S THEN end[c] ELSE g[to[c]]]
    BY <2>1 DEF Walked
  <2>3. g = Body(g)
    BY <1>5, <2>2
  <2> QED
    BY <2>3
<1>8. f = Body(f)
  BY <1>7
<1> HIDE DEF f
<1>9. \A c \in D : f[c] \in c .. L + 1
  <2>1. f = [c \in D |-> IF c \in S THEN end[c] ELSE f[to[c]]]
    BY <1>5, <1>8
  <2>2. Walked(f, L, S, end, to)
    BY <2>1 DEF Walked
  <2> QED
    BY <1>1, <1>0, <2>2, WalkForward
<1> QED
  BY <1>6, <1>9 DEF L

(***************************************************************************)
(* Lists that grow.                                                        *)
(***************************************************************************)

\* In order of the numbers.
LEMMA InOrderGrows ==
  ASSUME NEW S, S \subseteq Nat, IsFiniteSet(S)
  PROVE  \A i, j \in 1 .. Cardinality(S) : i < j => InOrder(S)[i] < InOrder(S)[j]
<1> DEFINE n == Cardinality(S)
           f == [k \in 1 .. n |-> CHOOSE i \in S : UpTo(S, i) = k]
<1>0. InOrder(S) = f /\ n \in Nat
  BY FS_CardinalityType DEF InOrder
<1> HIDE DEF n
<1>1. ASSUME NEW k \in 1 .. n PROVE f[k] \in S /\ f[k] \in Nat /\ UpTo(S, f[k]) = k
  <2>1. \E i \in S : UpTo(S, i) = k
    BY UpToOnto DEF n
  <2> QED
    BY <2>1
<1> HIDE DEF f
<1>2. ASSUME NEW i \in 1 .. n, NEW j \in 1 .. n, i < j PROVE f[i] < f[j]
  <2>1. \A x, y \in S : y < x => UpTo(S, y) < UpTo(S, x)
    BY UpToGrows
  <2>2. ~(f[j] < f[i]) /\ f[i] # f[j]
    BY <1>0, <1>1, <1>2, <2>1
  <2> QED
    BY <1>1, <2>2
<1> QED
  BY <1>0, <1>2 DEF n

\* Where the elements of two lists are in their concatenation.
LEMMA AppendedAt ==
  ASSUME NEW s \in Seq(Nat), NEW t \in Seq(Nat)
  PROVE  /\ Len(s \o t) = Len(s) + Len(t) /\ Len(t) \in Nat
         /\ \A i \in 1 .. Len(s) : (s \o t)[i] = s[i]
         /\ \A i \in Len(s) + 1 .. Len(s \o t) :
               (s \o t)[i] = t[i - Len(s)] /\ i - Len(s) \in 1 .. Len(t)
         /\ \A i \in 1 .. Len(t) :
               (s \o t)[Len(s) + i] = t[i] /\ Len(s) + i \in 1 .. Len(s \o t)
         /\ \A i \in 1 .. Len(s \o t) : i \in 1 .. Len(s) \/ i \in Len(s) + 1 .. Len(s \o t)
OBVIOUS

\* What is listed stays listed when the errors and the lost key-groups grow and
\* the window moves.
LEMMA BrowseMore ==
  ASSUME NEW o, NEW s, NEW t, NEW errs, NEW b, NEW errs2, NEW b2,
         BrowseInv(o, s, errs, b), errs \subseteq errs2, b \subseteq b2,
         t.pos = s.pos, t.next = s.next, t.start = s.start, t.stop = s.stop,
         t.matches = s.matches, t.offset >= 0
  PROVE  BrowseInv(o, t, errs2, b2)
BY Zenon DEF BrowseInv, Lists

LEMMA MatchMore ==
  ASSUME NEW o, NEW s, NEW t, NEW errs, NEW errs2, NEW f,
         MatchInv(o, s, errs, f), errs \subseteq errs2,
         t.pos = s.pos, t.next = s.next, t.matches = s.matches, t.offset >= 0
  PROVE  MatchInv(o, t, errs2, f)
BY Zenon DEF MatchInv, Lists

\* The key-groups of the keys of an operator, which do not decrease.
LEMMA GroupsGrow ==
  ASSUME NEW o \in Ops
  PROVE  /\ \A x \in DOMAIN Items[o] : GroupOf(o, x) \in 0 .. AnyGroup
         /\ \A x, y \in DOMAIN Items[o] : x < y => GroupOf(o, x) <= GroupOf(o, y)
<1>1. \A x \in DOMAIN Items[o] : Items[o][x] \in [kg : 0 .. AnyGroup, name : STRING]
  <2> DEFINE T == [kg : 0 .. AnyGroup, name : STRING]
  <2>1. Items[o] \in Seq(T) /\ DOMAIN Items[o] = 1 .. Len(Items[o])
    BY ItemsTyped
  <2> HIDE DEF T
  <2>2. \A x \in DOMAIN Items[o] : Items[o][x] \in T
    BY <2>1
  <2> QED
    BY <2>2 DEF T
<1> QED
  BY <1>1, KeyWindowsAssumption DEF GroupOf

\* ensure_window reads on from where the list ended and appends what it finds.
Grown(o, seq, to, b) ==
    LET read == Between(o, seq.next, to, b)
    IN  [seq EXCEPT !.pos = @ \o InOrder(InRange(o, seq, read)),
                    !.next = IF PastRange(o, seq, read) THEN NoNext ELSE AtOrEnd(o, to)]
Passed(o, seq, to, b) == Unreadable(o, Indices(o, seq.next) \ Indices(o, to), b)

LEMMA GrownInv ==
  ASSUME NEW o \in Ops, NEW seq \in KeySeqs, NEW errs, NEW b,
         BrowseInv(o, seq, errs, b), seq.next # NoNext,
         NEW to \in seq.next .. Len(Items[o]) + 1
  PROVE  BrowseInv(o, Grown(o, seq, to, b), errs \cup Passed(o, seq, to, b), b)
<1> DEFINE L == Len(Items[o])
           read == Between(o, seq.next, to, b)
           mine == InRange(o, seq, read)
           past == PastRange(o, seq, read)
           next == IF past THEN NoNext ELSE AtOrEnd(o, to)
           add == InOrder(mine)
           pos == seq.pos \o add
           new == Passed(o, seq, to, b)
           g == Grown(o, seq, to, b)
           n == Len(seq.pos)
<1>1. /\ L \in Nat /\ DOMAIN Items[o] = 1 .. L
      /\ seq.next \in 1 .. L + 1 /\ to \in 1 .. L + 1 /\ seq.next <= to
      /\ seq.pos \in Seq(Nat) /\ n \in Nat /\ seq.start \in Nat /\ seq.stop \in Nat
  BY ItemsTyped DEF BrowseInv, NoNext, KeySeqs
<1>2. \A x \in DOMAIN Items[o] : GroupOf(o, x) \in Nat
  BY GroupsGrow
<1>3. /\ g.pos = pos /\ g.next = next /\ g.start = seq.start /\ g.stop = seq.stop
      /\ g.matches = seq.matches /\ g.offset = seq.offset
  BY DEF Grown, KeySeqs
<1>4. \A x : x \in mine <=> /\ x \in DOMAIN Items[o] /\ seq.next <= x /\ x < to
                            /\ <<o, GroupOf(o, x)>> \notin b
                            /\ GroupOf(o, x) \in seq.start .. seq.stop
  BY <1>1 DEF InRange, Between, Readable, Indices, GroupOf
<1>5. past => \E x \in DOMAIN Items[o] : x < to /\ GroupOf(o, x) > seq.stop
  BY DEF PastRange, Between, Readable, Indices, GroupOf
<1>6. \A x \in DOMAIN Items[o] :
         seq.next <= x /\ x < to /\ <<o, GroupOf(o, x)>> \in b => GroupOf(o, x) \in new
  <2> SUFFICES ASSUME NEW x \in DOMAIN Items[o], seq.next <= x, x < to,
                      <<o, GroupOf(o, x)>> \in b
               PROVE  GroupOf(o, x) \in new
    OBVIOUS
  <2> DEFINE X == Indices(o, seq.next) \ Indices(o, to)
  <2>1. x \in X
    BY <1>1 DEF Indices
  <2> HIDE DEF X
  <2>2. Items[o][x].kg \in {Items[o][i].kg : i \in X}
    BY <2>1
  <2>3. GroupOf(o, x) \in Unreadable(o, X, b)
    BY <2>2 DEF Unreadable, GroupOf
  <2> QED
    BY <2>3 DEF Passed, X
<1>7. /\ mine \subseteq Nat /\ IsFiniteSet(mine)
      /\ add \in Seq(Nat) /\ add \in Seq(mine) /\ Len(add) = Cardinality(mine)
      /\ \A x \in mine : \E i \in 1 .. Len(add) : add[i] = x
      /\ \A i, j \in 1 .. Len(add) : i < j => add[i] < add[j]
  <2>1. mine \in SUBSET DOMAIN Items[o]
    BY <1>4
  <2> HIDE DEF mine
  <2>2. mine \subseteq Nat /\ IsFiniteSet(mine)
    BY <2>1, ItemsTyped
  <2> QED
    BY <2>2, InOrderFacts, InOrderGrows
<1> HIDE DEF add, mine, past, g, new
<1>8. /\ Len(pos) = n + Len(add) /\ Len(add) \in Nat
      /\ \A i \in 1 .. n : pos[i] = seq.pos[i]
      /\ \A i \in n + 1 .. Len(pos) : pos[i] = add[i - n] /\ i - n \in 1 .. Len(add)
      /\ \A i \in 1 .. Len(add) : pos[n + i] = add[i] /\ n + i \in 1 .. Len(pos)
      /\ \A i \in 1 .. Len(pos) : i \in 1 .. n \/ i \in n + 1 .. Len(pos)
  BY <1>1, <1>7, AppendedAt
<1>9. next \in 0 .. L + 1 /\ (next = NoNext \/ next = to) /\ (next = NoNext => past \/ to = L + 1)
  BY <1>1 DEF AtOrEnd, NoNext
<1> HIDE DEF n, pos, next
<1>10. /\ seq.pos \in Seq(Nat)
       /\ \A i \in 1 .. n : /\ seq.pos[i] \in DOMAIN Items[o] /\ seq.pos[i] \in Nat
                            /\ seq.pos[i] < seq.next
                            /\ GroupOf(o, seq.pos[i]) \in seq.start .. seq.stop
       /\ \A i, j \in 1 .. n : i < j => seq.pos[i] < seq.pos[j]
  <2>1. /\ \A i \in 1 .. n : /\ seq.pos[i] \in DOMAIN Items[o] /\ Before(seq.pos[i], seq.next)
                             /\ GroupOf(o, seq.pos[i]) \in seq.start .. seq.stop
        /\ \A i, j \in 1 .. n : i < j => seq.pos[i] < seq.pos[j]
    BY DEF BrowseInv, n
  <2>2. seq.pos \in Seq(Nat) /\ \A i \in 1 .. n : seq.pos[i] \in Nat
    BY <1>1, SMTT(30) DEF n
  <2>3. \A i \in 1 .. n : seq.pos[i] < seq.next
    BY <2>1 DEF Before
  <2> QED
    BY <2>1, <2>2, <2>3
<1>11. \A i \in 1 .. Len(add) : /\ add[i] \in mine /\ add[i] \in Nat
  BY <1>7
<1>12. ASSUME NEW i \in 1 .. Len(pos)
       PROVE  /\ pos[i] \in DOMAIN Items[o] /\ Before(pos[i], next)
              /\ GroupOf(o, pos[i]) \in seq.start .. seq.stop
  <2>1. CASE i \in 1 .. n
    <3>1. pos[i] = seq.pos[i]
      BY <1>8, <2>1
    <3>2. seq.pos[i] < to
      BY <1>1, <1>10, <2>1
    <3> QED
      BY <1>9, <1>10, <2>1, <3>1, <3>2 DEF Before
  <2>2. CASE i \in n + 1 .. Len(pos)
    <3>1. pos[i] \in mine
      BY <1>8, <1>11, <2>2
    <3> QED
      BY <1>4, <1>9, <3>1 DEF Before
  <2> QED
    BY <1>8, <2>1, <2>2
<1>13. ASSUME NEW i \in 1 .. Len(pos), NEW j \in 1 .. Len(pos), i < j
       PROVE  pos[i] < pos[j]
  <2>1. CASE i \in 1 .. n /\ j \in 1 .. n
    BY <1>8, <1>10, <1>13, <2>1
  <2>2. CASE i \in 1 .. n /\ j \in n + 1 .. Len(pos)
    <3>0. seq.next \in Nat
      BY <1>1
    <3>1. pos[i] = seq.pos[i] /\ seq.pos[i] \in Nat /\ seq.pos[i] < seq.next
      BY <1>8, <1>10, <2>2
    <3>2. pos[j] \in mine /\ pos[j] \in Nat /\ seq.next <= pos[j]
      BY <1>4, <1>8, <1>11, <2>2
    <3> QED
      BY <3>0, <3>1, <3>2
  <2>3. CASE i \in n + 1 .. Len(pos) /\ j \in n + 1 .. Len(pos)
    <3>1. i - n < j - n
      BY <1>1, <1>13, <2>3 DEF n
    <3> QED
      BY <1>7, <1>8, <2>3, <3>1
  <2>4. ~(i \in n + 1 .. Len(pos) /\ j \in 1 .. n)
    BY <1>1, <1>8, <1>13 DEF n
  <2> QED
    BY <1>8, <2>1, <2>2, <2>3, <2>4
<1>14. ASSUME NEW x \in DOMAIN Items[o], Before(x, next),
              GroupOf(o, x) \in seq.start .. seq.stop
       PROVE  \/ \E i \in 1 .. Len(pos) : pos[i] = x
              \/ GroupOf(o, x) \in errs \cup new /\ <<o, GroupOf(o, x)>> \in b
  <2>0. x \in 1 .. L
    BY <1>1
  <2>1. CASE x < seq.next
    <3>1. Lists(seq, x) \/ (GroupOf(o, x) \in errs /\ <<o, GroupOf(o, x)>> \in b)
      BY <1>14, <2>1 DEF BrowseInv, Before
    <3>2. ASSUME NEW i \in 1 .. n, seq.pos[i] = x
          PROVE  i \in 1 .. Len(pos) /\ pos[i] = x
      BY <1>1, <1>8, <3>2 DEF n
    <3> QED
      BY <3>1, <3>2 DEF Lists, n
  <2>2. CASE seq.next <= x /\ x < to
    <3>1. CASE <<o, GroupOf(o, x)>> \in b
      BY <1>6, <2>2, <3>1
    <3>2. CASE <<o, GroupOf(o, x)>> \notin b
      <4>1. x \in mine
        BY <1>4, <1>14, <2>2, <3>2
      <4>2. PICK i \in 1 .. Len(add) : add[i] = x
        BY <1>7, <4>1
      <4> QED
        BY <1>8, <4>2
    <3> QED
      BY <3>1, <3>2
  <2>3. CASE to <= x
    <3>1. next = NoNext /\ to # L + 1 /\ past
      BY <1>1, <1>9, <1>14, <2>0, <2>3 DEF Before
    <3>2. PICK y \in DOMAIN Items[o] : y < to /\ GroupOf(o, y) > seq.stop
      BY <1>5, <3>1
    <3>3. y < x
      BY <1>1, <2>0, <2>3, <3>2
    <3>4. GroupOf(o, y) <= GroupOf(o, x)
      BY <3>3, GroupsGrow
    <3> QED
      BY <1>1, <1>2, <1>14, <3>2, <3>4
  <2> QED
    BY <1>1, <2>0, <2>1, <2>2, <2>3
<1>15. ~seq.matches /\ seq.offset >= 0
  BY DEF BrowseInv
<1> QED
  BY <1>3, <1>9, <1>12, <1>13, <1>14, <1>15, Zenon DEF BrowseInv, Lists, L, g, new

(***************************************************************************)
(* ensure_window.                                                          *)
(***************************************************************************)

Kinds == {"none", "range", "exact", "pattern"}

\* More errors and more lost key-groups, and windows moved.
LEMMA ListsMore ==
  ASSUME NEW o, NEW k, NEW l, NEW f, NEW b, NEW b2,
         AllInv(o, k, b), k.errors \subseteq l.errors, b \subseteq b2,
         l.all = k.all, l.filtered = k.filtered
  PROVE  /\ AllInv(o, l, b2)
         /\ FilteredInv(o, k, f, b) => FilteredInv(o, l, f, b2)
<1>1. AllInv(o, l, b2)
  BY BrowseMore DEF AllInv, BrowseInv
<1>2. ASSUME FilteredInv(o, k, f, b) PROVE FilteredInv(o, l, f, b2)
  <2>1. f.kind = "range" => BrowseInv(o, l.filtered, l.errors, b2)
    BY <1>2, BrowseMore DEF FilteredInv, BrowseInv
  <2>2. f.kind \in {"exact", "pattern"} => MatchInv(o, l.filtered, l.errors, f)
    BY <1>2, MatchMore DEF FilteredInv, MatchInv
  <2> QED
    BY <1>2, <2>1, <2>2 DEF FilteredInv
<1> QED
  BY <1>1, <1>2

\* Which list an operator shows under a filter.
LEMMA ListedKind ==
  ASSUME NEW o \in Ops, NEW k \in Snaps, NEW f, f.kind \in Kinds, NEW b,
         AllInv(o, k, b), FilteredInv(o, k, f, b)
  PROVE  /\ Filtered(k) <=> f.kind # "none"
         /\ f.kind = "none" => Listed(k) = k.all
         /\ f.kind # "none" => Listed(k) = k.filtered
         /\ Listed(k).matches <=> f.kind \in {"exact", "pattern"}
         /\ Listed(k) \in KeySeqs /\ Listed(k).offset >= 0
         /\ ~Listed(k).matches => BrowseInv(o, Listed(k), k.errors, b)
         /\ Listed(k).matches => MatchInv(o, k.filtered, k.errors, f)
<1>1. ~(NoSeq.offset >= 0)
  BY DEF NoSeq
<1>2. f.kind # "none" => k.filtered.offset >= 0
  BY DEF FilteredInv, BrowseInv, MatchInv, Kinds
<1>3. Filtered(k) <=> f.kind # "none"
  BY <1>1, <1>2 DEF Filtered, FilteredInv
<1>4. CASE f.kind = "none"
  <2>1. Listed(k) = k.all
    BY <1>3, <1>4 DEF Listed
  <2> QED
    BY <1>3, <1>4, <2>1 DEF AllInv, BrowseInv, Snaps
<1>5. CASE f.kind = "range"
  <2>1. Listed(k) = k.filtered
    BY <1>3, <1>5 DEF Listed
  <2> QED
    BY <1>3, <1>5, <2>1 DEF FilteredInv, BrowseInv, Snaps
<1>6. CASE f.kind \in {"exact", "pattern"}
  <2>1. Listed(k) = k.filtered
    BY <1>3, <1>6 DEF Listed
  <2>2. MatchInv(o, k.filtered, k.errors, f) /\ k.filtered \in KeySeqs
    BY <1>6 DEF FilteredInv, Snaps
  <2> QED
    BY <1>3, <1>6, <2>1, <2>2 DEF MatchInv
<1> QED
  BY <1>4, <1>5, <1>6 DEF Kinds

\* Browsing on keeps the lists, and lets matches alone.
LEMMA BrowsedLists ==
  ASSUME NEW o \in Ops, NEW k \in Snaps, NEW f, f.kind \in Kinds, NEW b, NEW r \in Nat,
         AllInv(o, k, b), FilteredInv(o, k, f, b)
  PROVE  LET l == Browsed(o, k, b, r)
         IN  /\ AllInv(o, l, b) /\ FilteredInv(o, l, f, b)
             /\ k.errors \subseteq l.errors
             /\ f.kind \in {"exact", "pattern"} => l.filtered = k.filtered
<1> DEFINE seq == Listed(k)
           to == BrowseEnd(o, seq, b)
           l == Browsed(o, k, b, r)
           grown == Grown(o, seq, to, b)
           errs == Passed(o, seq, to, b)
<1>1. CASE Known(seq)
  BY <1>1 DEF Browsed
<1>2. CASE ~Known(seq)
  <2>1. ~seq.matches /\ seq.next # NoNext
    BY <1>2 DEF Known, Done
  <2>2. seq \in KeySeqs /\ BrowseInv(o, seq, k.errors, b) /\ f.kind \in {"none", "range"}
    BY <2>1, ListedKind DEF Kinds
  <2>3. seq.next \in 1 .. Len(Items[o]) + 1
    BY <2>1, <2>2, ItemsTyped DEF BrowseInv, NoNext
  <2> HIDE DEF seq
  <2>4. to \in seq.next .. Len(Items[o]) + 1
    BY <2>2, <2>3, BrowseEndForward
  <2> HIDE DEF to
  <2>5. BrowseInv(o, grown, k.errors \cup errs, b)
    BY <2>1, <2>2, <2>4, GrownInv
  <2>6. grown.start = seq.start /\ grown.stop = seq.stop
    BY <2>2 DEF Grown, KeySeqs
  <2> DEFINE w == WithSeq(k, grown)
             v == Note(w, errs)
             mine == InRange(o, seq, Between(o, seq.next, to, b))
  <2>7. l = [v EXCEPT !.rows = Loaded(@, mine, r)]
    BY <1>2 DEF Browsed, BrowsedTo, Grown, Passed, seq, to
  <2> HIDE DEF mine, grown, errs
  <2>8. /\ w.errors = k.errors
        /\ Filtered(k) => w.all = k.all /\ w.filtered = grown
        /\ ~Filtered(k) => w.all = grown /\ w.filtered = k.filtered
        /\ w = [all |-> w.all, filtered |-> w.filtered, rows |-> w.rows, errors |-> w.errors]
    BY DEF WithSeq, Snaps
  <2> HIDE DEF w
  <2>9. v.errors = k.errors \cup errs /\ v.all = w.all /\ v.filtered = w.filtered
        /\ v = [all |-> v.all, filtered |-> v.filtered, rows |-> v.rows, errors |-> v.errors]
    BY <2>8 DEF Note
  <2> HIDE DEF v, l
  <2>10. l.errors = k.errors \cup errs /\ l.all = w.all /\ l.filtered = w.filtered
    BY <2>7, <2>9
  <2>11. CASE f.kind = "none"
    <3>1. seq = k.all /\ l.all = grown /\ l.filtered = k.filtered
      BY <2>8, <2>10, <2>11, ListedKind DEF seq
    <3> QED
      BY <2>5, <2>6, <2>10, <2>11, <3>1 DEF AllInv, FilteredInv, l
  <2>12. CASE f.kind = "range"
    <3>1. seq = k.filtered /\ l.filtered = grown /\ l.all = k.all
      BY <2>8, <2>10, <2>12, ListedKind DEF seq
    <3>2. BrowseInv(o, l.all, l.errors, b)
      BY <2>10, <3>1, BrowseMore DEF AllInv, BrowseInv
    <3> QED
      BY <2>5, <2>6, <2>10, <2>12, <3>1, <3>2 DEF AllInv, FilteredInv, l
  <2> QED
    BY <2>2, <2>11, <2>12 DEF l
<1> QED
  BY <1>1, <1>2

\* At most one value per place.
LEMMA FewPlaces ==
  ASSUME NEW i \in Nat, NEW j \in Nat, j <= i, NEW pos, NEW Y,
         \A y \in Y : \E m \in j .. i - 1 : pos[m] = y
  PROVE  IsFiniteSet(Y) /\ Cardinality(Y) < i - j + 1
<1> DEFINE I == {m \in j .. i - 1 : pos[m] \in Y}
           f == [m \in I |-> pos[m]]
<1>1. IsFiniteSet(j .. i - 1) /\ Cardinality(j .. i - 1) = i - j
  <2>1. Cardinality(j .. i - 1) = IF j > i - 1 THEN 0 ELSE (i - 1) - j + 1
    BY FS_Interval
  <2> QED
    BY <2>1, FS_Interval
<1>2. I \in SUBSET (j .. i - 1)
  OBVIOUS
<1>3. IsFiniteSet(I) /\ Cardinality(I) <= i - j /\ Cardinality(I) \in Nat
  <2> HIDE DEF I
  <2> QED
    BY <1>1, <1>2, FS_Subset, FS_CardinalityType
<1>4. f \in Surjection(I, Y)
  BY DEF Surjection
<1> HIDE DEF I, f
<1>5. IsFiniteSet(Y) /\ Cardinality(Y) <= Cardinality(I) /\ Cardinality(Y) \in Nat
  BY <1>3, <1>4, FS_Surjection, FS_CardinalityType
<1> QED
  BY <1>3, <1>5

\* A page reads every key up to its last one, or reports its key-group.
LEMMA PageCovers ==
  ASSUME NEW o \in Ops, NEW from \in DOMAIN Items[o], NEW limit \in Int, limit >= 1, NEW b,
         NEW x \in DOMAIN Items[o], from <= x,
         Cardinality({y \in Readable(o, from, b) : y < x}) < limit
  PROVE  LET p == Page(o, from, limit, b)
         IN  x \in p.keys \/ GroupOf(o, x) \in p.errors
<1> DEFINE found == Readable(o, from, b)
           last == LastOfPage(o, found, limit)
           p == Page(o, from, limit, b)
           passed == {i \in Indices(o, from) : i <= last}
<1>1. found \subseteq DOMAIN Items[o]
  BY DEF Readable, Indices
<1>2. x <= last
  <2> HIDE DEF found
  <2> QED
    BY <1>1, PageLast DEF found
<1>3. p.keys = {i \in found : i <= last} /\ p.errors = Unreadable(o, passed, b)
  BY DEF Page, ReadTo
<1> HIDE DEF last, p
<1>4. x \in Indices(o, from) /\ x \in passed
  BY <1>2, ItemsTyped DEF Indices
<1>5. CASE <<o, GroupOf(o, x)>> \in b
  <2> HIDE DEF passed
  <2>1. Items[o][x].kg \in {Items[o][i].kg : i \in passed}
    BY <1>4
  <2> QED
    BY <1>3, <1>5, <2>1 DEF Unreadable, GroupOf, p
<1>6. CASE <<o, GroupOf(o, x)>> \notin b
  <2>1. x \in found
    BY <1>4, <1>6 DEF Readable, GroupOf
  <2> QED
    BY <1>2, <1>3, <2>1 DEF p
<1> QED
  BY <1>5, <1>6

\* What ensure_window relies on when it reads a run of the window with one page:
\* between two keys of a browsed list lie only listed keys and unreadable ones.
Fetchable(o, seq, b) ==
    /\ \A i \in 1 .. Len(seq.pos) : seq.pos[i] \in DOMAIN Items[o]
    /\ ~seq.matches =>
          \A i, j \in 1 .. Len(seq.pos) :
             i < j => /\ seq.pos[i] < seq.pos[j]
                      /\ \A x \in DOMAIN Items[o] :
                            /\ seq.pos[i] <= x /\ x < seq.pos[j]
                            /\ <<o, GroupOf(o, x)>> \notin b
                            => Lists(seq, x)

LEMMA ListsFetchable ==
  ASSUME NEW o \in Ops, NEW seq \in KeySeqs, NEW errs, NEW b, NEW f,
         ~seq.matches => BrowseInv(o, seq, errs, b),
         seq.matches => MatchInv(o, seq, errs, f)
  PROVE  Fetchable(o, seq, b)
<1>1. CASE seq.matches
  BY <1>1 DEF MatchInv, Fetchable, Hits
<1>2. CASE ~seq.matches
  <2>0. BrowseInv(o, seq, errs, b) /\ DOMAIN Items[o] \subseteq Nat
    BY <1>2, ItemsTyped
  <2>1. ASSUME NEW i \in 1 .. Len(seq.pos), NEW j \in 1 .. Len(seq.pos), i < j,
               NEW x \in DOMAIN Items[o], seq.pos[i] <= x, x < seq.pos[j],
               <<o, GroupOf(o, x)>> \notin b
        PROVE  Lists(seq, x)
    <3>1. /\ seq.pos[i] \in DOMAIN Items[o] /\ seq.pos[j] \in DOMAIN Items[o]
          /\ Before(seq.pos[j], seq.next) /\ seq.next \in Nat
          /\ GroupOf(o, seq.pos[i]) \in seq.start .. seq.stop
          /\ GroupOf(o, seq.pos[j]) \in seq.start .. seq.stop
          /\ seq.start \in Nat /\ seq.stop \in Nat
      BY <2>0 DEF BrowseInv, KeySeqs
    <3>2. Before(x, seq.next)
      BY <2>0, <2>1, <3>1 DEF Before
    <3>3. /\ GroupOf(o, seq.pos[i]) <= GroupOf(o, x) /\ GroupOf(o, x) <= GroupOf(o, seq.pos[j])
          /\ GroupOf(o, x) \in Nat
      <4> DEFINE p == seq.pos[i]
                 q == seq.pos[j]
      <4>1. p \in DOMAIN Items[o] /\ q \in DOMAIN Items[o] /\ p <= x /\ x < q
        BY <2>1, <3>1
      <4> HIDE DEF p, q
      <4>2. GroupOf(o, x) <= GroupOf(o, q) /\ GroupOf(o, x) \in Nat
        BY <4>1, GroupsGrow
      <4>3. GroupOf(o, p) <= GroupOf(o, x)
        <5>1. CASE p = x
          BY <4>2, <5>1
        <5>2. CASE p < x
          BY <4>1, <5>2, GroupsGrow
        <5> QED
          BY <2>0, <4>1, <5>1, <5>2
      <4> QED
        BY <4>2, <4>3 DEF p, q
    <3>4. GroupOf(o, x) \in seq.start .. seq.stop
      BY <3>1, <3>3
    <3> QED
      BY <2>0, <2>1, <3>2, <3>4 DEF BrowseInv
  <2> QED
    BY <1>2, <2>0, <2>1 DEF Fetchable, BrowseInv
<1> QED
  BY <1>1, <1>2

\* The page of the run a missing key of the window is in covers it.
LEMMA RunCovers ==
  ASSUME NEW o \in Ops, NEW seq \in KeySeqs, NEW b, Fetchable(o, seq, b),
         NEW missing, missing \subseteq 1 .. Len(seq.pos), NEW i \in missing
  PROVE  \E j \in missing :
            /\ StartsRun(seq, missing, j)
            /\ LET p == Page(o, seq.pos[j], RunFrom(seq, missing, j), b)
               IN  seq.pos[i] \in p.keys \/ GroupOf(o, seq.pos[i]) \in p.errors
<1> DEFINE n == Len(seq.pos)
<1>1. n \in Nat /\ DOMAIN Items[o] \subseteq Nat
  BY ItemsTyped DEF KeySeqs
<1>2. \A m \in 1 .. n : seq.pos[m] \in DOMAIN Items[o]
  BY DEF Fetchable
<1>3. CASE seq.matches
  <2>1. StartsRun(seq, missing, i) /\ RunFrom(seq, missing, i) = 1
    BY <1>3 DEF StartsRun, RunFrom
  <2> DEFINE x == seq.pos[i]
             Y == {y \in Readable(o, x, b) : y < x}
  <2>2. x \in DOMAIN Items[o] /\ x \in Nat
    BY <1>1, <1>2
  <2> HIDE DEF x
  <2>3. Y = {}
    <3>1. \A y \in Readable(o, x, b) : ~(y < x)
      BY <1>1, <2>2 DEF Readable, Indices
    <3> QED
      BY <3>1, Zenon
  <2>4. Cardinality(Y) < 1
    <3> HIDE DEF Y
    <3>1. Cardinality(Y) = 0
      BY <2>3, FS_EmptySet
    <3> QED
      BY <3>1
  <2>5. LET p == Page(o, x, 1, b) IN x \in p.keys \/ GroupOf(o, x) \in p.errors
    <3>1. 1 \in Int /\ 1 >= 1 /\ x <= x
      BY <2>2
    <3> QED
      BY <2>2, <2>4, <3>1, PageCovers
  <2> QED
    BY <2>1, <2>5 DEF x
<1>4. CASE ~seq.matches
  <2> DEFINE J == {j \in 1 .. i : \A m \in j .. i : m \in missing}
  <2>1. i \in 1 .. n /\ i \in J /\ J \subseteq Nat
    BY <1>1
  <2>2. PICK j \in J : \A m \in J : j <= m
    <3> HIDE DEF J
    <3> QED
      BY <2>1, LeastOf
  <2>3. j \in 1 .. i /\ j \in missing /\ \A m \in j .. i : m \in missing
    BY <2>1
  <2>4. j - 1 \notin missing
    <3> SUFFICES ASSUME j - 1 \in missing PROVE FALSE
      OBVIOUS
    <3>1. j - 1 \in 1 .. i
      BY <1>1, <2>1, <2>3
    <3>2. \A m \in j - 1 .. i : m = j - 1 \/ m \in j .. i
      BY <2>1, <2>3
    <3>3. j - 1 \in J
      BY <2>3, <3>1, <3>2
    <3>4. ~(j <= j - 1)
      BY <2>1, <2>3
    <3> HIDE DEF J
    <3> QED
      BY <2>2, <3>3, <3>4
  <2> HIDE DEF J
  <2> DEFINE R == {m \in (j + 1) .. (n + 1) : m \notin missing}
             e == Min(R)
             x == seq.pos[i]
             from == seq.pos[j]
             Y == {y \in Readable(o, from, b) : y < x}
  <2>5. R \subseteq Nat /\ n + 1 \in R /\ \A m \in R : m > i
    <3>1. n + 1 \notin missing /\ n + 1 \in (j + 1) .. (n + 1)
      BY <1>1, <2>1, <2>3
    <3>2. \A m \in (j + 1) .. (n + 1) : m \notin missing => m > i
      BY <1>1, <2>1, <2>3
    <3>3. \A m \in (j + 1) .. (n + 1) : m \in Nat
      BY <1>1, <2>1, <2>3
    <3> QED
      BY <3>1, <3>2, <3>3
  <2>6. e \in R /\ e > i /\ e \in Nat
    <3> HIDE DEF R
    <3>1. \E m \in R : \A l \in R : m <= l
      BY <2>5, LeastOf
    <3>2. e \in R
      BY <3>1 DEF Min
    <3> QED
      BY <2>5, <3>2
  <2>7. RunFrom(seq, missing, j) = e - j /\ StartsRun(seq, missing, j)
    BY <1>4, <2>4 DEF RunFrom, StartsRun
  <2> HIDE DEF R, e
  <2>8. e - j \in Int /\ e - j >= 1 /\ i - j + 1 <= e - j /\ i \in Nat /\ j \in Nat /\ j <= i
    BY <1>1, <2>1, <2>3, <2>6
  <2>9. x \in DOMAIN Items[o] /\ from \in DOMAIN Items[o] /\ x \in Nat /\ from \in Nat /\ from <= x
    <3>1. x \in DOMAIN Items[o] /\ from \in DOMAIN Items[o] /\ j \in 1 .. n /\ i \in 1 .. n
      BY <1>1, <1>2, <2>1, <2>3
    <3>2. CASE i = j
      BY <1>1, <3>1, <3>2
    <3>3. CASE j < i
      BY <1>1, <1>4, <3>1, <3>3 DEF Fetchable
    <3> QED
      BY <1>1, <2>8, <3>1, <3>2, <3>3
  <2>10. ASSUME NEW y \in Y PROVE \E m \in j .. i - 1 : seq.pos[m] = y
    <3>1. /\ y \in DOMAIN Items[o] /\ from <= y /\ y < x /\ <<o, GroupOf(o, y)>> \notin b
          /\ y \in Nat
      BY <1>1, <2>9 DEF Readable, Indices, GroupOf
    <3>2. j < i
      BY <2>8, <2>9, <3>1
    <3>3. i \in 1 .. n /\ j \in 1 .. n
      BY <1>1, <2>1, <2>3
    <3>4. PICK m \in 1 .. n : seq.pos[m] = y
      BY <1>4, <3>1, <3>2, <3>3 DEF Fetchable, Lists
    <3>5. ~(m < j) /\ ~(i < m) /\ m # i
      <4>1. m < j => seq.pos[m] < from
        BY <1>4, <3>3 DEF Fetchable
      <4>2. i < m => x < seq.pos[m]
        BY <1>4, <3>3 DEF Fetchable
      <4> QED
        BY <2>9, <3>1, <3>4, <4>1, <4>2
    <3>6. m \in j .. i - 1
      BY <1>1, <2>8, <3>5
    <3> QED
      BY <3>4, <3>6
  <2> HIDE DEF Y
  <2>11. Cardinality(Y) < i - j + 1 /\ Cardinality(Y) \in Nat
    <3> DEFINE q == seq.pos
    <3>1. \A y \in Y : \E m \in j .. i - 1 : q[m] = y
      BY <2>10
    <3> HIDE DEF q
    <3>2. IsFiniteSet(Y) /\ Cardinality(Y) < i - j + 1
      BY <2>8, <3>1, FewPlaces
    <3> QED
      BY <3>2, FS_CardinalityType
  <2>12. Cardinality(Y) < e - j
    BY <2>8, <2>11
  <2> HIDE DEF x, from
  <2>13. LET p == Page(o, from, e - j, b) IN x \in p.keys \/ GroupOf(o, x) \in p.errors
    BY <2>8, <2>9, <2>12, PageCovers DEF Y
  <2> QED
    BY <2>3, <2>7, <2>13 DEF x, from
<1> QED
  BY <1>3, <1>4

\* The window lies within the list.
LEMMA WindowWithin ==
  ASSUME NEW seq \in KeySeqs, seq.offset >= 0
  PROVE  \A i \in Window(seq) : /\ i \in 1 .. Len(seq.pos)
                                /\ i > seq.offset /\ i <= seq.offset + PageSize
<1> DEFINE n == Len(seq.pos)
           off == seq.offset
<1>1. n \in Nat /\ off \in Int /\ off >= 0 /\ PageSize \in Nat
  BY KeyWindowsAssumption DEF KeySeqs
<1>2. /\ WindowStart(seq) = IF off < n THEN off ELSE n
      /\ WindowEnd(seq) = IF WindowStart(seq) + PageSize < n THEN WindowStart(seq) + PageSize ELSE n
  BY DEF WindowStart, WindowEnd
<1> HIDE DEF n, off
<1>3. ASSUME NEW i \in Window(seq) PROVE i \in 1 .. n /\ i > off /\ i <= off + PageSize
  BY <1>1, <1>2 DEF Window
<1> QED
  BY <1>3 DEF n, off

\* Reading what the window lacks leaves the lists alone and loads the window.
LEMMA FillWindowLoads ==
  ASSUME NEW o \in Ops, NEW k \in Snaps, NEW b, NEW r \in Nat,
         Fetchable(o, Listed(k), b), Listed(k).offset >= 0
  PROVE  LET l == FillWindow(o, k, b, r)
         IN  /\ l.all = k.all /\ l.filtered = k.filtered /\ k.errors \subseteq l.errors
             /\ LoadedInv(o, l)
<1> DEFINE seq == Listed(k)
           missing == {i \in Window(seq) : seq.pos[i] \notin DOMAIN k.rows}
           pages == {Page(o, seq.pos[i], RunFrom(seq, missing, i), b) :
                        i \in {j \in missing : StartsRun(seq, missing, j)}}
           errs == UNION {p.errors : p \in pages}
           keys == UNION {p.keys : p \in pages}
           v == Note(k, errs)
           rows == Loaded(v.rows, keys, r)
           l == FillWindow(o, k, b, r)
<1>1. l = [v EXCEPT !.rows = rows]
  BY DEF FillWindow
<1>2. seq \in KeySeqs
  BY DEF Listed, Snaps
<1>3. missing \subseteq 1 .. Len(seq.pos)
  BY <1>2, WindowWithin
<1>4. ASSUME NEW i \in missing
      PROVE  seq.pos[i] \in keys \/ GroupOf(o, seq.pos[i]) \in errs
  <2> HIDE DEF missing, seq
  <2>1. PICK j \in missing :
            /\ StartsRun(seq, missing, j)
            /\ LET p == Page(o, seq.pos[j], RunFrom(seq, missing, j), b)
               IN  seq.pos[i] \in p.keys \/ GroupOf(o, seq.pos[i]) \in p.errors
    BY <1>2, <1>3, RunCovers DEF seq
  <2> DEFINE p == Page(o, seq.pos[j], RunFrom(seq, missing, j), b)
  <2>2. p \in pages
    BY <2>1
  <2>3. seq.pos[i] \in p.keys \/ GroupOf(o, seq.pos[i]) \in p.errors
    BY <2>1
  <2> HIDE DEF p, pages
  <2> QED
    BY <2>2, <2>3, Zenon
<1> HIDE DEF errs, keys, pages
<1>5. /\ v.all = k.all /\ v.filtered = k.filtered /\ v.errors = k.errors \cup errs /\ v.rows = k.rows
      /\ v = [all |-> v.all, filtered |-> v.filtered, rows |-> v.rows, errors |-> v.errors]
  BY SMTT(30) DEF Note, Snaps
<1> HIDE DEF v
<1>6. DOMAIN rows = DOMAIN k.rows \cup keys
  BY <1>5 DEF Loaded
<1> HIDE DEF rows, l
<1>7. /\ l.all = k.all /\ l.filtered = k.filtered /\ l.errors = k.errors \cup errs
      /\ l.rows = rows
  BY <1>1, <1>5
<1>8. Listed(l) = seq
  BY <1>7 DEF Listed, Filtered
<1>9. ASSUME NEW i \in Window(seq)
      PROVE  seq.pos[i] \in DOMAIN l.rows \/ GroupOf(o, seq.pos[i]) \in l.errors
  BY <1>4, <1>6, <1>7
<1> HIDE DEF seq
<1> QED
  BY <1>7, <1>8, <1>9 DEF LoadedInv, l

\* The rows of the window are kept.
LEMMA RetainLoads ==
  ASSUME NEW o \in Ops, NEW k \in Snaps, Listed(k).offset >= 0, LoadedInv(o, k)
  PROVE  LET l == Retain(k)
         IN  /\ l.all = k.all /\ l.filtered = k.filtered /\ l.errors = k.errors
             /\ LoadedInv(o, l)
<1> DEFINE l == Retain(k)
           seq == Listed(k)
           rows == [i \in DOMAIN k.rows \cap Kept(seq) |-> k.rows[i]]
<1>1. l = [k EXCEPT !.rows = rows]
  BY DEF Retain
<1>2. seq \in KeySeqs
  BY DEF Listed, Snaps
<1>3. DOMAIN rows = DOMAIN k.rows \cap Kept(seq)
  OBVIOUS
<1> HIDE DEF l, rows
<1>4. l.all = k.all /\ l.filtered = k.filtered /\ l.errors = k.errors /\ l.rows = rows
  BY <1>1 DEF Snaps
<1>5. Listed(l) = seq
  BY <1>4 DEF Listed, Filtered
<1>6. ASSUME NEW i \in Window(seq) PROVE seq.pos[i] \in Kept(seq)
  <2>1. i \in 1 .. Len(seq.pos) /\ i > seq.offset /\ i <= seq.offset + PageSize
    BY <1>2, WindowWithin
  <2>2. seq.pos \in Seq(Nat) /\ seq.offset \in Int /\ PageSize \in Nat
    BY <1>2, KeyWindowsAssumption DEF KeySeqs
  <2> HIDE DEF seq
  <2>3. i \in DOMAIN seq.pos /\ i > seq.offset - PageSize /\ i <= seq.offset + 2 * PageSize
    BY <2>1, <2>2
  <2> QED
    BY <2>3 DEF Kept, Wanted
<1>7. ASSUME NEW i \in Window(seq)
      PROVE  seq.pos[i] \in DOMAIN l.rows \/ GroupOf(o, seq.pos[i]) \in l.errors
  BY <1>3, <1>4, <1>6 DEF LoadedInv
<1> HIDE DEF seq
<1> QED
  BY <1>4, <1>5, <1>7 DEF LoadedInv, l

\* rebuild_flat_list keeps the lists and loads the windows of the operators it
\* prepares.
LEMMA RebuildData ==
  ASSUME NEW sn \in [Ops -> Snaps], NEW open \in SUBSET Ops, NEW r \in Nat,
         NEW f, f.kind \in Kinds, Rebuild(sn, open, r),
         \A o \in Ops : AllInv(o, sn[o], bad) /\ FilteredInv(o, sn[o], f, bad)
  PROVE  /\ \A o \in Ops : /\ AllInv(o, snap'[o], bad) /\ FilteredInv(o, snap'[o], f, bad)
                           /\ sn[o].errors \subseteq snap'[o].errors
                           /\ f.kind \in {"exact", "pattern"} =>
                                 snap'[o].filtered = sn[o].filtered
         /\ opened' \subseteq open
         /\ \A o \in open : LoadedInv(o, snap'[o])
<1> DEFINE A == [o \in Ops |-> IF o \in open THEN Browsed(o, sn[o], bad, r) ELSE sn[o]]
           B == [o \in Ops |-> IF o \in open THEN FillWindow(o, A[o], bad, r) ELSE A[o]]
           C == [o \in Ops |-> IF o \in open THEN Retain(B[o]) ELSE B[o]]
           Good(k, o) == AllInv(o, k, bad) /\ FilteredInv(o, k, f, bad)
           More(k, l) == /\ k.errors \subseteq l.errors
                         /\ f.kind \in {"exact", "pattern"} => l.filtered = k.filtered
<1>1. snap' = C /\ opened' \subseteq open
  BY DEF Rebuild, Staged
<1>2. ASSUME NEW o \in Ops PROVE A[o] \in Snaps /\ Good(A[o], o) /\ More(sn[o], A[o])
  <2>1. CASE o \in open
    <3>1. A[o] = Browsed(o, sn[o], bad, r)
      BY <2>1
    <3> HIDE DEF A
    <3> QED
      BY <3>1, BrowsedTyped, BrowsedLists
  <2>2. CASE o \notin open
    BY <2>2
  <2> QED
    BY <2>1, <2>2
<1> HIDE DEF A
<1>3. ASSUME NEW o \in Ops
      PROVE  /\ B[o] \in Snaps /\ Good(B[o], o) /\ More(A[o], B[o])
             /\ o \in open => LoadedInv(o, B[o])
  <2>1. CASE o \in open
    <3> DEFINE k == A[o]
               l == B[o]
    <3>1. l = FillWindow(o, k, bad, r)
      BY <2>1
    <3>2. k \in Snaps /\ Good(k, o)
      BY <1>2
    <3> HIDE DEF B, k, l
    <3>3. l \in Snaps
      BY <3>1, <3>2, FillWindowTyped
    <3>4. Listed(k) \in KeySeqs /\ Listed(k).offset >= 0 /\ Fetchable(o, Listed(k), bad)
      <4>1. /\ Listed(k) \in KeySeqs /\ Listed(k).offset >= 0
            /\ ~Listed(k).matches => BrowseInv(o, Listed(k), k.errors, bad)
            /\ Listed(k).matches => MatchInv(o, k.filtered, k.errors, f)
            /\ Listed(k).matches => Listed(k) = k.filtered
        BY <3>2, ListedKind
      <4> QED
        BY <4>1, ListsFetchable
    <3>5. l.all = k.all /\ l.filtered = k.filtered /\ k.errors \subseteq l.errors /\ LoadedInv(o, l)
      BY <3>1, <3>2, <3>4, FillWindowLoads
    <3>6. Good(l, o) /\ More(k, l)
      BY <3>2, <3>5, ListsMore
    <3> QED
      BY <3>3, <3>5, <3>6 DEF k, l
  <2>2. CASE o \notin open
    BY <1>2, <2>2
  <2> QED
    BY <2>1, <2>2
<1> HIDE DEF B
<1>4. ASSUME NEW o \in Ops
      PROVE  /\ Good(C[o], o) /\ More(B[o], C[o])
             /\ o \in open => LoadedInv(o, C[o])
  <2>1. CASE o \in open
    <3> DEFINE k == B[o]
               l == C[o]
    <3>1. l = Retain(k)
      BY <2>1
    <3>2. k \in Snaps /\ Good(k, o) /\ LoadedInv(o, k)
      BY <1>3, <2>1
    <3> HIDE DEF C, k, l
    <3>3. Listed(k).offset >= 0
      BY <3>2, ListedKind
    <3>4. l.all = k.all /\ l.filtered = k.filtered /\ l.errors = k.errors /\ LoadedInv(o, l)
      BY <3>1, <3>2, <3>3, RetainLoads
    <3>5. Good(l, o) /\ More(k, l)
      BY <3>2, <3>4, ListsMore
    <3> QED
      BY <3>4, <3>5 DEF k, l
  <2>2. CASE o \notin open
    BY <1>3, <2>2
  <2> QED
    BY <2>1, <2>2
<1> HIDE DEF C
<1>5. ASSUME NEW o \in Ops PROVE Good(C[o], o) /\ More(sn[o], C[o])
  BY <1>2, <1>3, <1>4
<1> QED
  BY <1>1, <1>4, <1>5

(***************************************************************************)
(* apply_filter.                                                           *)
(***************************************************************************)

\* The keys a filter is about, by its kind.
LEMMA HitsOf ==
  ASSUME NEW o \in Ops, NEW f, NEW x
  PROVE  /\ f.kind = "none" => (x \in Hits(o, f) <=> x \in DOMAIN Items[o])
         /\ f.kind = "range" => (x \in Hits(o, f) <=> /\ x \in DOMAIN Items[o]
                                                      /\ GroupOf(o, x) \in f.lo .. f.hi)
         /\ f.kind \in {"exact", "pattern"} =>
               (x \in Hits(o, f) <=> x \in DOMAIN Items[o] /\ Items[o][x].name \in f.names)
         /\ x \in Hits(o, f) => x \in DOMAIN Items[o]
BY DEF Hits, GroupOf

\* A list before anything was browsed.
LEMMA EmptyBrowse ==
  ASSUME NEW o \in Ops, NEW seq, seq.pos = <<>>, ~seq.matches, seq.offset >= 0,
         seq.next \in 1 .. Len(Items[o]) + 1, NEW errs, NEW b,
         \A x \in DOMAIN Items[o] : x < seq.next => GroupOf(o, x) \notin seq.start .. seq.stop
  PROVE  BrowseInv(o, seq, errs, b)
<1>1. seq.next \in 0 .. Len(Items[o]) + 1 /\ seq.next # NoNext
  BY ItemsTyped DEF NoNext
<1>2. 1 .. Len(seq.pos) = {}
  BY Z3
<1> QED
  BY <1>1, <1>2 DEF BrowseInv, Before

\* Seeking a key-group skips only keys of smaller ones.
LEMMA FirstFromSkips ==
  ASSUME NEW o \in Ops, NEW g \in Nat
  PROVE  /\ FirstFrom(o, g) \in 1 .. Len(Items[o]) + 1
         /\ \A x \in DOMAIN Items[o] : x < FirstFrom(o, g) => GroupOf(o, x) < g
<1> DEFINE L == Len(Items[o])
           S == {i \in DOMAIN Items[o] : Items[o][i].kg >= g} \cup {L + 1}
           first == FirstFrom(o, g)
<1>1. L \in Nat /\ DOMAIN Items[o] = 1 .. L
  BY ItemsTyped
<1>2. S \subseteq 1 .. L + 1 /\ S \subseteq Nat /\ S # {}
  BY <1>1
<1>3. first = Min(S)
  BY DEF FirstFrom
<1>4. \A x \in DOMAIN Items[o] : x \notin S => GroupOf(o, x) < g
  <2>1. \A x \in DOMAIN Items[o] : GroupOf(o, x) \in Nat
    BY GroupsGrow
  <2> QED
    BY <2>1 DEF GroupOf
<1> HIDE DEF S, first
<1>5. PICK z \in S : \A y \in S : z <= y
  BY <1>2, LeastOf
<1>6. first \in S /\ \A y \in S : first <= y
  BY <1>3, <1>5 DEF Min
<1>7. ASSUME NEW x \in DOMAIN Items[o], x < first PROVE GroupOf(o, x) < g
  <2>1. x \notin S
    BY <1>1, <1>2, <1>6, <1>7
  <2> QED
    BY <1>4, <2>1
<1> QED
  BY <1>2, <1>6, <1>7 DEF first, L

\* What a lookup says of a name: all keys that bear it, or that their key-group
\* cannot be read, unless it needs a scan.
LEMMA LookupFinds ==
  ASSUME NEW o \in Ops, NEW name, NEW b
  PROVE  LET got == Lookup(o, name, b)
         IN  /\ \A x \in got.keys : x \in DOMAIN Items[o] /\ Items[o][x].name = name
             /\ got.is # "needs_scan" =>
                   \A x \in DOMAIN Items[o] :
                      Items[o][x].name = name => x \in got.keys \/ GroupOf(o, x) \in got.errors
<1> DEFINE at == {i \in DOMAIN Items[o] : Items[o][i].name = name}
           got == Lookup(o, name, b)
<1>1. /\ o \notin Hashable => got.is = "needs_scan"
      /\ got.keys \in {{}, at}
      /\ o \in Hashable /\ at # {} /\ at \cap Readable(o, 1, b) # {} => got.keys = at
      /\ o \in Hashable /\ at # {} /\ at \cap Readable(o, 1, b) = {} =>
            got.errors = Unreadable(o, at, b)
  BY DEF Lookup
<1> HIDE DEF got
<1>2. ASSUME NEW x \in at, at \cap Readable(o, 1, b) = {}
      PROVE  GroupOf(o, x) \in Unreadable(o, at, b)
  <2>1. x \in Indices(o, 1)
    BY ItemsTyped DEF Indices
  <2>2. <<o, GroupOf(o, x)>> \in b
    BY <1>2, <2>1 DEF Readable, GroupOf
  <2> HIDE DEF at
  <2>3. Items[o][x].kg \in {Items[o][i].kg : i \in at}
    BY <1>2
  <2> QED
    BY <2>2, <2>3 DEF Unreadable, GroupOf
<1>3. \A x \in at : x \in DOMAIN Items[o] /\ Items[o][x].name = name
  OBVIOUS
<1>4. \A x \in DOMAIN Items[o] : Items[o][x].name = name => x \in at
  OBVIOUS
<1> HIDE DEF at
<1>5. ASSUME got.is # "needs_scan", NEW x \in DOMAIN Items[o], Items[o][x].name = name
      PROVE  x \in got.keys \/ GroupOf(o, x) \in got.errors
  BY <1>1, <1>2, <1>4, <1>5
<1> QED
  BY <1>1, <1>3, <1>5 DEF got

\* The filters there are.
LEMMA FilterFacts ==
  ASSUME NEW f \in Filters \cup {NoFilter}
  PROVE  /\ f \in FilterRecords /\ f.kind \in Kinds /\ f.lo \in Nat /\ f.hi \in Nat
         /\ f.names \in SUBSET STRING
         /\ f.kind = "exact" => f.names = {f.plain}
         /\ f.kind = "pattern" => f.plain \in f.names \cup {NoText}
<1>1. f \in FilterRecords
  BY TreeSearchAssumption, IdleTyped
<1>2. NoFilter.kind = "none"
  BY DEF NoFilter
<1>3. f.kind \in Kinds /\ f.lo \in Nat /\ f.hi \in Nat /\ f.names \in SUBSET STRING
  BY <1>1 DEF FilterRecords, Kinds
<1>4. f \in Filters => /\ f.kind = "exact" => f.names = {f.plain}
                       /\ f.kind = "pattern" => f.plain \in f.names \cup {NoText}
  BY TreeSearchAssumption
<1>5. f = NoFilter => f.kind # "exact" /\ f.kind # "pattern"
  BY <1>2
<1> QED
  BY <1>1, <1>3, <1>4, <1>5

\* Applying a filter sets up its list.
LEMMA FilteredByLists ==
  ASSUME NEW o \in Ops, NEW k \in Snaps, NEW f \in Filters \cup {NoFilter}, AllInv(o, k, bad)
  PROVE  LET l == FilteredBy(o, k, f)
         IN  /\ AllInv(o, l, bad) /\ FilteredInv(o, l, f, bad)
             /\ f.kind \in {"exact", "pattern"} =>
                   l.filtered.next = Start \/ l.filtered.next = NoNext
<1> DEFINE l == FilteredBy(o, k, f)
           plain == [k EXCEPT !.all.offset = 0, !.filtered = NoSeq]
           got == Lookup(o, f.plain, bad)
           from == IF f.lo \in Sought[o] THEN FirstFrom(o, f.lo) ELSE Start
           range == [Browse(from) EXCEPT !.start = f.lo, !.stop = f.hi]
           first == IF f.kind = "exact" /\ got.is # "needs_scan" THEN NoNext ELSE Start
           found == SetToSeq(got.keys)
           match == [Browse(first) EXCEPT !.matches = TRUE, !.pos = found]
           rows == Loaded(plain.rows, got.keys, rd)
           errs == plain.errors \cup IF f.kind = "exact" THEN got.errors ELSE {}
<1>1. f.kind \in Kinds /\ f.lo \in Nat /\ f.hi \in Nat
  BY FilterFacts
<1>2. /\ f.kind = "none" => l = plain
      /\ f.kind = "range" => l = [plain EXCEPT !.filtered = range]
      /\ f.kind \in {"exact", "pattern"} =>
            l = [plain EXCEPT !.filtered = match, !.rows = rows, !.errors = errs]
  BY <1>1 DEF FilteredBy, Kinds
<1>3. /\ plain.all.pos = k.all.pos /\ plain.all.next = k.all.next
      /\ plain.all.start = k.all.start /\ plain.all.stop = k.all.stop
      /\ plain.all.matches = k.all.matches /\ plain.all.offset = 0
      /\ plain.errors = k.errors /\ plain.filtered = NoSeq
      /\ plain = [all |-> plain.all, filtered |-> plain.filtered, rows |-> plain.rows,
                  errors |-> plain.errors]
  <2> DEFINE a == [k.all EXCEPT !.offset = 0]
  <2>1. k.all \in KeySeqs /\ k = [all |-> k.all, filtered |-> k.filtered, rows |-> k.rows,
                                 errors |-> k.errors]
    BY DEF Snaps
  <2>2. /\ a.pos = k.all.pos /\ a.next = k.all.next /\ a.start = k.all.start
        /\ a.stop = k.all.stop /\ a.matches = k.all.matches /\ a.offset = 0
    BY <2>1 DEF KeySeqs
  <2>3. plain = [k EXCEPT !.all = a, !.filtered = NoSeq]
    OBVIOUS
  <2> HIDE DEF a, plain
  <2>4. /\ plain.all = a /\ plain.errors = k.errors /\ plain.filtered = NoSeq
        /\ plain = [all |-> plain.all, filtered |-> plain.filtered, rows |-> plain.rows,
                    errors |-> plain.errors]
    BY <2>1, <2>3
  <2> QED
    BY <2>2, <2>4
<1>4. /\ range.pos = <<>> /\ range.next = from /\ range.start = f.lo /\ range.stop = f.hi
      /\ ~range.matches /\ range.offset = 0
  BY DEF Browse
<1>5. match.pos = found /\ match.next = first /\ match.matches /\ match.offset = 0
  BY DEF Browse
<1>6. errs = k.errors \cup IF f.kind = "exact" THEN got.errors ELSE {}
  BY <1>3
<1> HIDE DEF l, plain, got, from, range, first, found, match, rows, errs
<1>7. /\ l.all = plain.all
      /\ f.kind = "none" => l.filtered = NoSeq /\ l.errors = k.errors
      /\ f.kind = "range" => l.filtered = range /\ l.errors = k.errors
      /\ f.kind \in {"exact", "pattern"} => l.filtered = match /\ l.errors = errs
  BY <1>1, <1>2, <1>3 DEF Kinds
<1>8. k.errors \subseteq l.errors
  BY <1>1, <1>6, <1>7 DEF Kinds
<1>9. AllInv(o, l, bad)
  <2>1. BrowseInv(o, l.all, l.errors, bad)
    BY <1>3, <1>7, <1>8, BrowseMore DEF AllInv
  <2> QED
    BY <1>3, <1>7, <2>1 DEF AllInv
<1>10. ASSUME f.kind = "range" PROVE BrowseInv(o, range, l.errors, bad)
  <2>1. from \in 1 .. Len(Items[o]) + 1 /\ \A x \in DOMAIN Items[o] : x < from => GroupOf(o, x) < f.lo
    <3>1. Start \in 1 .. Len(Items[o]) + 1 /\ \A x \in DOMAIN Items[o] : ~(x < Start)
      BY ItemsTyped DEF Start
    <3> QED
      BY <1>1, <3>1, FirstFromSkips DEF from
  <2>2. \A x \in DOMAIN Items[o] : GroupOf(o, x) \in Nat
    BY GroupsGrow
  <2>3. \A x \in DOMAIN Items[o] : x < from => GroupOf(o, x) \notin f.lo .. f.hi
    BY <1>1, <2>1, <2>2
  <2> QED
    BY <1>4, <2>1, <2>3, EmptyBrowse
<1>11. ASSUME f.kind \in {"exact", "pattern"} PROVE MatchInv(o, match, errs, f)
  <2> DEFINE K == got.keys
  <2>1. IsFiniteSet(K) /\ found = SetToSeq(K)
    BY LookupTyped DEF got, found
  <2>2. \A x \in K : x \in DOMAIN Items[o] /\ Items[o][x].name = f.plain
    BY LookupFinds DEF got
  <2>3. ASSUME NEW x \in K PROVE x \in Hits(o, f)
    <3>1. x \in DOMAIN Items[o] /\ Items[o][x].name = f.plain /\ Items[o][x].name # NoText
      BY <2>2, TreeSearchAssumption
    <3>2. Items[o][x].name \in f.names
      BY <1>11, <3>1, FilterFacts
    <3> QED
      BY <1>11, <3>1, <3>2, HitsOf
  <2>4. ASSUME NEW x \in Hits(o, f), Before(x, first)
        PROVE  x \in K \/ GroupOf(o, x) \in errs
    <3>1. x \in DOMAIN Items[o] /\ Items[o][x].name \in f.names /\ x \in Nat /\ x >= 1
      BY <1>11, HitsOf, ItemsTyped
    <3>2. first = NoNext
      BY <2>4, <3>1 DEF Before, first, Start
    <3>3. f.kind = "exact" /\ got.is # "needs_scan"
      BY <3>2 DEF first, Start, NoNext
    <3>4. Items[o][x].name = f.plain
      BY <3>1, <3>3, FilterFacts
    <3>5. x \in got.keys \/ GroupOf(o, x) \in got.errors
      BY <3>1, <3>3, <3>4, LookupFinds DEF got
    <3> QED
      BY <1>6, <3>3, <3>5
  <2> HIDE DEF K
  <2>5. /\ found \in Seq(K)
        /\ \A i, j \in 1 .. Len(found) : found[i] = found[j] => i = j
        /\ \A x \in K : \E i \in 1 .. Len(found) : found[i] = x
    BY <2>1, SetAsSeq
  <2>6. \A i \in 1 .. Len(found) : found[i] \in K
    BY <2>5
  <2> QED
    BY <1>5, <2>3, <2>4, <2>5, <2>6 DEF MatchInv, Lists
<1>12. FilteredInv(o, l, f, bad)
  BY <1>4, <1>7, <1>10, <1>11 DEF FilteredInv
<1>13. f.kind \in {"exact", "pattern"} => l.filtered.next = Start \/ l.filtered.next = NoNext
  BY <1>5, <1>7 DEF first
<1> QED
  BY <1>9, <1>12, <1>13 DEF l

(***************************************************************************)
(* The steps keep what the lists hold.                                     *)
(***************************************************************************)

LEMMA InitData == Init => DataInv
<1> SUFFICES ASSUME Init PROVE DataInv
  OBVIOUS
<1>1. IInv
  BY InitIInv
<1>2. ui = Idle /\ ui.at = "idle"
  BY IdleTyped DEF Init
<1>3. ASSUME NEW o \in Ops PROVE AllInv(o, snap[o], bad) /\ FilteredInv(o, snap[o], filter, bad)
  <2>1. snap[o] = Snapshot
    BY DEF Init
  <2>2. Snapshot.all = Browse(Start) /\ Snapshot.filtered = NoSeq
    BY DEF Snapshot
  <2> DEFINE seq == Browse(Start)
  <2>3. /\ seq.pos = <<>> /\ ~seq.matches /\ seq.offset = 0 /\ seq.next = 1
        /\ seq.start = 0 /\ seq.stop = AnyGroup
    BY DEF Browse, Start
  <2> HIDE DEF seq
  <2>4. 1 \in 1 .. Len(Items[o]) + 1 /\ \A x \in DOMAIN Items[o] : ~(x < 1)
    BY ItemsTyped
  <2>5. BrowseInv(o, seq, Snapshot.errors, bad)
    BY <2>3, <2>4, EmptyBrowse
  <2>6. filter.kind = "none"
    BY DEF Init, NoFilter
  <2> QED
    BY <2>1, <2>2, <2>3, <2>5, <2>6 DEF AllInv, FilteredInv, seq
<1>4. ListsInv
  BY <1>2, <1>3 DEF ListsInv, Init
<1>5. ReportsInv
  <2>1. Len(chan) = 0 /\ worker.pc = "ended"
    BY EndedTyped DEF Init
  <2> QED
    BY <2>1 DEF ReportsInv
<1> QED
  BY <1>4, <1>5 DEF DataInv, WindowInv, Init

\* A step that ends with rebuild_flat_list.
LEMMA RebuildStep ==
  ASSUME NEW sn \in [Ops -> Snaps], NEW open \in SUBSET Ops, NEW r \in Nat,
         Rebuild(sn, open, r), filter' \in Filters \cup {NoFilter}, bad' = bad, ui'.at # "join",
         \A o \in Ops : AllInv(o, sn[o], bad) /\ FilteredInv(o, sn[o], filter', bad)
  PROVE  /\ ListsInv' /\ WindowInv'
         /\ \A o \in Ops : /\ sn[o].errors \subseteq snap'[o].errors
                           /\ filter'.kind \in {"exact", "pattern"} =>
                                 snap'[o].filtered = sn[o].filtered
<1>1. filter'.kind \in Kinds
  BY FilterFacts
<1>2. /\ \A o \in Ops : /\ AllInv(o, snap'[o], bad) /\ FilteredInv(o, snap'[o], filter', bad)
                        /\ sn[o].errors \subseteq snap'[o].errors
                        /\ filter'.kind \in {"exact", "pattern"} =>
                              snap'[o].filtered = sn[o].filtered
      /\ opened' \subseteq open
      /\ \A o \in open : LoadedInv(o, snap'[o])
  BY <1>1, RebuildData
<1>3. ListsInv'
  <2>1. opened' \subseteq Ops
    BY <1>2
  <2>2. \A o \in Ops : AllInv(o, snap'[o], bad') /\ FilteredInv(o, snap'[o], filter', bad')
    BY <1>2
  <2> QED
    BY <2>1, <2>2 DEF ListsInv
<1>4. WindowInv'
  BY <1>2 DEF WindowInv
<1> QED
  BY <1>2, <1>3, <1>4

LEMMA ReportTyped ==
  ASSUME chan \in Seq(Reports), NEW j \in 1 .. Len(chan)
  PROVE  /\ chan[j] \in Reports /\ chan[j].op \in Ops /\ chan[j].keys \in SUBSET Keys
         /\ chan[j].errors \in SUBSET Nat
<1>1. chan[j] \in Reports
  OBVIOUS
<1> QED
  BY <1>1 DEF Reports

\* Reports stay right while the lists only grow.
LEMMA ReportsKept ==
  ASSUME IInv, ReportsInv, filter' = filter, chan' = chan, worker' = worker,
         Watching' => Watching,
         \A o \in Ops : /\ snap[o].errors \subseteq snap'[o].errors
                        /\ filter.kind \in {"exact", "pattern"} =>
                              snap'[o].filtered.pos = snap[o].filtered.pos
  PROVE  ReportsInv'
<1> SUFFICES ASSUME Watching
             PROVE  /\ \A j \in 1 .. Len(chan) : ReportOk(snap', chan, filter, j)
                    /\ worker.pc # "ended" => WorkerOk(snap', chan, filter, worker)
  BY DEF ReportsInv
<1>1. ASSUME NEW o \in Ops, NEW x, NEW n, filter.kind \in {"exact", "pattern"},
             Told(snap[o], chan, o, x, n)
      PROVE  Told(snap'[o], chan, o, x, n)
  BY <1>1 DEF Told, Lists
<1>2. ASSUME NEW j \in 1 .. Len(chan) PROVE ReportOk(snap', chan, filter, j)
  <2>1. chan[j].op \in Ops
    BY ReportTyped DEF IInv, TypeInv
  <2>2. ReportOk(snap, chan, filter, j)
    BY DEF ReportsInv
  <2> QED
    BY <1>1, <2>1, <2>2 DEF ReportOk
<1>3. ASSUME worker.pc # "ended" PROVE WorkerOk(snap', chan, filter, worker)
  <2>1. worker.targets[1] \in Ops
    <3>1. worker.targets \in Seq(Ops) /\ worker.targets # <<>>
      BY <1>3 DEF IInv, TypeInv, Workers, FlowInv, WorkerInv
    <3> QED
      BY <3>1
  <2>2. WorkerOk(snap, chan, filter, worker)
    BY <1>3 DEF ReportsInv
  <2> QED
    BY <1>1, <2>1, <2>2 DEF WorkerOk
<1> QED
  BY <1>2, <1>3

\* The state of an event loop that is not about to replace the list of matches.
LEMMA IdleLists ==
  ASSUME IInv, DataInv, ui.at # "join"
  PROVE  /\ snap \in [Ops -> Snaps] /\ rd \in Nat /\ opened \in SUBSET Ops
         /\ filter \in Filters \cup {NoFilter} /\ filter.kind \in Kinds
         /\ \A o \in Ops : AllInv(o, snap[o], bad) /\ FilteredInv(o, snap[o], filter, bad)
         /\ ReportsInv
BY FilterFacts DEF IInv, TypeInv, DataInv, ListsInv

LEMMA ToggleData ==
  ASSUME IInv, DataInv, NEW o \in Ops, Toggle(o)
  PROVE  DataInv'
<1> DEFINE open == IF o \in opened THEN opened \ {o} ELSE opened \cup {o}
<1>1. /\ ui = Idle /\ Rebuild(snap, open, rd)
      /\ bad' = bad /\ filter' = filter /\ UNCHANGED <<chan, worker>> /\ ui' = ui
  BY DEF Toggle, thread
<1>2. ui.at = "idle" /\ ui.at # "join"
  BY <1>1, IdleTyped
<1>3. open \in SUBSET Ops
  BY <1>2, IdleLists
<1> HIDE DEF open
<1>4. /\ ListsInv' /\ WindowInv'
      /\ \A p \in Ops : /\ snap[p].errors \subseteq snap'[p].errors
                        /\ filter.kind \in {"exact", "pattern"} =>
                              snap'[p].filtered = snap[p].filtered
  BY <1>1, <1>2, <1>3, IdleLists, RebuildStep
<1>5. ReportsInv'
  <2>1. Watching' => Watching
    BY <1>1 DEF Watching
  <2> QED
    BY <1>1, <1>2, <1>4, <2>1, IdleLists, ReportsKept
<1> QED
  BY <1>4, <1>5 DEF DataInv

LEMMA SelectProfileData == IInv /\ DataInv /\ SelectProfile => DataInv'
<1> SUFFICES ASSUME IInv, DataInv, SelectProfile PROVE DataInv'
  OBVIOUS
<1> DEFINE sn == [o \in Ops |-> [snap[o] EXCEPT !.rows = << >>]]
<1>1. /\ ui = Idle /\ Rebuild(sn, opened, rd') /\ rd' = rd + 1
      /\ bad' = bad /\ filter' = filter /\ UNCHANGED <<chan, worker>> /\ ui' = ui
  BY DEF SelectProfile, thread
<1>2. ui.at = "idle" /\ ui.at # "join"
  BY <1>1, IdleTyped
<1>3. rd' \in Nat
  BY <1>1, <1>2, IdleLists
<1>4. ASSUME NEW o \in Ops
      PROVE  /\ sn[o] \in Snaps /\ sn[o].all = snap[o].all /\ sn[o].filtered = snap[o].filtered
             /\ sn[o].errors = snap[o].errors
  <2> DEFINE k == snap[o]
             l == [k EXCEPT !.rows = << >>]
  <2>1. k \in Snaps /\ sn[o] = l
    BY <1>2, IdleLists
  <2> HIDE DEF k, sn
  <2>2. << >> \in RowMaps
    <3>1. << >> \in [{} -> Nat]
      OBVIOUS
    <3> QED
      BY <3>1 DEF RowMaps
  <2>3. l \in Snaps /\ l.all = k.all /\ l.filtered = k.filtered /\ l.errors = k.errors
    BY <2>1, <2>2 DEF Snaps
  <2> QED
    BY <2>1, <2>3 DEF k
<1>5. sn \in [Ops -> Snaps]
  BY <1>4
<1> HIDE DEF sn
<1>6. \A o \in Ops : AllInv(o, sn[o], bad) /\ FilteredInv(o, sn[o], filter, bad)
  BY <1>2, <1>4, IdleLists, ListsMore
<1>7. /\ ListsInv' /\ WindowInv'
      /\ \A p \in Ops : /\ sn[p].errors \subseteq snap'[p].errors
                        /\ filter.kind \in {"exact", "pattern"} =>
                              snap'[p].filtered = sn[p].filtered
  BY <1>1, <1>2, <1>3, <1>5, <1>6, IdleLists, RebuildStep
<1>8. ReportsInv'
  <2>1. Watching' => Watching
    BY <1>1 DEF Watching
  <2> QED
    BY <1>1, <1>2, <1>4, <1>7, <2>1, IdleLists, ReportsKept
<1> QED
  BY <1>7, <1>8 DEF DataInv

LEMMA ScrollData ==
  ASSUME IInv, DataInv, NEW o \in Ops, NEW forward \in BOOLEAN, NEW n \in 1 .. MaxScroll,
         Scroll(o, forward, n)
  PROVE  DataInv'
<1> DEFINE k == snap[o]
           seq == Listed(k)
           s == Scrolled(seq, forward, n)
           l == WithSeq(k, s)
           sn == [snap EXCEPT ![o] = l]
<1>1. /\ ui = Idle /\ Rebuild(sn, opened, rd)
      /\ bad' = bad /\ filter' = filter /\ UNCHANGED <<chan, worker>> /\ ui' = ui
  BY DEF Scroll, thread
<1>2. ui.at = "idle" /\ ui.at # "join"
  BY <1>1, IdleTyped
<1>3. k \in Snaps /\ AllInv(o, k, bad) /\ FilteredInv(o, k, filter, bad) /\ filter.kind \in Kinds
  BY <1>2, IdleLists
<1> HIDE DEF k
<1>4. /\ Filtered(k) <=> filter.kind # "none"
      /\ filter.kind = "none" => seq = k.all
      /\ filter.kind # "none" => seq = k.filtered
      /\ seq \in KeySeqs /\ seq.offset >= 0
  BY <1>3, ListedKind
<1> HIDE DEF seq
<1>5. /\ s \in KeySeqs /\ s.offset >= 0 /\ s.pos = seq.pos /\ s.next = seq.next
      /\ s.start = seq.start /\ s.stop = seq.stop /\ s.matches = seq.matches
  <2> DEFINE fits == Len(seq.pos) - PageSize
             to == IF seq.offset + n < fits THEN seq.offset + n ELSE fits
             off == IF forward THEN IF to > seq.offset THEN to ELSE seq.offset
                    ELSE IF seq.offset > n THEN seq.offset - n ELSE 0
  <2>1. seq.pos \in Seq(Nat) /\ seq.offset \in Int
    BY <1>4 DEF KeySeqs
  <2>2. Len(seq.pos) \in Nat /\ PageSize \in Nat
    BY <2>1, KeyWindowsAssumption
  <2>3. off \in Int /\ off >= 0
    BY <1>4, <2>1, <2>2
  <2>4. s = [seq EXCEPT !.offset = off]
    BY DEF Scrolled
  <2> HIDE DEF off, s
  <2> QED
    BY <1>4, <2>3, <2>4 DEF KeySeqs
<1> HIDE DEF s
<1>6. /\ l \in Snaps /\ l.errors = k.errors
      /\ filter.kind = "none" => l.all = s /\ l.filtered = k.filtered
      /\ filter.kind # "none" => l.all = k.all /\ l.filtered = s
  BY <1>3, <1>4, <1>5 DEF WithSeq, Snaps
<1> HIDE DEF l
<1>7. AllInv(o, l, bad) /\ FilteredInv(o, l, filter, bad)
  <2>1. CASE filter.kind = "none"
    <3>1. BrowseInv(o, l.all, l.errors, bad)
      BY <1>3, <1>4, <1>5, <1>6, <2>1, BrowseMore DEF AllInv
    <3> QED
      BY <1>3, <1>4, <1>5, <1>6, <2>1, <3>1 DEF AllInv, FilteredInv
  <2>2. CASE filter.kind = "range"
    <3>1. BrowseInv(o, l.filtered, l.errors, bad)
      BY <1>3, <1>4, <1>5, <1>6, <2>2, BrowseMore DEF FilteredInv
    <3> QED
      BY <1>3, <1>4, <1>5, <1>6, <2>2, <3>1 DEF AllInv, FilteredInv
  <2>3. CASE filter.kind \in {"exact", "pattern"}
    <3>1. MatchInv(o, l.filtered, l.errors, filter)
      BY <1>3, <1>4, <1>5, <1>6, <2>3, MatchMore DEF FilteredInv
    <3> QED
      BY <1>3, <1>4, <1>5, <1>6, <2>3, <3>1 DEF AllInv, FilteredInv
  <2> QED
    BY <1>3, <2>1, <2>2, <2>3 DEF Kinds
<1>8. /\ sn \in [Ops -> Snaps]
      /\ sn[o] = l /\ \A p \in Ops : p # o => sn[p] = snap[p]
  BY <1>2, <1>6, IdleLists
<1> HIDE DEF sn
<1>9. \A p \in Ops : AllInv(p, sn[p], bad) /\ FilteredInv(p, sn[p], filter, bad)
  BY <1>2, <1>7, <1>8, IdleLists
<1>10. /\ ListsInv' /\ WindowInv'
       /\ \A p \in Ops : /\ sn[p].errors \subseteq snap'[p].errors
                         /\ filter.kind \in {"exact", "pattern"} =>
                               snap'[p].filtered = sn[p].filtered
  BY <1>1, <1>2, <1>8, <1>9, IdleLists, RebuildStep
<1>11. ReportsInv'
  <2>1. \A p \in Ops : /\ snap[p].errors \subseteq snap'[p].errors
                       /\ filter.kind \in {"exact", "pattern"} =>
                             snap'[p].filtered.pos = snap[p].filtered.pos
    BY <1>4, <1>5, <1>6, <1>8, <1>10 DEF k
  <2>2. Watching' => Watching
    BY <1>1 DEF Watching
  <2>3. IInv /\ ReportsInv /\ filter' = filter /\ chan' = chan /\ worker' = worker
    BY <1>1 DEF DataInv
  <2> QED
    BY <2>1, <2>2, <2>3, ReportsKept
<1> QED
  BY <1>10, <1>11 DEF DataInv

LEMMA ApplyData ==
  ASSUME IInv, DataInv, NEW f \in Filters \cup {NoFilter}, Apply(f)
  PROVE  DataInv'
<1>1. /\ ui' = [at |-> "join", then |-> f, ended |-> FALSE] /\ filter' = f
      /\ UNCHANGED <<snap, opened, bad>>
  BY DEF Apply
<1>2. ui'.at = "join" /\ ui'.then = f
  BY <1>1
<1>3. ListsInv'
  BY <1>1, <1>2 DEF DataInv, ListsInv
<1>4. ReportsInv' /\ WindowInv'
  BY <1>1, <1>2 DEF DataInv, ReportsInv, WindowInv, Watching
<1> QED
  BY <1>3, <1>4 DEF DataInv

LEMMA CancelSearchData == IInv /\ DataInv /\ CancelSearch => DataInv'
<1> SUFFICES ASSUME IInv, DataInv, CancelSearch PROVE DataInv'
  OBVIOUS
<1>1. /\ ui = Idle /\ ui' = [at |-> "joinonly", then |-> NoFilter, ended |-> FALSE]
      /\ UNCHANGED <<snap, opened, bad, filter>>
  BY DEF CancelSearch
<1>2. ui'.at = "joinonly" /\ ui.at = "idle"
  BY <1>1, IdleTyped
<1>3. ListsInv'
  BY <1>1, <1>2 DEF DataInv, ListsInv
<1>4. ReportsInv' /\ WindowInv'
  BY <1>1, <1>2 DEF DataInv, ReportsInv, WindowInv, Watching
<1> QED
  BY <1>3, <1>4 DEF DataInv

LEMMA JoinReceiveData == IInv /\ DataInv /\ JoinReceive => DataInv'
<1> SUFFICES ASSUME IInv, DataInv, JoinReceive PROVE DataInv'
  OBVIOUS
<1>1. ui.at \in {"join", "joinonly"} /\ UNCHANGED <<snap, opened, bad, filter, ui>>
  BY DEF JoinReceive, Joining, loop
<1>2. ListsInv' /\ WindowInv'
  BY <1>1 DEF DataInv, ListsInv, WindowInv
<1>3. ReportsInv'
  BY <1>1 DEF ReportsInv, Watching
<1> QED
  BY <1>2, <1>3 DEF DataInv

LEMMA PollCheckData == IInv /\ DataInv /\ PollCheck => DataInv'
<1> SUFFICES ASSUME IInv, DataInv, PollCheck PROVE DataInv'
  OBVIOUS
<1> DEFINE e == worker.pc = "ended"
<1>1. /\ ui = Idle /\ ui' = [at |-> "poll", then |-> NoFilter, ended |-> e]
      /\ UNCHANGED <<snap, opened, bad, filter, worker, chan>>
  BY DEF PollCheck, thread
<1>2. ui'.at = "poll" /\ ui.at = "idle"
  BY <1>1, IdleTyped
<1>3. ListsInv' /\ WindowInv'
  BY <1>1, <1>2 DEF DataInv, ListsInv, WindowInv
<1>4. ReportsInv'
  BY <1>1, <1>2 DEF DataInv, ReportsInv, Watching
<1> QED
  BY <1>3, <1>4 DEF DataInv

\* Losing key-groups, and stuttering.
LEMMA LoseData ==
  ASSUME IInv, DataInv, UNCHANGED <<loop, thread>>, bad \subseteq bad'
  PROVE  DataInv'
<1>1. UNCHANGED <<snap, opened, filter, ui, worker, chan>>
  BY DEF loop, thread
<1>2. \A o \in Ops : /\ AllInv(o, snap[o], bad')
                     /\ ui.at # "join" => FilteredInv(o, snap[o], filter, bad')
  BY ListsMore DEF DataInv, ListsInv
<1>3. ListsInv'
  BY <1>1, <1>2 DEF DataInv, ListsInv
<1>4. ReportsInv' /\ WindowInv'
  BY <1>1 DEF DataInv, ReportsInv, WindowInv, Watching
<1> QED
  BY <1>3, <1>4 DEF DataInv

\* A search starts with nothing behind it.
LEMMA StartSearchData ==
  ASSUME NEW f \in Filters \cup {NoFilter}, rd \in Nat, StartSearch(f), filter' = f
  PROVE  ReportsInv'
<1>1. f \in FilterRecords /\ f.kind \in Kinds
  BY FilterFacts
<1>2. chan' = <<>> /\ Len(chan') = 0
  BY <1>1, StartSearchFacts
<1>3. worker'.pc # "ended" => WorkerOk(snap', chan', f, worker')
  <2> SUFFICES ASSUME worker'.pc # "ended" PROVE WorkerOk(snap', chan', f, worker')
    OBVIOUS
  <2>1. queue' # {} /\ queue' = ToSearch(f)
    BY EndedTyped DEF StartSearch
  <2>2. f.kind \in {"exact", "pattern"}
    BY <1>1, <2>1 DEF ToSearch, Kinds
  <2> DEFINE w == [Ended EXCEPT !.pc = "scan", !.rd = rd, !.names = f.names,
                                !.targets = InOrder(queue'), !.cur = Start]
  <2>3. worker' = w
    BY <2>1 DEF StartSearch
  <2>4. w.names = f.names /\ w.found = {} /\ w.cur = Start
    BY DEF Ended
  <2> HIDE DEF w
  <2>5. /\ worker' \in Workers /\ worker'.targets \in Seq(Ops) /\ worker'.targets # <<>>
    BY <1>1, StartSearchFacts DEF Workers, WorkerInv
  <2>6. worker'.targets[1] \in Ops
    BY <2>5
  <2>7. \A x \in Hits(worker'.targets[1], f) : ~Before(x, Start)
    BY <2>6, HitsOf, ItemsTyped DEF Before, Start, NoNext
  <2> QED
    BY <2>2, <2>3, <2>4, <2>7 DEF WorkerOk
<1> QED
  BY <1>2, <1>3 DEF ReportsInv

LEMMA JoinEndData == IInv /\ DataInv /\ JoinEnd => DataInv'
<1> SUFFICES ASSUME IInv, DataInv, JoinEnd PROVE DataInv'
  OBVIOUS
<1>1. /\ worker.pc = "ended" /\ ui' = Idle /\ rd' = rd /\ bad' = bad /\ filter' = filter
      /\ snap \in [Ops -> Snaps] /\ rd \in Nat /\ opened \in SUBSET Ops
      /\ filter \in Filters \cup {NoFilter}
  BY DEF JoinEnd, IInv, TypeInv, DataInv, ListsInv
<1>2. ui'.at = "idle" /\ ui'.at # "join"
  BY <1>1, IdleTyped
<1>3. CASE /\ ui.at = "join" /\ StartSearch(ui.then)
           /\ Rebuild([o \in Ops |-> FilteredBy(o, snap[o], ui.then)], opened, rd)
  <2> DEFINE f == filter
             sn == [o \in Ops |-> FilteredBy(o, snap[o], f)]
  <2>1. ui.then = f /\ f \in FilterRecords
    BY <1>1, <1>3, FilterFacts DEF DataInv, ListsInv
  <2>2. StartSearch(f) /\ Rebuild(sn, opened, rd)
    BY <1>3, <2>1
  <2>3. ASSUME NEW o \in Ops
        PROVE  sn[o] \in Snaps /\ AllInv(o, sn[o], bad) /\ FilteredInv(o, sn[o], f, bad)
    <3>1. snap[o] \in Snaps /\ AllInv(o, snap[o], bad)
      BY <1>1 DEF DataInv, ListsInv
    <3> HIDE DEF f
    <3> QED
      BY <1>1, <2>1, <3>1, FilteredByTyped, FilteredByLists DEF f
  <2>4. sn \in [Ops -> Snaps]
    BY <2>3
  <2> HIDE DEF sn
  <2>5. ListsInv' /\ WindowInv'
    BY <1>1, <1>2, <2>2, <2>3, <2>4, RebuildStep
  <2>6. ReportsInv'
    BY <1>1, <2>2, StartSearchData
  <2> QED
    BY <2>5, <2>6 DEF DataInv
<1>4. CASE /\ ui.at = "joinonly" /\ chan' = <<>> /\ Rebuild(snap, opened, rd)
           /\ UNCHANGED <<queue, worker, cancel, stopped>>
  <2>1. \A o \in Ops : AllInv(o, snap[o], bad) /\ FilteredInv(o, snap[o], filter, bad)
    BY <1>4, IdleLists
  <2>2. ListsInv' /\ WindowInv'
    BY <1>1, <1>2, <1>4, <2>1, RebuildStep
  <2>3. ReportsInv'
    BY <1>1, <1>4 DEF ReportsInv
  <2> QED
    BY <2>2, <2>3 DEF DataInv
<1> QED
  BY <1>3, <1>4 DEF JoinEnd

\* Scanning a block passes no match: it finds the key, or reports its key-group.
LEMMA BlockCovers ==
  ASSUME NEW o \in Ops, NEW cur \in Nat, NEW names, NEW b
  PROVE  LET page == ScanBlock(o, cur, names, b)
         IN  /\ \A x \in page.keys : x \in DOMAIN Items[o] /\ Items[o][x].name \in names
             /\ \A x \in DOMAIN Items[o] :
                   cur <= x /\ Before(x, page.next) /\ Items[o][x].name \in names =>
                      x \in page.keys \/ GroupOf(o, x) \in page.errors
<1> DEFINE L == Len(Items[o])
           found == Readable(o, cur, b)
           last == LastOfBlock(o, found)
           whole == ReadTo(o, cur, last, b)
           page == ScanBlock(o, cur, names, b)
           passed == {i \in Indices(o, cur) : i <= last}
<1>1. L \in Nat /\ DOMAIN Items[o] = 1 .. L
  BY ItemsTyped
<1>2. page = [whole EXCEPT !.keys = {i \in whole.keys : Items[o][i].name \in names}]
  BY DEF ScanBlock, Matching
<1>3. /\ page.keys = {i \in found : i <= last /\ Items[o][i].name \in names}
      /\ page.next = AtOrEnd(o, last + 1)
      /\ page.errors = Unreadable(o, passed, b)
  BY <1>2 DEF ReadTo
<1>4. found \subseteq DOMAIN Items[o]
  BY DEF Readable, Indices
<1>5. last \in 0 .. L
  <2> HIDE DEF found
  <2>1. CASE found = {}
    BY <1>1, <2>1 DEF LastOfBlock
  <2>2. CASE found # {}
    <3> DEFINE m == Min(found)
               B == {i \in DOMAIN Items[o] : Items[o][i].kg = Items[o][m].kg}
    <3>1. found \subseteq Nat
      BY <1>1, <1>4
    <3>2. PICK x \in found : \A y \in found : x <= y
      BY <2>2, <3>1, LeastOf
    <3>3. m \in found
      BY <3>2 DEF Min
    <3>4. last = Max(B)
      BY <2>2 DEF LastOfBlock
    <3> HIDE DEF m
    <3>5. m \in B /\ B \subseteq DOMAIN Items[o]
      BY <1>4, <3>3
    <3> HIDE DEF B
    <3>6. B \subseteq Nat /\ B # {} /\ \A i \in B : i <= L
      BY <1>1, <3>5
    <3>7. Max(B) \in B
      BY <1>1, <3>6, MaxOfBounded
    <3> HIDE DEF last
    <3> QED
      BY <1>1, <3>4, <3>5, <3>7
  <2> QED
    BY <2>1, <2>2
<1> HIDE DEF last, page
<1>6. ASSUME NEW x \in DOMAIN Items[o], cur <= x, Before(x, page.next), Items[o][x].name \in names
      PROVE  x \in page.keys \/ GroupOf(o, x) \in page.errors
  <2>1. x <= last
    <3>1. CASE last + 1 \in DOMAIN Items[o]
      <4>1. page.next = last + 1 /\ page.next # NoNext
        BY <1>3, <1>5, <3>1 DEF AtOrEnd, NoNext
      <4> QED
        BY <1>1, <1>5, <1>6, <4>1 DEF Before
    <3>2. CASE last + 1 \notin DOMAIN Items[o]
      BY <1>1, <1>5, <3>2
    <3> QED
      BY <3>1, <3>2
  <2>2. x \in Indices(o, cur) /\ x \in passed
    BY <1>1, <1>6, <2>1 DEF Indices
  <2>3. CASE <<o, GroupOf(o, x)>> \in b
    <3> HIDE DEF passed
    <3>1. Items[o][x].kg \in {Items[o][i].kg : i \in passed}
      BY <2>2
    <3> QED
      BY <1>3, <2>3, <3>1 DEF Unreadable, GroupOf
  <2>4. CASE <<o, GroupOf(o, x)>> \notin b
    <3>1. x \in found
      BY <2>2, <2>4 DEF Readable, GroupOf
    <3> QED
      BY <1>3, <1>6, <2>1, <3>1
  <2> QED
    BY <2>3, <2>4
<1> QED
  BY <1>3, <1>4, <1>6 DEF page

\* The operator the worker is at.
LEMMA WorkerAt ==
  ASSUME IInv, worker.pc # "ended"
  PROVE  /\ worker.targets \in Seq(Ops) /\ worker.targets # <<>>
         /\ Head(worker.targets) = worker.targets[1] /\ worker.targets[1] \in Ops
         /\ worker.cur \in Nat
<1>1. worker.targets \in Seq(Ops) /\ worker.targets # <<>> /\ worker.cur \in Nat
  BY DEF IInv, TypeInv, Workers, FlowInv, WorkerInv
<1> QED
  BY <1>1, TargetsParts

LEMMA WorkerScanData == IInv /\ DataInv /\ WorkerScan => DataInv'
<1> SUFFICES ASSUME IInv, DataInv, WorkerScan PROVE DataInv'
  OBVIOUS
<1> DEFINE o == Head(worker.targets)
           page == ScanBlock(o, worker.cur, worker.names, bad)
           due == page.next = NoNext \/ worker.blocks + 1 >= StepBlocks
           pc == IF due THEN "send" ELSE "scan"
           w == [worker EXCEPT !.cur = page.next, !.found = @ \cup page.keys,
                               !.errors = @ \cup page.errors, !.blocks = @ + 1, !.pc = pc]
<1>1. /\ worker.pc = "scan" /\ worker' = (IF cancel THEN Ended ELSE w)
      /\ UNCHANGED <<snap, opened, filter, ui, bad, chan>>
  BY DEF WorkerScan, loop
<1>2. ListsInv' /\ WindowInv'
  BY <1>1 DEF DataInv, ListsInv, WindowInv
<1>3. worker \in Workers /\ worker.pc # "ended"
  BY <1>1 DEF IInv, TypeInv
<1>4. o = worker.targets[1] /\ o \in Ops /\ worker.cur \in Nat
  BY <1>3, WorkerAt
<1>5. /\ \A x \in page.keys : x \in DOMAIN Items[o] /\ Items[o][x].name \in worker.names
      /\ \A x \in DOMAIN Items[o] :
            worker.cur <= x /\ Before(x, page.next) /\ Items[o][x].name \in worker.names =>
               x \in page.keys \/ GroupOf(o, x) \in page.errors
  BY <1>4, BlockCovers
<1> HIDE DEF o, page, due, pc
<1>6. /\ w.targets = worker.targets /\ w.names = worker.names /\ w.cur = page.next
      /\ w.found = worker.found \cup page.keys /\ w.errors = worker.errors \cup page.errors
  BY <1>3 DEF Workers
<1> HIDE DEF w
<1>7. CASE cancel
  <2>1. worker'.pc = "ended"
    BY <1>1, <1>7, EndedTyped
  <2>2. ReportsInv'
    BY <1>1, <2>1 DEF DataInv, ReportsInv, Watching
  <2> QED
    BY <1>2, <2>2 DEF DataInv
<1>8. CASE ~cancel
  <2>1. ASSUME WorkerOk(snap, chan, filter, worker)
        PROVE  WorkerOk(snap, chan, filter, w)
    <3>1. filter.kind \in {"exact", "pattern"} /\ worker.names = filter.names
      BY <2>1 DEF WorkerOk
    <3>2. \A x : x \in Hits(o, filter) <=> x \in DOMAIN Items[o] /\ Items[o][x].name \in filter.names
      BY <1>4, <3>1, HitsOf
    <3>3. w.found \subseteq Hits(o, filter)
      BY <1>4, <1>5, <1>6, <2>1, <3>1, <3>2 DEF WorkerOk
    <3>4. ASSUME NEW x \in Hits(o, filter), Before(x, page.next)
          PROVE  \/ Told(snap[o], chan, o, x, Len(chan))
                 \/ x \in w.found \/ GroupOf(o, x) \in w.errors
      <4>1. x \in DOMAIN Items[o] /\ x \in Nat /\ Items[o][x].name \in worker.names
        BY <1>4, <3>1, <3>2, ItemsTyped
      <4>2. CASE x < worker.cur
        BY <1>4, <1>6, <2>1, <4>2 DEF WorkerOk, Before
      <4>3. CASE worker.cur <= x
        BY <1>5, <1>6, <3>4, <4>1, <4>3
      <4> QED
        BY <1>4, <4>1, <4>2, <4>3
    <3> QED
      BY <1>4, <1>6, <3>1, <3>3, <3>4 DEF WorkerOk
  <2>2. ReportsInv'
    BY <1>1, <1>3, <1>8, <2>1 DEF DataInv, ReportsInv, Watching
  <2> QED
    BY <1>2, <2>2 DEF DataInv
<1> QED
  BY <1>7, <1>8

\* What a report tells is told by it.
LEMMA WorkerSendData == IInv /\ DataInv /\ WorkerSend => DataInv'
<1> SUFFICES ASSUME IInv, DataInv, WorkerSend PROVE DataInv'
  OBVIOUS
<1> DEFINE t == worker.targets
           o == t[1]
           n == Len(chan)
           rep == [op |-> Head(t), keys |-> worker.found, next |-> worker.cur,
                   errors |-> worker.errors, rd |-> worker.rd]
           ch == Append(chan, rep)
<1>1. /\ worker.pc = "send" /\ worker' = Sent(worker) /\ chan' = ch
      /\ UNCHANGED <<snap, opened, filter, ui, bad>>
  BY DEF WorkerSend, loop
<1>2. ListsInv' /\ WindowInv'
  BY <1>1 DEF DataInv, ListsInv, WindowInv
<1>3. worker \in Workers /\ worker.pc # "ended" /\ chan \in Seq(Reports)
  BY <1>1 DEF IInv, TypeInv
<1>4. t \in Seq(Ops) /\ t # <<>> /\ Head(t) = o /\ o \in Ops /\ worker.cur \in Nat
  BY <1>3, WorkerAt
<1>5. /\ rep.op = o /\ rep.keys = worker.found /\ rep.next = worker.cur
      /\ rep.errors = worker.errors
  BY <1>4
<1> HIDE DEF rep
<1>6. n \in Nat /\ Len(ch) = n + 1 /\ ch[n + 1] = rep /\ \A j \in 1 .. n : ch[j] = chan[j]
  BY <1>3
<1> HIDE DEF n, ch, o
<1>7. ASSUME NEW p, NEW x, NEW m \in 0 .. n, NEW m2 \in m .. n + 1,
             Told(snap[p], chan, p, x, m)
      PROVE  Told(snap[p], ch, p, x, m2)
  <2>1. \A j \in 1 .. m : j \in 1 .. m2 /\ ch[j] = chan[j]
    BY <1>6
  <2> QED
    BY <1>7, <2>1 DEF Told
<1>8. ASSUME WorkerOk(snap, chan, filter, worker),
             NEW x \in Hits(o, filter), Before(x, worker.cur)
      PROVE  Told(snap[o], ch, o, x, n + 1)
  <2>1. \/ Told(snap[o], chan, o, x, n) \/ x \in worker.found \/ GroupOf(o, x) \in worker.errors
    BY <1>8 DEF WorkerOk, o, n
  <2>2. CASE Told(snap[o], chan, o, x, n)
    <3>1. n \in 0 .. n /\ n + 1 \in n .. n + 1
      BY <1>6
    <3> QED
      BY <1>7, <2>2, <3>1
  <2>3. CASE x \in worker.found \/ GroupOf(o, x) \in worker.errors
    <3>1. n + 1 \in 1 .. n + 1
      BY <1>6
    <3>2. ch[n + 1].op = o /\ (x \in ch[n + 1].keys \/ GroupOf(o, x) \in ch[n + 1].errors)
      BY <1>5, <1>6, <2>3
    <3> QED
      BY <3>1, <3>2 DEF Told
  <2> QED
    BY <2>1, <2>2, <2>3
<1>9. ASSUME Watching PROVE \A j \in 1 .. n + 1 : ReportOk(snap, ch, filter, j)
  <2>1. WorkerOk(snap, chan, filter, worker) /\ \A j \in 1 .. n : ReportOk(snap, chan, filter, j)
    BY <1>3, <1>9 DEF DataInv, ReportsInv, n
  <2>2. ASSUME NEW j \in 1 .. n PROVE ReportOk(snap, ch, filter, j)
    <3>1. ch[j] = chan[j] /\ ReportOk(snap, chan, filter, j) /\ j \in 0 .. n /\ j \in j .. n + 1
      BY <1>6, <2>1
    <3> DEFINE p == chan[j].op
    <3>2. \A x : Told(snap[p], chan, p, x, j) => Told(snap[p], ch, p, x, j)
      <4> HIDE DEF p
      <4> QED
        BY <1>7, <3>1
    <3> QED
      BY <3>1, <3>2 DEF ReportOk
  <2>3. ReportOk(snap, ch, filter, n + 1)
    <3>1. /\ ch[n + 1].op = o /\ ch[n + 1].keys = worker.found /\ ch[n + 1].next = worker.cur
      BY <1>5, <1>6
    <3>2. \A x \in Hits(o, filter) : Before(x, worker.cur) => Told(snap[o], ch, o, x, n + 1)
      BY <1>8, <2>1
    <3>3. filter.kind \in {"exact", "pattern"} /\ worker.found \subseteq Hits(o, filter)
      BY <2>1 DEF WorkerOk, o
    <3> QED
      BY <3>1, <3>2, <3>3 DEF ReportOk
  <2>4. \A j \in 1 .. n + 1 : j \in 1 .. n \/ j = n + 1
    BY <1>6
  <2> QED
    BY <2>2, <2>3, <2>4
<1>10. ASSUME Watching, worker'.pc # "ended" PROVE WorkerOk(snap, ch, filter, worker')
  <2>1. WorkerOk(snap, chan, filter, worker)
    BY <1>3, <1>10 DEF DataInv, ReportsInv
  <2>2. CASE worker.cur # NoNext
    <3>1. worker' = [worker EXCEPT !.pc = "scan", !.found = {}, !.errors = {}, !.blocks = 0]
      BY <1>1, <2>2 DEF Sent
    <3>2. /\ worker'.targets = t /\ worker'.names = worker.names /\ worker'.cur = worker.cur
          /\ worker'.found = {}
      BY <1>3, <3>1 DEF Workers
    <3>3. \A x \in Hits(o, filter) : Before(x, worker.cur) => Told(snap[o], ch, o, x, Len(ch))
      BY <1>6, <1>8, <2>1
    <3> HIDE DEF t
    <3>4. worker'.targets[1] = o
      BY <3>2 DEF o
    <3> QED
      BY <2>1, <3>2, <3>3, <3>4 DEF WorkerOk
  <2>3. CASE worker.cur = NoNext /\ Tail(t) # <<>>
    <3>1. worker' = [worker EXCEPT !.pc = "scan", !.found = {}, !.errors = {}, !.blocks = 0,
                                   !.targets = Tail(t), !.cur = Start]
      BY <1>1, <2>3 DEF Sent
    <3> DEFINE u == Tail(t)
    <3>2. u \in Seq(Ops) /\ u # <<>>
      BY <1>4, <2>3, TargetsParts
    <3> HIDE DEF u
    <3>3. /\ worker'.targets = u /\ worker'.names = worker.names /\ worker'.cur = Start
          /\ worker'.found = {}
      BY <1>3, <3>1 DEF Workers, u
    <3>4. u[1] \in Ops
      BY <3>2
    <3>5. \A x \in Hits(u[1], filter) : ~Before(x, Start)
      BY <3>4, HitsOf, ItemsTyped DEF Before, Start, NoNext
    <3> QED
      BY <2>1, <3>3, <3>5 DEF WorkerOk
  <2>4. CASE worker.cur = NoNext /\ Tail(t) = <<>>
    BY <1>1, <1>10, <2>4, EndedTyped DEF Sent
  <2> QED
    BY <2>2, <2>3, <2>4
<1>11. ReportsInv'
  BY <1>1, <1>6, <1>9, <1>10 DEF ReportsInv, Watching
<1> QED
  BY <1>2, <1>11 DEF DataInv

\* Reports of an operator, applied together: what they found is listed, and what
\* the last of them claims to have passed is told by one of them.
LEMMA AppliedMatches ==
  ASSUME NEW o \in Ops, NEW k \in Snaps, NEW f, MatchInv(o, k.filtered, k.errors, f),
         NEW keys \in SUBSET Nat, IsFiniteSet(keys), keys \subseteq Hits(o, f),
         NEW errors \in SUBSET Nat, NEW next \in Nat, NEW r \in Nat,
         \A x \in Hits(o, f) : Before(x, next) =>
             \/ Lists(k.filtered, x) \/ GroupOf(o, x) \in k.errors
             \/ x \in keys \/ GroupOf(o, x) \in errors
  PROVE  LET l == ApplyReports(k, keys, errors, next, r)
         IN  /\ l.all = k.all /\ l.errors = k.errors \cup errors
             /\ MatchInv(o, l.filtered, l.errors, f)
             /\ \A x : Lists(k.filtered, x) \/ x \in keys => Lists(l.filtered, x)
<1> DEFINE old == k.filtered.pos
           S == keys \ ToSet(old)
           new == InOrder(S)
           pos == old \o new
           near == {pos[i] : i \in {j \in Len(old) + 1 .. Len(pos) :
                                       j > k.filtered.offset /\ j <= Wanted(k.filtered)}}
           v == Note(k, errors)
           rows == Loaded(v.rows, near, r)
           l == ApplyReports(k, keys, errors, next, r)
           n == Len(old)
<1>1. l = [v EXCEPT !.filtered.pos = pos, !.filtered.next = next, !.rows = rows]
  BY DEF ApplyReports, NewMatches
<1>2. old \in Seq(Nat) /\ n \in Nat
  BY DEF Snaps, KeySeqs
<1>3. S \subseteq Nat /\ IsFiniteSet(S) /\ S \subseteq keys
  BY FS_Subset
<1>4. /\ \A x : x \in S <=> x \in keys /\ ~ \E i \in 1 .. n : old[i] = x
  <2> HIDE DEF old
  <2> QED
    BY <1>2, ToSetAt
<1> HIDE DEF S
<1>5. /\ new \in Seq(S) /\ new \in Seq(Nat)
      /\ \A i, j \in 1 .. Len(new) : new[i] = new[j] => i = j
      /\ \A x \in S : \E i \in 1 .. Len(new) : new[i] = x
  BY <1>3, InOrderFacts
<1>6. \A i \in 1 .. Len(new) : new[i] \in S
  <2> HIDE DEF new
  <2> QED
    BY <1>5
<1> HIDE DEF old, new
<1>7. /\ Len(pos) = n + Len(new) /\ Len(new) \in Nat
      /\ \A i \in 1 .. n : pos[i] = old[i]
      /\ \A i \in n + 1 .. Len(pos) : pos[i] = new[i - n] /\ i - n \in 1 .. Len(new)
      /\ \A i \in 1 .. Len(new) : pos[n + i] = new[i] /\ n + i \in 1 .. Len(pos)
      /\ \A i \in 1 .. Len(pos) : i \in 1 .. n \/ i \in n + 1 .. Len(pos)
  BY <1>2, <1>5, AppendedAt
<1> HIDE DEF near, pos
<1>8. /\ v.all = k.all /\ v.filtered = k.filtered /\ v.errors = k.errors \cup errors
      /\ v = [all |-> v.all, filtered |-> v.filtered, rows |-> v.rows, errors |-> v.errors]
  BY DEF Note, Snaps
<1> HIDE DEF v
<1> HIDE DEF rows
<1>9. /\ l.all = k.all /\ l.errors = k.errors \cup errors
      /\ l.filtered.pos = pos /\ l.filtered.next = next
      /\ l.filtered.matches = k.filtered.matches /\ l.filtered.offset = k.filtered.offset
  <2>1. k.filtered \in KeySeqs
    BY DEF Snaps
  <2> DEFINE g == [k.filtered EXCEPT !.pos = pos, !.next = next]
  <2>2. g.pos = pos /\ g.next = next /\ g.matches = k.filtered.matches /\ g.offset = k.filtered.offset
    BY <2>1 DEF KeySeqs
  <2>3. l = [v EXCEPT !.filtered = g, !.rows = rows]
    BY <1>1, <1>8
  <2> HIDE DEF g, l
  <2>4. l.all = v.all /\ l.errors = v.errors /\ l.filtered = g
    BY <1>8, <2>3
  <2> QED
    BY <1>8, <2>2, <2>4
<1> HIDE DEF l
<1>10. /\ \A i \in 1 .. n : old[i] \in Hits(o, f)
       /\ \A i, j \in 1 .. n : old[i] = old[j] => i = j
       /\ k.filtered.matches /\ k.filtered.offset >= 0
  BY DEF MatchInv, old
<1>11. ASSUME NEW i \in 1 .. Len(pos) PROVE pos[i] \in Hits(o, f)
  <2>1. CASE i \in 1 .. n
    BY <1>7, <1>10, <2>1
  <2>2. CASE i \in n + 1 .. Len(pos)
    <3>1. pos[i] \in S
      BY <1>6, <1>7, <2>2
    <3> QED
      BY <1>3, <3>1
  <2> QED
    BY <1>7, <2>1, <2>2
<1>12. ASSUME NEW i \in 1 .. Len(pos), NEW j \in 1 .. Len(pos), pos[i] = pos[j] PROVE i = j
  <2>1. CASE i \in 1 .. n /\ j \in 1 .. n
    BY <1>7, <1>10, <1>12, <2>1
  <2>2. CASE i \in n + 1 .. Len(pos) /\ j \in n + 1 .. Len(pos)
    <3> DEFINE a == i - n
               b == j - n
    <3>1. a \in 1 .. Len(new) /\ b \in 1 .. Len(new) /\ new[a] = new[b]
      BY <1>7, <1>12, <2>2
    <3>2. i = n + a /\ j = n + b
      BY <1>2
    <3> HIDE DEF a, b
    <3>3. a = b
      BY <1>5, <3>1
    <3> QED
      BY <3>2, <3>3
  <2>3. ASSUME NEW a \in 1 .. n, NEW b \in n + 1 .. Len(pos) PROVE pos[a] # pos[b]
    <3>1. pos[a] = old[a] /\ pos[b] \in S
      BY <1>6, <1>7
    <3> QED
      BY <1>4, <3>1
  <2> QED
    BY <1>7, <1>12, <2>1, <2>2, <2>3
<1>13. ASSUME NEW x, Lists(k.filtered, x) \/ x \in keys PROVE \E i \in 1 .. Len(pos) : pos[i] = x
  <2>1. CASE \E i \in 1 .. n : old[i] = x
    <3>1. PICK i \in 1 .. n : old[i] = x
      BY <2>1
    <3>2. i \in 1 .. Len(pos)
      BY <1>2, <1>7
    <3> QED
      BY <1>7, <3>1, <3>2
  <2>2. CASE x \in S
    <3>1. PICK i \in 1 .. Len(new) : new[i] = x
      BY <1>5, <2>2
    <3> DEFINE q == n + i
    <3>2. q \in 1 .. Len(pos) /\ pos[q] = x
      BY <1>7, <3>1
    <3> HIDE DEF q
    <3> QED
      BY <3>2
  <2> QED
    BY <1>4, <1>13, <2>1, <2>2 DEF Lists, old
<1>14. MatchInv(o, l.filtered, l.errors, f)
  BY <1>9, <1>10, <1>11, <1>12, <1>13 DEF MatchInv, Lists
<1>15. \A x : Lists(k.filtered, x) \/ x \in keys => Lists(l.filtered, x)
  BY <1>9, <1>13 DEF Lists
<1> QED
  BY <1>9, <1>14, <1>15 DEF l

\* A drain keeps every list and every error, and applies all it takes.
LEMMA DrainedLists ==
  ASSUME IInv, DataInv, ui.at = "poll", NEW o \in Ops
  PROVE  LET k == ApplyDrained(o, snap[o])
         IN  /\ AllInv(o, k, bad) /\ FilteredInv(o, k, filter, bad)
             /\ \A x : Told(snap[o], chan, o, x, Len(chan)) =>
                          Lists(k.filtered, x) \/ GroupOf(o, x) \in k.errors
<1> DEFINE mine == {i \in DOMAIN chan : chan[i].op = o}
           keys == UNION {chan[i].keys : i \in mine}
           errors == UNION {chan[i].errors : i \in mine}
           m == Max(mine)
           s == snap[o]
           k == ApplyDrained(o, s)
<1>1. /\ s \in Snaps /\ chan \in Seq(Reports) /\ Len(chan) \in Nat /\ DOMAIN chan = 1 .. Len(chan)
      /\ AllInv(o, s, bad) /\ FilteredInv(o, s, filter, bad) /\ ReportsInv
  BY IdleLists DEF IInv, TypeInv
<1>2. \A i \in 1 .. Len(chan) : ReportOk(snap, chan, filter, i)
  BY <1>1 DEF ReportsInv, Watching
<1>3. k = IF mine = {} THEN s ELSE ApplyReports(s, keys, errors, chan[m].next, chan[m].rd)
  BY DEF ApplyDrained
<1>4. \A i \in 1 .. Len(chan) : i \in mine <=> chan[i].op = o
  BY <1>1
<1>5. mine \subseteq 1 .. Len(chan)
  BY <1>1
<1> HIDE DEF mine, k, s
<1>6. CASE mine = {}
  <2>1. k = s
    BY <1>3, <1>6
  <2>2. \A x : Told(s, chan, o, x, Len(chan)) => Lists(s.filtered, x) \/ GroupOf(o, x) \in s.errors
    BY <1>4, <1>6 DEF Told
  <2> QED
    BY <1>1, <2>1, <2>2 DEF k, s
<1>7. CASE mine # {}
  <2>1. m \in mine /\ \A i \in mine : i <= m
    <3>1. mine \subseteq Nat /\ \A i \in mine : i <= Len(chan)
      BY <1>1, <1>5
    <3> QED
      BY <1>1, <1>7, <3>1, MaxOfBounded
  <2> HIDE DEF m
  <2>2. ASSUME NEW i \in mine
        PROVE  /\ i \in 1 .. Len(chan) /\ chan[i].op = o /\ chan[i].keys \subseteq Hits(o, filter)
               /\ chan[i].keys \in SUBSET Keys /\ chan[i].errors \in SUBSET Nat
               /\ chan[i].next \in Nat /\ chan[i].rd \in Nat
    <3>1. i \in 1 .. Len(chan) /\ chan[i].op = o
      BY <1>4, <1>5
    <3> QED
      BY <1>1, <1>2, <3>1, ReportTyped DEF ReportOk, Reports
  <2>3. filter.kind \in {"exact", "pattern"}
    BY <1>2, <2>1, <2>2 DEF ReportOk
  <2>4. MatchInv(o, s.filtered, s.errors, filter)
    BY <1>1, <2>3 DEF FilteredInv
  <2>5. /\ keys \in SUBSET Keys /\ keys \subseteq Hits(o, filter) /\ errors \in SUBSET Nat
        /\ \A i \in mine : chan[i].keys \subseteq keys /\ chan[i].errors \subseteq errors
    BY <2>2
  <2> HIDE DEF keys, errors
  <2>6. keys \in SUBSET Nat /\ IsFiniteSet(keys)
    BY <2>5, KeysFinite, FS_Subset
  <2>7. ASSUME NEW x, NEW n \in 0 .. Len(chan), Told(s, chan, o, x, n)
        PROVE  \/ Lists(s.filtered, x) \/ GroupOf(o, x) \in s.errors
               \/ x \in keys \/ GroupOf(o, x) \in errors
    <3>1. CASE \E j \in 1 .. n : /\ chan[j].op = o
                                 /\ x \in chan[j].keys \/ GroupOf(o, x) \in chan[j].errors
      <4>1. PICK j \in 1 .. n : /\ chan[j].op = o
                                /\ x \in chan[j].keys \/ GroupOf(o, x) \in chan[j].errors
        BY <3>1
      <4>2. j \in 1 .. Len(chan)
        BY <1>1
      <4>3. j \in mine
        BY <1>4, <4>1, <4>2
      <4> QED
        BY <2>5, <4>1, <4>3
    <3> QED
      BY <2>7, <3>1 DEF Told
  <2> DEFINE next == chan[m].next
             r == chan[m].rd
  <2>8. next \in Nat /\ r \in Nat /\ m \in 1 .. Len(chan) /\ chan[m].op = o
    BY <2>1, <2>2
  <2>9. \A x \in Hits(o, filter) : Before(x, next) => Told(s, chan, o, x, m)
    BY <1>2, <2>8 DEF ReportOk, s
  <2> HIDE DEF next, r
  <2>10. \A x \in Hits(o, filter) : Before(x, next) =>
            \/ Lists(s.filtered, x) \/ GroupOf(o, x) \in s.errors
            \/ x \in keys \/ GroupOf(o, x) \in errors
    <3>1. m \in 0 .. Len(chan)
      BY <1>1, <2>8
    <3> QED
      BY <2>7, <2>9, <3>1
  <2>11. k = ApplyReports(s, keys, errors, next, r)
    BY <1>3, <1>7 DEF next, r
  <2>12. /\ k.all = s.all /\ k.errors = s.errors \cup errors
         /\ MatchInv(o, k.filtered, k.errors, filter)
         /\ \A x : Lists(s.filtered, x) \/ x \in keys => Lists(k.filtered, x)
    <3> DEFINE l == ApplyReports(s, keys, errors, next, r)
    <3>1. s \in Snaps /\ keys \subseteq Hits(o, filter) /\ errors \in SUBSET Nat
      BY <1>1, <2>5
    <3>2. /\ l.all = s.all /\ l.errors = s.errors \cup errors
          /\ MatchInv(o, l.filtered, l.errors, filter)
          /\ \A x : Lists(s.filtered, x) \/ x \in keys => Lists(l.filtered, x)
      BY <2>4, <2>6, <2>8, <2>10, <3>1, AppliedMatches
    <3>3. k = l
      BY <2>11
    <3> HIDE DEF l
    <3> QED
      BY <3>2, <3>3
  <2>13. AllInv(o, k, bad)
    BY <1>1, <2>12, BrowseMore DEF AllInv, BrowseInv
  <2>14. FilteredInv(o, k, filter, bad)
    BY <2>3, <2>12 DEF FilteredInv
  <2>15. \A x : Told(s, chan, o, x, Len(chan)) => Lists(k.filtered, x) \/ GroupOf(o, x) \in k.errors
    <3>1. Len(chan) \in 0 .. Len(chan)
      BY <1>1
    <3> QED
      BY <2>7, <2>12, <3>1
  <2> QED
    BY <2>13, <2>14, <2>15 DEF k, s
<1> QED
  BY <1>6, <1>7

LEMMA PollDrainData == IInv /\ DataInv /\ PollDrain => DataInv'
<1> SUFFICES ASSUME IInv, DataInv, PollDrain PROVE DataInv'
  OBVIOUS
<1> DEFINE after == [o \in Ops |-> ApplyDrained(o, snap[o])]
<1>1. /\ ui.at = "poll" /\ ui.at # "join" /\ chan' = <<>> /\ Len(chan') = 0
      /\ IF chan # <<>> \/ ui.ended THEN Rebuild(after, opened, rd) ELSE UNCHANGED <<snap, opened>>
      /\ UNCHANGED <<rd, bad, filter, worker>>
  BY DEF PollDrain, HasEnded
<1>2. ui'.at # "join"
  <2>1. ui' = [at |-> "joinonly", then |-> NoFilter, ended |-> FALSE] \/ ui' = Idle
    BY DEF PollDrain
  <2> QED
    BY <2>1, IdleTyped
<1>3. ASSUME NEW o \in Ops
      PROVE  /\ after[o] \in Snaps /\ AllInv(o, after[o], bad) /\ FilteredInv(o, after[o], filter, bad)
             /\ \A x : Told(snap[o], chan, o, x, Len(chan)) =>
                          Lists(after[o].filtered, x) \/ GroupOf(o, x) \in after[o].errors
  BY <1>1, DrainedFacts, DrainedLists
<1>4. after \in [Ops -> Snaps]
  BY <1>3
<1> HIDE DEF after
<1>5. CASE chan # <<>> \/ ui.ended
  <2>1. Rebuild(after, opened, rd)
    BY <1>1, <1>5
  <2>2. /\ ListsInv' /\ WindowInv'
        /\ \A o \in Ops : /\ after[o].errors \subseteq snap'[o].errors
                          /\ filter.kind \in {"exact", "pattern"} =>
                                snap'[o].filtered = after[o].filtered
    BY <1>1, <1>2, <1>3, <1>4, <2>1, IdleLists, RebuildStep
  <2>3. ASSUME worker.pc # "ended" PROVE WorkerOk(snap', chan', filter, worker)
    <3> DEFINE o == worker.targets[1]
    <3>1. o \in Ops
      BY <2>3, WorkerAt
    <3>2. WorkerOk(snap, chan, filter, worker)
      BY <1>1, <2>3 DEF DataInv, ReportsInv, Watching
    <3>3. ASSUME NEW x, Told(snap[o], chan, o, x, Len(chan))
          PROVE  Told(snap'[o], chan', o, x, Len(chan'))
      <4>1. filter.kind \in {"exact", "pattern"}
        BY <3>2 DEF WorkerOk
      <4> HIDE DEF o
      <4>2. Lists(after[o].filtered, x) \/ GroupOf(o, x) \in after[o].errors
        BY <1>3, <3>1, <3>3
      <4> QED
        BY <2>2, <3>1, <4>1, <4>2 DEF Told
    <3> QED
      BY <3>2, <3>3 DEF WorkerOk
  <2>4. ReportsInv'
    BY <1>1, <2>3 DEF ReportsInv
  <2> QED
    BY <2>2, <2>4 DEF DataInv
<1>6. CASE ~(chan # <<>> \/ ui.ended)
  <2>1. UNCHANGED <<snap, opened, chan>>
    BY <1>1, <1>6
  <2>2. ListsInv' /\ WindowInv'
    BY <1>1, <1>2, <2>1 DEF DataInv, ListsInv, WindowInv
  <2>3. ReportsInv'
    BY <1>1, <2>1 DEF DataInv, ReportsInv, Watching
  <2> QED
    BY <2>2, <2>3 DEF DataInv
<1> QED
  BY <1>5, <1>6

LEMMA NextData == IInv /\ DataInv /\ [Next]_vars => DataInv'
<1> SUFFICES ASSUME IInv, DataInv, [Next]_vars PROVE DataInv'
  OBVIOUS
<1>1. CASE User
  BY <1>1, ToggleData, ScrollData, ApplyData, CancelSearchData, SelectProfileData DEF User
<1>2. CASE Worker
  BY <1>2, WorkerScanData, WorkerSendData DEF Worker
<1>3. CASE Tick
  BY <1>3, PollCheckData, PollDrainData DEF Tick
<1>4. CASE Join
  BY <1>4, JoinReceiveData, JoinEndData DEF Join
<1>5. CASE \E o \in Ops : \E g \in Groups(o) : Lose(o, g)
  <2>1. UNCHANGED <<loop, thread>> /\ bad \subseteq bad'
    BY <1>5 DEF Lose
  <2> QED
    BY <2>1, LoseData
<1>6. CASE UNCHANGED vars
  <2>1. UNCHANGED <<loop, thread>> /\ bad \subseteq bad'
    BY <1>6 DEF vars
  <2> QED
    BY <2>1, LoseData
<1> QED
  BY <1>1, <1>2, <1>3, <1>4, <1>5, <1>6 DEF Next

\* What the lists of keys, the reports of a search and the windows hold, for any
\* operators, keys, filters, page size, channel capacity and step of the worker,
\* and whatever key-groups are lost.
THEOREM Lists_Invariant == Spec => []DataInv
<1> QED
  BY Invariant, InitData, NextData, PTL DEF Spec

\* No key is missing from a window without a word: ensure_window, which reads
\* the missing keys of a window in runs, each with one page of as many keys as
\* the run has positions, loads them all or reports their key-groups.
THEOREM WindowsAreLoaded == Spec => []WindowsLoaded
<1>1. DataInv => WindowsLoaded
  BY DEF DataInv, WindowInv, LoadedInv, WindowsLoaded, GroupOf
<1> QED
  BY Lists_Invariant, <1>1, PTL

\* A list of matches says what it says: only keys the filter is about, none
\* twice, and all of them once it is no longer a lower bound, but for reported
\* key-groups; apply_filter, apply_search and ensure_window together.
THEOREM MatchesAreExact == Spec => []MatchesExact
<1>1. ASSUME IInv, DataInv PROVE MatchesExact
  <2> SUFFICES ASSUME ui = Idle, NEW o \in Ops
               PROVE  LET seq == Listed(snap[o])
                      IN  /\ ToSet(seq.pos) \subseteq Hits(o, filter)
                          /\ Cardinality(ToSet(seq.pos)) = Len(seq.pos)
                          /\ Done(seq) => Complete(o, seq, Hits(o, filter))
    BY DEF MatchesExact
  <2> DEFINE k == snap[o]
             seq == Listed(k)
             n == Len(seq.pos)
  <2>1. ui.at # "join"
    BY IdleTyped
  <2>2. /\ k \in Snaps /\ AllInv(o, k, bad) /\ FilteredInv(o, k, filter, bad)
        /\ filter \in Filters \cup {NoFilter} /\ filter.kind \in Kinds
    BY <1>1, <2>1, IdleLists
  <2> HIDE DEF k
  <2>3. /\ filter.kind = "none" => seq = k.all
        /\ filter.kind # "none" => seq = k.filtered
        /\ seq.matches <=> filter.kind \in {"exact", "pattern"}
        /\ seq \in KeySeqs
        /\ ~seq.matches => BrowseInv(o, seq, k.errors, bad)
        /\ seq.matches => MatchInv(o, k.filtered, k.errors, filter)
    BY <2>2, ListedKind
  <2>4. seq.pos \in Seq(Nat) /\ n \in Nat
    BY <2>3 DEF KeySeqs
  <2>5. /\ \A i \in 1 .. n : seq.pos[i] \in Hits(o, filter)
        /\ \A i, j \in 1 .. n : seq.pos[i] = seq.pos[j] => i = j
        /\ Done(seq) => \A x \in Hits(o, filter) : Lists(seq, x) \/ GroupOf(o, x) \in k.errors
    <3>1. CASE seq.matches
      <4>1. seq = k.filtered
        BY <2>3, <3>1
      <4> QED
        BY <2>3, <3>1, <4>1 DEF MatchInv, Done, Before
    <3>2. CASE ~seq.matches
      <4>1. BrowseInv(o, seq, k.errors, bad) /\ filter.kind \in {"none", "range"}
        BY <2>2, <2>3, <3>2 DEF Kinds
      <4>2. \A x \in DOMAIN Items[o] : x \in Hits(o, filter) <=> GroupOf(o, x) \in seq.start .. seq.stop
        <5>1. CASE filter.kind = "none"
          <6>1. seq.start = 0 /\ seq.stop = AnyGroup
            BY <2>2, <2>3, <5>1 DEF AllInv
          <6> HIDE DEF seq
          <6> QED
            BY <5>1, <6>1, HitsOf, GroupsGrow
        <5>2. CASE filter.kind = "range"
          <6>1. seq.start = filter.lo /\ seq.stop = filter.hi
            BY <2>2, <2>3, <5>2 DEF FilteredInv
          <6> HIDE DEF seq
          <6> QED
            BY <5>2, <6>1, HitsOf
        <5> QED
          BY <4>1, <5>1, <5>2
      <4>3. \A x \in Hits(o, filter) : x \in DOMAIN Items[o]
        BY HitsOf
      <4> HIDE DEF seq
      <4>4. \A i \in 1 .. n : seq.pos[i] \in Hits(o, filter)
        BY <4>1, <4>2 DEF BrowseInv
      <4>5. \A i, j \in 1 .. n : seq.pos[i] = seq.pos[j] => i = j
        <5>1. \A i, j \in 1 .. n : i < j => seq.pos[i] < seq.pos[j]
          BY <4>1 DEF BrowseInv
        <5>2. \A i \in 1 .. n : seq.pos[i] \in Nat
          BY <2>4
        <5> HIDE DEF n
        <5> QED
          BY <5>1, <5>2
      <4>6. Done(seq) => \A x \in Hits(o, filter) : Lists(seq, x) \/ GroupOf(o, x) \in k.errors
        BY <4>1, <4>2, <4>3 DEF BrowseInv, Done, Before
      <4> QED
        BY <4>4, <4>5, <4>6
    <3> QED
      BY <3>1, <3>2
  <2> DEFINE s == seq.pos
  <2>6. s \in Seq(Nat) /\ Distinct(s)
    BY <2>4, <2>5 DEF Distinct
  <2>7. /\ Cardinality(ToSet(s)) = Len(s)
        /\ \A x \in ToSet(s) : \E i \in 1 .. Len(s) : s[i] = x
        /\ \A i \in 1 .. Len(s) : s[i] \in ToSet(s)
    <3> HIDE DEF s
    <3> QED
      BY <2>6, ToSetAt, DistinctLength
  <2>8. ToSet(s) \subseteq Hits(o, filter)
    BY <2>5, <2>7
  <2>9. Done(seq) => Complete(o, seq, Hits(o, filter))
    BY <2>5, <2>7 DEF Complete, Lists, GroupOf, k
  <2> QED
    BY <2>7, <2>8, <2>9 DEF k
<1> QED
  BY Invariant, Lists_Invariant, <1>1, PTL

=============================================================================
