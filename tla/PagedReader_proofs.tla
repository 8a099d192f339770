------------------------- MODULE PagedReader_proofs -------------------------
(***************************************************************************)
(* Proofs about PagedReader, for every operator, every layout of its       *)
(* subtasks and every sequence of limits and budgets.                      *)
(***************************************************************************)
EXTENDS PagedReader, FiniteSetTheorems, WellFoundedInduction, TLAPS

(***************************************************************************)
(* Least and greatest elements.                                            *)
(***************************************************************************)

\* Min of a non-empty set of naturals is its least element (the offsets and
\* key-groups that header_len, block_range and seek search).
LEMMA MinNat ==
  ASSUME NEW S, S \subseteq Nat, S # {}
  PROVE  Min(S) \in S /\ \A y \in S : Min(S) <= y
<1> DEFINE R == OpToRel(<, Nat)
<1>1. IsWellFoundedOn(R, Nat)
  BY NatLessThanWellFounded
<1>2. \A x, y \in Nat : x < y => <<x, y>> \in R
  BY Zenon DEF OpToRel
<1> HIDE DEF R
<1>3. \E x \in S : \A y \in S : ~ (<<y, x>> \in R)
  BY <1>1, WFMin
<1>4. PICK x \in S : \A y \in S : ~ (<<y, x>> \in R)
  BY <1>3
<1>5. ASSUME NEW y \in S
      PROVE  x =< y
  <2>1. x \in Nat /\ y \in Nat /\ ~(y < x)
    BY <1>2, <1>4, Zenon
  <2> QED
    BY <2>1
<1> QED
  BY <1>5 DEF Min

\* Max of two numbers (start.max(from), limit.max(1)).
LEMMA MaxTwo ==
  ASSUME NEW a \in Int, NEW b \in Int
  PROVE  Max({a, b}) = IF a >= b THEN a ELSE b
BY DEF Max

(***************************************************************************)
(* Units and blocks.                                                       *)
(***************************************************************************)

\* The fields of a handle.
LEMMA HandleFields ==
  ASSUME NEW h \in Handles
  PROVE  /\ h.start \in KeyGroups
         /\ h.offsets \in Seq(Nat)
         /\ Len(h.offsets) \in Nat
         /\ h.len \in Nat
         /\ \A i \in 1 .. Len(h.offsets) : h.offsets[i] \in Nat
<1>1. h.start \in KeyGroups /\ h.offsets \in Seq(Nat) /\ h.len \in Nat
  BY DEF Handles
<1> QED
  BY <1>1

\* The range of a unit lies inside the operator's key-groups.
LEMMA UnitRange ==
  ASSUME NEW sv, WellFormed(sv), NEW s \in Units(sv)
  PROVE  /\ s \in Subtasks
         /\ sv.sub[s] \in Handles
         /\ UnitStart(sv.sub[s]) \in KeyGroups
         /\ UnitEnd(sv.sub[s]) \in KeyGroups
         /\ UnitStart(sv.sub[s]) <= UnitEnd(sv.sub[s])
<1>1. /\ s \in Subtasks
      /\ sv.sub[s] \in Handles
      /\ Len(sv.sub[s].offsets) > 0
      /\ UnitEnd(sv.sub[s]) < MaxParallelism
  BY DEF Units, WellFormed
<1>2. sv.sub[s].start \in KeyGroups /\ Len(sv.sub[s].offsets) \in Nat
  BY <1>1, HandleFields
<1>3. MaxParallelism \in Nat
  BY ParallelismAssumption
<1>4. UnitStart(sv.sub[s]) \in KeyGroups
  BY <1>2 DEF UnitStart
<1>5. UnitEnd(sv.sub[s]) \in Int /\ UnitStart(sv.sub[s]) <= UnitEnd(sv.sub[s])
  BY <1>1, <1>2, <1>3 DEF UnitStart, UnitEnd, KeyGroups
<1> QED
  BY <1>1, <1>3, <1>4, <1>5 DEF KeyGroups

\* Two units never hold the same key-group, so units are ordered: the one that
\* starts first ends before the other starts.
LEMMA UnitsDisjoint ==
  ASSUME NEW sv, WellFormed(sv),
         NEW s \in Units(sv), NEW t \in Units(sv), s # t,
         UnitStart(sv.sub[s]) <= UnitStart(sv.sub[t])
  PROVE  UnitEnd(sv.sub[s]) < UnitStart(sv.sub[t])
<1>1. /\ UnitEnd(sv.sub[s]) \in KeyGroups
      /\ UnitStart(sv.sub[t]) \in KeyGroups
      /\ UnitStart(sv.sub[t]) <= UnitEnd(sv.sub[t])
  BY UnitRange
<1>2. SUFFICES ASSUME UnitStart(sv.sub[t]) <= UnitEnd(sv.sub[s])
               PROVE  FALSE
  BY <1>1, ParallelismAssumption DEF KeyGroups
<1>3. /\ s \in Holders(sv, UnitStart(sv.sub[t]))
      /\ t \in Holders(sv, UnitStart(sv.sub[t]))
  BY <1>1, <1>2, ParallelismAssumption DEF Holders, KeyGroups
<1> QED
  BY <1>1, <1>3 DEF WellFormed

(***************************************************************************)
(* seek.                                                                   *)
(***************************************************************************)

\* A position at which a page may stand.
PosOK(sv, q) ==
    /\ q \in [at : {"block", "unreadable", "end"},
              sub : Subtasks, kg : 0 .. MaxParallelism, ord : Nat]
    /\ q.at = "end" => q = EndPos
    /\ q.at # "end" =>
          /\ q.sub \in Holders(sv, q.kg)
          /\ q.kg \in KeyGroups
    /\ q.at = "block" => ~UnitError(sv.sub[q.sub]) /\ NonEmpty(sv.sub[q.sub], q.kg)
    /\ q.at = "unreadable" => UnitError(sv.sub[q.sub]) /\ q.ord = 0

\* seek goes forward, stops at a block or an unreadable unit, keeps the ordinal
\* only in the key-group it was meant for, and passes over no key-group that
\* may hold a key.
LEMMA SeekFacts ==
  ASSUME NEW sv, WellFormed(sv), NEW from \in 0 .. MaxParallelism, NEW ord \in Nat
  PROVE  /\ PosOK(sv, Seek(sv, from, ord))
         /\ from <= Seek(sv, from, ord).kg
         /\ Seek(sv, from, ord).ord \in {0, OrdinalAt(Seek(sv, from, ord).kg, from, ord)}
         /\ Seek(sv, from, ord).at = "block" =>
               Seek(sv, from, ord).ord = OrdinalAt(Seek(sv, from, ord).kg, from, ord)
         /\ \A k \in KeyGroups :
               from <= k /\ k < Seek(sv, from, ord).kg => ~MayHoldKeys(sv, k)
<1> DEFINE stops == {s \in Units(sv) : StopsIn(sv.sub[s], from)}
           u == CHOOSE s \in stops :
                   \A t \in stops : UnitStart(sv.sub[s]) <= UnitStart(sv.sub[t])
           h == sv.sub[u]
           m == Min(BlocksFrom(h, from))
           q == Seek(sv, from, ord)
<1>mp. MaxParallelism \in Nat \ {0} /\ Parallelism \in Nat \ {0}
  BY ParallelismAssumption
<1>q. q = IF stops = {} THEN EndPos
          ELSE IF UnitError(h) THEN Pos("unreadable", u, FirstStop(h, from), 0)
          ELSE Pos("block", u, m, OrdinalAt(m, from, ord))
  BY DEF Seek
<1>may. ASSUME NEW k \in KeyGroups, from <= k, NEW s \in Holders(sv, k),
               UnitError(sv.sub[s]) \/ NonEmpty(sv.sub[s], k)
        PROVE  /\ s \in stops
               /\ ~UnitError(sv.sub[s]) => k \in BlocksFrom(sv.sub[s], from)
  <2>1. /\ s \in Units(sv)
        /\ UnitStart(sv.sub[s]) <= k
        /\ k <= UnitEnd(sv.sub[s])
    BY DEF Holders
  <2>2. UnitStart(sv.sub[s]) \in KeyGroups /\ UnitEnd(sv.sub[s]) \in KeyGroups
    BY <2>1, UnitRange
  <2>3. FirstStop(sv.sub[s], from) <= k /\ FirstStop(sv.sub[s], from) \in Int
    BY <1>may, <1>mp, <2>1, <2>2, MaxTwo DEF FirstStop, KeyGroups
  <2>4. ~UnitError(sv.sub[s]) => k \in BlocksFrom(sv.sub[s], from)
    BY <1>may, <1>mp, <2>1, <2>2, <2>3 DEF BlocksFrom, KeyGroups
  <2>5. UnitEnd(sv.sub[s]) >= from
    BY <1>may, <1>mp, <2>1, <2>2 DEF KeyGroups
  <2> QED
    BY <1>may, <2>1, <2>4, <2>5 DEF StopsIn
<1> HIDE DEF q
<1>1. CASE stops = {}
  <2>1. q = EndPos
    BY <1>1, <1>q
  <2>2. q.kg = MaxParallelism /\ q.ord = 0 /\ q.at = "end"
    BY <2>1 DEF EndPos, Pos
  <2>3. PosOK(sv, q)
    BY <2>1, <2>2, <1>mp DEF PosOK, EndPos, Pos, Subtasks
  <2>4. \A k \in KeyGroups : from <= k => ~MayHoldKeys(sv, k)
    BY <1>1, <1>may DEF MayHoldKeys
  <2> QED
    BY <2>2, <2>3, <2>4, <1>mp DEF q
<1>2. CASE stops # {}
  <2>1. /\ u \in stops
        /\ \A t \in stops : UnitStart(sv.sub[u]) <= UnitStart(sv.sub[t])
    <3> DEFINE V == {UnitStart(sv.sub[s]) : s \in stops}
    <3>1. V \subseteq Nat /\ V # {}
      BY <1>2, <1>mp, UnitRange DEF KeyGroups
    <3>2. Min(V) \in V /\ \A y \in V : Min(V) <= y
      BY <3>1, MinNat
    <3>3. \E s \in stops : \A t \in stops : UnitStart(sv.sub[s]) <= UnitStart(sv.sub[t])
      BY <3>2
    <3> QED
      BY <3>3
  <2> HIDE DEF u
  <2>2. /\ u \in Units(sv) /\ u \in Subtasks
        /\ UnitStart(h) \in KeyGroups /\ UnitEnd(h) \in KeyGroups
        /\ UnitStart(h) <= UnitEnd(h)
        /\ from <= UnitEnd(h)
        /\ UnitError(h) \/ BlocksFrom(h, from) # {}
    BY <2>1, <1>mp, UnitRange DEF StopsIn, KeyGroups
  <2>3. /\ FirstStop(h, from) \in KeyGroups
        /\ from <= FirstStop(h, from) /\ UnitStart(h) <= FirstStop(h, from)
        /\ FirstStop(h, from) <= UnitEnd(h)
        /\ FirstStop(h, from) = from \/ FirstStop(h, from) = UnitStart(h)
    BY <2>2, <1>mp, MaxTwo DEF FirstStop, KeyGroups
  <2>4. CASE UnitError(h)
    <3>1. q = Pos("unreadable", u, FirstStop(h, from), 0)
      BY <1>2, <1>q, <2>4
    <3>2. q.at = "unreadable" /\ q.sub = u /\ q.kg = FirstStop(h, from) /\ q.ord = 0
      BY <3>1 DEF Pos
    <3>3. q.sub \in Holders(sv, q.kg)
      BY <3>2, <2>2, <2>3 DEF Holders
    <3>4. q \in [at : {"block", "unreadable", "end"},
              sub : Subtasks, kg : 0 .. MaxParallelism, ord : Nat]
      BY <3>1, <2>2, <2>3, <1>mp DEF Pos, KeyGroups
    <3>5. PosOK(sv, q)
      BY <3>2, <3>3, <3>4, <2>3, <2>4 DEF PosOK
    <3>6. ASSUME NEW k \in KeyGroups, from <= k, k < q.kg, MayHoldKeys(sv, k)
          PROVE  FALSE
      <4>1. PICK s \in Holders(sv, k) : UnitError(sv.sub[s]) \/ NonEmpty(sv.sub[s], k)
        BY <3>6 DEF MayHoldKeys
      <4>2. s \in stops
        BY <4>1, <1>may, <3>6
      <4>3. UnitStart(h) <= UnitStart(sv.sub[s]) /\ UnitStart(sv.sub[s]) <= k
            /\ UnitStart(sv.sub[s]) \in KeyGroups
        BY <4>1, <4>2, <2>1, UnitRange DEF Holders
      <4> QED
        BY <3>2, <3>6, <4>3, <2>2, <2>3, <1>mp DEF KeyGroups
    <3> QED
      BY <3>2, <3>5, <3>6, <2>3 DEF q
  <2>5. CASE ~UnitError(h)
    <3>1. q = Pos("block", u, m, OrdinalAt(m, from, ord))
      BY <1>2, <1>q, <2>5
    <3>2. BlocksFrom(h, from) \subseteq Nat /\ BlocksFrom(h, from) # {}
      BY <2>2, <2>3, <2>5, <1>mp DEF BlocksFrom, KeyGroups
    <3>3. m \in BlocksFrom(h, from) /\ \A y \in BlocksFrom(h, from) : m <= y
      BY <3>2, MinNat
    <3>4. /\ m \in KeyGroups /\ from <= m
          /\ UnitStart(h) <= m /\ m <= UnitEnd(h) /\ NonEmpty(h, m)
      BY <3>3, <2>2, <2>3, <1>mp DEF BlocksFrom, KeyGroups
    <3> HIDE DEF m
    <3>5. q.at = "block" /\ q.sub = u /\ q.kg = m /\ q.ord = OrdinalAt(m, from, ord)
      BY <3>1 DEF Pos
    <3>6. q.sub \in Holders(sv, q.kg)
      BY <3>5, <3>4, <2>2 DEF Holders
    <3>7. q \in [at : {"block", "unreadable", "end"},
              sub : Subtasks, kg : 0 .. MaxParallelism, ord : Nat]
      BY <3>1, <3>4, <2>2, <1>mp DEF Pos, KeyGroups, OrdinalAt
    <3>8. PosOK(sv, q)
      BY <3>4, <3>5, <3>6, <3>7, <2>5 DEF PosOK
    <3>9. ASSUME NEW k \in KeyGroups, from <= k, k < q.kg, MayHoldKeys(sv, k)
          PROVE  FALSE
      <4>1. PICK s \in Holders(sv, k) : UnitError(sv.sub[s]) \/ NonEmpty(sv.sub[s], k)
        BY <3>9 DEF MayHoldKeys
      <4>2. /\ s \in stops
            /\ ~UnitError(sv.sub[s]) => k \in BlocksFrom(sv.sub[s], from)
        BY <4>1, <1>may, <3>9
      <4>3. /\ UnitStart(h) <= UnitStart(sv.sub[s]) /\ UnitStart(sv.sub[s]) <= k
            /\ UnitStart(sv.sub[s]) \in KeyGroups /\ s \in Units(sv)
        BY <4>1, <4>2, <2>1, UnitRange DEF Holders
      <4>4. CASE s = u
        BY <4>4, <4>2, <2>5, <3>3, <3>5, <3>9, <3>4 DEF KeyGroups
      <4>5. CASE s # u
        <5>1. UnitEnd(h) < UnitStart(sv.sub[s])
          BY <4>3, <4>5, <2>2, UnitsDisjoint
        <5> QED
          BY <5>1, <4>3, <3>4, <3>5, <3>9, <2>2, <1>mp DEF KeyGroups
      <4> QED
        BY <4>4, <4>5
    <3> QED
      BY <3>4, <3>5, <3>8, <3>9 DEF q
  <2> QED
    BY <2>4, <2>5
<1> QED
  BY <1>1, <1>2

\* A block that is not empty has a positive number of stored bytes.
LEMMA StoredLenPositive ==
  ASSUME NEW h \in Handles, NEW k \in Int,
         UnitStart(h) <= k, k <= UnitEnd(h), NonEmpty(h, k)
  PROVE  StoredLen(h, k) \in Nat \ {0}
<1> DEFINE i     == k - h.start + 1
           first == h.offsets[i]
           later == {j \in (i + 1) .. Len(h.offsets) : h.offsets[j] > first}
           ends  == {h.len} \cup (IF later = {} THEN {} ELSE {h.offsets[Min(later)]})
<1>1. /\ h.start \in KeyGroups /\ Len(h.offsets) \in Nat /\ h.len \in Nat
      /\ \A j \in 1 .. Len(h.offsets) : h.offsets[j] \in Nat
  BY HandleFields
<1>2. i \in 1 .. Len(h.offsets)
  BY <1>1, ParallelismAssumption DEF UnitStart, UnitEnd, KeyGroups
<1>3. first \in Nat
  BY <1>1, <1>2
<1>4. later # {} => h.offsets[Min(later)] \in Nat
  <2>1. later \subseteq Nat
    BY <1>2
  <2>2. later # {} => Min(later) \in later
    BY <2>1, MinNat
  <2>3. later \subseteq 1 .. Len(h.offsets)
    BY <1>1, <1>2
  <2> HIDE DEF later
  <2> QED
    BY <2>2, <2>3, <1>1
<1> HIDE DEF later
<1>5. ends \subseteq Nat /\ ends # {}
  BY <1>1, <1>4
<1>6. Min(ends) \in Nat
  BY <1>5, MinNat
<1>7. BlockRange(h, k) = <<first, Min(ends)>> /\ ~(Min(ends) <= first)
  BY DEF NonEmpty, BlockRange, NoBlock, later
<1> QED
  BY <1>3, <1>6, <1>7 DEF StoredLen

(***************************************************************************)
(* Keys and their positions.                                               *)
(***************************************************************************)

\* A position is a key-group and an ordinal below the number of its keys.
LEMMA PositionFields ==
  ASSUME WellFormed(sp), NEW p \in Positions
  PROVE  /\ p[1] \in KeyGroups /\ p[2] \in Nat /\ p = <<p[1], p[2]>>
         /\ p[2] < Len(sp.blocks[p[1]]) /\ Len(sp.blocks[p[1]]) \in Nat
<1>1. PICK k \in KeyGroups : p \in {k} \X (0 .. Len(sp.blocks[k]) - 1)
  BY DEF Positions
<1>2. sp.blocks[k] \in Seq(KeyRecords)
  BY DEF WellFormed
<1>3. Len(sp.blocks[k]) \in Nat
  BY <1>2
<1> QED
  BY <1>1, <1>3

\* The wanted keys of a block between two ordinals are finitely many.
LEMMA WantedInFinite ==
  ASSUME WellFormed(sp), NEW k \in KeyGroups, NEW lo \in Nat, NEW hi \in Nat
  PROVE  /\ IsFiniteSet(WantedIn(k, lo, hi))
         /\ Cardinality(WantedIn(k, lo, hi)) \in Nat
<1>1. IsFiniteSet({k})
  BY FS_Singleton, Zenon
<1>2. 0 \in Int /\ hi \in Int
  OBVIOUS
<1>3. IsFiniteSet(0 .. hi)
  BY <1>2, FS_Interval, Zenon
<1>4. IsFiniteSet({k} \X (0 .. hi))
  BY <1>1, <1>3, FS_Product
<1>5. WantedIn(k, lo, hi) \in SUBSET ({k} \X (0 .. hi))
  <2>1. ASSUME NEW p \in WantedIn(k, lo, hi)
        PROVE  p \in {k} \X (0 .. hi)
    <3>1. p \in Positions /\ p[1] = k /\ p[2] < hi
      BY DEF WantedIn
    <3>2. p[2] \in Nat /\ p = <<p[1], p[2]>>
      BY <3>1, PositionFields
    <3> QED
      BY <3>1, <3>2
  <2> QED
    BY <2>1
<1>6. IsFiniteSet(WantedIn(k, lo, hi))
  BY <1>4, <1>5, FS_Subset
<1> QED
  BY <1>6, FS_CardinalityType

\* A page that is not full takes at least one key of the block it reads (the
\* first not yet returned) and no more than the block has.
LEMMA BlockStopRange ==
  ASSUME TypeOK, PosOK(sp, pos), pos.at = "block",
         mode \in {"key_page", "scan"}, ~PageFull
  PROVE  /\ BlockStop \in Nat /\ BlockStop <= Len(sp.blocks[pos.kg])
         /\ Len(sp.blocks[pos.kg]) \in Nat
         /\ BlockStop < Len(sp.blocks[pos.kg]) => pos.ord < BlockStop
<1> DEFINE len  == Len(sp.blocks[pos.kg])
           full == {o \in pos.ord .. len - 1 :
                      page.n + Cardinality(WantedIn(pos.kg, pos.ord, o)) >= page.limit}
<1>1. WellFormed(sp) /\ pos.kg \in KeyGroups /\ pos.ord \in Nat
  BY DEF TypeOK, PosOK
<1>2. len \in Nat
  <2>1. sp.blocks[pos.kg] \in Seq(KeyRecords)
    BY <1>1 DEF WellFormed
  <2> QED
    BY <2>1
<1>3. page.n \in Nat /\ page.limit \in Nat /\ ~(page.n >= page.limit)
  BY DEF TypeOK, PageFull
<1>4. BlockStop = IF full = {} THEN len ELSE Min(full)
  BY DEF BlockStop
<1>5. pos.ord \notin full
  <2>1. WantedIn(pos.kg, pos.ord, pos.ord) = {}
    <3>1. ASSUME NEW p \in WantedIn(pos.kg, pos.ord, pos.ord)
          PROVE  FALSE
      <4>1. p \in Positions /\ pos.ord <= p[2] /\ p[2] < pos.ord
        BY DEF WantedIn
      <4> QED
        BY <4>1, <1>1, PositionFields
    <3> QED
      BY <3>1
  <2>2. Cardinality(WantedIn(pos.kg, pos.ord, pos.ord)) = 0
    BY <2>1, FS_EmptySet
  <2> QED
    BY <2>2, <1>3
<1>6. CASE full = {}
  BY <1>2, <1>4, <1>6
<1>7. CASE full # {}
  <2>1. full \subseteq Nat
    BY <1>1, <1>2
  <2>2. Min(full) \in full
    BY <2>1, <1>7, MinNat
  <2>3. Min(full) \in pos.ord .. len - 1 /\ Min(full) # pos.ord
    BY <2>2, <1>5
  <2> HIDE DEF full, len
  <2> QED
    BY <2>3, <1>1, <1>2, <1>4, <1>7 DEF len
<1> QED
  BY <1>6, <1>7

(***************************************************************************)
(* The type invariant and where a page may stand.                          *)
(***************************************************************************)

InPage == pos.at \in {"block", "unreadable", "end"}

\* The page stands at or after its cursor, inside the range, and only in the
\* cursor's own key-group at an ordinal other than 0. There it is still empty.
PosInv ==
    /\ InPage =>
          /\ PosOK(sp, pos)
          /\ pos.at # "end" => pos.kg <= last
          /\ cursor.key_group \in KeyGroups
          /\ cursor.key_group <= pos.kg
          /\ pos.kg = cursor.key_group => page.n = 0 /\ ~page.visited
          /\ pos.at = "block" =>
                pos.ord = OrdinalAt(pos.kg, cursor.key_group, OrdinalOf(cursor))
    /\ ~InPage => pos \in {Idle, Refused}
    /\ Stream!NotAfter(FrontOf(start), FrontOf(cursor))

Base == TypeOK /\ PosInv

\* The position `q` reached by seeking from ordinal `ord` of key-group `from`.
Reached(from, ord, q) ==
    /\ PosOK(sp, q)
    /\ from <= q.kg
    /\ q.at # "end" => q.kg <= last
    /\ q.at = "block" => q.ord = OrdinalAt(q.kg, from, ord)
    /\ q.at # "block" => q.ord = 0
    /\ \A p \in Positions : Wanted(p) /\ from <= p[1] => ~(p[1] < q.kg)
    /\ \A k \in KeyGroups : from <= k /\ k < q.kg /\ k <= last => ~sp.defect[k]

\* Seeking inside the walk's range passes over no wanted key and no defect.
LEMMA SeekReaches ==
  ASSUME TypeOK, NEW from \in 0 .. MaxParallelism, NEW ord \in Nat
  PROVE  Reached(from, ord, Bounded(Seek(sp, from, ord)))
<1> DEFINE s == Seek(sp, from, ord)
           q == Bounded(s)
<1>1. WellFormed(sp) /\ last \in 0 .. MaxParallelism /\ MaxParallelism \in Nat \ {0}
      /\ Parallelism \in Nat \ {0}
  BY ParallelismAssumption DEF TypeOK
<1>2. /\ PosOK(sp, s)
      /\ from <= s.kg
      /\ s.at = "block" => s.ord = OrdinalAt(s.kg, from, ord)
      /\ \A k \in KeyGroups : from <= k /\ k < s.kg => ~MayHoldKeys(sp, k)
  BY <1>1, SeekFacts
<1>3. q = IF s.kg > last THEN EndPos ELSE s
  BY DEF Bounded
<1> HIDE DEF s, q
<1>4. s.kg \in 0 .. MaxParallelism
  BY <1>2 DEF PosOK
<1>5. /\ EndPos.at = "end" /\ EndPos.kg = MaxParallelism /\ EndPos.ord = 0
      /\ PosOK(sp, EndPos)
  BY <1>1 DEF EndPos, Pos, PosOK, Subtasks
<1>6. /\ PosOK(sp, q)
      /\ from <= q.kg
      /\ q.at # "end" => q.kg <= last
      /\ q.at = "block" => q.ord = OrdinalAt(q.kg, from, ord)
      /\ q.at # "block" => q.ord = 0
  <2>1. s.at = "end" => s = EndPos
    BY <1>2 DEF PosOK
  <2>2. s.at = "unreadable" => s.ord = 0
    BY <1>2 DEF PosOK
  <2>3. s.at \in {"block", "unreadable", "end"}
    BY <1>2 DEF PosOK
  <2> QED
    BY <1>1, <1>2, <1>3, <1>4, <1>5, <2>1, <2>2, <2>3
<1>7. ASSUME NEW k \in KeyGroups, from <= k, k < q.kg, k <= last
      PROVE  sp.blocks[k] = <<>> /\ ~sp.defect[k]
  <2>1. k < s.kg
    BY <1>1, <1>3, <1>4, <1>5, <1>7 DEF KeyGroups
  <2> QED
    BY <2>1, <1>1, <1>2, <1>7 DEF WellFormed
<1>8. ASSUME NEW p \in Positions, Wanted(p), from <= p[1], p[1] < q.kg
      PROVE  FALSE
  <2>1. p[1] \in KeyGroups /\ p[2] \in Nat /\ p[2] < Len(sp.blocks[p[1]])
    BY <1>1, PositionFields
  <2>2. p[1] <= last
    BY <1>8 DEF Wanted
  <2>3. sp.blocks[p[1]] = <<>>
    BY <2>1, <2>2, <1>7, <1>8
  <2> QED
    BY <2>1, <2>3
<1> QED
  BY <1>6, <1>7, <1>8 DEF Reached, q, s

\* Every initial state satisfies the type and position invariants.
LEMMA InitBase == Init => Base
<1> SUFFICES ASSUME Init PROVE Base
  OBVIOUS
<1>1. WellFormed(sp) /\ MaxParallelism \in Nat \ {0} /\ Parallelism \in Nat \ {0}
  BY SavepointsAssumption, ParallelismAssumption DEF Init
<1>2. PICK s \in Subtasks, k \in KeyGroups, o \in StartOrdinals : start = Cursor(s, k, o)
  BY DEF Init
<1>3. start \in [subtask : Subtasks, key_group : 0 .. MaxParallelism, ordinal : Nat]
  BY <1>1, <1>2, PagingAssumption DEF Cursor, KeyGroups
<1>4. TypeOK
  BY <1>1, <1>3 DEF Init, TypeOK, Idle, Pos, NoPage, Subtasks
<1>5. pos.at = "idle" /\ cursor = start
  BY DEF Init, Idle, Pos
<1>6. FrontOf(start)[1] \in Int /\ FrontOf(start)[2] \in Int
  BY <1>3 DEF FrontOf, OrdinalOf
<1>7. PosInv
  BY <1>5, <1>6 DEF PosInv, InPage, Init, Stream!NotAfter, Stream!Before
<1> QED
  BY <1>4, <1>7 DEF Base

PosRecords == [at : {"idle", "refused", "block", "unreadable", "end"},
               sub : Subtasks, kg : 0 .. MaxParallelism, ord : Nat]

\* A step of a page that seeks on keeps the position invariant.
LEMMA SeekKeepsPosInv ==
  ASSUME Base, UNCHANGED walk, UNCHANGED cursor,
         NEW from \in 0 .. MaxParallelism, NEW ord \in Nat,
         cursor.key_group \in KeyGroups, cursor.key_group <= from,
         from = cursor.key_group => page'.n = 0 /\ ~page'.visited,
         ord = OrdinalAt(from, cursor.key_group, OrdinalOf(cursor)),
         pos' = Bounded(Seek(sp, from, ord))
  PROVE  PosInv' /\ pos' \in PosRecords /\ InPage' /\ Reached(from, ord, pos')
<1>1. TypeOK /\ PosInv
  BY DEF Base
<1>2. Reached(from, ord, pos')
  BY <1>1, SeekReaches
<1>3. /\ PosOK(sp, pos')
      /\ from <= pos'.kg
      /\ pos'.at # "end" => pos'.kg <= last
      /\ pos'.at = "block" => pos'.ord = OrdinalAt(pos'.kg, from, ord)
  BY <1>2 DEF Reached
<1>4. pos' \in [at : {"block", "unreadable", "end"},
                sub : Subtasks, kg : 0 .. MaxParallelism, ord : Nat]
  BY <1>3 DEF PosOK
<1>5. pos' \in PosRecords /\ pos'.at \in {"block", "unreadable", "end"}
      /\ pos'.kg \in 0 .. MaxParallelism
  BY <1>4 DEF PosRecords
<1>6. cursor.key_group \in 0 .. MaxParallelism /\ MaxParallelism \in Nat
  BY <1>1, ParallelismAssumption DEF TypeOK
<1>7. PosOK(sp, pos)'
  BY <1>3 DEF PosOK, walk
<1>8. /\ cursor'.key_group <= pos'.kg
      /\ pos'.kg = cursor'.key_group => page'.n = 0 /\ ~page'.visited
  BY <1>3, <1>5, <1>6
<1>9. pos'.at = "block" =>
        pos'.ord = OrdinalAt(pos'.kg, cursor'.key_group, OrdinalOf(cursor)')
  BY <1>3, <1>5, <1>6 DEF OrdinalAt, OrdinalOf, walk
<1>10. Stream!NotAfter(FrontOf(start), FrontOf(cursor))'
  BY <1>1 DEF PosInv, Stream!NotAfter, Stream!Before, FrontOf, OrdinalOf, walk
<1>11. PosInv'
  BY <1>3, <1>5, <1>7, <1>8, <1>9, <1>10 DEF PosInv, InPage, walk
<1> QED
  BY <1>2, <1>5, <1>11 DEF InPage

\* The parts of the state no step of the walk changes keep their types.
LEMMA WalkTyped ==
  ASSUME TypeOK, UNCHANGED walk
  PROVE  /\ WellFormed(sp)' /\ Positions' = Positions
         /\ mode' \in {"key_page", "scan", "count"}
         /\ last' \in 0 .. MaxParallelism
         /\ start' \in [subtask : Subtasks, key_group : 0 .. MaxParallelism, ordinal : Nat]
         /\ \A p : Wanted(p)' <=> Wanted(p)
BY DEF TypeOK, walk, Positions, WellFormed, Wanted, KeyAt

\* A page begins at a position that seek found from its cursor.
LEMMA BeginBase == Base /\ Begin => Base'
<1> SUFFICES ASSUME Base, Begin PROVE Base'
  OBVIOUS
<1>1. TypeOK /\ UNCHANGED walk /\ UNCHANGED cursor
  BY DEF Base, Begin
<1>2. /\ cursor.key_group \in 0 .. MaxParallelism /\ OrdinalOf(cursor) \in Nat
      /\ MaxParallelism \in Nat
  BY <1>1, ParallelismAssumption DEF TypeOK, OrdinalOf
<1>3. pos' = Bounded(Seek(sp, cursor.key_group, OrdinalOf(cursor)))
  BY DEF Begin
<1>4. OrdinalOf(cursor) = OrdinalAt(cursor.key_group, cursor.key_group, OrdinalOf(cursor))
  BY DEF OrdinalAt
<1>5. PICK l \in Limits, b \in Budgets :
         page' = [NoPage EXCEPT !.limit = AtLeastOne(l), !.budget = b]
  BY DEF Begin
<1>6. PosInv' /\ pos' \in PosRecords
  <2>1. page'.n = 0 /\ ~page'.visited
    BY <1>5 DEF NoPage
  <2>2. cursor.key_group \in KeyGroups
    BY <1>2 DEF Begin, CheckCursor, KeyGroups
  <2> QED
    BY <1>1, <1>2, <1>3, <1>4, <2>1, <2>2, SeekKeepsPosInv
<1>7. AtLeastOne(l) \in Nat \ {0}
  BY <1>5, MaxTwo, PagingAssumption DEF AtLeastOne
<1>8. page' \in [n : Nat, visited : BOOLEAN, bytes : Nat, limit : Nat \ {0}, budget : Nat]
  BY <1>5, <1>7, PagingAssumption DEF NoPage
<1>9. TypeOK'
  BY <1>1, <1>6, <1>8, WalkTyped DEF TypeOK, Begin, got, PosRecords
<1> QED
  BY <1>6, <1>9 DEF Base

\* A refused cursor changes nothing but the position.
LEMMA RefuseBase == Base /\ Refuse => Base'
<1> SUFFICES ASSUME Base, Refuse PROVE Base'
  OBVIOUS
<1>1. TypeOK /\ PosInv /\ UNCHANGED <<walk, cursor, page, got, bytes>>
  BY DEF Base, Refuse
<1>2. pos' = Refused /\ pos'.at = "refused" /\ pos' \in PosRecords
  BY ParallelismAssumption DEF Refuse, Refused, Pos, PosRecords, Subtasks
<1>3. TypeOK'
  BY <1>1, <1>2, WalkTyped DEF TypeOK, got, PosRecords
<1>4. PosInv'
  BY <1>1, <1>2 DEF PosInv, InPage, Stream!NotAfter, Stream!Before, FrontOf, OrdinalOf, walk
<1> QED
  BY <1>3, <1>4 DEF Base

\* A page that returns a cursor at or after the start keeps the invariants.
LEMMA ReturnKeepsPosInv ==
  ASSUME Base, UNCHANGED walk,
         NEW c \in [subtask : Subtasks, key_group : 0 .. MaxParallelism, ordinal : Nat],
         Return(c), Stream!NotAfter(FrontOf(start), FrontOf(c))
  PROVE  /\ PosInv' /\ pos' \in PosRecords /\ cursor' = c
         /\ page' \in [n : Nat, visited : BOOLEAN, bytes : Nat, limit : Nat \ {0}, budget : Nat]
<1>1. pos' = Idle /\ pos'.at = "idle" /\ pos' \in PosRecords /\ cursor' = c
  BY ParallelismAssumption DEF Return, Idle, Pos, PosRecords, Subtasks
<1>2. page' \in [n : Nat, visited : BOOLEAN, bytes : Nat, limit : Nat \ {0}, budget : Nat]
  BY DEF Return, NoPage
<1>3. PosInv'
  BY <1>1 DEF PosInv, InPage, Stream!NotAfter, Stream!Before, FrontOf, OrdinalOf, walk
<1> QED
  BY <1>1, <1>2, <1>3

\* The cursor of a full page lies after the cursor the page was given.
LEMMA FullPageMoved ==
  ASSUME Base, InPage, PageFull
  PROVE  /\ CursorOf(pos) \in [subtask : Subtasks, key_group : 0 .. MaxParallelism, ordinal : Nat]
         /\ CursorOf(pos).key_group = pos.kg
         /\ OrdinalOf(CursorOf(pos)) = pos.ord
         /\ cursor.key_group < pos.kg
         /\ Stream!NotAfter(FrontOf(start), FrontOf(CursorOf(pos)))
<1>1. TypeOK /\ PosInv /\ PosOK(sp, pos)
  BY DEF Base, PosInv
<1>2. /\ pos.sub \in Subtasks /\ pos.kg \in 0 .. MaxParallelism /\ pos.ord \in Nat
      /\ cursor.key_group \in 0 .. MaxParallelism /\ cursor.ordinal \in Nat
      /\ start.key_group \in 0 .. MaxParallelism /\ start.ordinal \in Nat
      /\ MaxParallelism \in Nat /\ page.limit \in Nat \ {0}
  BY <1>1, ParallelismAssumption DEF TypeOK
<1>3. pos.kg # cursor.key_group
  BY <1>1, <1>2 DEF PosInv, PageFull
<1>4. cursor.key_group < pos.kg
  BY <1>1, <1>2, <1>3 DEF PosInv
<1>5. CursorOf(pos) = Cursor(pos.sub, pos.kg, pos.ord)
  BY <1>1 DEF CursorOf, PosOK, NoCursor, Cursor, EndPos, Pos
<1>6. pos.ord = 0
  BY <1>1, <1>3 DEF PosInv, PosOK, InPage, OrdinalAt, EndPos, Pos
<1>7. /\ CursorOf(pos).key_group = pos.kg /\ OrdinalOf(CursorOf(pos)) = pos.ord
      /\ CursorOf(pos) \in [subtask : Subtasks, key_group : 0 .. MaxParallelism, ordinal : Nat]
  BY <1>2, <1>5, <1>6 DEF Cursor, OrdinalOf
<1>8. start.key_group <= cursor.key_group
  BY <1>1, <1>2 DEF PosInv, Stream!NotAfter, Stream!Before, FrontOf
<1>9. Stream!NotAfter(FrontOf(start), FrontOf(CursorOf(pos)))
  BY <1>2, <1>4, <1>7, <1>8 DEF Stream!NotAfter, Stream!Before, FrontOf
<1> QED
  BY <1>4, <1>7, <1>9

\* A page that is full returns the cursor of a position that is accepted again.
LEMMA CutBase == Base /\ Cut => Base'
<1> SUFFICES ASSUME Base, Cut PROVE Base'
  OBVIOUS
<1>1. TypeOK /\ UNCHANGED <<walk, got, bytes>> /\ Return(CursorOf(pos)) /\ InPage /\ PageFull
  BY DEF Base, Cut, InPage
<1>2. /\ CursorOf(pos) \in [subtask : Subtasks, key_group : 0 .. MaxParallelism, ordinal : Nat]
      /\ Stream!NotAfter(FrontOf(start), FrontOf(CursorOf(pos)))
  BY <1>1, FullPageMoved
<1>3. /\ PosInv' /\ pos' \in PosRecords /\ cursor' = CursorOf(pos)
      /\ page' \in [n : Nat, visited : BOOLEAN, bytes : Nat, limit : Nat \ {0}, budget : Nat]
  BY <1>1, <1>2, ReturnKeepsPosInv
<1>4. TypeOK'
  BY <1>1, <1>2, <1>3, WalkTyped DEF TypeOK, got, PosRecords
<1> QED
  BY <1>3, <1>4 DEF Base

\* A page that reaches the end returns no cursor.
LEMMA FinishBase == Base /\ Finish => Base'
<1> SUFFICES ASSUME Base, Finish PROVE Base'
  OBVIOUS
<1>1. TypeOK /\ PosInv /\ UNCHANGED <<walk, got, bytes>> /\ Return(NoCursor)
  BY DEF Base, Finish
<1>2. NoCursor \in [subtask : Subtasks, key_group : 0 .. MaxParallelism, ordinal : Nat]
  BY ParallelismAssumption DEF NoCursor, Cursor, Subtasks
<1>3. Stream!NotAfter(FrontOf(start), FrontOf(NoCursor))
  <2>1. start.key_group \in 0 .. MaxParallelism /\ cursor.key_group \in KeyGroups
        /\ cursor.ordinal \in Nat /\ start.ordinal \in Nat /\ MaxParallelism \in Nat
    BY <1>1, ParallelismAssumption DEF Finish, InPage, PosInv, TypeOK
  <2>2. start.key_group < MaxParallelism
    BY <1>1, <2>1 DEF PosInv, Stream!NotAfter, Stream!Before, FrontOf, KeyGroups
  <2> QED
    BY <2>1, <2>2 DEF Stream!NotAfter, Stream!Before, FrontOf, NoCursor, Cursor
<1>4. /\ PosInv' /\ pos' \in PosRecords /\ cursor' = NoCursor
      /\ page' \in [n : Nat, visited : BOOLEAN, bytes : Nat, limit : Nat \ {0}, budget : Nat]
  BY <1>1, <1>2, <1>3, ReturnKeepsPosInv
<1>5. TypeOK'
  BY <1>1, <1>2, <1>4, WalkTyped DEF TypeOK, got, PosRecords
<1> QED
  BY <1>4, <1>5 DEF Base

\* Types of a page that stands at a block or an unreadable unit.
LEMMA AtUnit ==
  ASSUME Base, pos.at \in {"block", "unreadable"}
  PROVE  /\ TypeOK /\ PosInv /\ InPage /\ PosOK(sp, pos) /\ WellFormed(sp)
         /\ MaxParallelism \in Nat
         /\ pos.kg \in KeyGroups /\ pos.kg <= last /\ pos.ord \in Nat
         /\ cursor.key_group \in KeyGroups /\ cursor.key_group <= pos.kg
         /\ pos.sub \in Units(sp) /\ sp.sub[pos.sub] \in Handles
         /\ UnitStart(sp.sub[pos.sub]) <= pos.kg /\ pos.kg <= UnitEnd(sp.sub[pos.sub])
         /\ UnitEnd(sp.sub[pos.sub]) \in KeyGroups
<1>1. /\ TypeOK /\ PosInv /\ InPage /\ PosOK(sp, pos) /\ WellFormed(sp)
      /\ MaxParallelism \in Nat
      /\ pos.kg \in KeyGroups /\ pos.kg <= last /\ pos.ord \in Nat
      /\ cursor.key_group \in KeyGroups /\ cursor.key_group <= pos.kg
      /\ pos.sub \in Holders(sp, pos.kg)
  BY ParallelismAssumption DEF Base, PosInv, InPage, PosOK, TypeOK
<1>2. /\ pos.sub \in Units(sp)
      /\ UnitStart(sp.sub[pos.sub]) <= pos.kg /\ pos.kg <= UnitEnd(sp.sub[pos.sub])
  BY <1>1 DEF Holders
<1> QED
  BY <1>1, <1>2, UnitRange

\* Reading on from key-group `from`, past the one the page stands at.
LEMMA SeekOn ==
  ASSUME Base, pos.at \in {"block", "unreadable"}, UNCHANGED walk, UNCHANGED cursor,
         NEW from \in 0 .. MaxParallelism, pos.kg < from,
         pos' = Bounded(Seek(sp, from, 0))
  PROVE  PosInv' /\ pos' \in PosRecords /\ InPage' /\ Reached(from, 0, pos')
<1>1. /\ cursor.key_group \in KeyGroups /\ cursor.key_group <= pos.kg
      /\ pos.kg \in KeyGroups /\ MaxParallelism \in Nat
  BY AtUnit
<1>2. cursor.key_group <= from /\ from # cursor.key_group
  BY <1>1 DEF KeyGroups
<1>3. 0 = OrdinalAt(from, cursor.key_group, OrdinalOf(cursor))
  BY <1>2 DEF OrdinalAt
<1> QED
  BY <1>1, <1>2, <1>3, SeekKeepsPosInv

\* Past an unreadable unit, the walk stands where seek goes on from its end.
LEMMA SkipUnreadableBase == Base /\ SkipUnreadable => Base'
<1> SUFFICES ASSUME Base, SkipUnreadable PROVE Base'
  OBVIOUS
<1> DEFINE end == UnitEnd(sp.sub[pos.sub])
<1>1. /\ pos.at = "unreadable"
      /\ UNCHANGED <<walk, cursor, times, malformed, tally, bytes>>
      /\ page' = [page EXCEPT !.visited = TRUE]
      /\ pos' = Bounded(Seek(sp, end + 1, 0))
      /\ rep' = [k \in KeyGroups |-> IF pos.kg <= k /\ k <= end THEN rep[k] + 1 ELSE rep[k]]
  BY DEF SkipUnreadable
<1>2. end + 1 \in 0 .. MaxParallelism /\ pos.kg < end + 1 /\ TypeOK
  BY <1>1, AtUnit DEF KeyGroups
<1> HIDE DEF end
<1>3. PosInv' /\ pos' \in PosRecords
  BY <1>1, <1>2, SeekOn
<1>4. rep' \in [KeyGroups -> Nat]
  BY <1>1, <1>2 DEF TypeOK
<1>5. TypeOK'
  BY <1>1, <1>2, <1>3, <1>4, WalkTyped DEF TypeOK, PosRecords
<1> QED
  BY <1>3, <1>5 DEF Base

\* The types after a block was paid for.
LEMMA ChargeTyped ==
  ASSUME Base, pos.at = "block", Charge
  PROVE  /\ bytes' \in Nat
         /\ Charged \in [n : Nat, visited : BOOLEAN, bytes : Nat, limit : Nat \ {0}, budget : Nat]
         /\ Charged.n = page.n
<1>1. StoredLen(sp.sub[pos.sub], pos.kg) \in Nat
  <2>1. /\ sp.sub[pos.sub] \in Handles /\ pos.kg \in Int
        /\ UnitStart(sp.sub[pos.sub]) <= pos.kg /\ pos.kg <= UnitEnd(sp.sub[pos.sub])
        /\ NonEmpty(sp.sub[pos.sub], pos.kg)
    BY AtUnit DEF PosOK, KeyGroups
  <2> QED
    BY <2>1, StoredLenPositive
<1>2. /\ page \in [n : Nat, visited : BOOLEAN, bytes : Nat, limit : Nat \ {0}, budget : Nat]
      /\ bytes \in Nat
  BY DEF Base, TypeOK
<1>3. bytes' \in Nat
  BY <1>1, <1>2 DEF Charge
<1> DEFINE stored == StoredLen(sp.sub[pos.sub], pos.kg)
           paid   == [page EXCEPT !.bytes = @ + stored]
<1>4. Charged = [paid EXCEPT !.visited = TRUE]
  BY <1>2 DEF Charged
<1>5. page.bytes + stored \in Nat
  BY <1>1, <1>2
<1> HIDE DEF stored
<1>6. /\ paid \in [n : Nat, visited : BOOLEAN, bytes : Nat, limit : Nat \ {0}, budget : Nat]
      /\ paid.n = page.n
  BY <1>2, <1>5
<1> HIDE DEF paid
<1> QED
  BY <1>3, <1>4, <1>6

\* A block that cannot be read is charged for and left behind.
LEMMA ReadFailsBase == Base /\ ReadFails => Base'
<1> SUFFICES ASSUME Base, ReadFails PROVE Base'
  OBVIOUS
<1>1. /\ pos.at = "block"
      /\ UNCHANGED <<walk, cursor, times, malformed, tally>>
      /\ page' = Charged /\ Charge
      /\ pos' = Bounded(Seek(sp, pos.kg + 1, 0))
      /\ rep' = [rep EXCEPT ![pos.kg] = @ + 1]
  BY DEF ReadFails, AfterBlock
<1>2. /\ pos.kg + 1 \in 0 .. MaxParallelism /\ pos.kg < pos.kg + 1 /\ TypeOK
      /\ pos.kg \in KeyGroups
  BY <1>1, AtUnit DEF KeyGroups
<1>3. PosInv' /\ pos' \in PosRecords
  BY <1>1, <1>2, SeekOn
<1>4. rep' \in [KeyGroups -> Nat]
  <2>1. rep \in [KeyGroups -> Nat]
    BY <1>2 DEF TypeOK
  <2> QED
    BY <1>1, <1>2, <2>1
<1>5. TypeOK'
  BY <1>1, <1>2, <1>3, <1>4, WalkTyped, ChargeTyped DEF TypeOK, PosRecords
<1> QED
  BY <1>3, <1>5 DEF Base

\* The keys and the defect a parsed block adds.
LEMMA BlockTyped ==
  ASSUME Base, pos.at = "block", UNCHANGED walk, ListDefect, NEW keys, Returned(keys)
  PROVE  times' \in [Positions -> Nat] /\ malformed' \subseteq KeyGroups
<1>1. pos.kg \in KeyGroups /\ TypeOK
  BY AtUnit
<1> QED
  BY <1>1 DEF TypeOK, ListDefect, Returned

\* After the keys of a block the page stands past it, or returns the cursor of the
\* first key that did not fit.
LEMMA KeysOfBlockBase == Base /\ KeysOfBlock => Base'
<1> SUFFICES ASSUME Base, KeysOfBlock PROVE Base'
  OBVIOUS
<1> DEFINE keys == WantedIn(pos.kg, pos.ord, BlockStop)
<1>1. /\ pos.at = "block" /\ mode \in {"key_page", "scan"} /\ ~PageFull
      /\ UNCHANGED <<walk, rep, tally>>
      /\ Charge /\ ListDefect /\ Returned(keys)
  BY DEF KeysOfBlock
<1>2. /\ pos.kg + 1 \in 0 .. MaxParallelism /\ pos.kg < pos.kg + 1
      /\ TypeOK /\ PosInv /\ PosOK(sp, pos) /\ WellFormed(sp)
      /\ pos.kg \in KeyGroups /\ pos.ord \in Nat /\ MaxParallelism \in Nat
  BY <1>1, AtUnit DEF KeyGroups
<1>3. /\ BlockStop \in Nat /\ Len(sp.blocks[pos.kg]) \in Nat
      /\ BlockStop < Len(sp.blocks[pos.kg]) => pos.ord < BlockStop
  BY <1>1, <1>2, BlockStopRange
<1>4. times' \in [Positions -> Nat] /\ malformed' \subseteq KeyGroups
  BY <1>1, BlockTyped
<1>5. bytes' \in Nat
  BY <1>1, ChargeTyped
<1> HIDE DEF keys
<1>6. CASE BlockStop < Len(sp.blocks[pos.kg])
  <2> DEFINE c == Cursor(pos.sub, pos.kg, BlockStop)
  <2>1. Return(c)
    BY <1>3, <1>6 DEF KeysOfBlock
  <2>2. c \in [subtask : Subtasks, key_group : 0 .. MaxParallelism, ordinal : Nat]
    BY <1>2, <1>3 DEF Cursor, PosOK
  <2>3. Stream!NotAfter(FrontOf(start), FrontOf(c))
    <3>1. /\ start.key_group \in Int /\ start.ordinal \in Int
          /\ cursor.key_group \in Int /\ cursor.ordinal \in Int
          /\ pos.kg \in Int
      BY <1>2 DEF TypeOK, KeyGroups
    <3>2. pos.ord < BlockStop
      BY <1>3, <1>6
    <3>3. FrontOf(c) = <<pos.kg, BlockStop>>
      BY <1>1 DEF FrontOf, OrdinalOf, Cursor
    <3>4. /\ cursor.key_group <= pos.kg
          /\ pos.kg = cursor.key_group => pos.ord = cursor.ordinal
      BY <1>1, <1>2 DEF PosInv, InPage, OrdinalAt, OrdinalOf
    <3>5. \/ start.key_group < cursor.key_group
          \/ start.key_group = cursor.key_group /\ start.ordinal <= cursor.ordinal
      BY <1>1, <1>2, <3>1 DEF PosInv, Stream!NotAfter, Stream!Before, FrontOf, OrdinalOf
    <3>6. FrontOf(start) = <<start.key_group, start.ordinal>>
      BY <1>1 DEF FrontOf, OrdinalOf
    <3> QED
      BY <1>2, <1>3, <3>1, <3>2, <3>3, <3>4, <3>5, <3>6 DEF Stream!NotAfter, Stream!Before
  <2>4. /\ PosInv' /\ pos' \in PosRecords /\ cursor' = c
        /\ page' \in [n : Nat, visited : BOOLEAN, bytes : Nat, limit : Nat \ {0}, budget : Nat]
    BY <1>1, <2>1, <2>2, <2>3, ReturnKeepsPosInv
  <2>5. TypeOK'
    BY <1>1, <1>2, <1>4, <1>5, <2>2, <2>4, WalkTyped DEF TypeOK, PosRecords
  <2> QED
    BY <2>4, <2>5 DEF Base
<1>7. CASE ~(BlockStop < Len(sp.blocks[pos.kg]))
  <2>1. /\ page' = [Charged EXCEPT !.n = @ + Cardinality(keys)]
        /\ pos' = Bounded(Seek(sp, pos.kg + 1, 0))
        /\ UNCHANGED cursor
    BY <1>3, <1>7 DEF KeysOfBlock, AfterBlock, keys
  <2>2. PosInv' /\ pos' \in PosRecords
    BY <1>1, <1>2, <2>1, SeekOn
  <2>3. Cardinality(keys) \in Nat
    BY <1>2, <1>3, WantedInFinite DEF keys
  <2>4. page' \in [n : Nat, visited : BOOLEAN, bytes : Nat, limit : Nat \ {0}, budget : Nat]
    BY <1>1, <2>1, <2>3, ChargeTyped
  <2>5. TypeOK'
    BY <1>1, <1>2, <1>4, <1>5, <2>1, <2>2, <2>4, WalkTyped DEF TypeOK, PosRecords
  <2> QED
    BY <2>2, <2>5 DEF Base
<1> QED
  BY <1>6, <1>7

\* After a counted block the page stands past it.
LEMMA CountBlockBase == Base /\ CountBlock => Base'
<1> SUFFICES ASSUME Base, CountBlock PROVE Base'
  OBVIOUS
<1> DEFINE keys == WantedIn(pos.kg, 0, Len(sp.blocks[pos.kg]))
<1>1. /\ pos.at = "block" /\ UNCHANGED <<walk, cursor, rep>>
      /\ Charge /\ ListDefect /\ Returned(keys)
      /\ page' = [Charged EXCEPT !.n = @ + Cardinality(keys)]
      /\ pos' = Bounded(Seek(sp, pos.kg + 1, 0))
  BY DEF CountBlock, AfterBlock
<1>2. /\ pos.kg + 1 \in 0 .. MaxParallelism /\ pos.kg < pos.kg + 1
      /\ TypeOK /\ WellFormed(sp) /\ pos.kg \in KeyGroups
  BY <1>1, AtUnit DEF KeyGroups
<1>3. times' \in [Positions -> Nat] /\ malformed' \subseteq KeyGroups
  BY <1>1, BlockTyped
<1>4. Cardinality(keys) \in Nat
  <2>1. sp.blocks[pos.kg] \in Seq(KeyRecords)
    BY <1>2 DEF WellFormed
  <2>2. Len(sp.blocks[pos.kg]) \in Nat
    BY <2>1
  <2> QED
    BY <1>2, <2>2, WantedInFinite
<1> HIDE DEF keys
<1>5. PosInv' /\ pos' \in PosRecords
  BY <1>1, <1>2, SeekOn
<1>6. page' \in [n : Nat, visited : BOOLEAN, bytes : Nat, limit : Nat \ {0}, budget : Nat]
  BY <1>1, <1>4, ChargeTyped
<1>7. TypeOK'
  BY <1>1, <1>2, <1>3, <1>5, <1>6, WalkTyped, ChargeTyped DEF TypeOK, PosRecords
<1> QED
  BY <1>5, <1>7 DEF Base

\* The type and position invariants are inductive.
LEMMA NextBase == Base /\ [Next]_vars => Base'
<1> SUFFICES ASSUME Base, [Next]_vars PROVE Base'
  OBVIOUS
<1>1. CASE UNCHANGED vars
  BY <1>1 DEF Base, TypeOK, PosInv, InPage, PosOK, OrdinalOf, FrontOf, Positions, WellFormed,
              Stream!NotAfter, Stream!Before, vars
<1>2. CASE Done
  BY <1>1, <1>2 DEF Done
<1> QED
  BY <1>1, <1>2, BeginBase, RefuseBase, CutBase, FinishBase, SkipUnreadableBase, ReadFailsBase,
     KeysOfBlockBase, CountBlockBase DEF Next

(***************************************************************************)
(* What a step hands over.                                                 *)
(***************************************************************************)

\* A step moves the frontier forward, lists key-groups between the old and the
\* new one, hands over once the wanted keys in between that it does not list,
\* and complains of every defect it passes.
Handed ==
    /\ UNCHANGED walk
    /\ Stream!NotAfter(Frontier, Frontier')
    /\ \A k \in KeyGroups :
          /\ rep'[k] = rep[k] \/ rep'[k] = rep[k] + 1
          /\ rep'[k] # rep[k] => Frontier[1] <= k /\ k < Frontier'[1]
    /\ \A p \in Positions :
          times'[p] = IF /\ Wanted(p) /\ Stream!NotAfter(Frontier, p)
                         /\ Stream!Before(p, Frontier') /\ rep'[p[1]] = rep[p[1]]
                      THEN times[p] + 1
                      ELSE times[p]
    /\ malformed \subseteq malformed'
    /\ \A k \in KeyGroups :
          sp.defect[k] /\ k <= last /\ Frontier[1] <= k /\ k < Frontier'[1]
          => k \in malformed' \/ rep'[k] # rep[k]

\* The frontier is a key-group and an ordinal; where it lies while a page is
\* read.
LEMMA FrontierFields ==
  ASSUME Base
  PROVE  /\ Frontier = <<Frontier[1], Frontier[2]>>
         /\ Frontier[1] \in 0 .. MaxParallelism /\ Frontier[2] \in Nat
         /\ ~InPage => Frontier = <<cursor.key_group, OrdinalOf(cursor)>>
         /\ InPage => Frontier[1] = pos.kg
         /\ pos.at = "block" => Frontier = <<pos.kg, pos.ord>>
         /\ InPage /\ pos.kg # cursor.key_group => Frontier = <<pos.kg, pos.ord>>
         /\ InPage /\ pos.kg = cursor.key_group => Frontier = <<cursor.key_group, OrdinalOf(cursor)>>
<1>1. /\ cursor.key_group \in 0 .. MaxParallelism /\ OrdinalOf(cursor) \in Nat
      /\ pos.kg \in 0 .. MaxParallelism /\ pos.ord \in Nat
  BY DEF Base, TypeOK, OrdinalOf
<1>2. InPage /\ pos.kg = cursor.key_group =>
        /\ pos.at # "end"
        /\ pos.at = "block" => pos.ord = OrdinalOf(cursor)
  BY ParallelismAssumption DEF Base, PosInv, PosOK, EndPos, Pos, KeyGroups, OrdinalAt
<1> QED
  BY <1>1, <1>2 DEF Frontier, FrontOf, InPage

\* The frontier after a page read on from key-group `from`.
LEMMA SeekOnFrontier ==
  ASSUME Base, pos.at \in {"block", "unreadable"}, UNCHANGED walk, UNCHANGED cursor,
         NEW from \in 0 .. MaxParallelism, pos.kg < from,
         pos' = Bounded(Seek(sp, from, 0)), Base'
  PROVE  /\ Frontier' = <<pos'.kg, 0>> /\ from <= pos'.kg /\ pos'.kg \in 0 .. MaxParallelism
         /\ \A p \in Positions : Wanted(p) /\ from <= p[1] => ~(p[1] < pos'.kg)
         /\ \A k \in KeyGroups : from <= k /\ k < pos'.kg /\ k <= last => ~sp.defect[k]
<1>1. InPage' /\ Reached(from, 0, pos')
  BY SeekOn
<1>2. /\ from <= pos'.kg /\ PosOK(sp, pos') /\ pos'.ord = 0
      /\ \A p \in Positions : Wanted(p) /\ from <= p[1] => ~(p[1] < pos'.kg)
      /\ \A k \in KeyGroups : from <= k /\ k < pos'.kg /\ k <= last => ~sp.defect[k]
  BY <1>1 DEF Reached, OrdinalAt
<1>3. pos'.kg \in 0 .. MaxParallelism
  BY <1>2 DEF PosOK
<1>4. /\ cursor.key_group \in KeyGroups /\ cursor.key_group <= pos.kg
      /\ pos.kg \in KeyGroups /\ MaxParallelism \in Nat
  BY AtUnit
<1>5. pos'.kg # cursor'.key_group
  BY <1>2, <1>3, <1>4 DEF KeyGroups
<1>6. Frontier' = <<pos'.kg, pos'.ord>>
  BY <1>1, <1>5 DEF Frontier, InPage
<1> QED
  BY <1>2, <1>3, <1>6

\* An unreadable unit is listed and handed over as such: every key-group moved past
\* is listed or holds no key.
LEMMA SkipUnreadableHands == Base /\ SkipUnreadable => Handed
<1> SUFFICES ASSUME Base, SkipUnreadable PROVE Handed
  OBVIOUS
<1> DEFINE end == UnitEnd(sp.sub[pos.sub])
<1>1. /\ pos.at = "unreadable"
      /\ UNCHANGED <<walk, cursor, times, malformed, tally, bytes>>
      /\ pos' = Bounded(Seek(sp, end + 1, 0))
      /\ rep' = [k \in KeyGroups |-> IF pos.kg <= k /\ k <= end THEN rep[k] + 1 ELSE rep[k]]
  BY DEF SkipUnreadable
<1>2. /\ end + 1 \in 0 .. MaxParallelism /\ pos.kg < end + 1 /\ TypeOK /\ end \in Int
      /\ pos.kg \in Int /\ InPage /\ WellFormed(sp) /\ MaxParallelism \in Nat
  BY <1>1, AtUnit DEF KeyGroups
<1> HIDE DEF end
<1>3. Base'
  BY SkipUnreadableBase
<1>4. /\ Frontier' = <<pos'.kg, 0>> /\ end + 1 <= pos'.kg /\ pos'.kg \in 0 .. MaxParallelism
      /\ \A p \in Positions : Wanted(p) /\ end + 1 <= p[1] => ~(p[1] < pos'.kg)
      /\ \A k \in KeyGroups : end + 1 <= k /\ k < pos'.kg /\ k <= last => ~sp.defect[k]
  BY <1>1, <1>2, <1>3, SeekOnFrontier
<1>5. Frontier[1] = pos.kg /\ Frontier[2] \in Nat
  BY <1>2, FrontierFields
<1>6. \A k \in KeyGroups : /\ rep[k] \in Nat
                           /\ rep'[k] # rep[k] <=> pos.kg <= k /\ k <= end
                           /\ rep'[k] = rep[k] \/ rep'[k] = rep[k] + 1
  BY <1>1, <1>2 DEF TypeOK
<1>7. ASSUME NEW p \in Positions, Wanted(p), Stream!NotAfter(Frontier, p),
             Stream!Before(p, Frontier')
      PROVE  rep'[p[1]] # rep[p[1]]
  <2>1. p[1] \in KeyGroups /\ p[2] \in Nat
    BY <1>2, PositionFields
  <2>2. pos.kg <= p[1]
    BY <2>1, <1>2, <1>5, <1>7 DEF Stream!NotAfter, Stream!Before, KeyGroups
  <2>3. p[1] < pos'.kg
    BY <2>1, <1>4, <1>7 DEF Stream!Before
  <2>4. ~(end + 1 <= p[1])
    BY <2>3, <1>4, <1>7
  <2> QED
    BY <2>1, <2>2, <2>4, <1>2, <1>6 DEF KeyGroups
<1>8. Stream!NotAfter(Frontier, Frontier')
  BY <1>2, <1>4, <1>5 DEF Stream!NotAfter, Stream!Before
<1>9. \A k \in KeyGroups : rep'[k] # rep[k] => Frontier[1] <= k /\ k < Frontier'[1]
  BY <1>2, <1>4, <1>5, <1>6 DEF KeyGroups
<1>10. ASSUME NEW k \in KeyGroups, sp.defect[k], k <= last, Frontier[1] <= k, k < Frontier'[1]
       PROVE  rep'[k] # rep[k]
  BY <1>2, <1>4, <1>5, <1>6, <1>10 DEF KeyGroups
<1> QED
  BY <1>1, <1>6, <1>7, <1>8, <1>9, <1>10 DEF Handed

\* A block that cannot be read is the one key-group listed.
LEMMA ReadFailsHands == Base /\ ReadFails => Handed
<1> SUFFICES ASSUME Base, ReadFails PROVE Handed
  OBVIOUS
<1>1. /\ pos.at = "block"
      /\ UNCHANGED <<walk, cursor, times, malformed, tally>>
      /\ pos' = Bounded(Seek(sp, pos.kg + 1, 0))
      /\ rep' = [rep EXCEPT ![pos.kg] = @ + 1]
  BY DEF ReadFails, AfterBlock
<1>2. /\ pos.kg + 1 \in 0 .. MaxParallelism /\ pos.kg < pos.kg + 1 /\ TypeOK
      /\ pos.kg \in KeyGroups /\ InPage /\ WellFormed(sp) /\ MaxParallelism \in Nat
      /\ pos.kg \in Int /\ pos.ord \in Nat
  BY <1>1, AtUnit DEF KeyGroups
<1>3. Base'
  BY ReadFailsBase
<1>4. /\ Frontier' = <<pos'.kg, 0>> /\ pos.kg + 1 <= pos'.kg /\ pos'.kg \in 0 .. MaxParallelism
      /\ \A p \in Positions : Wanted(p) /\ pos.kg + 1 <= p[1] => ~(p[1] < pos'.kg)
      /\ \A k \in KeyGroups : pos.kg + 1 <= k /\ k < pos'.kg /\ k <= last => ~sp.defect[k]
  BY <1>1, <1>2, <1>3, SeekOnFrontier
<1>5. Frontier = <<pos.kg, pos.ord>>
  BY <1>1, FrontierFields
<1>6. \A k \in KeyGroups : /\ rep[k] \in Nat
                           /\ rep'[k] # rep[k] <=> k = pos.kg
                           /\ rep'[k] = rep[k] \/ rep'[k] = rep[k] + 1
  <2>1. rep \in [KeyGroups -> Nat]
    BY <1>2 DEF TypeOK
  <2> QED
    BY <1>1, <1>2, <2>1
<1>7. ASSUME NEW p \in Positions, Wanted(p), Stream!NotAfter(Frontier, p),
             Stream!Before(p, Frontier')
      PROVE  rep'[p[1]] # rep[p[1]]
  <2>1. p[1] \in KeyGroups /\ p[2] \in Nat
    BY <1>2, PositionFields
  <2>2. pos.kg <= p[1]
    BY <2>1, <1>2, <1>5, <1>7 DEF Stream!NotAfter, Stream!Before, KeyGroups
  <2>3. p[1] < pos'.kg
    BY <2>1, <1>4, <1>7 DEF Stream!Before
  <2>4. ~(pos.kg + 1 <= p[1])
    BY <2>3, <1>4, <1>7
  <2> QED
    BY <2>1, <2>2, <2>4, <1>2, <1>6 DEF KeyGroups
<1>8. Stream!NotAfter(Frontier, Frontier')
  BY <1>2, <1>4, <1>5 DEF Stream!NotAfter, Stream!Before
<1>9. \A k \in KeyGroups : rep'[k] # rep[k] => Frontier[1] <= k /\ k < Frontier'[1]
  BY <1>2, <1>4, <1>5, <1>6 DEF KeyGroups
<1>10. ASSUME NEW k \in KeyGroups, sp.defect[k], k <= last, Frontier[1] <= k, k < Frontier'[1]
       PROVE  rep'[k] # rep[k]
  BY <1>2, <1>4, <1>5, <1>6, <1>10 DEF KeyGroups
<1> QED
  BY <1>1, <1>6, <1>7, <1>8, <1>9, <1>10 DEF Handed

\* A block read to its end, or up to the ordinal `stop` at which the page ends.
LEMMA BlockHands ==
  ASSUME Base, Base', pos.at = "block", UNCHANGED <<walk, rep>>, ListDefect,
         NEW stop \in Nat, Returned(WantedIn(pos.kg, pos.ord, stop)),
         \/ pos.ord <= stop /\ Frontier' = <<pos.kg, stop>>
         \/ /\ stop = Len(sp.blocks[pos.kg])
            /\ pos' = Bounded(Seek(sp, pos.kg + 1, 0)) /\ UNCHANGED cursor
  PROVE  Handed
<1>1. /\ pos.kg + 1 \in 0 .. MaxParallelism /\ pos.kg < pos.kg + 1 /\ TypeOK
      /\ pos.kg \in KeyGroups /\ InPage /\ WellFormed(sp) /\ MaxParallelism \in Nat
      /\ pos.kg \in Int /\ pos.ord \in Nat
  BY AtUnit DEF KeyGroups
<1>2. Frontier = <<pos.kg, pos.ord>>
  BY FrontierFields
<1>3. /\ \A p \in Positions :
            times'[p] = IF p \in WantedIn(pos.kg, pos.ord, stop) THEN times[p] + 1 ELSE times[p]
      /\ \A k \in KeyGroups : rep'[k] = rep[k]
  BY DEF Returned
<1>4. malformed \subseteq malformed' /\ (sp.defect[pos.kg] => pos.kg \in malformed')
  BY DEF ListDefect
<1>5. CASE pos.ord <= stop /\ Frontier' = <<pos.kg, stop>>
  <2>1. Stream!NotAfter(Frontier, Frontier')
    BY <1>1, <1>2, <1>5 DEF Stream!NotAfter, Stream!Before
  <2>2. ASSUME NEW p \in Positions
        PROVE  p \in WantedIn(pos.kg, pos.ord, stop) <=>
                 /\ Wanted(p) /\ Stream!NotAfter(Frontier, p)
                 /\ Stream!Before(p, Frontier') /\ rep'[p[1]] = rep[p[1]]
    <3>1. p[1] \in KeyGroups /\ p[1] \in Int /\ p[2] \in Nat
      BY <1>1, PositionFields DEF KeyGroups
    <3>2. /\ Stream!NotAfter(Frontier, p) <=> pos.kg < p[1] \/ (pos.kg = p[1] /\ pos.ord <= p[2])
          /\ Stream!Before(p, Frontier') <=> p[1] < pos.kg \/ (pos.kg = p[1] /\ p[2] < stop)
      BY <1>1, <1>2, <1>5, <3>1 DEF Stream!NotAfter, Stream!Before
    <3> QED
      BY <1>1, <1>3, <3>1, <3>2 DEF WantedIn
  <2>3. \A k \in KeyGroups : ~(Frontier[1] <= k /\ k < Frontier'[1])
    BY <1>1, <1>2, <1>5 DEF KeyGroups
  <2> QED
    BY <1>3, <1>4, <2>1, <2>2, <2>3 DEF Handed
<1>6. CASE /\ stop = Len(sp.blocks[pos.kg])
           /\ pos' = Bounded(Seek(sp, pos.kg + 1, 0)) /\ UNCHANGED cursor
  <2>1. /\ Frontier' = <<pos'.kg, 0>> /\ pos.kg + 1 <= pos'.kg /\ pos'.kg \in 0 .. MaxParallelism
        /\ \A p \in Positions : Wanted(p) /\ pos.kg + 1 <= p[1] => ~(p[1] < pos'.kg)
        /\ \A k \in KeyGroups : pos.kg + 1 <= k /\ k < pos'.kg /\ k <= last => ~sp.defect[k]
    BY <1>1, <1>6, SeekOnFrontier
  <2>2. Stream!NotAfter(Frontier, Frontier')
    BY <1>1, <1>2, <2>1 DEF Stream!NotAfter, Stream!Before
  <2>3. ASSUME NEW p \in Positions
        PROVE  p \in WantedIn(pos.kg, pos.ord, stop) <=>
                 /\ Wanted(p) /\ Stream!NotAfter(Frontier, p)
                 /\ Stream!Before(p, Frontier') /\ rep'[p[1]] = rep[p[1]]
    <3>1. /\ p[1] \in KeyGroups /\ p[1] \in Int /\ p[2] \in Nat
          /\ p[2] < Len(sp.blocks[p[1]])
      BY <1>1, PositionFields DEF KeyGroups
    <3>2. /\ Stream!NotAfter(Frontier, p) <=> pos.kg < p[1] \/ (pos.kg = p[1] /\ pos.ord <= p[2])
          /\ Stream!Before(p, Frontier') <=> p[1] < pos'.kg
      BY <1>1, <1>2, <2>1, <3>1 DEF Stream!NotAfter, Stream!Before
    <3>3. Wanted(p) /\ p[1] < pos'.kg => ~(pos.kg < p[1])
      BY <1>1, <2>1, <3>1
    <3> QED
      BY <1>1, <1>3, <1>6, <2>1, <3>1, <3>2, <3>3 DEF WantedIn
  <2>4. ASSUME NEW k \in KeyGroups, sp.defect[k], k <= last, Frontier[1] <= k, k < Frontier'[1]
        PROVE  k \in malformed'
    BY <1>1, <1>2, <1>4, <2>1, <2>4 DEF KeyGroups
  <2> QED
    BY <1>3, <1>4, <2>2, <2>3, <2>4 DEF Handed
<1> QED
  BY <1>5, <1>6

\* A key page or a scan hands over exactly the wanted keys it moves past.
LEMMA KeysOfBlockHands == Base /\ KeysOfBlock => Handed
<1> SUFFICES ASSUME Base, KeysOfBlock PROVE Handed
  OBVIOUS
<1>1. /\ pos.at = "block" /\ mode \in {"key_page", "scan"} /\ ~PageFull
      /\ UNCHANGED <<walk, rep>> /\ ListDefect
      /\ Returned(WantedIn(pos.kg, pos.ord, BlockStop))
  BY DEF KeysOfBlock
<1>2. TypeOK /\ PosOK(sp, pos)
  BY <1>1, AtUnit
<1>3. /\ BlockStop \in Nat /\ BlockStop <= Len(sp.blocks[pos.kg])
      /\ Len(sp.blocks[pos.kg]) \in Nat
      /\ BlockStop < Len(sp.blocks[pos.kg]) => pos.ord < BlockStop
  BY <1>1, <1>2, BlockStopRange
<1>4. pos.ord \in Nat /\ Base'
  BY <1>1, AtUnit, KeysOfBlockBase
<1>5. CASE BlockStop < Len(sp.blocks[pos.kg])
  <2>1. Return(Cursor(pos.sub, pos.kg, BlockStop))
    BY <1>3, <1>5 DEF KeysOfBlock
  <2>2. Frontier' = <<pos.kg, BlockStop>>
    BY <1>1, <2>1 DEF Return, Frontier, Idle, Pos, FrontOf, OrdinalOf, Cursor, walk
  <2>3. pos.ord <= BlockStop
    BY <1>3, <1>4, <1>5
  <2> QED
    BY <1>1, <1>3, <1>4, <2>2, <2>3, BlockHands
<1>6. CASE ~(BlockStop < Len(sp.blocks[pos.kg]))
  <2>1. /\ pos' = Bounded(Seek(sp, pos.kg + 1, 0)) /\ UNCHANGED cursor
        /\ BlockStop = Len(sp.blocks[pos.kg])
    BY <1>3, <1>6 DEF KeysOfBlock, AfterBlock
  <2> QED
    BY <1>1, <1>3, <1>4, <2>1, BlockHands
<1> QED
  BY <1>5, <1>6

\* A count hands over every key of the block it moves past.
LEMMA CountBlockHands == Base /\ CountBlock => Handed
<1> SUFFICES ASSUME Base, CountBlock PROVE Handed
  OBVIOUS
<1>1. /\ pos.at = "block" /\ mode = "count" /\ UNCHANGED <<walk, cursor, rep>> /\ ListDefect
      /\ Returned(WantedIn(pos.kg, 0, Len(sp.blocks[pos.kg])))
      /\ pos' = Bounded(Seek(sp, pos.kg + 1, 0))
  BY DEF CountBlock, AfterBlock
<1>2. PosInv /\ WellFormed(sp) /\ pos.kg \in KeyGroups /\ InPage
  BY <1>1, AtUnit
<1>3. pos.ord = 0
  BY <1>1, <1>2 DEF PosInv, OrdinalAt, OrdinalOf
<1>4. Len(sp.blocks[pos.kg]) \in Nat
  <2>1. sp.blocks[pos.kg] \in Seq(KeyRecords)
    BY <1>2 DEF WellFormed
  <2> QED
    BY <2>1
<1>5. Base'
  BY CountBlockBase
<1> QED
  BY <1>1, <1>3, <1>4, <1>5, BlockHands

\* A step that leaves the frontier in place and hands nothing over.
LEMMA StillHands ==
  ASSUME Base, UNCHANGED <<walk, got>>, Frontier' = Frontier
  PROVE  Handed
<1>1. /\ Frontier[1] \in 0 .. MaxParallelism /\ Frontier[2] \in Nat /\ WellFormed(sp)
      /\ MaxParallelism \in Nat
  BY FrontierFields, ParallelismAssumption DEF Base, TypeOK
<1>2. Stream!NotAfter(Frontier, Frontier')
  BY <1>1 DEF Stream!NotAfter, Stream!Before
<1>3. ASSUME NEW p \in Positions
      PROVE  ~(Stream!NotAfter(Frontier, p) /\ Stream!Before(p, Frontier'))
  BY DEF Stream!NotAfter
<1>4. \A k \in KeyGroups : ~(Frontier[1] <= k /\ k < Frontier'[1])
  BY <1>1 DEF KeyGroups
<1> QED
  BY <1>2, <1>3, <1>4 DEF Handed, got

\* seek at the start of a page passes over no key.
LEMMA BeginHands == Base /\ Begin => Handed
<1> SUFFICES ASSUME Base, Begin PROVE Handed
  OBVIOUS
<1> DEFINE from == cursor.key_group
           ord  == OrdinalOf(cursor)
<1>1. /\ pos = Idle /\ pos.at = "idle" /\ UNCHANGED <<walk, cursor, got, bytes>>
      /\ pos' = Bounded(Seek(sp, from, ord)) /\ ~InPage
  BY DEF Begin, Idle, Pos, InPage
<1>2. /\ TypeOK /\ from \in 0 .. MaxParallelism /\ ord \in Nat /\ MaxParallelism \in Nat
      /\ WellFormed(sp)
  BY ParallelismAssumption DEF Base, TypeOK, OrdinalOf
<1>3. Base'
  BY BeginBase
<1>4. Reached(from, ord, pos')
  BY <1>1, <1>2, SeekReaches
<1>5. /\ PosOK(sp, pos') /\ from <= pos'.kg
      /\ pos'.at = "block" => pos'.ord = OrdinalAt(pos'.kg, from, ord)
      /\ pos'.at # "block" => pos'.ord = 0
      /\ \A p \in Positions : Wanted(p) /\ from <= p[1] => ~(p[1] < pos'.kg)
      /\ \A k \in KeyGroups : from <= k /\ k < pos'.kg /\ k <= last => ~sp.defect[k]
  BY <1>4 DEF Reached
<1>6. pos'.kg \in 0 .. MaxParallelism /\ InPage'
  BY <1>5 DEF PosOK, InPage
<1>7. Frontier = <<from, ord>>
  BY <1>1, FrontierFields
<1>8. CASE pos'.kg = from
  <2>1. OrdinalOf(cursor)' = ord
    BY <1>1 DEF OrdinalOf, walk
  <2>2. pos'.at # "end"
    BY <1>1, <1>5, <1>8 DEF PosOK, EndPos, Pos, Begin, CheckCursor
  <2>3. Frontier' = <<from, ord>>
    BY <1>1, <1>5, <1>6, <1>8, <2>1, <2>2 DEF Frontier, FrontOf, InPage, OrdinalAt
  <2> QED
    BY <1>1, <1>7, <2>3, StillHands
<1>9. CASE pos'.kg # from
  <2>1. Frontier' = <<pos'.kg, 0>>
    BY <1>1, <1>5, <1>6, <1>9 DEF Frontier, InPage, OrdinalAt
  <2>2. Stream!NotAfter(Frontier, Frontier')
    BY <1>2, <1>5, <1>6, <1>7, <1>9, <2>1 DEF Stream!NotAfter, Stream!Before
  <2>3. ASSUME NEW p \in Positions, Wanted(p)
        PROVE  ~(Stream!NotAfter(Frontier, p) /\ Stream!Before(p, Frontier'))
    <3>1. p[1] \in KeyGroups /\ p[1] \in Int /\ p[2] \in Nat
      BY <1>2, PositionFields DEF KeyGroups
    <3> QED
      BY <1>2, <1>5, <1>6, <1>7, <2>1, <2>3, <3>1 DEF Stream!NotAfter, Stream!Before
  <2>4. \A k \in KeyGroups : k <= last => ~(sp.defect[k] /\ Frontier[1] <= k /\ k < Frontier'[1])
    BY <1>5, <1>7, <2>1
  <2> QED
    BY <1>1, <2>2, <2>3, <2>4 DEF Handed, got
<1> QED
  BY <1>8, <1>9

\* A page that is refused, cut or finished leaves the frontier where the walk is.
LEMMA QuietHands == Base /\ (Refuse \/ Cut \/ Finish) => Handed
<1> SUFFICES ASSUME Base, Refuse \/ Cut \/ Finish PROVE Handed
  OBVIOUS
<1>1. UNCHANGED <<walk, got>>
  BY DEF Refuse, Cut, Finish
<1>2. CASE Refuse
  <2>1. ~InPage /\ pos'.at = "refused" /\ UNCHANGED cursor
    BY <1>2 DEF Refuse, Idle, Refused, Pos, InPage
  <2>2. Frontier' = Frontier
    BY <1>1, <2>1 DEF Frontier, FrontOf, OrdinalOf, InPage, walk
  <2> QED
    BY <1>1, <2>2, StillHands
<1>3. CASE Cut
  <2>1. InPage /\ PageFull /\ Return(CursorOf(pos))
    BY <1>3 DEF Cut, InPage
  <2>2. /\ CursorOf(pos).key_group = pos.kg /\ OrdinalOf(CursorOf(pos)) = pos.ord
        /\ cursor.key_group < pos.kg
    BY <2>1, FullPageMoved
  <2>3. pos.kg # cursor.key_group
    BY <2>2 DEF Base, TypeOK
  <2>4. Frontier = <<pos.kg, pos.ord>>
    BY <2>1, <2>3, FrontierFields
  <2>5. Frontier' = <<pos.kg, pos.ord>>
    BY <1>1, <2>1, <2>2 DEF Return, Frontier, FrontOf, OrdinalOf, Idle, Pos, walk
  <2> QED
    BY <1>1, <2>4, <2>5, StillHands
<1>4. CASE Finish
  <2>1. pos.at = "end" /\ Return(NoCursor) /\ InPage
    BY <1>4 DEF Finish, InPage
  <2>2. pos = EndPos
    BY <2>1 DEF Base, PosInv, PosOK
  <2>3. Frontier = <<MaxParallelism, 0>>
    BY <2>1, <2>2 DEF Frontier, EndPos, Pos
  <2>4. Frontier' = <<MaxParallelism, 0>>
    BY <2>1 DEF Return, Frontier, FrontOf, OrdinalOf, Idle, Pos, NoCursor, Cursor
  <2> QED
    BY <1>1, <2>3, <2>4, StillHands
<1> QED
  BY <1>2, <1>3, <1>4

\* Every step hands over what the frontier moves past, once.
LEMMA StepHands == Base /\ [Next]_vars => Handed
<1> SUFFICES ASSUME Base, [Next]_vars PROVE Handed
  OBVIOUS
<1>1. CASE UNCHANGED vars
  <2>1. UNCHANGED <<walk, got>> /\ Frontier' = Frontier
    BY <1>1 DEF vars, walk, got, Frontier, FrontOf, OrdinalOf
  <2> QED
    BY <2>1, StillHands
<1>2. CASE Done
  BY <1>1, <1>2 DEF Done
<1> QED
  BY <1>1, <1>2, BeginHands, QuietHands, SkipUnreadableHands, ReadFailsHands,
     KeysOfBlockHands, CountBlockHands DEF Next

(***************************************************************************)
(* The theorems.                                                           *)
(***************************************************************************)

\* Type correctness of the paged walk.
THEOREM TypeCorrect == Spec => []TypeOK
<1>1. Base => TypeOK
  BY DEF Base
<1> QED
  BY InitBase, NextBase, <1>1, PTL DEF Spec

\* What the pages have handed over, as one inductive invariant.
HandedInv == NothingLostOrRepeated /\ ReportedOnce /\ DefectsReported

\* Nothing is behind the first frontier.
LEMMA InitHanded == Init => HandedInv
<1> SUFFICES ASSUME Init PROVE HandedInv
  OBVIOUS
<1>1. Base
  BY InitBase
<1>2. /\ cursor = start /\ pos.at = "idle" /\ times = [p \in Positions |-> 0]
      /\ rep = [k \in KeyGroups |-> 0]
  BY DEF Init, Idle, Pos
<1>3. Frontier = FrontOf(start)
  BY <1>2 DEF Frontier
<1>4. \A p \in Positions : ~(Stream!NotAfter(FrontOf(start), p) /\ Stream!Before(p, Frontier))
  BY <1>3 DEF Stream!NotAfter
<1>5. Frontier[1] = start.key_group /\ start.key_group \in 0 .. MaxParallelism /\ MaxParallelism \in Nat
  BY <1>1, <1>3, ParallelismAssumption DEF FrontOf, Base, TypeOK
<1>6. NothingLostOrRepeated
  BY <1>2, <1>4 DEF NothingLostOrRepeated
<1>7. ReportedOnce
  BY <1>2 DEF ReportedOnce
<1>8. DefectsReported
  BY <1>5 DEF DefectsReported, KeyGroups
<1> QED
  BY <1>6, <1>7, <1>8 DEF HandedInv

\* What was handed over behind the frontier stays so, and the step adds exactly
\* what it moved past.
LEMMA NextHanded == Base /\ Base' /\ HandedInv /\ Handed => HandedInv'
<1> SUFFICES ASSUME Base, Base', HandedInv, Handed PROVE HandedInv'
  OBVIOUS
<1> DEFINE f == Frontier
           g == Frontier'
           b == FrontOf(start)
<1>1. /\ f[1] \in Int /\ f[2] \in Int /\ g[1] \in Int /\ g[2] \in Int
      /\ b[1] \in Int /\ b[2] \in Int /\ b[1] = start.key_group
      /\ MaxParallelism \in Nat /\ WellFormed(sp) /\ TypeOK
  <2>1. f[1] \in 0 .. MaxParallelism /\ f[2] \in Nat
    BY FrontierFields
  <2>2. g[1] \in 0 .. MaxParallelism /\ g[2] \in Nat
    BY DEF Base, TypeOK, Frontier, FrontOf, OrdinalOf
  <2>3. b[1] \in 0 .. MaxParallelism /\ b[2] \in Nat /\ b[1] = start.key_group
    BY DEF Base, TypeOK, FrontOf, OrdinalOf
  <2> QED
    BY <2>1, <2>2, <2>3, ParallelismAssumption DEF Base, TypeOK
<1>2. Positions' = Positions /\ FrontOf(start)' = b /\ \A p : Wanted(p)' <=> Wanted(p)
  BY <1>1, WalkTyped DEF Handed, FrontOf, OrdinalOf, walk
<1>3. f[1] < g[1] \/ (f[1] = g[1] /\ f[2] <= g[2])
  BY <1>1 DEF Handed, Stream!NotAfter, Stream!Before
<1>4. b[1] < f[1] \/ (b[1] = f[1] /\ b[2] <= f[2])
  <2>1. Stream!NotAfter(FrontOf(start), FrontOf(cursor))
    BY DEF Base, PosInv
  <2>2. /\ cursor.key_group \in Int /\ OrdinalOf(cursor) \in Int /\ pos.kg \in Int
    BY DEF Base, TypeOK, OrdinalOf
  <2>3. b[1] < cursor.key_group \/ (b[1] = cursor.key_group /\ b[2] <= OrdinalOf(cursor))
    BY <1>1, <2>1, <2>2 DEF Stream!NotAfter, Stream!Before, FrontOf
  <2>4. CASE f = <<cursor.key_group, OrdinalOf(cursor)>>
    BY <2>3, <2>4
  <2>5. CASE InPage /\ pos.kg # cursor.key_group
    <3>1. cursor.key_group < pos.kg /\ f[1] = pos.kg
      BY <2>2, <2>5, FrontierFields DEF Base, PosInv
    <3> QED
      BY <3>1, <2>2, <2>3, <1>1
  <2> HIDE DEF f
  <2> QED
    BY <2>4, <2>5, FrontierFields DEF f
<1>5. \A k \in KeyGroups : rep[k] \in Nat
  BY <1>1 DEF TypeOK
<1>6. \A p \in Positions : times[p] \in Nat
  BY <1>1 DEF TypeOK
<1> HIDE DEF f, g, b
<1>7. ASSUME NEW k \in KeyGroups
      PROVE  /\ rep'[k] <= 1 /\ (rep'[k] = 1 => k < g[1])
             /\ rep[k] = 1 => rep'[k] = 1
             /\ rep'[k] # rep[k] => rep'[k] = 1
  <2>1. rep[k] <= 1 /\ (rep[k] = 1 => k < f[1])
    BY DEF HandedInv, ReportedOnce, f
  <2>2. /\ rep'[k] = rep[k] \/ rep'[k] = rep[k] + 1
        /\ rep'[k] # rep[k] => f[1] <= k /\ k < g[1]
    BY DEF Handed, f, g
  <2> QED
    BY <2>1, <2>2, <1>1, <1>3, <1>5 DEF KeyGroups
<1>8. ReportedOnce'
  BY <1>7 DEF ReportedOnce, g
<1>9. ASSUME NEW k \in KeyGroups, sp.defect[k], k <= last, start.key_group <= k, k < g[1]
      PROVE  k \in malformed' \/ rep'[k] = 1
  <2>1. CASE k < f[1]
    BY <2>1, <1>7, <1>9 DEF HandedInv, DefectsReported, Handed, f
  <2>2. CASE ~(k < f[1])
    BY <2>2, <1>1, <1>7, <1>9 DEF Handed, f, g, KeyGroups
  <2> QED
    BY <2>1, <2>2
<1>10. DefectsReported'
  BY <1>9 DEF DefectsReported, Handed, walk, g
<1>11. ASSUME NEW p \in Positions
       PROVE  /\ times'[p] <= 1
              /\ times'[p] = 1 => Wanted(p) /\ Stream!NotAfter(b, p) /\ Stream!Before(p, g)
              /\ Wanted(p) /\ Stream!NotAfter(b, p) /\ Stream!Before(p, g)
                    => times'[p] = 1 \/ rep'[p[1]] = 1
  <2>1. p[1] \in KeyGroups /\ p[1] \in Int /\ p[2] \in Int
    BY <1>1, PositionFields DEF KeyGroups
  <2>2. /\ times[p] <= 1
        /\ times[p] = 1 => Wanted(p) /\ Stream!NotAfter(b, p) /\ Stream!Before(p, f)
        /\ Wanted(p) /\ Stream!NotAfter(b, p) /\ Stream!Before(p, f)
              => times[p] = 1 \/ rep[p[1]] = 1
    BY DEF HandedInv, NothingLostOrRepeated, b, f
  <2>3. times'[p] = IF /\ Wanted(p) /\ Stream!NotAfter(f, p)
                       /\ Stream!Before(p, g) /\ rep'[p[1]] = rep[p[1]]
                    THEN times[p] + 1
                    ELSE times[p]
    BY DEF Handed, f, g
  <2>4. /\ Stream!NotAfter(f, p) <=> ~Stream!Before(p, f)
        /\ Stream!Before(p, f) => Stream!Before(p, g)
        /\ Stream!NotAfter(f, p) => Stream!NotAfter(b, p)
    BY <1>1, <1>3, <1>4, <2>1 DEF Stream!NotAfter, Stream!Before
  <2> QED
    BY <2>1, <2>2, <2>3, <2>4, <1>6, <1>7
<1>12. NothingLostOrRepeated'
  BY <1>2, <1>11 DEF NothingLostOrRepeated, g
<1> QED
  BY <1>8, <1>10, <1>12 DEF HandedInv

\* Whatever limits and budgets the client chooses and whichever reads fail, no
\* key is lost between two pages, none is returned twice, and none comes
\* unasked.
THEOREM NothingLostOrRepeatedHolds == Spec => []NothingLostOrRepeated
<1>1. HandedInv => NothingLostOrRepeated
  BY DEF HandedInv
<1> QED
  BY InitBase, NextBase, InitHanded, StepHands, NextHanded, <1>1, PTL DEF Spec

\* Each unreadable key-group is listed exactly once, by the page that passes it.
THEOREM ReportedOnceHolds == Spec => []ReportedOnce
<1>1. HandedInv => ReportedOnce
  BY DEF HandedInv
<1> QED
  BY InitBase, NextBase, InitHanded, StepHands, NextHanded, <1>1, PTL DEF Spec

\* No malformed block is passed in silence.
THEOREM DefectsReportedHolds == Spec => []DefectsReported
<1>1. HandedInv => DefectsReported
  BY DEF HandedInv
<1> QED
  BY InitBase, NextBase, InitHanded, StepHands, NextHanded, <1>1, PTL DEF Spec

\* A step of the walk is a step of the stream of keys, or leaves it unchanged.
LEMMA StepRefines == Base /\ Base' /\ Handed => Stream!SNext
<1> SUFFICES ASSUME Base, Base', Handed PROVE Stream!SNext
  OBVIOUS
<1>1. UNCHANGED walk /\ TypeOK
  BY DEF Handed, Base
<1>2. WantedKeys' = WantedKeys /\ FrontOf(start)' = FrontOf(start)
  BY <1>1, WalkTyped DEF WantedKeys, FrontOf, OrdinalOf, walk
<1>3. \A k \in Stream!Listed : Frontier[1] <= k /\ k < Frontier'[1]
  BY DEF Handed, Stream!Listed
<1>4. rep' = [k \in KeyGroups |-> IF k \in Stream!Listed THEN rep[k] + 1 ELSE rep[k]]
  <2>1. rep' \in [KeyGroups -> Nat]
    BY DEF Base, TypeOK
  <2>2. \A k \in KeyGroups : rep'[k] = IF k \in Stream!Listed THEN rep[k] + 1 ELSE rep[k]
    BY DEF Handed, Stream!Listed
  <2> QED
    BY <2>1, <2>2
<1>5. ASSUME NEW p \in WantedKeys
      PROVE  times'[p] = IF /\ Stream!NotAfter(Frontier, p) /\ Stream!Before(p, Frontier')
                            /\ p[1] \notin Stream!Listed
                         THEN times[p] + 1
                         ELSE times[p]
  <2>1. p \in Positions /\ Wanted(p)
    BY DEF WantedKeys
  <2>2. p[1] \in KeyGroups
    BY <1>1, <2>1, PositionFields DEF TypeOK
  <2>3. p[1] \notin Stream!Listed <=> rep'[p[1]] = rep[p[1]]
    BY <2>2 DEF Stream!Listed
  <2> QED
    BY <2>1, <2>3 DEF Handed
<1>6. Stream!NotAfter(Frontier, Frontier')
  BY DEF Handed
<1>7. Stream!Advance(Frontier', Stream!Listed)
  BY <1>2, <1>3, <1>4, <1>5, <1>6 DEF Stream!Advance
<1> QED
  BY <1>7 DEF Stream!SNext

\* The paged walk implements the stream of keys: seen through the keys handed
\* over, pages and their cuts are invisible.
THEOREM WalkImplementsStream == Spec => StreamsKeys
<1>1. Init => Stream!SInit
  <2> SUFFICES ASSUME Init PROVE Stream!SInit
    OBVIOUS
  <2>1. cursor = start /\ pos.at = "idle"
    BY DEF Init, Idle, Pos
  <2>2. Frontier = FrontOf(start)
    BY <2>1 DEF Frontier
  <2>3. \A p \in WantedKeys : times[p] = 0
    BY DEF Init, WantedKeys
  <2> QED
    BY <2>2, <2>3 DEF Stream!SInit, Init
<1> QED
  BY <1>1, InitBase, NextBase, StepHands, StepRefines, PTL DEF Spec, StreamsKeys, Stream!SSpec

\* Every page moves on: the cursor it returns lies after the one it was given.
LEMMA StepAdvances ==
  ASSUME Base, [Next]_vars, cursor' # cursor
  PROVE  Stream!Before(FrontOf(cursor), FrontOf(cursor)')
<1>1. TypeOK /\ PosInv /\ MaxParallelism \in Nat
  BY ParallelismAssumption DEF Base, TypeOK
<1>2. cursor.key_group \in Int /\ cursor.ordinal \in Int /\ pos.kg \in Int
  BY <1>1 DEF TypeOK
<1>3. CASE Cut
  <2>1. InPage /\ PageFull /\ cursor' = CursorOf(pos)
    BY <1>3 DEF Cut, InPage, Return
  <2>2. CursorOf(pos).key_group = pos.kg /\ cursor.key_group < pos.kg
    BY <2>1, FullPageMoved
  <2> QED
    BY <1>2, <2>1, <2>2 DEF Stream!Before, FrontOf
<1>4. CASE Finish
  <2>1. cursor' = NoCursor /\ InPage
    BY <1>4 DEF Finish, InPage, Return
  <2>2. cursor.key_group \in KeyGroups
    BY <1>1, <2>1 DEF PosInv
  <2> QED
    BY <1>1, <2>1, <2>2 DEF Stream!Before, FrontOf, NoCursor, Cursor, KeyGroups
<1>5. CASE KeysOfBlock
  <2>1. /\ pos.at = "block" /\ mode \in {"key_page", "scan"} /\ mode' = mode /\ ~PageFull
        /\ BlockStop < Len(sp.blocks[pos.kg]) /\ cursor' = Cursor(pos.sub, pos.kg, BlockStop)
    BY <1>5 DEF KeysOfBlock, Return, walk
  <2>2. PosOK(sp, pos) /\ InPage /\ pos.ord \in Nat /\ cursor.key_group <= pos.kg
    BY <2>1, AtUnit
  <2>3. BlockStop \in Nat /\ pos.ord < BlockStop
    BY <1>1, <2>1, <2>2, BlockStopRange
  <2>4. pos.kg = cursor.key_group => pos.ord = cursor.ordinal
    BY <1>1, <2>1, <2>2 DEF PosInv, OrdinalAt, OrdinalOf
  <2>5. FrontOf(cursor)' = <<pos.kg, BlockStop>> /\ FrontOf(cursor) = <<cursor.key_group, cursor.ordinal>>
    BY <2>1 DEF FrontOf, OrdinalOf, Cursor
  <2> QED
    BY <1>2, <2>2, <2>3, <2>4, <2>5 DEF Stream!Before
<1>6. CASE \/ Begin \/ Refuse \/ SkipUnreadable \/ ReadFails \/ CountBlock \/ Done
           \/ UNCHANGED vars
  BY <1>6 DEF Begin, Refuse, SkipUnreadable, ReadFails, CountBlock, Done, vars
<1> QED
  BY <1>3, <1>4, <1>5, <1>6 DEF Next

\* No page returns its own cursor or an earlier one, whatever its limits.
THEOREM PagesAdvanceHolds == Spec => PagesAdvance
<1>1. Base /\ [Next]_vars => [cursor' # cursor => Stream!Before(FrontOf(cursor), FrontOf(cursor)')]_vars
  BY StepAdvances
<1> QED
  BY <1>1, InitBase, NextBase, PTL DEF Spec, PagesAdvance

(***************************************************************************)
(* Cursors.                                                                *)
(***************************************************************************)

\* The cursor of a walk is its first one, none, or one that check_cursor
\* accepts. Unlike IssuedCursorsAccepted it says so while a page is read too.
CursorsAccepted == cursor \in {start, NoCursor} \/ CheckCursor(sp, cursor)

\* A cursor made of a key-group and the subtask that holds it is accepted: no
\* second unit holds the key-group.
LEMMA HolderAccepted ==
  ASSUME NEW sv, WellFormed(sv), NEW k \in KeyGroups, NEW s \in Holders(sv, k), NEW o
  PROVE  CheckCursor(sv, Cursor(s, k, o))
<1>1. k < MaxParallelism
  BY ParallelismAssumption DEF KeyGroups
<1>2. \A t \in Holders(sv, k) : t = s
  BY DEF WellFormed
<1> QED
  BY <1>1, <1>2 DEF CheckCursor, Cursor

\* cursor_at names the unit that holds the key-group, when there is one.
LEMMA CursorAtAccepted ==
  ASSUME NEW sv, WellFormed(sv), NEW k \in KeyGroups
  PROVE  CheckCursor(sv, CursorAt(sv, k))
<1>1. CASE Holders(sv, k) = {}
  <2>1. CursorAt(sv, k) = Cursor(SubtaskForKeyGroup(k), k, 0) /\ k < MaxParallelism
    BY <1>1, ParallelismAssumption DEF CursorAt, KeyGroups
  <2> QED
    BY <1>1, <2>1 DEF CheckCursor, Cursor
<1>2. CASE Holders(sv, k) # {}
  <2> DEFINE u == CHOOSE s \in Holders(sv, k) : TRUE
  <2>1. u \in Holders(sv, k)
    BY <1>2
  <2>2. CursorAt(sv, k) = Cursor(u, k, 0)
    BY <1>2 DEF CursorAt
  <2> HIDE DEF u
  <2> QED
    BY <2>1, <2>2, HolderAccepted
<1> QED
  BY <1>1, <1>2

\* The page that ends before a block or an unreadable unit names its unit, and
\* so does the one that ends inside a block.
LEMMA NextCursors == Base /\ CursorsAccepted /\ [Next]_vars => CursorsAccepted'
<1> SUFFICES ASSUME Base, CursorsAccepted, [Next]_vars PROVE CursorsAccepted'
  OBVIOUS
<1>1. CASE UNCHANGED <<walk, cursor>>
  BY <1>1 DEF CursorsAccepted, walk
<1>2. CASE Finish
  BY <1>2 DEF Finish, Return, CursorsAccepted, NoCursor, Cursor
<1>3. CASE Cut
  <2>1. UNCHANGED walk /\ cursor' = CursorOf(pos) /\ InPage
    BY <1>3 DEF Cut, Return, InPage
  <2>2. CASE pos.at = "end"
    BY <2>1, <2>2 DEF CursorOf, CursorsAccepted, NoCursor, Cursor
  <2>3. CASE pos.at # "end"
    <3>1. /\ WellFormed(sp) /\ pos.kg \in KeyGroups /\ pos.sub \in Holders(sp, pos.kg)
      BY <2>1, <2>3 DEF Base, TypeOK, PosInv, PosOK
    <3>2. CheckCursor(sp, Cursor(pos.sub, pos.kg, pos.ord))
      BY <3>1, HolderAccepted
    <3> QED
      BY <2>1, <2>3, <3>2 DEF CursorOf, CursorsAccepted, walk
  <2> QED
    BY <2>2, <2>3
<1>4. CASE KeysOfBlock
  <2>1. /\ UNCHANGED walk /\ pos.at = "block"
        /\ cursor' \in {cursor, Cursor(pos.sub, pos.kg, BlockStop)}
    BY <1>4 DEF KeysOfBlock, Return
  <2>2. /\ WellFormed(sp) /\ pos.kg \in KeyGroups /\ pos.sub \in Holders(sp, pos.kg)
    BY <2>1 DEF Base, TypeOK, PosInv, PosOK, InPage
  <2>3. CheckCursor(sp, Cursor(pos.sub, pos.kg, BlockStop))
    BY <2>2, HolderAccepted
  <2> QED
    BY <2>1, <2>3 DEF CursorsAccepted, walk
<1>5. \/ Finish \/ Cut \/ KeysOfBlock \/ UNCHANGED <<walk, cursor>>
  BY DEF Next, Begin, Refuse, SkipUnreadable, ReadFails, CountBlock, Done, vars, walk
<1> QED
  BY <1>1, <1>2, <1>3, <1>4, <1>5

\* Every cursor that key_page, scan_with, count or cursor_at hands out is one
\* that check_cursor accepts: a client that only passes cursors on is never
\* told BadCursor, in any savepoint and however its pages are cut.
THEOREM IssuedCursorsAcceptedHolds == Spec => []IssuedCursorsAccepted
<1>1. Init => CursorsAccepted
  BY DEF Init, CursorsAccepted
<1>2. Base /\ CursorsAccepted => IssuedCursorsAccepted
  BY CursorAtAccepted DEF Base, TypeOK, CursorsAccepted, IssuedCursorsAccepted
<1> QED
  BY InitBase, NextBase, NextCursors, <1>1, <1>2, PTL DEF Spec

(***************************************************************************)
(* Counts.                                                                 *)
(***************************************************************************)

\* The keys handed over so far.
Counted == {p \in Positions : times[p] = 1}

\* The bytes of the readable blocks below key-group n.
Paid(n) == {b \in StoredBytes(sp, start.key_group, n) : sp.sub[b[1][1]].header}

\* A count has no last key-group; it has paid for the readable blocks behind the
\* frontier, and counted the states and entries of the keys handed over.
CountInv ==
    mode = "count" =>
       /\ last = MaxParallelism
       /\ bytes = Cardinality(Paid(Frontier[1]))
       /\ \A l \in Labels :
             /\ tally[l].keys = Cardinality(AddedKeys(Counted, l))
             /\ tally[l].entries = Cardinality(AddedEntries(Counted, l))

\* A finite family of finite sets is finite, its members told apart by their index.
LEMMA FamilyFinite ==
  ASSUME NEW S, IsFiniteSet(S), NEW f, \A x \in S : IsFiniteSet(f[x])
  PROVE  IsFiniteSet(UNION {{x} \X f[x] : x \in S})
<1> DEFINE T == {{x} \X f[x] : x \in S}
           g == [x \in S |-> {x} \X f[x]]
<1>1. g \in Surjection(S, T)
  BY DEF Surjection
<1>2. IsFiniteSet(T)
  <2> HIDE DEF T, g
  <2> QED
    BY <1>1, FS_Surjection
<1>3. ASSUME NEW t \in T PROVE IsFiniteSet(t)
  <2>1. PICK x \in S : t = {x} \X f[x]
    OBVIOUS
  <2>2. IsFiniteSet({x}) /\ IsFiniteSet(f[x])
    BY FS_Singleton
  <2> QED
    BY <2>1, <2>2, FS_Product
<1> HIDE DEF T
<1>4. IsFiniteSet(UNION T)
  BY <1>2, <1>3, FS_UNION
<1> QED
  BY <1>4 DEF T

\* Two finite sets without a common member.
LEMMA DisjointSum ==
  ASSUME NEW S, IsFiniteSet(S), NEW T, IsFiniteSet(T), \A x : ~(x \in S /\ x \in T)
  PROVE  Cardinality(S \cup T) = Cardinality(S) + Cardinality(T)
<1>1. S \cap T = {}
  OBVIOUS
<1>2. /\ Cardinality(S \cup T) = Cardinality(S) + Cardinality(T) - Cardinality(S \cap T)
      /\ Cardinality(S) \in Nat /\ Cardinality(T) \in Nat
  BY FS_Union, FS_CardinalityType
<1>3. Cardinality(S \cap T) = 0
  BY <1>1, FS_EmptySet
<1> QED
  BY <1>2, <1>3

\* An operator has finitely many keys.
LEMMA PositionsFinite ==
  ASSUME WellFormed(sp)
  PROVE  IsFiniteSet(Positions)
<1> DEFINE f == [k \in KeyGroups |-> 0 .. Len(sp.blocks[k]) - 1]
<1>1. MaxParallelism - 1 \in Int /\ 0 \in Int
  BY ParallelismAssumption
<1>2. IsFiniteSet(KeyGroups)
  BY <1>1, FS_Interval DEF KeyGroups
<1>3. ASSUME NEW k \in KeyGroups PROVE IsFiniteSet(f[k])
  <2>1. sp.blocks[k] \in Seq(KeyRecords)
    BY DEF WellFormed
  <2>2. Len(sp.blocks[k]) - 1 \in Int
    BY <2>1
  <2>3. IsFiniteSet(0 .. Len(sp.blocks[k]) - 1)
    BY <1>1, <2>2, FS_Interval
  <2> QED
    BY <2>3
<1>4. Positions = UNION {{k} \X f[k] : k \in KeyGroups}
  BY DEF Positions
<1> HIDE DEF f
<1> QED
  BY <1>2, <1>3, <1>4, FamilyFinite

\* A key has finitely many entries and stateIds; it has a stateId of label l where
\* it has an entry of it.
LEMMA KeyFinite ==
  ASSUME WellFormed(sp), NEW p \in Positions, NEW l
  PROVE  /\ IsFiniteSet(EntriesOf(p, l)) /\ IsFiniteSet(IdsOf(p, l))
         /\ EntriesOf(p, l) # {} <=> IdsOf(p, l) # {}
<1> DEFINE ids == KeyAt(p).ids
<1>1. p[1] \in KeyGroups /\ p[2] \in Nat /\ p[2] < Len(sp.blocks[p[1]])
  BY PositionFields
<1>2. sp.blocks[p[1]] \in Seq(KeyRecords)
  BY <1>1 DEF WellFormed
<1>3. KeyAt(p) \in KeyRecords
  BY <1>1, <1>2 DEF KeyAt
<1>4. ids \in Seq(Nat)
  BY <1>3 DEF KeyRecords
<1>5. EntriesOf(p, l) = {i \in DOMAIN ids : LabelOf(p[1], ids[i]) = l}
  BY DEF EntriesOf
<1>6. IdsOf(p, l) = {id \in Range(ids) : LabelOf(p[1], id) = l}
  BY DEF IdsOf
<1> HIDE DEF ids
<1>7. DOMAIN ids = 1 .. Len(ids) /\ Len(ids) \in Int /\ 1 \in Int
  BY <1>4
<1>8. IsFiniteSet(DOMAIN ids)
  BY <1>7, FS_Interval
<1>9. ids \in Surjection(DOMAIN ids, Range(ids))
  BY <1>4 DEF Surjection, Range
<1>10. IsFiniteSet(Range(ids))
  BY <1>8, <1>9, FS_Surjection
<1>11. IsFiniteSet(EntriesOf(p, l)) /\ IsFiniteSet(IdsOf(p, l))
  BY <1>5, <1>6, <1>8, <1>10, FS_Subset
<1>12. EntriesOf(p, l) # {} <=> IdsOf(p, l) # {}
  BY <1>5, <1>6 DEF Range
<1> QED
  BY <1>11, <1>12

\* What some keys add is finite.
LEMMA AddedFinite ==
  ASSUME WellFormed(sp), NEW S \in SUBSET Positions, NEW l
  PROVE  IsFiniteSet(AddedKeys(S, l)) /\ IsFiniteSet(AddedEntries(S, l))
<1> DEFINE f == [p \in S |-> IdsOf(p, l)]
           g == [p \in S |-> EntriesOf(p, l)]
<1>1. IsFiniteSet(S)
  BY PositionsFinite, FS_Subset
<1>2. (\A p \in S : IsFiniteSet(f[p])) /\ (\A p \in S : IsFiniteSet(g[p]))
  BY KeyFinite
<1>3. /\ AddedKeys(S, l) = UNION {{p} \X f[p] : p \in S}
      /\ AddedEntries(S, l) = UNION {{p} \X g[p] : p \in S}
  BY DEF AddedKeys, AddedEntries
<1> HIDE DEF f, g
<1> QED
  BY <1>1, <1>2, <1>3, FamilyFinite

\* Keys counted now add to those counted before.
LEMMA AddedMore ==
  ASSUME WellFormed(sp), NEW S \in SUBSET Positions, NEW T \in SUBSET Positions,
         \A p \in S : p \notin T, NEW l
  PROVE  /\ Cardinality(AddedKeys(S \cup T, l)) =
               Cardinality(AddedKeys(S, l)) + Cardinality(AddedKeys(T, l))
         /\ Cardinality(AddedEntries(S \cup T, l)) =
               Cardinality(AddedEntries(S, l)) + Cardinality(AddedEntries(T, l))
<1>1. /\ IsFiniteSet(AddedKeys(S, l)) /\ IsFiniteSet(AddedKeys(T, l))
      /\ IsFiniteSet(AddedEntries(S, l)) /\ IsFiniteSet(AddedEntries(T, l))
  BY AddedFinite
<1>2. /\ AddedKeys(S \cup T, l) = AddedKeys(S, l) \cup AddedKeys(T, l)
      /\ \A x : ~(x \in AddedKeys(S, l) /\ x \in AddedKeys(T, l))
  BY DEF AddedKeys
<1>3. /\ AddedEntries(S \cup T, l) = AddedEntries(S, l) \cup AddedEntries(T, l)
      /\ \A x : ~(x \in AddedEntries(S, l) /\ x \in AddedEntries(T, l))
  BY DEF AddedEntries
<1> QED
  BY <1>1, <1>2, <1>3, DisjointSum

\* A key has at most one stateId of a label.
LEMMA OneIdPerLabel ==
  ASSUME WellFormed(sp), NEW p \in Positions, NEW l,
         NEW a \in IdsOf(p, l), NEW b \in IdsOf(p, l)
  PROVE  a = b
<1> DEFINE k == p[1]
           i == p[2] + 1
           s == CHOOSE s \in Holders(sp, k) : TRUE
<1>1. k \in KeyGroups /\ p[2] \in Nat /\ p[2] < Len(sp.blocks[k])
  BY PositionFields
<1>2. sp.blocks[k] \in Seq(KeyRecords)
  BY <1>1 DEF WellFormed
<1>3. i \in DOMAIN sp.blocks[k] /\ sp.blocks[k] # <<>>
  BY <1>1, <1>2
<1>4. Holders(sp, k) # {}
  BY <1>1, <1>3 DEF WellFormed, MayHoldKeys
<1>5. s \in Holders(sp, k)
  BY <1>4
<1>6. /\ a \in Range(sp.blocks[k][i].ids) /\ b \in Range(sp.blocks[k][i].ids)
      /\ StateLabel(sp.sub[s], a) = l /\ StateLabel(sp.sub[s], b) = l
  BY DEF IdsOf, KeyAt, LabelOf
<1> HIDE DEF k, i, s
<1>7. \A c, d \in Range(sp.blocks[k][i].ids) :
         StateLabel(sp.sub[s], c) = StateLabel(sp.sub[s], d) => c = d
  BY <1>1, <1>3, <1>5 DEF WellFormed
<1> QED
  BY <1>6, <1>7

\* Counting the stateIds of a label counts the keys that have an entry of it.
LEMMA KeysCountOnce ==
  ASSUME WellFormed(sp), NEW l
  PROVE  Cardinality(AddedKeys(Positions, l)) = Cardinality({p \in Positions : EntriesOf(p, l) # {}})
<1> DEFINE S == AddedKeys(Positions, l)
           T == {p \in Positions : EntriesOf(p, l) # {}}
           f == [x \in S |-> x[1]]
<1>1. ASSUME NEW x \in S
      PROVE  x[1] \in Positions /\ x[2] \in IdsOf(x[1], l) /\ x = <<x[1], x[2]>>
  BY DEF AddedKeys
<1>2. ASSUME NEW p \in Positions, NEW id \in IdsOf(p, l)
      PROVE  <<p, id>> \in S
  BY DEF AddedKeys
<1> HIDE DEF S
<1>3. f \in [S -> T]
  BY <1>1, KeyFinite
<1>4. ASSUME NEW x \in S, NEW y \in S, f[x] = f[y] PROVE x = y
  <2>1. x[1] = y[1]
    BY <1>4
  <2>2. x[2] = y[2]
    BY <1>1, <2>1, OneIdPerLabel
  <2> QED
    BY <1>1, <2>1, <2>2
<1>5. ASSUME NEW p \in T PROVE \E x \in S : f[x] = p
  <2>1. PICK id : id \in IdsOf(p, l)
    BY KeyFinite
  <2>2. <<p, id>> \in S
    BY <1>2, <2>1
  <2> QED
    BY <2>2
<1> HIDE DEF f, T
<1>6. f \in Bijection(S, T)
  BY <1>3, <1>4, <1>5 DEF Bijection, Injection, Surjection, IsInjective
<1>7. IsFiniteSet(S)
  BY AddedFinite DEF S
<1>8. Cardinality(T) = Cardinality(S)
  BY <1>6, <1>7, FS_Bijection DEF ExistsBijection
<1> QED
  BY <1>8 DEF S, T

\* A block a count can read.
Readable(b) ==
    /\ b[1] \in Holders(sp, b[2])
    /\ ~UnitError(sp.sub[b[1]])
    /\ NonEmpty(sp.sub[b[1]], b[2])

PaidBlocks(n) == {b \in Subtasks \X (start.key_group .. n - 1) : Readable(b)}

\* The bytes paid for, block by block.
LEMMA PaidOf ==
  ASSUME NEW n
  PROVE  Paid(n) = UNION {{b} \X (1 .. StoredLen(sp.sub[b[1]], b[2])) : b \in PaidBlocks(n)}
<1> DEFINE len(b) == StoredLen(sp.sub[b[1]], b[2])
           R == UNION {{b} \X (1 .. len(b)) : b \in PaidBlocks(n)}
           C == {c \in Streams(sp) \X (start.key_group .. n - 1) :
                    c[1] \in Holders(sp, c[2]) /\ NonEmpty(sp.sub[c[1]], c[2])}
<1>1. \A b : b \in PaidBlocks(n) <=> b \in C /\ sp.sub[b[1]].header
  <2>1. \A b : b \in C <=> /\ b \in Streams(sp) \X (start.key_group .. n - 1)
                           /\ b[1] \in Holders(sp, b[2]) /\ NonEmpty(sp.sub[b[1]], b[2])
    OBVIOUS
  <2>2. \A s : s \in Streams(sp) <=> s \in Subtasks /\ IsUnit(sp.sub[s]) /\ ~OpenFails(sp.sub[s])
    BY DEF Streams, Units
  <2>3. \A s, k : s \in Holders(sp, k) => s \in Subtasks /\ IsUnit(sp.sub[s])
    BY DEF Holders, Units
  <2> HIDE DEF C
  <2>4. \A b : b \in PaidBlocks(n) <=> /\ b \in Subtasks \X (start.key_group .. n - 1)
                                       /\ b[1] \in Holders(sp, b[2]) /\ NonEmpty(sp.sub[b[1]], b[2])
                                       /\ ~OpenFails(sp.sub[b[1]]) /\ sp.sub[b[1]].header
    BY DEF PaidBlocks, Readable, UnitError
  <2> QED
    BY <2>1, <2>2, <2>3, <2>4
<1>2. Paid(n) = {x \in UNION {{b} \X (1 .. len(b)) : b \in C} : sp.sub[x[1][1]].header}
  BY DEF Paid, StoredBytes
<1> HIDE DEF len, C
<1>3. ASSUME NEW x \in Paid(n) PROVE x \in R
  <2>1. PICK b \in C : x \in {b} \X (1 .. len(b))
    BY <1>2
  <2>2. x[1] = b /\ sp.sub[x[1][1]].header
    BY <1>2, <2>1
  <2> QED
    BY <1>1, <2>1, <2>2
<1>4. ASSUME NEW x \in R PROVE x \in Paid(n)
  <2>1. PICK b \in PaidBlocks(n) : x \in {b} \X (1 .. len(b))
    OBVIOUS
  <2>2. x[1] = b
    BY <2>1
  <2> QED
    BY <1>1, <1>2, <2>1, <2>2
<1> HIDE DEF R
<1>5. Paid(n) = R
  BY <1>3, <1>4
<1> QED
  BY <1>5 DEF R, len

\* The stored size of a block that can be read.
LEMMA ReadableSize ==
  ASSUME WellFormed(sp), NEW s, NEW k \in Int, Readable(<<s, k>>)
  PROVE  StoredLen(sp.sub[s], k) \in Nat
<1>1. /\ s \in Units(sp) /\ UnitStart(sp.sub[s]) <= k /\ k <= UnitEnd(sp.sub[s])
      /\ NonEmpty(sp.sub[s], k)
  BY DEF Readable, Holders
<1>2. sp.sub[s] \in Handles
  BY <1>1, UnitRange
<1> QED
  BY <1>1, <1>2, StoredLenPositive

\* The blocks below a key-group have finitely many stored bytes.
LEMMA StoredFinite ==
  ASSUME TypeOK, NEW n \in 0 .. MaxParallelism
  PROVE  IsFiniteSet(StoredBytes(sp, start.key_group, n))
<1> DEFINE C == {c \in Streams(sp) \X (start.key_group .. n - 1) :
                    c[1] \in Holders(sp, c[2]) /\ NonEmpty(sp.sub[c[1]], c[2])}
           f == [b \in C |-> 1 .. StoredLen(sp.sub[b[1]], b[2])]
<1>1. /\ WellFormed(sp) /\ start.key_group \in Int /\ n - 1 \in Int /\ Parallelism - 1 \in Int
      /\ 0 \in Int /\ 1 \in Int
  BY ParallelismAssumption DEF TypeOK
<1>2. IsFiniteSet(Subtasks) /\ IsFiniteSet(start.key_group .. n - 1)
  BY <1>1, FS_Interval DEF Subtasks
<1>3. IsFiniteSet(Subtasks \X (start.key_group .. n - 1))
  BY <1>2, FS_Product
<1>4. C \in SUBSET (Subtasks \X (start.key_group .. n - 1))
  BY DEF Streams, Units
<1>5. IsFiniteSet(C)
  BY <1>3, <1>4, FS_Subset
<1>6. ASSUME NEW b \in C PROVE IsFiniteSet(f[b])
  <2>1. PICK s, k : /\ b = <<s, k>> /\ k \in start.key_group .. n - 1
                    /\ s \in Holders(sp, k) /\ NonEmpty(sp.sub[s], k)
    OBVIOUS
  <2>2. s \in Units(sp) /\ UnitStart(sp.sub[s]) <= k /\ k <= UnitEnd(sp.sub[s]) /\ k \in Int
    BY <1>1, <2>1 DEF Holders
  <2>3. sp.sub[s] \in Handles
    BY <1>1, <2>2, UnitRange
  <2>4. StoredLen(sp.sub[s], k) \in Nat
    BY <2>1, <2>2, <2>3, StoredLenPositive
  <2>5. IsFiniteSet(1 .. StoredLen(sp.sub[s], k))
    BY <1>1, <2>4, FS_Interval
  <2> QED
    BY <2>1, <2>5
<1>7. StoredBytes(sp, start.key_group, n) = UNION {{b} \X f[b] : b \in C}
  BY DEF StoredBytes
<1> HIDE DEF f, C
<1> QED
  BY <1>5, <1>6, <1>7, FamilyFinite

\* A count pays for finitely many of them.
LEMMA PaidFinite ==
  ASSUME TypeOK, NEW n \in 0 .. MaxParallelism
  PROVE  IsFiniteSet(Paid(n))
BY StoredFinite, FS_Subset DEF Paid

\* Nothing is paid for key-groups without a block that can be read.
LEMMA PaidGap ==
  ASSUME TypeOK, NEW from \in 0 .. MaxParallelism, NEW to \in 0 .. MaxParallelism, from <= to,
         \A k \in KeyGroups : from <= k /\ k < to => \A s : ~Readable(<<s, k>>)
  PROVE  Paid(to) = Paid(from)
<1>1. start.key_group \in Nat /\ MaxParallelism \in Nat /\ from \in Int /\ to \in Int
  BY ParallelismAssumption DEF TypeOK
<1>2. ASSUME NEW b PROVE b \in PaidBlocks(to) <=> b \in PaidBlocks(from)
  <2>1. b \in PaidBlocks(from) => b \in PaidBlocks(to)
    BY <1>1 DEF PaidBlocks
  <2>2. ASSUME b \in PaidBlocks(to) PROVE b \in PaidBlocks(from)
    <3>1. PICK s, k : /\ b = <<s, k>> /\ s \in Subtasks /\ k \in start.key_group .. to - 1
                      /\ Readable(<<s, k>>)
      BY <2>2 DEF PaidBlocks
    <3>2. k \in KeyGroups /\ k < to
      BY <1>1, <3>1 DEF KeyGroups
    <3>3. k < from
      BY <1>1, <3>1, <3>2 DEF KeyGroups
    <3>4. k \in start.key_group .. from - 1
      BY <1>1, <3>1, <3>2, <3>3 DEF KeyGroups
    <3> QED
      BY <3>1, <3>4 DEF PaidBlocks
  <2> QED
    BY <2>1, <2>2
<1>3. PaidBlocks(to) = PaidBlocks(from)
  BY <1>2 DEF PaidBlocks
<1> QED
  BY <1>3, PaidOf

\* seek passes over nothing a count would pay for.
LEMMA SeekPays ==
  ASSUME TypeOK, last = MaxParallelism, NEW from \in 0 .. MaxParallelism, NEW ord \in Nat
  PROVE  LET q == Bounded(Seek(sp, from, ord))
         IN  /\ Paid(q.kg) = Paid(from) /\ q.kg \in 0 .. MaxParallelism
             /\ q.at \in {"block", "unreadable", "end"}
<1> DEFINE q == Seek(sp, from, ord)
<1>1. /\ PosOK(sp, q) /\ from <= q.kg
      /\ \A k \in KeyGroups : from <= k /\ k < q.kg => ~MayHoldKeys(sp, k)
  BY SeekFacts DEF TypeOK
<1> HIDE DEF q
<1>2. q.kg \in 0 .. MaxParallelism /\ q.at \in {"block", "unreadable", "end"}
  BY <1>1 DEF PosOK
<1>3. Bounded(q) = q
  BY <1>2, ParallelismAssumption DEF Bounded
<1>4. ASSUME NEW k \in KeyGroups, from <= k, k < q.kg, NEW s PROVE ~Readable(<<s, k>>)
  BY <1>1, <1>4 DEF MayHoldKeys, Readable
<1>5. Paid(q.kg) = Paid(from)
  BY <1>1, <1>2, <1>4, PaidGap
<1> QED
  BY <1>2, <1>3, <1>5 DEF q

\* The block the page stands at adds its stored size.
LEMMA BlockPays ==
  ASSUME Base, pos.at = "block"
  PROVE  Cardinality(Paid(pos.kg + 1)) =
            Cardinality(Paid(pos.kg)) + StoredLen(sp.sub[pos.sub], pos.kg)
<1> DEFINE b == <<pos.sub, pos.kg>>
           n == StoredLen(sp.sub[pos.sub], pos.kg)
           B == {b} \X (1 .. n)
<1>1. /\ TypeOK /\ PosInv /\ WellFormed(sp) /\ PosOK(sp, pos) /\ MaxParallelism \in Nat
      /\ pos.kg \in KeyGroups /\ cursor.key_group \in KeyGroups /\ cursor.key_group <= pos.kg
      /\ pos.sub \in Subtasks
  BY AtUnit DEF Units
<1>2. pos.kg \in Int /\ pos.kg \in 0 .. MaxParallelism /\ pos.kg + 1 \in 0 .. MaxParallelism
  BY <1>1 DEF KeyGroups
<1>3. start.key_group \in Nat /\ start.key_group <= pos.kg
  <2>1. Stream!NotAfter(FrontOf(start), FrontOf(cursor))
    BY <1>1 DEF PosInv
  <2>2. start.key_group \in Nat /\ cursor.key_group \in Nat
    BY <1>1 DEF TypeOK
  <2>3. start.key_group <= cursor.key_group
    BY <2>1, <2>2 DEF Stream!NotAfter, Stream!Before, FrontOf
  <2> QED
    BY <1>1, <1>2, <2>2, <2>3
<1>4. Readable(b)
  BY <1>1 DEF PosOK, Readable
<1>5. n \in Nat
  BY <1>1, <1>2, <1>4, ReadableSize
<1>6. PaidBlocks(pos.kg + 1) = PaidBlocks(pos.kg) \cup {b}
  <2>1. ASSUME NEW c \in PaidBlocks(pos.kg + 1) PROVE c \in PaidBlocks(pos.kg) \cup {b}
    <3>1. PICK s, k : /\ c = <<s, k>> /\ s \in Subtasks /\ k \in start.key_group .. pos.kg
                      /\ Readable(<<s, k>>)
      BY <1>2, <1>3 DEF PaidBlocks
    <3>2. CASE k = pos.kg
      <4>1. s \in Holders(sp, pos.kg) /\ pos.sub \in Holders(sp, pos.kg)
        BY <1>4, <3>1, <3>2 DEF Readable
      <4>2. s = pos.sub
        BY <1>1, <4>1 DEF WellFormed
      <4> QED
        BY <3>1, <3>2, <4>2
    <3>3. CASE k # pos.kg
      <4>1. k \in start.key_group .. pos.kg - 1
        BY <1>2, <1>3, <3>1, <3>3
      <4> QED
        BY <3>1, <4>1 DEF PaidBlocks
    <3> QED
      BY <3>2, <3>3
  <2>2. ASSUME NEW c \in PaidBlocks(pos.kg) PROVE c \in PaidBlocks(pos.kg + 1)
    <3>1. PICK s, k : /\ c = <<s, k>> /\ s \in Subtasks /\ k \in start.key_group .. pos.kg - 1
                      /\ Readable(<<s, k>>)
      BY DEF PaidBlocks
    <3>2. k \in start.key_group .. (pos.kg + 1) - 1
      BY <1>2, <1>3, <3>1
    <3> QED
      BY <3>1, <3>2 DEF PaidBlocks
  <2>3. b \in PaidBlocks(pos.kg + 1)
    <3>1. pos.kg \in start.key_group .. (pos.kg + 1) - 1
      BY <1>2, <1>3
    <3> QED
      BY <1>1, <1>4, <3>1 DEF PaidBlocks
  <2> HIDE DEF b
  <2> QED
    BY <2>1, <2>2, <2>3
<1>7. b \notin PaidBlocks(pos.kg)
  BY <1>2, <1>3 DEF PaidBlocks
<1>8. Paid(pos.kg + 1) = Paid(pos.kg) \cup B
  BY <1>6, PaidOf
<1>9. \A x : ~(x \in Paid(pos.kg) /\ x \in B)
  <2> HIDE DEF b
  <2> QED
    BY <1>7, PaidOf
<1>10. IsFiniteSet(Paid(pos.kg))
  BY <1>1, <1>2, PaidFinite
<1>11. IsFiniteSet(B) /\ Cardinality(B) = n
  <2>1. IsFiniteSet({b}) /\ Cardinality({b}) = 1
    BY FS_Singleton
  <2>2. 1 \in Int /\ n \in Int
    BY <1>5
  <2>3. IsFiniteSet(1 .. n) /\ Cardinality(1 .. n) = IF 1 > n THEN 0 ELSE n - 1 + 1
    BY <2>2, FS_Interval
  <2>4. Cardinality(1 .. n) = n
    BY <1>5, <2>3
  <2> DEFINE S == {b}
             I == 1 .. n
  <2>5. B = S \X I /\ IsFiniteSet(S) /\ IsFiniteSet(I) /\ Cardinality(S) = 1 /\ Cardinality(I) = n
    BY <2>1, <2>3, <2>4
  <2> HIDE DEF B, S, I, n
  <2>6. IsFiniteSet(B) /\ Cardinality(B) = Cardinality(S) * Cardinality(I)
    BY <2>5, FS_Product
  <2>7. 1 * n = n
    BY <1>5
  <2> QED
    BY <2>5, <2>6, <2>7
<1> HIDE DEF B, n
<1>12. Cardinality(Paid(pos.kg) \cup B) = Cardinality(Paid(pos.kg)) + Cardinality(B)
  BY <1>9, <1>10, <1>11, DisjointSum
<1> QED
  BY <1>8, <1>11, <1>12 DEF n

\* Before the first page nothing is paid for and nothing is counted.
LEMMA InitCount == Init => CountInv
<1> SUFFICES ASSUME Init, mode = "count" PROVE CountInv
  BY DEF CountInv
<1>1. /\ last = MaxParallelism /\ cursor = start /\ pos.at = "idle" /\ bytes = 0
      /\ times = [p \in Positions |-> 0]
      /\ tally = [l \in Labels |-> [keys |-> 0, entries |-> 0]]
  BY DEF Init, Idle, Pos
<1>2. start.key_group \in Int
  BY InitBase DEF Base, TypeOK
<1>3. Frontier[1] = start.key_group
  BY <1>1 DEF Frontier, FrontOf
<1>4. PaidBlocks(start.key_group) = {}
  BY <1>2 DEF PaidBlocks
<1>5. Paid(start.key_group) = {}
  BY <1>4, PaidOf
<1>6. Counted = {}
  BY <1>1 DEF Counted
<1>7. \A l : AddedKeys(Counted, l) = {} /\ AddedEntries(Counted, l) = {}
  BY <1>6 DEF AddedKeys, AddedEntries
<1>8. \A l \in Labels : tally[l].keys = 0 /\ tally[l].entries = 0
  BY <1>1
<1> QED
  BY <1>1, <1>3, <1>5, <1>7, <1>8, FS_EmptySet DEF CountInv

\* The walk, and with it what a key adds and what a block costs, stays.
LEMMA CountWalk ==
  ASSUME UNCHANGED walk
  PROVE  /\ Labels' = Labels /\ Positions' = Positions
         /\ Paid(Frontier[1])' = Paid(Frontier'[1])
         /\ \A l : /\ AddedKeys(Counted, l)' = AddedKeys(Counted', l)
                   /\ AddedEntries(Counted, l)' = AddedEntries(Counted', l)
<1>1. sp' = sp /\ start' = start
  BY DEF walk
<1>2. Positions' = Positions
  BY <1>1 DEF Positions
<1>3. Labels' = Labels
  BY <1>1, <1>2 DEF Labels, LabelOf, KeyAt
<1>4. Paid(Frontier[1])' = Paid(Frontier'[1])
  BY <1>1 DEF Paid
<1>5. \A l : /\ AddedKeys(Counted, l)' = AddedKeys(Counted', l)
             /\ AddedEntries(Counted, l)' = AddedEntries(Counted', l)
  BY <1>1 DEF AddedKeys, AddedEntries, IdsOf, EntriesOf, LabelOf, KeyAt
<1> QED
  BY <1>2, <1>3, <1>4, <1>5

\* Where the frontier is after a step that seeks on, and after one that returns.
LEMMA FrontierAfter ==
  /\ pos'.at \in {"block", "unreadable", "end"} => Frontier'[1] = pos'.kg
  /\ pos'.at \notin {"block", "unreadable", "end"} => Frontier'[1] = cursor'.key_group
BY DEF Frontier, FrontOf

\* A step that counts nothing keeps the counts if it pays for what it passes.
LEMMA CountKept ==
  ASSUME CountInv, mode = "count", UNCHANGED <<walk, times, tally>>,
         bytes' = Cardinality(Paid(Frontier'[1]))
  PROVE  CountInv'
<1>1. Counted' = Counted
  BY CountWalk DEF Counted
<1>2. mode' = mode /\ last' = last
  BY DEF walk
<1> QED
  BY <1>1, <1>2, CountWalk DEF CountInv

\* A step that seeks on from key-group `from` has paid for what lies below `from`.
LEMMA CountSeeks ==
  ASSUME Base, CountInv, mode = "count", NEW from \in 0 .. MaxParallelism, NEW ord \in Nat,
         pos' = Bounded(Seek(sp, from, ord))
  PROVE  Paid(Frontier'[1]) = Paid(from)
<1>1. TypeOK /\ last = MaxParallelism
  BY DEF Base, CountInv
<1>2. Paid(pos'.kg) = Paid(from) /\ pos'.at \in {"block", "unreadable", "end"}
  BY <1>1, SeekPays
<1> QED
  BY <1>2, FrontierAfter

\* The steps between pages and at the ends of a page.
LEMMA QuietCounts ==
  Base /\ CountInv /\ mode = "count" /\ (Begin \/ Refuse \/ Cut \/ Finish) => CountInv'
<1> SUFFICES ASSUME Base, CountInv, mode = "count", Begin \/ Refuse \/ Cut \/ Finish
             PROVE  CountInv'
  OBVIOUS
<1>1. TypeOK /\ PosInv /\ bytes = Cardinality(Paid(Frontier[1])) /\ last = MaxParallelism
  BY DEF Base, CountInv
<1>2. UNCHANGED <<walk, times, tally>> /\ bytes' = bytes
  BY DEF Begin, Refuse, Cut, Finish, got
<1>3. Paid(Frontier'[1]) = Paid(Frontier[1])
  <2>1. CASE Begin
    <3>1. /\ pos.at = "idle" /\ pos' = Bounded(Seek(sp, cursor.key_group, OrdinalOf(cursor)))
      BY <2>1 DEF Begin, Idle, Pos
    <3>2. cursor.key_group \in 0 .. MaxParallelism /\ OrdinalOf(cursor) \in Nat
      BY <1>1 DEF TypeOK, OrdinalOf
    <3>3. Frontier[1] = cursor.key_group
      BY <3>1 DEF Frontier, FrontOf
    <3> QED
      BY <3>1, <3>2, <3>3, CountSeeks
  <2>2. CASE Refuse
    <3>1. pos.at = "idle" /\ pos'.at = "refused" /\ cursor' = cursor
      BY <2>2 DEF Refuse, Idle, Refused, Pos
    <3>2. Frontier[1] = cursor.key_group
      BY <3>1 DEF Frontier, FrontOf
    <3> QED
      BY <3>1, <3>2, FrontierAfter
  <2>3. CASE Cut \/ Finish
    <3>1. InPage /\ pos'.at = "idle"
      BY <2>3 DEF Cut, Finish, Return, InPage, Idle, Pos
    <3>2. cursor'.key_group = pos.kg
      <4>1. pos.at = "end" => pos.kg = MaxParallelism
        BY <1>1, <3>1 DEF PosInv, PosOK, EndPos, Pos
      <4>2. cursor' = CursorOf(pos)
        BY <2>3 DEF Cut, Finish, Return, CursorOf
      <4> QED
        BY <4>1, <4>2 DEF CursorOf, NoCursor, Cursor
    <3>3. Frontier[1] = pos.kg
      BY <3>1, FrontierFields
    <3> QED
      BY <3>1, <3>2, <3>3, FrontierAfter
  <2> QED
    BY <2>1, <2>2, <2>3
<1> QED
  BY <1>1, <1>2, <1>3, CountKept

\* A unit that cannot be read costs nothing.
LEMMA SkipUnreadableCounts == Base /\ CountInv /\ mode = "count" /\ SkipUnreadable => CountInv'
<1> SUFFICES ASSUME Base, CountInv, mode = "count", SkipUnreadable PROVE CountInv'
  OBVIOUS
<1> DEFINE end == UnitEnd(sp.sub[pos.sub])
<1>1. /\ pos.at = "unreadable" /\ UNCHANGED <<walk, times, tally>> /\ bytes' = bytes
      /\ pos' = Bounded(Seek(sp, end + 1, 0))
  BY DEF SkipUnreadable
<1>2. /\ TypeOK /\ PosOK(sp, pos) /\ InPage /\ WellFormed(sp) /\ MaxParallelism \in Nat
      /\ pos.kg \in KeyGroups /\ end \in KeyGroups /\ pos.kg <= end
      /\ pos.sub \in Units(sp) /\ UnitStart(sp.sub[pos.sub]) <= pos.kg
      /\ UnitStart(sp.sub[pos.sub]) \in KeyGroups
  BY <1>1, AtUnit, UnitRange
<1>3. UnitError(sp.sub[pos.sub])
  BY <1>1, <1>2 DEF PosOK
<1>4. ASSUME NEW k \in KeyGroups, pos.kg <= k, k < end + 1, NEW s PROVE ~Readable(<<s, k>>)
  <2>1. UnitStart(sp.sub[pos.sub]) <= k /\ k <= end
    BY <1>2, <1>4 DEF KeyGroups
  <2>2. pos.sub \in Holders(sp, k)
    BY <1>2, <2>1 DEF Holders
  <2>3. s \in Holders(sp, k) => s = pos.sub
    BY <1>2, <2>2 DEF WellFormed
  <2> QED
    BY <1>3, <2>3 DEF Readable
<1>5. /\ end + 1 \in 0 .. MaxParallelism /\ pos.kg \in 0 .. MaxParallelism
      /\ pos.kg <= end + 1
  BY <1>2 DEF KeyGroups
<1> HIDE DEF end
<1>6. Paid(end + 1) = Paid(pos.kg)
  BY <1>2, <1>4, <1>5, PaidGap
<1>7. Paid(Frontier'[1]) = Paid(end + 1)
  BY <1>1, <1>5, CountSeeks
<1>8. Frontier[1] = pos.kg /\ bytes = Cardinality(Paid(Frontier[1]))
  BY <1>2, FrontierFields DEF CountInv
<1> QED
  BY <1>1, <1>6, <1>7, <1>8, CountKept

\* A block is paid for, read or not.
LEMMA BlockPaid ==
  ASSUME Base, CountInv, mode = "count", pos.at = "block", Charge, pos' = AfterBlock
  PROVE  bytes' = Cardinality(Paid(Frontier'[1]))
<1>1. pos.kg + 1 \in 0 .. MaxParallelism /\ InPage
  BY AtUnit DEF KeyGroups
<1>2. Paid(Frontier'[1]) = Paid(pos.kg + 1)
  BY <1>1, CountSeeks DEF AfterBlock
<1>3. bytes = Cardinality(Paid(pos.kg))
  BY <1>1, FrontierFields DEF CountInv
<1> QED
  BY <1>2, <1>3, BlockPays DEF Charge

LEMMA ReadFailsCounts == Base /\ CountInv /\ mode = "count" /\ ReadFails => CountInv'
<1> SUFFICES ASSUME Base, CountInv, mode = "count", ReadFails PROVE CountInv'
  OBVIOUS
<1>1. pos.at = "block" /\ Charge /\ pos' = AfterBlock /\ UNCHANGED <<walk, times, tally>>
  BY DEF ReadFails
<1> QED
  BY <1>1, BlockPaid, CountKept

\* A block that is read adds the states and the entries of its keys, none of which
\* was counted before.
LEMMA CountBlockCounts ==
  Base /\ HandedInv /\ CountInv /\ mode = "count" /\ CountBlock => CountInv'
<1> SUFFICES ASSUME Base, HandedInv, CountInv, mode = "count", CountBlock PROVE CountInv'
  OBVIOUS
<1> DEFINE keys == WantedIn(pos.kg, 0, Len(sp.blocks[pos.kg]))
<1>1. /\ pos.at = "block" /\ Charge /\ pos' = AfterBlock /\ UNCHANGED walk /\ Returned(keys)
      /\ tally' = [l \in Labels |->
            [keys    |-> tally[l].keys + Cardinality(AddedKeys(keys, l)),
             entries |-> tally[l].entries + Cardinality(AddedEntries(keys, l))]]
  BY DEF CountBlock
<1>2. /\ TypeOK /\ PosInv /\ WellFormed(sp) /\ InPage /\ pos.kg \in KeyGroups
  BY <1>1, AtUnit
<1>3. pos.ord = 0 /\ Frontier = <<pos.kg, 0>>
  <2>1. pos.ord = 0
    BY <1>1, <1>2 DEF PosInv, OrdinalAt, OrdinalOf
  <2> QED
    BY <1>1, <2>1, FrontierFields
<1>4. bytes' = Cardinality(Paid(Frontier'[1]))
  BY <1>1, BlockPaid
<1>5. keys \in SUBSET Positions
  BY DEF WantedIn
<1>6. ASSUME NEW p \in keys PROVE times[p] = 0
  <2>1. p \in Positions /\ p[1] = pos.kg
    BY DEF WantedIn
  <2>2. p[1] \in KeyGroups /\ p[2] \in Nat
    BY <1>2, <2>1, PositionFields
  <2>3. times[p] \in Nat /\ times[p] <= 1 /\ (times[p] = 1 => Stream!Before(p, Frontier))
    BY <1>2, <2>1 DEF HandedInv, NothingLostOrRepeated, TypeOK
  <2>4. ~Stream!Before(p, Frontier)
    BY <1>2, <1>3, <2>1, <2>2 DEF Stream!Before, KeyGroups
  <2> QED
    BY <2>3, <2>4
<1> HIDE DEF keys
<1>7. \A p \in Positions : times'[p] = IF p \in keys THEN times[p] + 1 ELSE times[p]
  BY <1>1 DEF Returned
<1>8. Counted' = Counted \cup keys
  BY <1>1, <1>5, <1>6, <1>7, CountWalk DEF Counted
<1>9. Counted \in SUBSET Positions /\ \A p \in Counted : p \notin keys
  BY <1>6 DEF Counted
<1>10. ASSUME NEW l \in Labels
       PROVE  /\ tally'[l].keys = Cardinality(AddedKeys(Counted', l))
              /\ tally'[l].entries = Cardinality(AddedEntries(Counted', l))
  <2>1. /\ tally'[l].keys = tally[l].keys + Cardinality(AddedKeys(keys, l))
        /\ tally'[l].entries = tally[l].entries + Cardinality(AddedEntries(keys, l))
    BY <1>1
  <2>2. /\ tally[l].keys = Cardinality(AddedKeys(Counted, l))
        /\ tally[l].entries = Cardinality(AddedEntries(Counted, l))
    BY DEF CountInv
  <2> QED
    BY <1>2, <1>5, <1>8, <1>9, <2>1, <2>2, AddedMore
<1>11. last' = MaxParallelism
  BY <1>1 DEF CountInv, walk
<1> QED
  BY <1>1, <1>4, <1>10, <1>11, CountWalk DEF CountInv

\* Every step keeps what a count has paid for and counted.
LEMMA NextCount == Base /\ HandedInv /\ CountInv /\ [Next]_vars => CountInv'
<1> SUFFICES ASSUME Base, HandedInv, CountInv, [Next]_vars PROVE CountInv'
  OBVIOUS
<1>1. UNCHANGED walk
  BY StepHands DEF Handed
<1>2. CASE mode # "count"
  BY <1>1, <1>2 DEF CountInv, walk
<1>3. CASE mode = "count"
  <2>1. CASE UNCHANGED vars \/ Done
    <3>1. UNCHANGED <<walk, times, tally, bytes, pos, cursor>>
      BY <2>1 DEF vars, walk, Done
    <3>2. Frontier' = Frontier
      BY <3>1 DEF Frontier, FrontOf, OrdinalOf, walk
    <3> QED
      BY <1>3, <3>1, <3>2, CountKept DEF CountInv
  <2>2. ~KeysOfBlock
    BY <1>3 DEF KeysOfBlock
  <2> QED
    BY <1>3, <2>1, <2>2, QuietCounts, SkipUnreadableCounts, ReadFailsCounts, CountBlockCounts
    DEF Next
<1> QED
  BY <1>2, <1>3

\* At the end of a walk without a complaint every key was counted.
LEMMA EndCountsAll ==
  ASSUME Base, HandedInv, mode = "count", last = MaxParallelism, pos = Idle, cursor = NoCursor,
         start.key_group = 0, \A k \in KeyGroups : rep[k] = 0
  PROVE  Counted = Positions
<1>1. WellFormed(sp) /\ MaxParallelism \in Nat
  BY ParallelismAssumption DEF Base, TypeOK
<1>2. Frontier = <<MaxParallelism, 0>>
  BY DEF Frontier, FrontOf, OrdinalOf, Idle, Pos, NoCursor, Cursor
<1>3. FrontOf(start) = <<0, 0>>
  BY DEF FrontOf, OrdinalOf
<1>4. ASSUME NEW p \in Positions PROVE times[p] = 1
  <2>1. p[1] \in KeyGroups /\ p[2] \in Nat
    BY <1>1, PositionFields
  <2>2. Wanted(p)
    BY <1>1, <2>1 DEF Wanted, KeyGroups
  <2>3. Stream!NotAfter(FrontOf(start), p) /\ Stream!Before(p, Frontier)
    BY <1>1, <1>2, <1>3, <2>1 DEF Stream!NotAfter, Stream!Before, KeyGroups
  <2> QED
    BY <2>1, <2>2, <2>3 DEF HandedInv, NothingLostOrRepeated
<1> QED
  BY <1>4 DEF Counted

\* However the count of an operator is cut into pages and however its subtasks number
\* their states, counts without a complaint are the true numbers of keys and
\* entries of each state, and progress shows the blocks paid for as done.
THEOREM CountsExactHolds == Spec => []CountsExact
<1>1. Base /\ HandedInv /\ CountInv => CountsExact
  <2> SUFFICES ASSUME Base, HandedInv, CountInv, mode = "count", pos = Idle
               PROVE  CountsExact
    BY DEF CountsExact
  <2>1. /\ TypeOK /\ WellFormed(sp) /\ cursor.key_group \in 0 .. MaxParallelism
        /\ last = MaxParallelism /\ bytes = Cardinality(Paid(Frontier[1]))
    BY DEF Base, TypeOK, CountInv
  <2>2. Frontier[1] = cursor.key_group
    BY DEF Frontier, FrontOf, Idle, Pos
  <2>3. ASSUME WalkOver, start.key_group = 0, \A k \in KeyGroups : rep[k] = 0, NEW l \in Labels
        PROVE  /\ tally[l].keys = Cardinality({p \in Positions : EntriesOf(p, l) # {}})
               /\ tally[l].entries = Cardinality(AddedEntries(Positions, l))
    <3>1. cursor = NoCursor
      BY <2>3 DEF WalkOver, Idle, Refused, Pos
    <3>2. Counted = Positions
      BY <2>1, <2>3, <3>1, EndCountsAll
    <3> QED
      BY <2>1, <3>2, KeysCountOnce DEF CountInv
  <2> DEFINE n == cursor.key_group
             all == StoredBytes(sp, start.key_group, n)
             un == {b \in all : ~sp.sub[b[1][1]].header}
  <2>4. StoredBelow(sp, start.key_group, n) = bytes + Cardinality(un)
    <3>1. all = Paid(n) \cup un /\ \A x : ~(x \in Paid(n) /\ x \in un)
      BY DEF Paid
    <3>2. IsFiniteSet(Paid(n)) /\ IsFiniteSet(all)
      BY <2>1, PaidFinite, StoredFinite
    <3>3. IsFiniteSet(un)
      BY <3>2, FS_Subset
    <3>4. bytes = Cardinality(Paid(n))
      BY <2>1, <2>2
    <3>5. StoredBelow(sp, start.key_group, n) = Cardinality(all)
      BY DEF StoredBelow
    <3> HIDE DEF all, un, n
    <3>6. Cardinality(all) = Cardinality(Paid(n)) + Cardinality(un)
      BY <3>1, <3>2, <3>3, DisjointSum
    <3> QED
      BY <3>4, <3>5, <3>6
  <2> QED
    BY <2>3, <2>4 DEF CountsExact
<1> QED
  BY InitBase, NextBase, InitHanded, StepHands, NextHanded, InitCount, NextCount, <1>1, PTL DEF Spec

=============================================================================
