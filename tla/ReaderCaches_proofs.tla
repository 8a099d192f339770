-------------------------- MODULE ReaderCaches_proofs --------------------------
(***************************************************************************)
(* Proofs about ReaderCaches, for any number of threads, blocks and files, *)
(* any weights and any capacities.                                         *)
(***************************************************************************)
EXTENDS ReaderCaches, Kept_proofs, SequenceTheorems

Stages == {"free", "lookup", "open", "pool", "read", "parsed"}

ThreadInv(t) ==
    /\ th[t].pc \in Stages
    /\ th[t].pc # "free" => th[t].block \in Blocks

CacheInv ==
    /\ cache \in Seq(Blocks)
    /\ Distinct(cache)
    /\ used = WeightOf(cache)
    /\ used <= CacheCapacity \/ Len(cache) <= 1

PoolInv ==
    /\ pool \in Seq(Paths)
    /\ Distinct(pool)
    /\ Len(pool) <= OpenFiles

States == [pc : Stages, block : Blocks \cup {"none"}, keep : BOOLEAN]

IInv ==
    /\ th \in [Threads -> States]
    /\ \A t \in Threads : ThreadInv(t)
    /\ CacheInv
    /\ PoolInv

-----------------------------------------------------------------------------
(***************************************************************************)
(* Lists without repetition.                                               *)
(***************************************************************************)

\* What is left of a list without one element.
LEMMA WithoutOne ==
  ASSUME NEW T, NEW s \in Seq(T), NEW x, Distinct(s)
  PROVE  /\ Without(s, x) \in Seq(T) /\ Distinct(Without(s, x))
         /\ ToSet(Without(s, x)) = ToSet(s) \ {x}
         /\ Len(Without(s, x)) <= Len(s)
<1> DEFINE S == ToSet(s) \ {x}
           r == Without(s, x)
<1>1. r = Keep(s, S)
  BY DEF Without
<1>2. IsInjective(s)
  BY DEF Distinct, IsInjective
<1>3. r \in Seq(T) /\ Range(r) = Range(s) \cap S /\ IsInjective(r)
  BY <1>1, <1>2, KeepElements
<1> HIDE DEF r
<1>4. Distinct(r)
  BY <1>3 DEF Distinct, IsInjective
<1>5. ToSet(r) = S
  BY <1>3, ToSetAt
<1>6. IsFiniteSet(ToSet(s)) /\ Cardinality(ToSet(s)) = Len(s) /\ Cardinality(ToSet(r)) = Len(r)
  BY <1>3, <1>4, DistinctLength
<1>7. Cardinality(ToSet(r)) <= Cardinality(ToSet(s))
  <2>1. ToSet(r) \in SUBSET ToSet(s)
    BY <1>5
  <2> QED
    BY <1>6, <2>1, FS_Subset
<1> QED
  BY <1>3, <1>4, <1>5, <1>6, <1>7 DEF r

\* An element put at the end of a list it is not in.
LEMMA AppendOne ==
  ASSUME NEW T, NEW s \in Seq(T), NEW x \in T, Distinct(s), x \notin ToSet(s)
  PROVE  /\ Append(s, x) \in Seq(T) /\ Distinct(Append(s, x))
         /\ ToSet(Append(s, x)) = ToSet(s) \cup {x}
         /\ Len(Append(s, x)) = Len(s) + 1
<1> DEFINE a == Append(s, x)
           n == Len(s)
<1>1. /\ a \in Seq(T) /\ n \in Nat /\ Len(a) = n + 1 /\ a[n + 1] = x
      /\ \A i \in 1 .. n : a[i] = s[i]
  OBVIOUS
<1>2. \A i, j \in 1 .. n : s[i] = s[j] => i = j
  BY DEF Distinct
<1>3. (\A i \in 1 .. n : s[i] # x) /\ ToSet(s) = {s[i] : i \in 1 .. n}
  BY ToSetAt
<1> HIDE DEF a, n
<1>4. ToSet(a) = {a[i] : i \in 1 .. n + 1}
  <2>1. ToSet(a) = {a[i] : i \in 1 .. Len(a)}
    BY <1>1, ToSetAt
  <2> QED
    BY <1>1, <2>1
<1>5. \A i \in 1 .. n + 1 : i \in 1 .. n \/ i = n + 1
  BY <1>1
<1>6. \A i, j \in 1 .. n + 1 : a[i] = a[j] => i = j
  BY <1>1, <1>2, <1>3, <1>5
<1>7. Distinct(a)
  BY <1>1, <1>6 DEF Distinct
<1>8. n + 1 \in 1 .. n + 1 /\ \A i \in 1 .. n : i \in 1 .. n + 1
  BY <1>1
<1>9. ToSet(a) = ToSet(s) \cup {x}
  BY <1>1, <1>3, <1>4, <1>5, <1>8
<1> QED
  BY <1>1, <1>7, <1>9 DEF a, n

\* The most recently used element is the last; the set is the same.
LEMMA Touched ==
  ASSUME NEW T, NEW s \in Seq(T), NEW x \in ToSet(s), Distinct(s)
  PROVE  /\ Touch(s, x) \in Seq(T) /\ Distinct(Touch(s, x))
         /\ ToSet(Touch(s, x)) = ToSet(s) /\ Len(Touch(s, x)) = Len(s)
<1>1. x \in T
  BY ToSetAt
<1>2. /\ Touch(s, x) \in Seq(T) /\ Distinct(Touch(s, x))
      /\ ToSet(Touch(s, x)) = (ToSet(s) \ {x}) \cup {x}
  BY <1>1, WithoutOne, AppendOne DEF Touch
<1>3. ToSet(Touch(s, x)) = ToSet(s)
  BY <1>2
<1>4. Len(Touch(s, x)) = Cardinality(ToSet(Touch(s, x))) /\ Len(s) = Cardinality(ToSet(s))
  BY <1>2, DistinctLength
<1> QED
  BY <1>2, <1>3, <1>4

-----------------------------------------------------------------------------
(***************************************************************************)
(* Weights.                                                                *)
(***************************************************************************)

UnitsOf(S) == UNION {Units(b) : b \in S}

\* A block has as many units as its weight.
LEMMA UnitsOfOne ==
  ASSUME NEW b \in Blocks
  PROVE  IsFiniteSet(Units(b)) /\ Cardinality(Units(b)) = Weight[b] /\ Weight[b] \in Nat
<1> DEFINE w == Weight[b]
           W == 1 .. w
           B == {b}
<1>1. w \in Nat
  BY ReaderCachesAssumption
<1>2. IsFiniteSet(W) /\ Cardinality(W) = w
  <2> HIDE DEF w
  <2>1. IsFiniteSet(1 .. w) /\ Cardinality(1 .. w) = IF 1 > w THEN 0 ELSE w - 1 + 1
    BY <1>1, FS_Interval
  <2> QED
    BY <1>1, <2>1
<1>3. IsFiniteSet(B) /\ Cardinality(B) = 1
  BY FS_Singleton
<1>4. Units(b) = B \X W
  BY DEF Units
<1> HIDE DEF w, W, B
<1>5. IsFiniteSet(B \X W) /\ Cardinality(B \X W) = Cardinality(B) * Cardinality(W)
  BY <1>2, <1>3, FS_Product
<1> QED
  BY <1>1, <1>2, <1>3, <1>4, <1>5 DEF w

\* Finitely many blocks have finitely many units.
LEMMA UnitsFinite ==
  ASSUME NEW S, S \subseteq Blocks, IsFiniteSet(S)
  PROVE  IsFiniteSet(UnitsOf(S)) /\ Cardinality(UnitsOf(S)) \in Nat
<1> DEFINE U == {Units(b) : b \in S}
           f == [b \in S |-> Units(b)]
<1>1. f \in Surjection(S, U)
  BY DEF Surjection
<1>2. \A T \in U : IsFiniteSet(T)
  BY UnitsOfOne
<1> HIDE DEF U, f
<1>3. IsFiniteSet(U)
  BY <1>1, FS_Surjection
<1>4. IsFiniteSet(UNION U)
  BY <1>2, <1>3, FS_UNION
<1>5. UNION U = UnitsOf(S)
  BY DEF U, UnitsOf
<1> QED
  BY <1>4, <1>5, FS_CardinalityType

\* Different blocks share no unit: weights add up.
LEMMA UnitsAddUp ==
  ASSUME NEW S, NEW T, S \subseteq Blocks, T \subseteq Blocks, IsFiniteSet(S), IsFiniteSet(T),
         S \cap T = {}
  PROVE  Cardinality(UnitsOf(S \cup T)) = Cardinality(UnitsOf(S)) + Cardinality(UnitsOf(T))
<1> DEFINE A == UnitsOf(S)
           B == UnitsOf(T)
<1>1. UnitsOf(S \cup T) = A \cup B
  BY DEF UnitsOf
<1>2. A \cap B = {}
  BY DEF UnitsOf, Units
<1>3. IsFiniteSet(A) /\ IsFiniteSet(B) /\ Cardinality(A) \in Nat /\ Cardinality(B) \in Nat
  BY UnitsFinite
<1> HIDE DEF A, B
<1>4. Cardinality(A \cup B) = Cardinality(A) + Cardinality(B) - Cardinality(A \cap B)
  BY <1>3, FS_Union
<1>5. Cardinality(A \cap B) = 0
  BY <1>2, FS_EmptySet
<1>6. Cardinality(A \cup B) = Cardinality(A) + Cardinality(B)
  BY <1>3, <1>4, <1>5
<1> QED
  BY <1>1, <1>6 DEF A, B

\* The weight of a list depends on its blocks only.
LEMMA WeightIsUnits ==
  ASSUME NEW s
  PROVE  WeightOf(s) = Cardinality(UnitsOf(ToSet(s)))
BY DEF WeightOf, UnitsOf

LEMMA WeightOfOne ==
  ASSUME NEW b \in Blocks
  PROVE  Cardinality(UnitsOf({b})) = Weight[b]
<1>1. UnitsOf({b}) = Units(b)
  BY DEF UnitsOf
<1> QED
  BY <1>1, UnitsOfOne

\* The weight with a block put in, or taken out.
LEMMA WeightIn ==
  ASSUME NEW s \in Seq(Blocks), NEW b \in Blocks, Distinct(s)
  PROVE  /\ WeightOf(s) \in Nat /\ Weight[b] \in Nat
         /\ b \notin ToSet(s) => WeightOf(Append(s, b)) = WeightOf(s) + Weight[b]
         /\ b \in ToSet(s) => WeightOf(s) = WeightOf(Without(s, b)) + Weight[b]
         /\ b \notin ToSet(s) => WeightOf(s) = WeightOf(Without(s, b))
<1> DEFINE S == ToSet(s)
           R == ToSet(Without(s, b))
<1>1. S \subseteq Blocks /\ IsFiniteSet(S) /\ R = S \ {b}
  BY ToSetAt, DistinctLength, WithoutOne
<1>2. IsFiniteSet({b}) /\ {b} \subseteq Blocks
  BY FS_Singleton
<1>3. WeightOf(s) \in Nat /\ Weight[b] \in Nat
  BY <1>1, UnitsFinite, UnitsOfOne, WeightIsUnits
<1>4. ASSUME b \notin S
      PROVE  WeightOf(Append(s, b)) = WeightOf(s) + Weight[b]
  <2>1. ToSet(Append(s, b)) = S \cup {b} /\ S \cap {b} = {}
    BY <1>4, AppendOne
  <2>2. Cardinality(UnitsOf(S \cup {b})) = Cardinality(UnitsOf(S)) + Cardinality(UnitsOf({b}))
    BY <1>1, <1>2, <2>1, UnitsAddUp
  <2> QED
    BY <2>1, <2>2, WeightIsUnits, WeightOfOne
<1>5. ASSUME b \in S
      PROVE  WeightOf(s) = WeightOf(Without(s, b)) + Weight[b]
  <2>1. R \subseteq Blocks /\ IsFiniteSet(R) /\ R \cap {b} = {} /\ S = R \cup {b}
    BY <1>1, <1>5, FS_RemoveElement
  <2> HIDE DEF R
  <2>2. Cardinality(UnitsOf(R \cup {b})) = Cardinality(UnitsOf(R)) + Cardinality(UnitsOf({b}))
    BY <1>2, <2>1, UnitsAddUp
  <2> QED
    BY <2>1, <2>2, WeightIsUnits, WeightOfOne DEF R
<1>6. ASSUME b \notin S
      PROVE  WeightOf(s) = WeightOf(Without(s, b))
  <2>1. R = S
    BY <1>1, <1>6
  <2> QED
    BY <2>1, WeightIsUnits
<1> QED
  BY <1>3, <1>4, <1>5, <1>6

\* A list without repetition cut in two: distinct parts, whose weights add up.
LEMMA CutInTwo ==
  ASSUME NEW s \in Seq(Blocks), Distinct(s), NEW n \in 0 .. Len(s)
  PROVE  LET old == SubSeq(s, 1, n)
             new == SubSeq(s, n + 1, Len(s))
         IN  /\ new \in Seq(Blocks) /\ Distinct(new) /\ ToSet(new) \subseteq ToSet(s)
             /\ Len(new) = Len(s) - n
             /\ WeightOf(old) \in Nat /\ WeightOf(new) \in Nat
             /\ WeightOf(s) = WeightOf(old) + WeightOf(new)
<1> DEFINE m == Len(s)
           old == SubSeq(s, 1, n)
           new == SubSeq(s, n + 1, m)
<1>1. m \in Nat /\ n \in 0 .. m /\ \A i \in 1 .. m : s[i] \in Blocks
  OBVIOUS
<1>2. \A i, j \in 1 .. m : s[i] = s[j] => i = j
  BY DEF Distinct
<1>3. ToSet(s) = {s[i] : i \in 1 .. m}
  BY ToSetAt
<1> HIDE DEF m
<1>4. /\ old \in Seq(Blocks) /\ Len(old) = n /\ \A i \in 1 .. n : old[i] = s[i]
  <2>1. \A i \in 1 .. n : s[i] \in Blocks
    BY <1>1
  <2>2. /\ old \in Seq(Blocks) /\ Len(old) = (IF 1 <= n THEN n - 1 + 1 ELSE 0)
        /\ \A i \in 1 .. n - 1 + 1 : old[i] = s[1 + i - 1]
    BY <1>1, <2>1, SubSeqProperties
  <2>3. n \in Nat /\ n - 1 + 1 = n
    BY <1>1
  <2> HIDE DEF old
  <2> QED
    BY <2>2, <2>3
<1>5. /\ new \in Seq(Blocks) /\ Len(new) = m - n /\ \A i \in 1 .. m - n : new[i] = s[n + i]
  <2>1. \A i \in n + 1 .. m : s[i] \in Blocks
    BY <1>1
  <2>2. /\ new \in Seq(Blocks) /\ Len(new) = (IF n + 1 <= m THEN m - (n + 1) + 1 ELSE 0)
        /\ \A i \in 1 .. m - (n + 1) + 1 : new[i] = s[(n + 1) + i - 1]
    BY <1>1, <2>1, SubSeqProperties
  <2>3. n \in Nat /\ m - (n + 1) + 1 = m - n /\ \A i \in 1 .. m - n : (n + 1) + i - 1 = n + i
    BY <1>1
  <2> HIDE DEF new
  <2>4. Len(new) = m - n
    BY <1>1, <2>2, <2>3
  <2> QED
    BY <2>2, <2>3, <2>4
<1> HIDE DEF old, new
<1>6. ToSet(old) = {old[i] : i \in 1 .. n} /\ ToSet(new) = {new[i] : i \in 1 .. m - n}
  <2>1. ToSet(old) = {old[i] : i \in 1 .. Len(old)} /\ ToSet(new) = {new[i] : i \in 1 .. Len(new)}
    BY <1>4, <1>5, ToSetAt
  <2> QED
    BY <1>4, <1>5, <2>1
<1>7. \A i \in 1 .. m - n : n + i \in 1 .. m
  BY <1>1
<1>8. \A i \in 1 .. n : i \in 1 .. m
  BY <1>1
<1>9. Distinct(old)
  <2>1. \A i, j \in 1 .. n : old[i] = old[j] => i = j
    BY <1>2, <1>4, <1>8
  <2> QED
    BY <1>4, <2>1 DEF Distinct
<1>10. Distinct(new)
  <2>1. \A i, j \in 1 .. m - n : new[i] = new[j] => n + i = n + j
    BY <1>2, <1>5, <1>7
  <2>2. \A i, j \in 1 .. m - n : n + i = n + j => i = j
    BY <1>1
  <2>3. \A i, j \in 1 .. m - n : new[i] = new[j] => i = j
    BY <2>1, <2>2
  <2> QED
    BY <1>5, <2>3 DEF Distinct
<1>11. ToSet(new) \subseteq ToSet(s) /\ ToSet(old) \subseteq ToSet(s)
  BY <1>3, <1>4, <1>5, <1>6, <1>7, <1>8
<1>12. ToSet(s) \subseteq ToSet(old) \cup ToSet(new)
  <2> SUFFICES ASSUME NEW i \in 1 .. m PROVE s[i] \in ToSet(old) \cup ToSet(new)
    BY <1>3
  <2>1. CASE i \in 1 .. n
    BY <1>4, <1>6, <2>1
  <2>2. CASE i \notin 1 .. n
    <3>1. i - n \in 1 .. m - n /\ n + (i - n) = i
      BY <1>1, <2>2
    <3> QED
      BY <1>5, <1>6, <3>1
  <2> QED
    BY <2>1, <2>2
<1>13. ToSet(old) \cap ToSet(new) = {}
  <2> SUFFICES ASSUME NEW i \in 1 .. n, NEW j \in 1 .. m - n, old[i] = new[j] PROVE FALSE
    BY <1>6
  <2>1. s[i] = s[n + j] /\ i \in 1 .. m /\ n + j \in 1 .. m
    BY <1>4, <1>5, <1>7, <1>8
  <2>2. i = n + j
    BY <1>2, <2>1
  <2> QED
    BY <1>1, <2>2
<1>14. ToSet(s) = ToSet(old) \cup ToSet(new)
  BY <1>11, <1>12
<1>15. /\ ToSet(old) \subseteq Blocks /\ IsFiniteSet(ToSet(old))
       /\ ToSet(new) \subseteq Blocks /\ IsFiniteSet(ToSet(new))
  BY <1>4, <1>5, <1>9, <1>10, ToSetAt, DistinctLength
<1>16. /\ WeightOf(old) \in Nat /\ WeightOf(new) \in Nat
       /\ WeightOf(s) = WeightOf(old) + WeightOf(new)
  BY <1>13, <1>14, <1>15, UnitsFinite, UnitsAddUp, WeightIsUnits
<1> QED
  BY <1>5, <1>10, <1>11, <1>16 DEF old, new, m

\* Blocks are evicted until the new one fits, or none is left.
LEMMA EvictedEnough ==
  ASSUME NEW s \in Seq(Blocks), NEW u \in Int, NEW b \in Blocks, Distinct(s)
  PROVE  LET n == Evicted(s, u, b) IN
         /\ n \in 0 .. Len(s)
         /\ n = Len(s) \/ u - WeightOf(SubSeq(s, 1, n)) + Weight[b] <= CacheCapacity
<1> DEFINE m == Len(s)
           left(i) == u - WeightOf(SubSeq(s, 1, i))
           fits(i) == left(i) + Weight[b] <= CacheCapacity
           P(i) == (i = m \/ fits(i)) /\ \A j \in 0 .. i - 1 : left(j) + Weight[b] > CacheCapacity
           N == {i \in 0 .. m : i = m \/ fits(i)}
<1>1. m \in Nat /\ CacheCapacity \in Nat /\ Weight[b] \in Nat
  BY ReaderCachesAssumption
<1>2. \A i \in 0 .. m : left(i) \in Int
  <2>1. \A i \in 0 .. m : WeightOf(SubSeq(s, 1, i)) \in Nat
    BY CutInTwo
  <2> QED
    BY <2>1
<1>3. Evicted(s, u, b) = CHOOSE i \in 0 .. m : P(i)
  BY DEF Evicted
<1> HIDE DEF left, m
<1>4. N \subseteq Nat /\ m \in N
  BY <1>1
<1>5. PICK k \in N : \A j \in N : k <= j
  <2> HIDE DEF N
  <2> QED
    BY <1>4, LeastOf
<1>6. P(k)
  <2> SUFFICES ASSUME NEW j \in 0 .. k - 1 PROVE left(j) + Weight[b] > CacheCapacity
    BY <1>5
  <2>1. k \in 0 .. m /\ j \in 0 .. m /\ ~(k <= j)
    BY <1>1, <1>5
  <2>2. j \notin N
    BY <1>5, <2>1
  <2>3. ~fits(j)
    BY <2>1, <2>2
  <2> QED
    BY <1>1, <1>2, <2>1, <2>3
<1>7. k \in 0 .. m
  BY <1>5
<1> HIDE DEF P
<1>8. Evicted(s, u, b) \in 0 .. m /\ P(Evicted(s, u, b))
  BY <1>3, <1>6, <1>7
<1> QED
  BY <1>8 DEF P, m, left

-----------------------------------------------------------------------------
(***************************************************************************)
(* The steps of a thread.                                                  *)
(***************************************************************************)

LEMMA InitInv == Init => IInv
<1> SUFFICES ASSUME Init PROVE IInv
  OBVIOUS
<1>1. th \in [Threads -> States] /\ \A t \in Threads : ThreadInv(t)
  BY DEF Init, Free, States, Stages, ThreadInv
<1>2. <<>> \in Seq(Blocks) /\ <<>> \in Seq(Paths) /\ Distinct(<<>>) /\ Len(<<>>) = 0
  BY DEF Distinct
<1>3. WeightOf(<<>>) = 0
  <2>1. UnitsOf(ToSet(<<>>)) = {}
    BY DEF UnitsOf, ToSet
  <2> QED
    BY <2>1, WeightIsUnits, FS_EmptySet
<1>4. CacheInv
  <2>1. cache = <<>> /\ used = 0
    BY DEF Init
  <2> QED
    BY <1>2, <1>3, <2>1, ReaderCachesAssumption DEF CacheInv
<1>5. PoolInv
  <2>1. pool = <<>>
    BY DEF Init
  <2> QED
    BY <1>2, <2>1, ReaderCachesAssumption DEF PoolInv
<1> QED
  BY <1>1, <1>4, <1>5 DEF IInv

\* A thread moves on, with the block it is about.
LEMMA MoveInv ==
  ASSUME IInv, NEW t \in Threads, th[t].pc # "free", NEW pc \in Stages, Move(t, pc)
  PROVE  th' \in [Threads -> States] /\ \A d \in Threads : ThreadInv(d)'
<1> DEFINE w == [th[t] EXCEPT !.pc = pc]
<1>1. th[t] \in States /\ th[t].block \in Blocks /\ th' = [th EXCEPT ![t] = w]
  BY DEF IInv, ThreadInv, Move
<1>2. w \in States /\ w.pc = pc /\ w.block = th[t].block
  BY <1>1 DEF States
<1> HIDE DEF w
<1>3. th' \in [Threads -> States] /\ th'[t] = w /\ \A d \in Threads \ {t} : th'[d] = th[d]
  BY <1>1, <1>2 DEF IInv
<1> QED
  BY <1>1, <1>2, <1>3 DEF IInv, ThreadInv

\* A thread is done with its block.
LEMMA FinishInv ==
  ASSUME IInv, NEW t \in Threads, Finish(t)
  PROVE  th' \in [Threads -> States] /\ \A d \in Threads : ThreadInv(d)'
<1>1. Free \in States /\ Free.pc = "free"
  BY DEF Free, States, Stages
<1>2. th' \in [Threads -> States] /\ th'[t] = Free /\ \A d \in Threads \ {t} : th'[d] = th[d]
  BY <1>1 DEF IInv, Finish
<1> QED
  BY <1>1, <1>2 DEF IInv, ThreadInv, Stages

LEMMA CacheKept == CacheInv /\ UNCHANGED <<cache, used>> => CacheInv'
BY DEF CacheInv, WeightOf

LEMMA PoolKept == PoolInv /\ UNCHANGED pool => PoolInv'
BY DEF PoolInv

\* A block that is in the cache becomes the most recently used.
LEMMA CacheHitInv ==
  ASSUME IInv, NEW t \in Threads, NEW b \in Blocks, CacheHit(t, b)
  PROVE  IInv'
<1>1. b \in ToSet(cache) /\ cache' = Touch(cache, b) /\ UNCHANGED <<used, pool, th>>
  BY DEF CacheHit
<1>2. CacheInv
  BY DEF IInv
<1>3. /\ cache' \in Seq(Blocks) /\ Distinct(cache') /\ ToSet(cache') = ToSet(cache)
      /\ Len(cache') = Len(cache)
  BY <1>1, <1>2, Touched DEF CacheInv
<1>4. WeightOf(cache') = WeightOf(cache)
  BY <1>3, WeightIsUnits
<1>5. CacheInv'
  <2>1. used' = used
    BY <1>1
  <2>2. used' = WeightOf(cache')
    BY <1>2, <1>4, <2>1 DEF CacheInv
  <2>3. Distinct(cache)' /\ WeightOf(cache)' = WeightOf(cache')
    BY <1>3 DEF Distinct, WeightOf
  <2> QED
    BY <1>2, <1>3, <2>1, <2>2, <2>3 DEF CacheInv
<1>6. PoolInv'
  BY <1>1, PoolKept DEF IInv
<1>7. th' \in [Threads -> States] /\ \A d \in Threads : ThreadInv(d)'
  BY <1>1 DEF IInv, ThreadInv
<1> QED
  BY <1>5, <1>6, <1>7 DEF IInv

LEMMA CacheMissInv ==
  ASSUME IInv, NEW t \in Threads, NEW b \in Blocks, NEW keep \in BOOLEAN, CacheMiss(t, b, keep)
  PROVE  IInv'
<1> DEFINE w == [Free EXCEPT !.pc = "lookup", !.block = b, !.keep = keep]
<1>1. th' = [th EXCEPT ![t] = w] /\ UNCHANGED <<cache, used, pool>>
  BY DEF CacheMiss
<1>2. Free \in States
  BY DEF Free, States, Stages
<1>3. w \in States /\ w.pc = "lookup" /\ w.block = b
  BY <1>2 DEF States, Stages
<1> HIDE DEF w
<1>4. th' \in [Threads -> States] /\ th'[t] = w /\ \A d \in Threads \ {t} : th'[d] = th[d]
  BY <1>1, <1>3 DEF IInv
<1>5. \A d \in Threads : ThreadInv(d)'
  BY <1>3, <1>4 DEF IInv, ThreadInv, Stages
<1> QED
  BY <1>1, <1>4, <1>5, CacheKept, PoolKept DEF IInv

\* A block is put in the cache: once, the weights of what it replaces and evicts
\* given back.
LEMMA CacheInsertInv ==
  ASSUME IInv, NEW t \in Threads, CacheInsert(t)
  PROVE  IInv'
<1> DEFINE b == th[t].block
           rest == Without(cache, b)
           u == UsedWithout(b)
           n == Evicted(rest, u, b)
           old == SubSeq(rest, 1, n)
           new == SubSeq(rest, n + 1, Len(rest))
<1>1. /\ th[t].pc = "parsed" /\ Finish(t) /\ UNCHANGED pool
      /\ IF th[t].keep /\ CacheCapacity > 0
         THEN cache' = Append(new, b) /\ used' = u - WeightOf(old) + Weight[b]
         ELSE UNCHANGED <<cache, used>>
  BY DEF CacheInsert
<1>2. b \in Blocks /\ CacheInv
  BY <1>1 DEF IInv, ThreadInv
<1>3. th' \in [Threads -> States] /\ \A d \in Threads : ThreadInv(d)'
  BY <1>1, FinishInv
<1>4. PoolInv'
  BY <1>1, PoolKept DEF IInv
<1>5. CASE ~(th[t].keep /\ CacheCapacity > 0)
  BY <1>1, <1>2, <1>3, <1>4, <1>5, CacheKept DEF IInv
<1>6. CASE th[t].keep /\ CacheCapacity > 0
  <2> HIDE DEF b
  <2>1. cache \in Seq(Blocks) /\ Distinct(cache) /\ used = WeightOf(cache)
    BY <1>2 DEF CacheInv
  <2>2. rest \in Seq(Blocks) /\ Distinct(rest) /\ ToSet(rest) = ToSet(cache) \ {b}
    BY <2>1, WithoutOne
  <2>3. u = WeightOf(rest) /\ u \in Nat /\ Weight[b] \in Nat
    <3>1. WeightOf(rest) \in Nat /\ WeightOf(cache) \in Nat /\ Weight[b] \in Nat
      BY <1>2, <2>1, <2>2, WeightIn
    <3>2. CASE b \in ToSet(cache)
      <4>1. WeightOf(cache) = WeightOf(rest) + Weight[b] /\ u = WeightOf(cache) - Weight[b]
        BY <1>2, <2>1, <3>2, WeightIn DEF UsedWithout
      <4> HIDE DEF u, rest
      <4> QED
        BY <3>1, <4>1
    <3>3. CASE b \notin ToSet(cache)
      BY <1>2, <2>1, <3>1, <3>3, WeightIn DEF UsedWithout
    <3> QED
      BY <3>2, <3>3
  <2> HIDE DEF rest, u
  <2>4. n \in 0 .. Len(rest) /\ (n = Len(rest) \/ u - WeightOf(old) + Weight[b] <= CacheCapacity)
    BY <1>2, <2>2, <2>3, EvictedEnough
  <2> HIDE DEF n
  <2>5. /\ new \in Seq(Blocks) /\ Distinct(new) /\ ToSet(new) \subseteq ToSet(rest)
        /\ Len(new) = Len(rest) - n
        /\ WeightOf(old) \in Nat /\ WeightOf(new) \in Nat
        /\ WeightOf(rest) = WeightOf(old) + WeightOf(new)
    BY <2>2, <2>4, CutInTwo
  <2>6. cache' = Append(new, b) /\ used' = u - WeightOf(old) + Weight[b] /\ b \notin ToSet(new)
    BY <1>1, <1>6, <2>2, <2>5
  <2> HIDE DEF old, new
  <2>7. /\ Append(new, b) \in Seq(Blocks) /\ Distinct(Append(new, b)) /\ Len(Append(new, b)) = Len(new) + 1
        /\ WeightOf(Append(new, b)) = WeightOf(new) + Weight[b]
    BY <1>2, <2>5, <2>6, AppendOne, WeightIn
  <2>8. used' = WeightOf(new) + Weight[b]
    BY <2>3, <2>5, <2>6
  <2>9. used' <= CacheCapacity \/ Len(cache') <= 1
    <3>1. CASE n = Len(rest)
      <4>1. Len(new) = n - n /\ n \in Nat
        BY <2>2, <2>4, <2>5, <3>1
      <4>2. Len(new) = 0
        BY <4>1
      <4> QED
        BY <2>6, <2>7, <4>2
    <3>2. CASE u - WeightOf(old) + Weight[b] <= CacheCapacity
      BY <2>6, <3>2
    <3> QED
      BY <2>4, <3>1, <3>2
  <2>10. CacheInv'
    <3>1. Distinct(cache)' = Distinct(cache') /\ WeightOf(cache)' = WeightOf(cache')
      BY DEF Distinct, WeightOf
    <3>2. cache' \in Seq(Blocks) /\ Distinct(cache)' /\ used' = WeightOf(cache)'
      BY <2>6, <2>7, <2>8, <3>1
    <3> QED
      BY <2>9, <3>2 DEF CacheInv
  <2> QED
    BY <1>3, <1>4, <2>10 DEF IInv
<1> QED
  BY <1>5, <1>6

\* A file that is in the pool becomes the most recently used.
LEMMA PoolTouched ==
  ASSUME PoolInv, NEW path \in ToSet(pool), pool' = Touch(pool, path)
  PROVE  PoolInv'
<1>1. pool \in Seq(Paths) /\ Distinct(pool) /\ Len(pool) <= OpenFiles
  BY DEF PoolInv
<1>2. pool' \in Seq(Paths) /\ Distinct(pool') /\ Len(pool') = Len(pool)
  BY <1>1, Touched
<1>3. Distinct(pool)'
  BY <1>2 DEF Distinct
<1> QED
  BY <1>1, <1>2, <1>3 DEF PoolInv

LEMMA PoolLookupInv ==
  ASSUME IInv, NEW t \in Threads, PoolLookup(t)
  PROVE  IInv'
<1>1. th[t].pc = "lookup" /\ UNCHANGED <<cache, used>>
  BY DEF PoolLookup
<1>2. PoolInv /\ CacheInv'
  BY <1>1, CacheKept DEF IInv
<1>3. CASE Pooled(PathFor(t)) /\ pool' = Touch(pool, PathFor(t)) /\ Move(t, "read")
  <2>1. PoolInv'
    BY <1>2, <1>3, PoolTouched DEF Pooled
  <2> QED
    BY <1>1, <1>2, <1>3, <2>1, MoveInv DEF IInv, Stages
<1>4. CASE pool' = pool /\ Move(t, "open")
  BY <1>1, <1>2, <1>4, PoolKept, MoveInv DEF IInv, Stages
<1> QED
  BY <1>3, <1>4 DEF PoolLookup

\* The handle just opened is pooled, unless another thread pooled one meanwhile; the
\* pool never holds more than its capacity.
LEMMA PoolInsertInv ==
  ASSUME IInv, NEW t \in Threads, PoolInsert(t)
  PROVE  IInv'
<1> DEFINE path == PathFor(t)
<1>1. th[t].pc = "pool" /\ UNCHANGED <<cache, used>> /\ Move(t, "read")
  BY DEF PoolInsert
<1>2. PoolInv /\ CacheInv'
  BY <1>1, CacheKept DEF IInv
<1>3. PoolInv'
  <2>1. CASE Pooled(path) /\ pool' = Touch(pool, path)
    BY <1>2, <2>1, PoolTouched DEF Pooled
  <2>2. CASE ~Pooled(path) /\ pool' = Append(MakeRoom(pool), path)
    <3>1. path \in Paths
      BY <1>1 DEF IInv, ThreadInv, PathFor, Paths
    <3> HIDE DEF path
    <3> DEFINE m == Len(pool)
               k == m - OpenFiles + 2
               a == IF 1 >= k THEN 1 ELSE k
               r == MakeRoom(pool)
    <3>2. /\ m \in Nat /\ OpenFiles \in Nat \ {0} /\ m <= OpenFiles
          /\ \A i \in 1 .. m : pool[i] \in Paths
      BY <1>2, ReaderCachesAssumption DEF PoolInv
    <3>3. \A i, j \in 1 .. m : pool[i] = pool[j] => i = j
      BY <1>2 DEF PoolInv, Distinct
    <3>4. \A i \in 1 .. m : pool[i] # path
      BY <1>2, <2>2, ToSetAt DEF PoolInv, Pooled
    <3>5. r = SubSeq(pool, Max({1, k}), m)
      BY DEF MakeRoom
    <3> HIDE DEF m, r
    <3>6. k \in Int /\ a \in Nat /\ 1 <= a /\ (m <= OpenFiles - 1 => a = 1) /\ m - a + 1 <= OpenFiles - 1
          /\ a <= m + 1
      BY <3>2
    <3>7. Max({1, k}) = a
      <4>1. k \in Int /\ 1 \in Int
        BY <3>6
      <4> HIDE DEF k
      <4> QED
        BY <4>1, MaxOfTwo
    <3> HIDE DEF a, k
    <3>8. /\ r \in Seq(Paths) /\ Len(r) = (IF a <= m THEN m - a + 1 ELSE 0)
          /\ \A i \in 1 .. m - a + 1 : r[i] = pool[a + i - 1]
      <4>1. \A i \in a .. m : pool[i] \in Paths
        BY <3>2, <3>6
      <4>2. a \in Int /\ m \in Int
        BY <3>2, <3>6
      <4> DEFINE q == SubSeq(pool, a, m)
      <4>3. r = q
        BY <3>5, <3>7
      <4>4. /\ q \in Seq(Paths) /\ Len(q) = (IF a <= m THEN m - a + 1 ELSE 0)
            /\ \A i \in 1 .. m - a + 1 : q[i] = pool[a + i - 1]
        BY <4>1, <4>2, SubSeqProperties
      <4> HIDE DEF q
      <4> QED
        BY <4>3, <4>4
    <3> DEFINE n == m - a + 1
    <3>9. n \in Nat /\ Len(r) = n /\ n <= OpenFiles - 1 /\ \A i \in 1 .. n : a + i - 1 \in 1 .. m
      BY <3>2, <3>6, <3>8
    <3>10. \A i \in 1 .. n : r[i] = pool[a + i - 1]
      BY <3>8
    <3>11. \A i, j \in 1 .. n : a + i - 1 = a + j - 1 => i = j
      BY <3>2, <3>6
    <3> HIDE DEF n
    <3>12. Distinct(r)
      <4>1. \A i, j \in 1 .. n : r[i] = r[j] => i = j
        BY <3>3, <3>9, <3>10, <3>11
      <4> QED
        BY <3>9, <4>1 DEF Distinct
    <3>13. path \notin ToSet(r)
      <4>1. \A i \in 1 .. n : r[i] # path
        BY <3>4, <3>9, <3>10
      <4>2. \A x \in ToSet(r) : \E i \in 1 .. Len(r) : r[i] = x
        BY <3>8, ToSetAt
      <4> QED
        BY <3>9, <4>1, <4>2
    <3>14. /\ Append(r, path) \in Seq(Paths) /\ Distinct(Append(r, path))
           /\ Len(Append(r, path)) = Len(r) + 1
      BY <3>1, <3>8, <3>12, <3>13, AppendOne
    <3>15. pool' = Append(r, path)
      BY <2>2 DEF r
    <3>16. Len(pool') = n + 1 /\ n + 1 <= OpenFiles
      BY <3>2, <3>9, <3>14, <3>15
    <3>17. pool' \in Seq(Paths) /\ Distinct(pool)'
      BY <3>14, <3>15 DEF Distinct
    <3> QED
      BY <3>16, <3>17 DEF PoolInv
  <2> QED
    BY <2>1, <2>2 DEF PoolInsert, PooledMeanwhile
<1> QED
  BY <1>1, <1>2, <1>3, MoveInv DEF IInv, Stages

LEMMA NextInv == IInv /\ [Next]_vars => IInv'
<1> SUFFICES ASSUME IInv, [Next]_vars PROVE IInv'
  OBVIOUS
<1>1. ASSUME NEW t \in Threads, Open(t) PROVE IInv'
  BY <1>1, CacheKept, PoolKept, MoveInv DEF Open, IInv, Stages
<1>2. ASSUME NEW t \in Threads, Read(t) PROVE IInv'
  BY <1>2, CacheKept, PoolKept, MoveInv DEF Read, IInv, Stages
<1>3. ASSUME NEW t \in Threads, Fail(t) PROVE IInv'
  BY <1>3, CacheKept, PoolKept, FinishInv DEF Fail, IInv
<1>4. CASE UNCHANGED vars
  BY <1>4, CacheKept, PoolKept DEF vars, IInv, ThreadInv
<1> QED
  BY <1>1, <1>2, <1>3, <1>4, CacheHitInv, CacheMissInv, PoolLookupInv, PoolInsertInv, CacheInsertInv
     DEF Next, Grouped

-----------------------------------------------------------------------------
(***************************************************************************)
(* The theorems.                                                           *)
(***************************************************************************)

\* The inductive invariant holds in every state.
THEOREM Invariant == Spec => []IInv
BY InitInv, NextInv, PTL DEF Spec

\* CacheAccounts: BlockCache::insert gives back the weight of a block that another
\* thread put there meanwhile, and of what it evicts, so the weight in use is that of the
\* blocks kept; they fit the capacity, or there is one alone.
THEOREM CacheAccounted == Spec => []CacheAccounts
<1>1. IInv => CacheAccounts
  <2> SUFFICES ASSUME IInv PROVE CacheAccounts
    OBVIOUS
  <2>1. CacheInv
    BY DEF IInv
  <2>2. Cardinality(ToSet(cache)) = Len(cache)
    BY <2>1, DistinctLength DEF CacheInv
  <2> QED
    BY <2>1, <2>2 DEF CacheInv, CacheAccounts
<1> QED
  BY <1>1, Invariant, PTL

\* PoolBounded: FilePool::get looks again once the file is open, and makes room before it
\* pools a handle, so the pool keeps to its capacity with one handle of a file.
THEOREM PoolKeepsBound == Spec => []PoolBounded
<1>1. IInv => PoolBounded
  <2> SUFFICES ASSUME IInv PROVE PoolBounded
    OBVIOUS
  <2>1. PoolInv
    BY DEF IInv
  <2>2. Cardinality(ToSet(pool)) = Len(pool)
    BY <2>1, DistinctLength DEF PoolInv
  <2> QED
    BY <2>1, <2>2 DEF PoolInv, PoolBounded
<1> QED
  BY <1>1, Invariant, PTL
=============================================================================
