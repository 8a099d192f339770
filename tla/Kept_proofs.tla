----------------------------- MODULE Kept_proofs -----------------------------
(***************************************************************************)
(* Lemmas about lists and small sets of numbers, for every list.           *)
(***************************************************************************)
EXTENDS Kept, SequencesExt, FiniteSetTheorems, WellFoundedInduction, TLAPS

\* Max of two numbers.
LEMMA MaxOfTwo ==
  ASSUME NEW a \in Int, NEW b \in Int
  PROVE  Max({a, b}) = IF a >= b THEN a ELSE b
BY DEF Max

\* A set of naturals below a bound has a greatest element, and Max is it.
LEMMA MaxOfBounded ==
  ASSUME NEW S, S \subseteq Nat, S # {}, NEW n \in Nat, \A x \in S : x <= n
  PROVE  Max(S) \in S /\ \A y \in S : y <= Max(S)
<1> DEFINE R == OpToRel(<, Nat)
           T == {k \in 0 .. n : n - k \in S}
<1>1. IsWellFoundedOn(R, Nat)
  BY NatLessThanWellFounded
<1>2. \A x, y \in Nat : x < y => <<x, y>> \in R
  BY Zenon DEF OpToRel
<1>3. T \subseteq Nat /\ T # {}
  <2>1. PICK x \in S : TRUE
    OBVIOUS
  <2>2. n - x \in 0 .. n /\ n - (n - x) = x
    OBVIOUS
  <2> QED
    BY <2>1, <2>2
<1>4. \A x \in S : n - x \in T
  OBVIOUS
<1>5. \A k \in T : n - k \in S /\ k \in 0 .. n
  OBVIOUS
<1> HIDE DEF R, T
<1>6. PICK k \in T : \A y \in T : ~ (<<y, k>> \in R)
  BY <1>1, <1>3, WFMin
<1>7. \A y \in T : ~(y < k)
  BY <1>2, <1>3, <1>6
<1>8. n - k \in S
  BY <1>5
<1>9. \A y \in S : y <= n - k
  <2> TAKE y \in S
  <2>1. ~(n - y < k) /\ y \in Nat /\ k \in 0 .. n
    BY <1>4, <1>5, <1>7
  <2> QED
    BY <2>1
<1> QED
  BY <1>8, <1>9 DEF Max

\* A set of naturals has a least element.
LEMMA LeastOf ==
  ASSUME NEW S, S \subseteq Nat, S # {}
  PROVE  \E x \in S : \A y \in S : x <= y
<1> DEFINE R == OpToRel(<, Nat)
<1>1. IsWellFoundedOn(R, Nat)
  BY NatLessThanWellFounded
<1>2. \A x, y \in Nat : x < y => <<x, y>> \in R
  BY Zenon DEF OpToRel
<1> HIDE DEF R
<1>3. PICK x \in S : \A y \in S : ~ (<<y, x>> \in R)
  BY <1>1, WFMin
<1>4. \A y \in S : ~(y < x)
  BY <1>2, <1>3
<1> QED
  BY <1>4

\* SetToSeq lists a finite set, every element once.
LEMMA SetAsSeq ==
  ASSUME NEW S, IsFiniteSet(S)
  PROVE  /\ SetToSeq(S) \in Seq(S)
         /\ \A i, j \in 1 .. Len(SetToSeq(S)) : SetToSeq(S)[i] = SetToSeq(S)[j] => i = j
         /\ \A x \in S : \E i \in 1 .. Len(SetToSeq(S)) : SetToSeq(S)[i] = x
<1> DEFINE n == Cardinality(S)
           f == SetToSeq(S)
<1>1. n \in Nat /\ ExistsBijection(1 .. n, S)
  BY FS_CardinalityType
<1>2. PICK g : g \in Bijection(1 .. n, S)
  BY <1>1 DEF ExistsBijection
<1>3. g \in [1 .. n -> S] /\ IsInjective(g)
  BY <1>2 DEF Bijection, Injection, Surjection, IsInjective
<1>4. f \in [1 .. n -> S] /\ IsInjective(f)
  BY <1>3 DEF SetToSeq
<1> HIDE DEF f
<1>5. f \in Seq(S) /\ Len(f) = n /\ DOMAIN f = 1 .. n
  BY <1>1, <1>4
<1>6. f \in Surjection(1 .. n, S)
  <2>1. f \in Injection(1 .. n, S)
    BY <1>4 DEF Injection, IsInjective
  <2>2. IsFiniteSet(1 .. n) /\ Cardinality(1 .. n) = n
    BY <1>1, FS_Interval
  <2> QED
    BY <2>1, <2>2, FS_Injection
<1>7. \A x \in S : \E i \in 1 .. n : f[i] = x
  BY <1>6 DEF Surjection
<1>8. \A i, j \in 1 .. n : f[i] = f[j] => i = j
  BY <1>4, <1>5 DEF IsInjective
<1> QED
  BY <1>5, <1>7, <1>8 DEF f

\* The elements of a list are those at its positions.
LEMMA RangeAt ==
  ASSUME NEW T, NEW s \in Seq(T)
  PROVE  /\ Range(s) = {s[i] : i \in 1 .. Len(s)}
         /\ Range(s) \subseteq T
         /\ \A i \in 1 .. Len(s) : s[i] \in Range(s)
         /\ \A x \in Range(s) : \E i \in 1 .. Len(s) : s[i] = x
BY DEF Range

\* No element twice.
Distinct(s) == \A i, j \in 1 .. Len(s) : s[i] = s[j] => i = j

\* ToSet by positions.
LEMMA ToSetAt ==
  ASSUME NEW T, NEW s \in Seq(T)
  PROVE  /\ ToSet(s) \subseteq T
         /\ ToSet(s) = {s[i] : i \in 1 .. Len(s)}
         /\ ToSet(s) = Range(s)
         /\ \A i \in 1 .. Len(s) : s[i] \in ToSet(s)
         /\ \A x \in ToSet(s) : \E i \in 1 .. Len(s) : s[i] = x
BY DEF ToSet, Range

\* A list without repetition has as many elements as its set.
LEMMA DistinctLength ==
  ASSUME NEW T, NEW s \in Seq(T), Distinct(s)
  PROVE  IsFiniteSet(ToSet(s)) /\ Cardinality(ToSet(s)) = Len(s)
<1> DEFINE n == Len(s)
           S == ToSet(s)
<1>1. n \in Nat /\ s \in [1 .. n -> S]
  BY ToSetAt
<1>2. s \in Bijection(1 .. n, S)
  <2>1. s \in Injection(1 .. n, S)
    BY <1>1 DEF Distinct, Injection, IsInjective
  <2>2. \A x \in S : \E i \in 1 .. n : s[i] = x
    BY ToSetAt
  <2>3. s \in Surjection(1 .. n, S)
    BY <1>1, <2>2 DEF Surjection
  <2> QED
    BY <2>1, <2>3 DEF Bijection
<1>3. ExistsBijection(1 .. n, S)
  BY <1>2 DEF ExistsBijection
<1> HIDE DEF n, S
<1>4. IsFiniteSet(1 .. n) /\ Cardinality(1 .. n) = n
  <2>1. IsFiniteSet(1 .. n) /\ Cardinality(1 .. n) = IF 1 > n THEN 0 ELSE n - 1 + 1
    BY <1>1, FS_Interval
  <2> QED
    BY <1>1, <2>1
<1>5. IsFiniteSet(S) /\ Cardinality(S) = n
  BY <1>3, <1>4, FS_Bijection
<1> QED
  BY <1>5 DEF n, S

\* The count of positions up to i grows from one kept position to the next.
LEMMA UpToGrows ==
  ASSUME NEW I, I \subseteq Nat, IsFiniteSet(I)
  PROVE  \A i \in I :
            /\ UpTo(I, i) \in 1 .. Cardinality(I)
            /\ \A j \in I : j < i => UpTo(I, j) < UpTo(I, i)
<1> TAKE i \in I
<1> DEFINE B(k) == {j \in I : j <= k}
<1>1. ASSUME NEW k \in I
      PROVE  IsFiniteSet(B(k)) /\ Cardinality(B(k)) \in Nat /\ Cardinality(B(k)) <= Cardinality(I)
             /\ Cardinality(I) \in Nat
  <2>1. B(k) \in SUBSET I
    OBVIOUS
  <2> HIDE DEF B
  <2> QED
    BY <2>1, FS_Subset, FS_CardinalityType
<1>2. Cardinality(B(i)) # 0
  <2>1. i \in B(i)
    OBVIOUS
  <2> HIDE DEF B
  <2> QED
    BY <2>1, <1>1, FS_EmptySet
<1>3. ASSUME NEW j \in I, j < i
      PROVE  Cardinality(B(j)) < Cardinality(B(i))
  <2>1. B(j) \in SUBSET B(i) /\ B(j) # B(i)
    <3>1. i \in B(i) /\ i \notin B(j)
      BY <1>3
    <3>2. \A k \in B(j) : k \in B(i)
      BY <1>3
    <3> QED
      BY <3>1, <3>2
  <2>2. IsFiniteSet(B(i)) /\ Cardinality(B(i)) \in Nat /\ Cardinality(B(j)) \in Nat
    BY <1>1
  <2> HIDE DEF B
  <2>3. Cardinality(B(j)) <= Cardinality(B(i)) /\ Cardinality(B(j)) # Cardinality(B(i))
    BY <2>1, <2>2, FS_Subset
  <2> QED
    BY <2>2, <2>3
<1> QED
  BY <1>1, <1>2, <1>3 DEF UpTo

\* Every count is that of some kept position.
LEMMA UpToOnto ==
  ASSUME NEW I, I \subseteq Nat, IsFiniteSet(I), NEW k \in 1 .. Cardinality(I)
  PROVE  \E i \in I : UpTo(I, i) = k
<1> DEFINE f == [i \in I |-> UpTo(I, i)]
           T == 1 .. Cardinality(I)
<1>1. Cardinality(I) \in Nat
  BY FS_CardinalityType
<1>2. IsFiniteSet(T) /\ Cardinality(T) = Cardinality(I)
  BY <1>1, FS_Interval
<1>3. f \in [I -> T]
  BY UpToGrows
<1>4. ASSUME NEW a \in I, NEW b \in I, f[a] = f[b]
      PROVE  a = b
  <2>1. a \in Nat /\ b \in Nat /\ UpTo(I, a) = UpTo(I, b)
    BY <1>4
  <2>0. UpTo(I, a) \in 1 .. Cardinality(I)
    BY UpToGrows
  <2>2. ~(UpTo(I, a) < UpTo(I, b)) /\ ~(UpTo(I, b) < UpTo(I, a))
    BY <2>0, <2>1
  <2>3. ~(a < b) /\ ~(b < a)
    BY <2>2, UpToGrows
  <2> QED
    BY <2>1, <2>3
<1>5. f \in Injection(I, T)
  <2>1. DOMAIN f = I
    OBVIOUS
  <2> HIDE DEF f, T
  <2> QED
    BY <1>3, <1>4, <2>1 DEF Injection, IsInjective
<1>6. f \in Surjection(I, T)
  <2> HIDE DEF f, T
  <2> QED
    BY <1>2, <1>5, FS_Injection
<1>7. \E i \in I : f[i] = k
  <2>1. k \in T
    OBVIOUS
  <2> HIDE DEF f, T
  <2> QED
    BY <2>1, <1>6 DEF Surjection
<1> QED
  BY <1>7

\* What is kept, as a growing choice of positions: the k-th element kept is the
\* one at at[k].
LEMMA KeepPositions ==
  ASSUME NEW T, NEW s \in Seq(T), NEW S
  PROVE  LET n == Cardinality(KeptAt(s, S)) IN
         /\ n \in Nat
         /\ Keep(s, S) \in Seq(T)
         /\ Len(Keep(s, S)) = n
         /\ \E at \in [1 .. n -> KeptAt(s, S)] :
               /\ \A k \in 1 .. n : Keep(s, S)[k] = s[at[k]]
               /\ \A k, l \in 1 .. n : k < l => at[k] < at[l]
               /\ \A i \in KeptAt(s, S) : \E k \in 1 .. n : at[k] = i
<1> DEFINE I == KeptAt(s, S)
           n == Cardinality(I)
           at == [k \in 1 .. n |-> CHOOSE i \in I : UpTo(I, i) = k]
<1>1. Len(s) \in Nat /\ DOMAIN s = 1 .. Len(s)
  OBVIOUS
<1>2. I \subseteq 1 .. Len(s) /\ I \subseteq Nat
  BY <1>1 DEF KeptAt
<1>3. IsFiniteSet(I) /\ n \in Nat
  <2>1. IsFiniteSet(1 .. Len(s)) /\ I \in SUBSET (1 .. Len(s))
    BY <1>1, <1>2, FS_Interval
  <2> HIDE DEF I
  <2> QED
    BY <2>1, FS_Subset, FS_CardinalityType
<1>4. \A k \in 1 .. n : at[k] \in I /\ UpTo(I, at[k]) = k
  <2> HIDE DEF I
  <2> QED
    BY <1>2, <1>3, UpToOnto
<1>5. at \in [1 .. n -> I]
  BY <1>4
<1>6. Keep(s, S) = [k \in 1 .. n |-> s[at[k]]]
  BY DEF Keep
<1>7. \A i \in I : i \in DOMAIN s /\ s[i] \in T
  BY <1>1, <1>2
<1>8. Keep(s, S) \in Seq(T) /\ Len(Keep(s, S)) = n
  <2>1. \A k \in 1 .. n : s[at[k]] \in T
    BY <1>4, <1>7
  <2> HIDE DEF n, at
  <2> QED
    BY <2>1, <1>3, <1>6
<1>9. \A i \in I : UpTo(I, i) \in 1 .. n /\ at[UpTo(I, i)] = i
  <2> TAKE i \in I
  <2>1. UpTo(I, i) \in 1 .. n
    BY <1>2, <1>3, UpToGrows
  <2>2. at[UpTo(I, i)] \in I /\ UpTo(I, at[UpTo(I, i)]) = UpTo(I, i)
    BY <1>4, <2>1
  <2> DEFINE h == at[UpTo(I, i)]
  <2>3. ~(h < i) /\ ~(i < h)
    <3>1. h \in I /\ UpTo(I, h) = UpTo(I, i) /\ UpTo(I, i) \in Int
      BY <1>3, <2>1, <2>2
    <3> HIDE DEF h, I
    <3>2. \A x, y \in I : y < x => UpTo(I, y) < UpTo(I, x)
      BY <1>2, <1>3, UpToGrows
    <3> QED
      BY <3>1, <3>2
  <2>4. h \in Nat /\ i \in Nat
    BY <1>2, <2>2
  <2> HIDE DEF h, I
  <2>5. h = i
    BY <2>3, <2>4
  <2> QED
    BY <2>1, <2>5 DEF h
<1>10. \A k, l \in 1 .. n : k < l => at[k] < at[l]
  <2> SUFFICES ASSUME NEW k \in 1 .. n, NEW l \in 1 .. n, k < l
               PROVE  at[k] < at[l]
    OBVIOUS
  <2>1. at[k] \in I /\ at[l] \in I /\ UpTo(I, at[k]) = k /\ UpTo(I, at[l]) = l
    BY <1>4
  <2>2. at[k] \in Nat /\ at[l] \in Nat
    BY <1>2, <2>1
  <2> DEFINE a == at[k]
             b == at[l]
  <2>3. a \in I /\ b \in I /\ UpTo(I, a) = k /\ UpTo(I, b) = l /\ a \in Nat /\ b \in Nat
    BY <2>1, <2>2
  <2> HIDE DEF a, b, I
  <2>7. \A x, y \in I : y < x => UpTo(I, y) < UpTo(I, x)
    BY <1>2, <1>3, UpToGrows
  <2>4. ~(b < a)
    BY <2>3, <2>7
  <2>5. b # a
    BY <2>3
  <2>6. a < b
    BY <2>3, <2>4, <2>5
  <2> QED
    BY <2>6 DEF a, b
<1>11. \A k \in 1 .. n : Keep(s, S)[k] = s[at[k]]
  BY <1>6
<1>12. \A i \in I : \E k \in 1 .. n : at[k] = i
  BY <1>9
<1> HIDE DEF at, n, I
<1> QED
  BY <1>3, <1>5, <1>8, <1>10, <1>11, <1>12 DEF n, I

\* Keeping neither adds nor repeats: what is left are the elements of s in S, and
\* a list without repetition stays one.
LEMMA KeepElements ==
  ASSUME NEW T, NEW s \in Seq(T), NEW S
  PROVE  /\ Keep(s, S) \in Seq(T)
         /\ Range(Keep(s, S)) = Range(s) \cap S
         /\ IsInjective(s) => IsInjective(Keep(s, S))
<1> DEFINE I == KeptAt(s, S)
           n == Cardinality(I)
           k == Keep(s, S)
<1>1. PICK at \in [1 .. n -> I] :
               /\ n \in Nat /\ k \in Seq(T) /\ Len(k) = n
               /\ \A i \in 1 .. n : k[i] = s[at[i]]
               /\ \A i, j \in 1 .. n : i < j => at[i] < at[j]
               /\ \A i \in I : \E j \in 1 .. n : at[j] = i
  BY KeepPositions
<1>2. I = {i \in 1 .. Len(s) : s[i] \in S} /\ DOMAIN s = 1 .. Len(s) /\ Len(s) \in Nat
  BY DEF KeptAt
<1>3. DOMAIN k = 1 .. n
  <2> HIDE DEF k, n
  <2> QED
    BY <1>1
<1> HIDE DEF k, n, I
<1>4. Range(k) = Range(s) \cap S
  <2>1. ASSUME NEW j \in 1 .. n
        PROVE  k[j] \in Range(s) \cap S
    <3>1. at[j] \in I /\ k[j] = s[at[j]]
      BY <1>1
    <3> QED
      BY <1>2, <3>1 DEF Range
  <2>2. ASSUME NEW i \in 1 .. Len(s), s[i] \in S
        PROVE  s[i] \in Range(k)
    <3>1. PICK j \in 1 .. n : at[j] = i
      BY <1>1, <1>2, <2>2
    <3> QED
      BY <1>1, <1>3, <3>1 DEF Range
  <2> QED
    BY <1>2, <1>3, <2>1, <2>2 DEF Range
<1>5. ASSUME IsInjective(s), NEW a \in 1 .. n, NEW b \in 1 .. n, k[a] = k[b]
      PROVE  a = b
  <2>1. at[a] = at[b] /\ at[a] \in Nat
    BY <1>1, <1>2, <1>5 DEF IsInjective
  <2>2. ~(a < b) /\ ~(b < a)
    BY <1>1, <2>1
  <2> QED
    BY <2>2, <1>1
<1>6. IsInjective(s) => IsInjective(k)
  BY <1>3, <1>5 DEF IsInjective
<1> QED
  BY <1>1, <1>4, <1>6 DEF k

\* The element at a kept position, by how many are kept up to it.
LEMMA KeepAt ==
  ASSUME NEW T, NEW s \in Seq(T), NEW S, NEW i \in KeptAt(s, S)
  PROVE  /\ UpTo(KeptAt(s, S), i) \in 1 .. Len(Keep(s, S))
         /\ Keep(s, S)[UpTo(KeptAt(s, S), i)] = s[i]
<1> DEFINE I == KeptAt(s, S)
           n == Cardinality(I)
           at(k) == CHOOSE j \in I : UpTo(I, j) = k
<1>1. n \in Nat /\ Len(Keep(s, S)) = n
  BY KeepPositions
<1>2. I \subseteq 1 .. Len(s) /\ I \subseteq Nat /\ Len(s) \in Nat
  BY DEF KeptAt
<1>3. I \subseteq Nat /\ IsFiniteSet(I)
  <2>1. IsFiniteSet(1 .. Len(s)) /\ I \in SUBSET (1 .. Len(s))
    BY <1>2, FS_Interval
  <2> HIDE DEF I
  <2>2. IsFiniteSet(I)
    BY <2>1, FS_Subset
  <2> QED
    BY <1>2, <2>2
<1> HIDE DEF I
<1>4. i \in I
  BY DEF I
<1>5. UpTo(I, i) \in 1 .. n
  BY <1>3, <1>4, UpToGrows
<1>6. at(UpTo(I, i)) = i
  <2>1. at(UpTo(I, i)) \in I /\ UpTo(I, at(UpTo(I, i))) = UpTo(I, i)
    BY <1>4
  <2> HIDE DEF at
  <2> DEFINE j == at(UpTo(I, i))
  <2>2. UpTo(I, j) \in 1 .. n /\ (j < i => UpTo(I, j) < UpTo(I, i)) /\ (i < j => UpTo(I, i) < UpTo(I, j))
    BY <1>3, <1>4, <2>1, UpToGrows
  <2>3. j \in Nat /\ i \in Nat
    BY <1>3, <1>4, <2>1
  <2> QED
    BY <1>1, <1>5, <2>1, <2>2, <2>3
<1>7. Keep(s, S)[UpTo(I, i)] = s[at(UpTo(I, i))]
  BY <1>5 DEF Keep, I
<1> QED
  BY <1>1, <1>5, <1>6, <1>7 DEF I
=============================================================================
