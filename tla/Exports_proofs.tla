--------------------------- MODULE Exports_proofs ---------------------------
(***************************************************************************)
(* Proofs about the two exports.                                           *)
(*                                                                         *)
(* The commands of StateExport, for every savepoint and size of a batch,   *)
(* whatever fails, is lost or is killed: a command that succeeds told all  *)
(* there is, and the file asked for is whole.                              *)
(*                                                                         *)
(* The `E` export of JsonExport, for any number of pages and kills: what   *)
(* it leaves behind for any number of explorers, and that the file under   *)
(* the real name is whole when one explorer has the savepoint open (two    *)
(* write the same .partial).                                               *)
(***************************************************************************)
EXTENDS StateExport, JsonExport, Kept_proofs

-----------------------------------------------------------------------------
(***************************************************************************)
(* StateExport.                                                            *)
(***************************************************************************)

Rows  == [value : Values, note : Values]
Outputs == [there : BOOLEAN, rows : Seq(Rows), whole : BOOLEAN]
Columns == {"none", "Int64", "Float64", "Boolean", "Utf8", "Json"}
Pending == [type : Types, v : Values]
ExportSteps == {"create", "resolve", "export", "rename"}

ExportTypeOK ==
    /\ sp \in [Ops -> Seq(Subtasks)]
    /\ cmd \in [what : {"none", "list", "export"}, ops : SUBSET Ops,
                format : {"ndjson", "parquet"}, target : {"file", "stdout", "device"}]
    /\ pc \in Ended \cup ExportSteps \cup {"list"}
    /\ at \in [stream : Nat \ {0}, block : Nat \ {0}, held : BOOLEAN]
    /\ left \in Seq(Pending)
    /\ sink \in [column : Columns, batch : Seq(Rows)]
    /\ malformed \in Nat
    /\ out \in Outputs /\ partial \in Outputs /\ path \in Outputs

\* The file the export writes.
Target == IF cmd.target = "file" THEN partial ELSE out

\* What the k-th row of an export shows: rows r are in the file, b in the batch and
\* the values of l still to come.
RowShown(r, b, l, k) ==
    IF k <= Len(r) THEN Shows(r[k])
    ELSE IF k <= Len(r) + Len(b) THEN Shows(b[k - Len(r)])
    ELSE Decoded(l[k - Len(r) - Len(b)].v)

\* Block c of subtask j comes before block b of subtask i, and what is in there.
Behind(j, c, i, b) == j < i \/ (j = i /\ c < b)
PassedAt(o, i, b) == {p \in Stored(o) : Behind(p[1], p[2], i, b)}
Passed == PassedAt(ctx.op, at.stream, at.block)

\* A block of the state with a defect.
DefectIn(o, i, b) ==
    /\ i \in DOMAIN sp[o] /\ sp[o][i].file # "none" /\ Registers(sp[o][i], State)
    /\ b \in DOMAIN sp[o][i].blocks /\ sp[o][i].blocks[b].defect

OnlyHolder(o) == o \in cmd.ops /\ HasState(o) /\ \A p \in cmd.ops : HasState(p) => p = o

\* Every stream of the operator there is was opened.
StreamsInv == /\ ctx.op \in Ops
              /\ \A i \in DOMAIN sp[ctx.op] : i \in ctx.streams <=> sp[ctx.op][i].file # "none"

\* Every value passed has its row, in order; so have the defects been counted.
ValuesInv ==
    /\ Len(Target.rows) + Len(sink.batch) + Len(left) = Cardinality(Passed)
    /\ \A p \in Passed : RowShown(Target.rows, sink.batch, left, Rank(ctx.op, p))
                            = Decoded(ValueAt(ctx.op, p))
    /\ cmd.format = "ndjson" => sink.batch = <<>>
DefectsInv == malformed > 0 <=>
    \E j, c \in Nat : Behind(j, c, at.stream, at.block) /\ DefectIn(ctx.op, j, c)

ExportInv == OnlyHolder(ctx.op) /\ StreamsInv /\ ValuesInv /\ DefectsInv

\* Nothing is written before the streams are read.
FreshInv == /\ at = First /\ left = <<>> /\ sink = NewSink /\ malformed = 0
            /\ pc = "resolve" => Target.rows = <<>>

\* An export that is written, under its name or not yet.
WrittenInv(f) ==
    OnlyHolder(ctx.op) /\ Holds(f, ctx.op) /\ (Defects(ctx.op) <=> malformed > 0)

AllListed == listed = {l \in Ops \X StateNames : RegisteredIn(l[1], l[2])}

PhaseInv ==
    /\ pc \in ExportSteps => cmd.what = "export"
    /\ pc \in {"list", "ok"} => cmd.what # "none"
    /\ pc = "list" => cmd.what = "list"
    /\ cmd.what = "list" => cmd.target = "stdout"
    /\ pc = "rename" => cmd.target = "file"

IInv ==
    /\ ExportTypeOK /\ PhaseInv
    /\ pc \in {"create", "resolve"} => FreshInv
    /\ pc = "export" => ExportInv
    /\ pc = "rename" => WrittenInv(partial)
    /\ pc = "ok" /\ cmd.what = "export" => WrittenInv(IF cmd.target = "file" THEN path ELSE out)
    /\ pc = "ok" /\ cmd.what = "list" => AllListed
    /\ PathIsWhole

(***************************************************************************)
(* The places of values.                                                   *)
(***************************************************************************)

\* Where the values of a state are.
LEMMA StoredAt ==
  ASSUME NEW o, NEW p
  PROVE  p \in Stored(o) <=>
            \E i \in DOMAIN sp[o] : \E b \in DOMAIN sp[o][i].blocks :
               \E e \in KeptAt(sp[o][i].blocks[b].entries, Wanted(sp[o][i])) :
                  p = <<i, b, e>> /\ sp[o][i].file # "none" /\ Registers(sp[o][i], State)
BY DEF Stored

\* A subtask and a block have the types of the savepoint.
LEMMA Located ==
  ASSUME ExportTypeOK, NEW o \in Ops, NEW i \in DOMAIN sp[o]
  PROVE  /\ i \in 1 .. Len(sp[o]) /\ Len(sp[o]) \in Nat
         /\ sp[o][i] \in Subtasks
         /\ Len(sp[o][i].blocks) \in Nat /\ DOMAIN sp[o][i].blocks = 1 .. Len(sp[o][i].blocks)
         /\ \A b \in DOMAIN sp[o][i].blocks :
               /\ sp[o][i].blocks[b] \in Blocks
               /\ sp[o][i].blocks[b].entries \in Seq(Entries)
<1>1. sp[o] \in Seq(Subtasks)
  BY DEF ExportTypeOK
<1>2. sp[o][i] \in Subtasks /\ i \in 1 .. Len(sp[o]) /\ Len(sp[o]) \in Nat
  BY <1>1
<1>3. sp[o][i].blocks \in Seq(Blocks)
  BY <1>2 DEF Subtasks
<1>4. \A b \in DOMAIN sp[o][i].blocks : sp[o][i].blocks[b] \in Blocks
  BY <1>3
<1> QED
  BY <1>2, <1>3, <1>4 DEF Blocks

\* The wanted entries of a block.
WantedIn(o, i, b) == KeptAt(sp[o][i].blocks[b].entries, Wanted(sp[o][i]))

LEMMA WantedFinite ==
  ASSUME ExportTypeOK, NEW o \in Ops, NEW i \in DOMAIN sp[o], NEW b \in DOMAIN sp[o][i].blocks
  PROVE  WantedIn(o, i, b) \subseteq Nat /\ IsFiniteSet(WantedIn(o, i, b))
<1> DEFINE s == sp[o][i].blocks[b].entries
<1>1. s \in Seq(Entries)
  BY Located
<1> HIDE DEF s
<1>2. Len(s) \in Nat /\ DOMAIN s = 1 .. Len(s)
  BY <1>1
<1>3. WantedIn(o, i, b) \in SUBSET (1 .. Len(s))
  BY <1>2 DEF WantedIn, KeptAt, s
<1>4. IsFiniteSet(1 .. Len(s))
  BY <1>2, FS_Interval
<1>5. IsFiniteSet(WantedIn(o, i, b))
  BY <1>3, <1>4, FS_Subset
<1> QED
  BY <1>3, <1>5

\* A family of finite sets over a finite set.
LEMMA FamilyFinite ==
  ASSUME NEW S, IsFiniteSet(S), NEW f, \A x \in S : IsFiniteSet(f[x])
  PROVE  IsFiniteSet(UNION {f[x] : x \in S})
<1> DEFINE T == {f[x] : x \in S}
           g == [x \in S |-> f[x]]
<1>1. g \in Surjection(S, T)
  BY DEF Surjection
<1>2. IsFiniteSet(T)
  <2> HIDE DEF T, g
  <2> QED
    BY <1>1, FS_Surjection
<1>3. \A t \in T : IsFiniteSet(t)
  OBVIOUS
<1> HIDE DEF T
<1>4. IsFiniteSet(UNION T)
  BY <1>2, <1>3, FS_UNION
<1> QED
  BY <1>4 DEF T

\* A set that is tagged twice has as many members.
Tagged(i, b, S) == {<<i, b, e>> : e \in S}

LEMMA TaggedFinite ==
  ASSUME NEW S, IsFiniteSet(S), NEW i, NEW b
  PROVE  /\ IsFiniteSet(Tagged(i, b, S))
         /\ Cardinality(Tagged(i, b, S)) = Cardinality(S)
<1> DEFINE T == Tagged(i, b, S)
           f == [e \in S |-> <<i, b, e>>]
<1>1. f \in Bijection(S, T)
  BY DEF Bijection, Injection, Surjection, IsInjective, Tagged
<1>2. ExistsBijection(S, T)
  <2> HIDE DEF f, T
  <2> QED
    BY <1>1 DEF ExistsBijection
<1> HIDE DEF T
<1>3. IsFiniteSet(T) /\ Cardinality(T) = Cardinality(S)
  BY <1>2, FS_Bijection
<1> QED
  BY <1>3 DEF T

\* A state has finitely many values.
LEMMA StoredFinite ==
  ASSUME ExportTypeOK, NEW o \in Ops
  PROVE  IsFiniteSet(Stored(o))
<1> DEFINE I == {i \in DOMAIN sp[o] : sp[o][i].file # "none" /\ Registers(sp[o][i], State)}
           D(i) == DOMAIN sp[o][i].blocks
           t(i, b) == Tagged(i, b, WantedIn(o, i, b))
           h(i) == [b \in D(i) |-> t(i, b)]
           u(i) == UNION {h(i)[b] : b \in D(i)}
           g == [i \in I |-> u(i)]
<1>1. IsFiniteSet(I)
  <2>1. sp[o] \in Seq(Subtasks)
    BY DEF ExportTypeOK
  <2>2. IsFiniteSet(1 .. Len(sp[o])) /\ DOMAIN sp[o] = 1 .. Len(sp[o])
    BY <2>1, FS_Interval
  <2>3. I \in SUBSET (1 .. Len(sp[o]))
    BY <2>2
  <2> HIDE DEF I
  <2> QED
    BY <2>2, <2>3, FS_Subset
<1>2. ASSUME NEW i \in I PROVE IsFiniteSet(u(i))
  <2>1. i \in DOMAIN sp[o]
    OBVIOUS
  <2>2. IsFiniteSet(D(i))
    <3>1. Len(sp[o][i].blocks) \in Nat /\ D(i) = 1 .. Len(sp[o][i].blocks)
      BY <2>1, Located
    <3> QED
      BY <3>1, FS_Interval
  <2>3. ASSUME NEW b \in D(i) PROVE IsFiniteSet(h(i)[b])
    <3>1. IsFiniteSet(WantedIn(o, i, b))
      BY <2>1, WantedFinite
    <3>2. IsFiniteSet(t(i, b))
      BY <3>1, TaggedFinite
    <3> HIDE DEF t
    <3> QED
      BY <3>2
  <2> HIDE DEF h, D
  <2> QED
    BY <2>2, <2>3, FamilyFinite
<1>3. \A i \in I : g[i] = u(i)
  OBVIOUS
<1>4. IsFiniteSet(UNION {g[i] : i \in I})
  <2> HIDE DEF g, I, u
  <2> QED
    BY <1>1, <1>2, <1>3, FamilyFinite
<1>5. Stored(o) = UNION {g[i] : i \in I}
  <2>1. ASSUME NEW i \in I PROVE u(i) = UNION {t(i, b) : b \in D(i)}
    <3> HIDE DEF t, D
    <3>1. {h(i)[b] : b \in D(i)} = {t(i, b) : b \in D(i)}
      OBVIOUS
    <3> QED
      BY <3>1
  <2>2. Stored(o) = UNION {UNION {t(i, b) : b \in D(i)} : i \in I}
    BY DEF Stored, WantedIn, Tagged
  <2> HIDE DEF u, t, D, I
  <2> QED
    BY <1>3, <2>1, <2>2
<1> QED
  BY <1>4, <1>5

\* A savepoint whose files may have been lost since, with what they held.
StillThere ==
    /\ sp' \in [Ops -> Seq(Subtasks)]
    /\ \A o \in Ops :
          /\ DOMAIN sp'[o] = DOMAIN sp[o] /\ Len(sp'[o]) = Len(sp[o])
          /\ \A i \in DOMAIN sp[o] :
                /\ sp'[o][i].states = sp[o][i].states /\ sp'[o][i].blocks = sp[o][i].blocks
                /\ sp'[o][i].file = "none" <=> sp[o][i].file = "none"

\* What is said of an operator's values does not depend on files being lost.
LEMMA SameStored ==
  ASSUME StillThere
  PROVE  \A o \in Ops :
            /\ Stored(o)' = Stored(o)
            /\ \A p \in Stored(o) : Rank(o, p)' = Rank(o, p) /\ ValueAt(o, p)' = ValueAt(o, p)
            /\ \A n : RegisteredIn(o, n)' <=> RegisteredIn(o, n)
            /\ HasState(o)' <=> HasState(o)
            /\ Defects(o)' <=> Defects(o)
            /\ \A i, b : DefectIn(o, i, b)' <=> DefectIn(o, i, b)
            /\ \A f : Holds(f, o)' <=> Holds(f, o)
<1> SUFFICES ASSUME NEW o \in Ops
             PROVE  /\ Stored(o)' = Stored(o)
                    /\ \A p \in Stored(o) : Rank(o, p)' = Rank(o, p) /\ ValueAt(o, p)' = ValueAt(o, p)
                    /\ \A n : RegisteredIn(o, n)' <=> RegisteredIn(o, n)
                    /\ HasState(o)' <=> HasState(o)
                    /\ Defects(o)' <=> Defects(o)
                    /\ \A i, b : DefectIn(o, i, b)' <=> DefectIn(o, i, b)
                    /\ \A f : Holds(f, o)' <=> Holds(f, o)
  OBVIOUS
<1>1. /\ DOMAIN sp'[o] = DOMAIN sp[o]
      /\ \A i \in DOMAIN sp[o] :
            /\ sp'[o][i].states = sp[o][i].states /\ sp'[o][i].blocks = sp[o][i].blocks
            /\ sp'[o][i].file = "none" <=> sp[o][i].file = "none"
  BY DEF StillThere
<1>2. \A i \in DOMAIN sp[o] : \A n : Registers(sp'[o][i], n) <=> Registers(sp[o][i], n)
  BY <1>1 DEF Registers, NamesOf
<1>3. \A i \in DOMAIN sp[o] : Wanted(sp'[o][i]) = Wanted(sp[o][i])
  BY <1>1 DEF Wanted, OwnId, StateId
<1>4. Stored(o)' = Stored(o)
  <2>1. ASSUME NEW p
        PROVE  p \in Stored(o)' <=>
            \E i \in DOMAIN sp'[o] : \E b \in DOMAIN sp'[o][i].blocks :
               \E e \in KeptAt(sp'[o][i].blocks[b].entries, Wanted(sp'[o][i])) :
                  p = <<i, b, e>> /\ sp'[o][i].file # "none" /\ Registers(sp'[o][i], State)
    BY DEF Stored
  <2>2. \A i \in DOMAIN sp[o] :
           /\ Registers(sp'[o][i], State) <=> Registers(sp[o][i], State)
           /\ \A b \in DOMAIN sp[o][i].blocks : KeptAt(sp'[o][i].blocks[b].entries, Wanted(sp'[o][i]))
                                              = KeptAt(sp[o][i].blocks[b].entries, Wanted(sp[o][i]))
    BY <1>1, <1>2, <1>3
  <2>3. ASSUME NEW p \in Stored(o)' PROVE p \in Stored(o)
    BY <1>1, <2>1, <2>2, StoredAt
  <2>4. ASSUME NEW p \in Stored(o) PROVE p \in Stored(o)'
    BY <1>1, <2>1, <2>2, StoredAt
  <2> QED
    BY <2>3, <2>4
<1>5. ASSUME NEW p \in Stored(o)
      PROVE  Rank(o, p)' = Rank(o, p) /\ ValueAt(o, p)' = ValueAt(o, p)
  <2>1. p[1] \in DOMAIN sp[o]
    BY StoredAt
  <2> QED
    BY <1>1, <1>4, <2>1 DEF Rank, ValueAt, Precedes
<1>6. /\ \A n : RegisteredIn(o, n)' <=> RegisteredIn(o, n)
      /\ HasState(o)' <=> HasState(o)
  BY <1>1, <1>2 DEF HasState, RegisteredIn
<1>7. \A i, b : DefectIn(o, i, b)' <=> DefectIn(o, i, b)
  BY <1>1, <1>2 DEF DefectIn
<1>8. Defects(o)' <=> Defects(o)
  BY <1>1, <1>2 DEF Defects
<1>9. ASSUME NEW f PROVE Holds(f, o)' <=> Holds(f, o)
  BY <1>4, <1>5 DEF Holds
<1> QED
  BY <1>4, <1>5, <1>6, <1>7, <1>8, <1>9

LEMMA UnchangedThere ==
  ASSUME ExportTypeOK, UNCHANGED sp
  PROVE  StillThere
BY DEF StillThere, ExportTypeOK

\* A file lost.
LEMMA LostThere ==
  ASSUME ExportTypeOK, NEW o \in Ops, NEW i \in DOMAIN sp[o], Lose(o, i)
  PROVE  StillThere
<1>1. sp[o] \in Seq(Subtasks) /\ sp[o][i] \in Subtasks /\ sp[o][i].file = "ok"
  BY DEF Lose, ExportTypeOK
<1> DEFINE t == [sp[o][i] EXCEPT !.file = "missing"]
           s == [sp[o] EXCEPT ![i] = t]
<1>2. sp' = [sp EXCEPT ![o] = s]
  BY DEF Lose
<1>3. /\ t \in Subtasks /\ t.file = "missing"
      /\ t.states = sp[o][i].states /\ t.blocks = sp[o][i].blocks
  BY <1>1 DEF Subtasks
<1> HIDE DEF t
<1>4. /\ s \in Seq(Subtasks) /\ DOMAIN s = DOMAIN sp[o] /\ Len(s) = Len(sp[o])
      /\ s[i] = t /\ \A j \in DOMAIN sp[o] : j # i => s[j] = sp[o][j]
  BY <1>1, <1>3
<1> HIDE DEF s
<1>5. sp \in [Ops -> Seq(Subtasks)]
  BY DEF ExportTypeOK
<1>6. sp'[o] = s /\ (\A q \in Ops : q # o => sp'[q] = sp[q]) /\ sp' \in [Ops -> Seq(Subtasks)]
  BY <1>2, <1>4, <1>5
<1>7. \A j \in DOMAIN sp[o] :
         /\ s[j].states = sp[o][j].states /\ s[j].blocks = sp[o][j].blocks
         /\ s[j].file = "none" <=> sp[o][j].file = "none"
  BY <1>1, <1>3, <1>4
<1> QED
  BY <1>4, <1>6, <1>7 DEF StillThere

(***************************************************************************)
(* The rows of an export.                                                  *)
(***************************************************************************)

\* A cell shows the value as decoded, in its column or in the note.
LEMMA CellShows ==
  ASSUME NEW v \in Values, NEW c
  PROVE  Cell(v, c) \in Rows /\ Shows(Cell(v, c)) = Decoded(v)
<1>1. Decoded(v) \in Values /\ "null" \in Values
  BY DEF Decoded, Values
<1>2. Cell(v, c).value = (IF Fits(Decoded(v), c) THEN Decoded(v) ELSE "null")
      /\ Cell(v, c).note = (IF Fits(Decoded(v), c) THEN "null" ELSE Decoded(v))
      /\ Cell(v, c) = [value |-> Cell(v, c).value, note |-> Cell(v, c).note]
  BY DEF Cell
<1> QED
  BY <1>1, <1>2 DEF Rows, Shows

LEMMA LineShows ==
  ASSUME NEW v \in Values
  PROVE  Line(v) \in Rows /\ Shows(Line(v)) = Decoded(v)
<1>1. Decoded(v) \in Values /\ "null" \in Values
  BY DEF Decoded, Values
<1> QED
  BY <1>1 DEF Line, Rows, Shows

\* The next value becomes a row at the end of the batch.
LEMMA RowAdded ==
  ASSUME NEW r \in Seq(Rows), NEW b \in Seq(Rows), NEW l \in Seq(Pending), l # <<>>,
         NEW c \in Rows, Shows(c) = Decoded(l[1].v)
  PROVE  /\ Len(r) + Len(Append(b, c)) + Len(Tail(l)) = Len(r) + Len(b) + Len(l)
         /\ \A k \in 1 .. Len(r) + Len(b) + Len(l) :
               RowShown(r, Append(b, c), Tail(l), k) = RowShown(r, b, l, k)
<1>1. /\ Len(r) \in Nat /\ Len(b) \in Nat /\ Len(l) \in Nat /\ Len(l) > 0
      /\ Len(Append(b, c)) = Len(b) + 1 /\ Len(Tail(l)) = Len(l) - 1
  OBVIOUS
<1>2. ASSUME NEW k \in 1 .. Len(r) + Len(b) + Len(l)
      PROVE  RowShown(r, Append(b, c), Tail(l), k) = RowShown(r, b, l, k)
  <2>1. CASE k <= Len(r)
    BY <1>1, <2>1 DEF RowShown
  <2>2. CASE Len(r) < k /\ k <= Len(r) + Len(b)
    <3>1. k - Len(r) \in 1 .. Len(b)
      BY <1>1, <2>2
    <3>2. Append(b, c)[k - Len(r)] = b[k - Len(r)]
      BY <3>1
    <3> QED
      BY <1>1, <2>2, <3>2 DEF RowShown
  <2>3. CASE k = Len(r) + Len(b) + 1
    <3>1. Append(b, c)[Len(b) + 1] = c
      OBVIOUS
    <3>2. k - Len(r) = Len(b) + 1 /\ k - Len(r) - Len(b) = 1 /\ ~(k <= Len(r)) /\ ~(k <= Len(r) + Len(b))
          /\ k <= Len(r) + (Len(b) + 1)
      BY <1>1, <2>3
    <3> QED
      BY <1>1, <3>1, <3>2 DEF RowShown
  <2>4. CASE k > Len(r) + Len(b) + 1
    <3> DEFINE j == k - Len(r) - Len(b)
    <3>1. j \in 2 .. Len(l) /\ j - 1 = k - Len(r) - (Len(b) + 1) /\ j - 1 \in 1 .. Len(Tail(l))
      BY <1>1, <2>4
    <3>2. Tail(l)[j - 1] = l[j]
      BY <3>1
    <3>3. ~(k <= Len(r)) /\ ~(k <= Len(r) + Len(b)) /\ ~(k <= Len(r) + (Len(b) + 1))
      BY <1>1, <2>4
    <3> QED
      BY <1>1, <3>1, <3>2, <3>3 DEF RowShown
  <2> QED
    BY <1>1, <2>1, <2>2, <2>3, <2>4
<1> QED
  BY <1>1, <1>2

\* The batch is written: its rows are those of the file.
LEMMA BatchWritten ==
  ASSUME NEW r \in Seq(Rows), NEW b \in Seq(Rows), NEW l \in Seq(Pending)
  PROVE  /\ r \o b \in Seq(Rows) /\ Len(r \o b) = Len(r) + Len(b)
         /\ \A k \in 1 .. Len(r) + Len(b) + Len(l) :
               RowShown(r \o b, <<>>, l, k) = RowShown(r, b, l, k)
<1>1. /\ Len(r) \in Nat /\ Len(b) \in Nat /\ Len(l) \in Nat /\ Len(<<>>) = 0
      /\ r \o b \in Seq(Rows) /\ Len(r \o b) = Len(r) + Len(b)
  OBVIOUS
<1>2. ASSUME NEW k \in 1 .. Len(r) + Len(b) + Len(l)
      PROVE  RowShown(r \o b, <<>>, l, k) = RowShown(r, b, l, k)
  <2>1. CASE k <= Len(r)
    <3>1. (r \o b)[k] = r[k]
      BY <1>1, <2>1
    <3> QED
      BY <1>1, <2>1, <3>1 DEF RowShown
  <2>2. CASE Len(r) < k /\ k <= Len(r) + Len(b)
    <3>1. (r \o b)[k] = b[k - Len(r)]
      BY <1>1, <2>2
    <3> QED
      BY <1>1, <2>2, <3>1 DEF RowShown
  <2>3. CASE k > Len(r) + Len(b)
    <3>1. ~(k <= Len(r)) /\ ~(k <= Len(r) + Len(b)) /\ ~(k <= Len(r) + Len(b) + 0)
          /\ k - (Len(r) + Len(b)) - 0 = k - Len(r) - Len(b)
      BY <1>1, <2>3
    <3> QED
      BY <1>1, <3>1 DEF RowShown
  <2> QED
    BY <1>1, <2>1, <2>2, <2>3
<1> QED
  BY <1>1, <1>2

\* A place is that of a subtask, a block and an entry.
LEMMA PlaceIs ==
  ASSUME ExportTypeOK, NEW o \in Ops, NEW p \in Stored(o)
  PROVE  /\ p[1] \in DOMAIN sp[o] /\ sp[o][p[1]].file # "none" /\ Registers(sp[o][p[1]], State)
         /\ p[2] \in DOMAIN sp[o][p[1]].blocks /\ p[3] \in WantedIn(o, p[1], p[2])
         /\ p = <<p[1], p[2], p[3]>>
         /\ p[1] \in Nat /\ p[2] \in Nat /\ p[3] \in Nat
<1>1. PICK i \in DOMAIN sp[o] : \E b \in DOMAIN sp[o][i].blocks : \E e \in WantedIn(o, i, b) :
         p = <<i, b, e>> /\ sp[o][i].file # "none" /\ Registers(sp[o][i], State)
  BY StoredAt DEF WantedIn
<1>2. PICK b \in DOMAIN sp[o][i].blocks : \E e \in WantedIn(o, i, b) :
         p = <<i, b, e>> /\ sp[o][i].file # "none" /\ Registers(sp[o][i], State)
  BY <1>1
<1>3. PICK e \in WantedIn(o, i, b) :
         p = <<i, b, e>> /\ sp[o][i].file # "none" /\ Registers(sp[o][i], State)
  BY <1>2
<1>4. i \in Nat /\ b \in Nat /\ e \in Nat
  BY Located, WantedFinite
<1> QED
  BY <1>3, <1>4

LEMMA PassedFinite ==
  ASSUME ExportTypeOK, NEW o \in Ops, NEW i, NEW b
  PROVE  IsFiniteSet(PassedAt(o, i, b)) /\ Cardinality(PassedAt(o, i, b)) \in Nat
<1>1. PassedAt(o, i, b) \in SUBSET Stored(o)
  BY DEF PassedAt
<1> QED
  BY <1>1, StoredFinite, FS_Subset, FS_CardinalityType

\* The rank of a place that was passed is one of as many.
LEMMA RankBounds ==
  ASSUME ExportTypeOK, NEW o \in Ops, NEW i \in Nat, NEW b \in Nat, NEW p \in PassedAt(o, i, b)
  PROVE  Rank(o, p) \in 1 .. Cardinality(PassedAt(o, i, b))
<1> DEFINE B == {q \in Stored(o) : q = p \/ Precedes(q, p)}
           P == PassedAt(o, i, b)
<1>1. p \in Stored(o) /\ Behind(p[1], p[2], i, b)
  BY DEF PassedAt
<1>2. ASSUME NEW q \in B PROVE q \in P
  <2>1. /\ p[1] \in Nat /\ p[2] \in Nat /\ q[1] \in Nat /\ q[2] \in Nat /\ q \in Stored(o)
    BY <1>1, PlaceIs
  <2>2. Behind(q[1], q[2], i, b)
    BY <1>1, <2>1 DEF Precedes, Behind
  <2> QED
    BY <2>1, <2>2 DEF PassedAt
<1>3. p \in B
  BY <1>1
<1>4. IsFiniteSet(P) /\ Cardinality(P) \in Nat
  BY PassedFinite
<1>5. Rank(o, p) = Cardinality(B)
  BY DEF Rank
<1> HIDE DEF B, P
<1>6. B \in SUBSET P
  BY <1>2
<1>7. IsFiniteSet(B) /\ Cardinality(B) <= Cardinality(P)
  BY <1>4, <1>6, FS_Subset
<1>8. Cardinality(B) \in Nat /\ Cardinality(B) # 0
  BY <1>3, <1>7, FS_CardinalityType, FS_EmptySet
<1>9. Rank(o, p) \in 1 .. Cardinality(P)
  BY <1>4, <1>5, <1>7, <1>8
<1> QED
  BY <1>9 DEF P

\* What a block adds to the values passed, and their ranks.
LEMMA BlockRanks ==
  ASSUME ExportTypeOK, NEW o \in Ops, NEW i \in DOMAIN sp[o], NEW b \in DOMAIN sp[o][i].blocks,
         sp[o][i].file # "none", Registers(sp[o][i], State)
  PROVE  LET W == WantedIn(o, i, b)
             P == PassedAt(o, i, b)
         IN  /\ PassedAt(o, i, b + 1) = P \cup Tagged(i, b, W)
             /\ Cardinality(PassedAt(o, i, b + 1)) = Cardinality(P) + Cardinality(W)
             /\ \A e \in W : Rank(o, <<i, b, e>>) = Cardinality(P) + UpTo(W, e)
<1> DEFINE W == WantedIn(o, i, b)
           P == PassedAt(o, i, b)
           T(e) == {d \in W : d <= e}
<1>1. i \in Nat /\ b \in Nat /\ W \subseteq Nat /\ IsFiniteSet(W)
  BY Located, WantedFinite
<1>2. ASSUME NEW e \in W PROVE <<i, b, e>> \in Stored(o)
  BY StoredAt DEF WantedIn
<1>3. ASSUME NEW S, S \in SUBSET W
      PROVE  Cardinality(P \cup Tagged(i, b, S)) = Cardinality(P) + Cardinality(S)
  <2>1. IsFiniteSet(S)
    BY <1>1, <1>3, FS_Subset
  <2>2. IsFiniteSet(Tagged(i, b, S)) /\ Cardinality(Tagged(i, b, S)) = Cardinality(S) /\ Cardinality(S) \in Nat
    BY <2>1, TaggedFinite, FS_CardinalityType
  <2>3. IsFiniteSet(P) /\ Cardinality(P) \in Nat
    BY PassedFinite
  <2>4. P \cap Tagged(i, b, S) = {}
    BY <1>1 DEF Tagged, PassedAt, Behind
  <2> HIDE DEF P
  <2>5. Cardinality(P \cap Tagged(i, b, S)) = 0
    BY <2>4, FS_EmptySet
  <2>6. Cardinality(P \cup Tagged(i, b, S)) = Cardinality(P) + Cardinality(Tagged(i, b, S)) - 0
    BY <2>2, <2>3, <2>5, FS_Union
  <2> QED
    BY <2>2, <2>3, <2>6
<1>4. ASSUME NEW p \in Stored(o)
      PROVE  /\ p \in Tagged(i, b, W) <=> p[1] = i /\ p[2] = b
             /\ p[1] \in Nat /\ p[2] \in Nat /\ p[3] \in Nat
             /\ p = <<p[1], p[2], p[3]>> /\ (p[1] = i /\ p[2] = b => p[3] \in W)
  <2>1. /\ p[1] \in Nat /\ p[2] \in Nat /\ p[3] \in Nat
        /\ p = <<p[1], p[2], p[3]>> /\ p[3] \in WantedIn(o, p[1], p[2])
    BY PlaceIs
  <2> HIDE DEF W
  <2>2. p[1] = i /\ p[2] = b => p[3] \in W
    BY <2>1 DEF W
  <2>3. p[1] = i /\ p[2] = b => p \in Tagged(i, b, W)
    BY <2>1, <2>2 DEF Tagged
  <2>4. p \in Tagged(i, b, W) => p[1] = i /\ p[2] = b
    BY DEF Tagged
  <2> QED
    BY <2>1, <2>2, <2>3, <2>4
<1>5. PassedAt(o, i, b + 1) = P \cup Tagged(i, b, W)
  <2>1. \A p \in Stored(o) : Behind(p[1], p[2], i, b + 1) <=>
           Behind(p[1], p[2], i, b) \/ (p[1] = i /\ p[2] = b)
    BY <1>1, <1>4 DEF Behind
  <2>2. Tagged(i, b, W) \subseteq Stored(o)
    BY <1>2 DEF Tagged
  <2> HIDE DEF W
  <2>3. \A p : p \in PassedAt(o, i, b + 1) <=> p \in P \/ p \in Tagged(i, b, W)
    BY <1>4, <2>1, <2>2 DEF PassedAt
  <2> QED
    BY <2>3
<1>6. ASSUME NEW e \in W
      PROVE  Rank(o, <<i, b, e>>) = Cardinality(P) + UpTo(W, e)
  <2> DEFINE p == <<i, b, e>>
             B == {q \in Stored(o) : q = p \/ Precedes(q, p)}
  <2>1. e \in Nat /\ p[1] = i /\ p[2] = b /\ p[3] = e /\ p \in Stored(o)
    BY <1>1, <1>2
  <2>2. ASSUME NEW q \in Stored(o)
        PROVE  q \in B <=> q \in P \/ q \in Tagged(i, b, T(e))
    <3>1. /\ q[1] \in Nat /\ q[2] \in Nat /\ q[3] \in Nat /\ q = <<q[1], q[2], q[3]>>
          /\ q[1] = i /\ q[2] = b => q[3] \in W
      BY <1>4
    <3> HIDE DEF W
    <3>2. q \in Tagged(i, b, T(e)) <=> q[1] = i /\ q[2] = b /\ q[3] <= e
      <4>1. q \in Tagged(i, b, T(e)) => q[1] = i /\ q[2] = b /\ q[3] <= e
        BY DEF Tagged
      <4>2. q[1] = i /\ q[2] = b /\ q[3] <= e => q[3] \in T(e) /\ q = <<i, b, q[3]>>
        BY <3>1
      <4>3. q[3] \in T(e) /\ q = <<i, b, q[3]>> => q \in Tagged(i, b, T(e))
        BY DEF Tagged
      <4> QED
        BY <4>1, <4>2, <4>3
    <3>3. q = p <=> q[1] = i /\ q[2] = b /\ q[3] = e
      BY <3>1, <2>1
    <3>4. q \in P <=> q[1] < i \/ (q[1] = i /\ q[2] < b)
      BY DEF PassedAt, Behind
    <3>5. Precedes(q, p) <=> \/ q[1] < i \/ (q[1] = i /\ q[2] < b)
                             \/ (q[1] = i /\ q[2] = b /\ q[3] < e)
      BY <2>1 DEF Precedes
    <3>6. q[3] <= e <=> q[3] = e \/ q[3] < e
      BY <2>1, <3>1
    <3> QED
      BY <3>2, <3>3, <3>4, <3>5, <3>6
  <2>3. P \subseteq Stored(o) /\ Tagged(i, b, T(e)) \subseteq Stored(o)
    BY <1>2 DEF PassedAt, Tagged
  <2>4. B \subseteq Stored(o)
    OBVIOUS
  <2>5. Rank(o, p) = Cardinality(B)
    BY DEF Rank
  <2> HIDE DEF B, P, W, p
  <2>6. B = P \cup Tagged(i, b, T(e))
    BY <2>2, <2>3, <2>4
  <2>7. Cardinality(P \cup Tagged(i, b, T(e))) = Cardinality(P) + Cardinality(T(e))
    BY <1>3
  <2>8. Rank(o, p) = Cardinality(P) + UpTo(W, e)
    BY <2>5, <2>6, <2>7 DEF UpTo
  <2> QED
    BY <2>8 DEF p
<1>7. Cardinality(P \cup Tagged(i, b, W)) = Cardinality(P) + Cardinality(W)
  BY <1>3
<1> HIDE DEF P, W
<1>8. Cardinality(PassedAt(o, i, b + 1)) = Cardinality(P) + Cardinality(W)
  BY <1>5, <1>7
<1> QED
  BY <1>5, <1>6, <1>8 DEF P, W

(***************************************************************************)
(* The steps of an export.                                                 *)
(***************************************************************************)

\* Values that were passed have their rows, when neither changes but in form.
LEMMA ValuesKept ==
  ASSUME ExportTypeOK, ctx.op \in Ops, ValuesInv, StillThere, UNCHANGED ctx,
         PassedAt(ctx.op, at'.stream, at'.block) = Passed,
         NEW r, NEW b, NEW l, Target' = r, sink'.batch = b, left' = l,
         Len(r.rows) + Len(b) + Len(l) = Len(Target.rows) + Len(sink.batch) + Len(left),
         \A k \in 1 .. Len(Target.rows) + Len(sink.batch) + Len(left) :
            RowShown(r.rows, b, l, k) = RowShown(Target.rows, sink.batch, left, k),
         cmd'.format = "ndjson" => b = <<>>
  PROVE  ValuesInv'
<1> DEFINE o == ctx.op
<1>1. at.stream \in Nat /\ at.block \in Nat
  BY DEF ExportTypeOK
<1>2. /\ Stored(o)' = Stored(o)
      /\ \A p \in Stored(o) : Rank(o, p)' = Rank(o, p) /\ ValueAt(o, p)' = ValueAt(o, p)
  BY SameStored
<1>3. Passed' = Passed
  BY <1>2 DEF Passed, PassedAt, Behind
<1>4. Passed \subseteq Stored(o)
  BY DEF Passed, PassedAt
<1>5. \A p \in Passed : Rank(o, p) \in 1 .. Cardinality(Passed)
  BY <1>1, RankBounds DEF Passed
<1>6. Len(Target.rows) + Len(sink.batch) + Len(left) = Cardinality(Passed)
  BY DEF ValuesInv
<1>7. \A p \in Passed : RowShown(r.rows, b, l, Rank(o, p)) = Decoded(ValueAt(o, p))
  BY <1>5, <1>6 DEF ValuesInv
<1>8. \A p \in Passed : RowShown(Target.rows, sink.batch, left, Rank(o, p))' = RowShown(r.rows, b, l, Rank(o, p))
  BY <1>2, <1>4 DEF RowShown, Shows, Decoded
<1>9. \A p \in Passed : Decoded(ValueAt(o, p))' = Decoded(ValueAt(o, p))
  BY <1>2, <1>4 DEF Decoded
<1>10. (Len(Target.rows) + Len(sink.batch) + Len(left) = Cardinality(Passed))'
  BY <1>3, <1>6
<1> QED
  BY <1>3, <1>7, <1>8, <1>9, <1>10 DEF ValuesInv

\* The defects passed are the same.
LEMMA DefectsKept ==
  ASSUME ctx.op \in Ops, DefectsInv, StillThere, UNCHANGED <<ctx, malformed>>,
         \A j, c \in Nat : DefectIn(ctx.op, j, c) =>
            (Behind(j, c, at'.stream, at'.block) <=> Behind(j, c, at.stream, at.block))
  PROVE  DefectsInv'
<1>1. \A j, c : DefectIn(ctx.op, j, c)' <=> DefectIn(ctx.op, j, c)
  BY SameStored
<1>2. \A j, c \in Nat : Behind(j, c, at.stream, at.block)' <=> Behind(j, c, at'.stream, at'.block)
  BY DEF Behind
<1> QED
  BY <1>1, <1>2 DEF DefectsInv

\* So are the streams and who holds the state.
LEMMA ContextKept ==
  ASSUME ExportTypeOK, ctx.op \in Ops, StillThere, UNCHANGED <<ctx, cmd>>
  PROVE  (OnlyHolder(ctx.op) => OnlyHolder(ctx.op)') /\ (StreamsInv => StreamsInv')
<1>1. \A p \in Ops : HasState(p)' <=> HasState(p)
  BY SameStored
<1>2. cmd.ops \subseteq Ops
  BY DEF ExportTypeOK
<1>3. OnlyHolder(ctx.op) => OnlyHolder(ctx.op)'
  BY <1>1, <1>2 DEF OnlyHolder
<1>4. /\ DOMAIN sp'[ctx.op] = DOMAIN sp[ctx.op]
      /\ \A i \in DOMAIN sp[ctx.op] : sp'[ctx.op][i].file = "none" <=> sp[ctx.op][i].file = "none"
  BY DEF StillThere
<1>5. StreamsInv => StreamsInv'
  BY <1>4 DEF StreamsInv
<1> QED
  BY <1>3, <1>5

\* Nothing of an export changes but files of the savepoint that are lost.
LEMMA ExportKept ==
  ASSUME ExportTypeOK, ExportInv, StillThere, UNCHANGED <<cmd, ctx, at, left, sink, malformed, out, partial>>
  PROVE  ExportInv'
<1>1. ctx.op \in Ops
  BY DEF ExportInv, StreamsInv
<1>2. Target' = Target
  BY DEF Target
<1>3. ValuesInv'
  <2>1. PassedAt(ctx.op, at'.stream, at'.block) = Passed
    BY DEF Passed
  <2>2. cmd'.format = "ndjson" => sink.batch = <<>>
    BY DEF ExportInv, ValuesInv
  <2> QED
    BY <1>1, <1>2, <2>1, <2>2, ValuesKept DEF ExportInv
<1>4. DefectsInv'
  BY <1>1, DefectsKept DEF ExportInv
<1>5. OnlyHolder(ctx.op)' /\ StreamsInv'
  BY <1>1, ContextKept DEF ExportInv
<1> QED
  BY <1>3, <1>4, <1>5 DEF ExportInv

\* The walk goes past blocks that hold nothing of the state.
LEMMA WalkKept ==
  ASSUME ExportTypeOK, ExportInv, UNCHANGED <<sp, cmd, ctx, left, sink, malformed, out, partial>>,
         \A j \in DOMAIN sp[ctx.op] : \A c \in DOMAIN sp[ctx.op][j].blocks :
            \/ Behind(j, c, at'.stream, at'.block) <=> Behind(j, c, at.stream, at.block)
            \/ sp[ctx.op][j].file = "none" \/ ~Registers(sp[ctx.op][j], State)
            \/ WantedIn(ctx.op, j, c) = {} /\ ~sp[ctx.op][j].blocks[c].defect
  PROVE  ExportInv'
<1> DEFINE o == ctx.op
<1>1. o \in Ops /\ StillThere
  BY UnchangedThere DEF ExportInv, StreamsInv
<1>2. Target' = Target
  BY DEF Target
<1>3. PassedAt(o, at'.stream, at'.block) = Passed
  <2>1. ASSUME NEW p \in Stored(o)
        PROVE  Behind(p[1], p[2], at'.stream, at'.block) <=> Behind(p[1], p[2], at.stream, at.block)
    BY <1>1, PlaceIs
  <2> QED
    BY <2>1 DEF Passed, PassedAt
<1>4. ValuesInv'
  <2>1. cmd'.format = "ndjson" => sink.batch = <<>>
    BY DEF ExportInv, ValuesInv
  <2> QED
    BY <1>1, <1>2, <1>3, <2>1, ValuesKept DEF ExportInv
<1>5. DefectsInv'
  <2>1. ASSUME NEW j \in Nat, NEW c \in Nat, DefectIn(o, j, c)
        PROVE  Behind(j, c, at'.stream, at'.block) <=> Behind(j, c, at.stream, at.block)
    BY <2>1 DEF DefectIn
  <2> QED
    BY <1>1, <2>1, DefectsKept DEF ExportInv
<1>6. OnlyHolder(o)' /\ StreamsInv'
  BY <1>1, ContextKept DEF ExportInv
<1> QED
  BY <1>4, <1>5, <1>6 DEF ExportInv

\* Where the walk is.
LEMMA AtStream ==
  ASSUME ExportTypeOK, ExportInv, InStream
  PROVE  /\ ctx.op \in Ops /\ at.stream \in DOMAIN sp[ctx.op]
         /\ at.stream \in Nat /\ at.block \in Nat \ {0}
         /\ Subtask = sp[ctx.op][at.stream] /\ Subtask \in Subtasks
         /\ Len(Subtask.blocks) \in Nat /\ DOMAIN Subtask.blocks = 1 .. Len(Subtask.blocks)
<1>1. ctx.op \in Ops
  BY DEF ExportInv, StreamsInv
<1>2. sp[ctx.op] \in Seq(Subtasks) /\ at.stream \in Nat \ {0} /\ at.block \in Nat \ {0}
  BY <1>1 DEF ExportTypeOK
<1>3. ~(at.stream > Len(sp[ctx.op]))
  BY DEF InStream, AtEnd
<1>4. at.stream \in DOMAIN sp[ctx.op]
  BY <1>2, <1>3
<1> QED
  BY <1>1, <1>2, <1>4, Located DEF Subtask

\* A stream left holds nothing of the state that was not passed.
LEMMA SkipStreamKeeps ==
  ASSUME ExportTypeOK, ExportInv, InStream, ~AtBlock, NoBytes \/ HeaderOk,
         at' = [stream |-> at.stream + 1, block |-> 1, held |-> FALSE],
         UNCHANGED <<sp, cmd, ctx, left, sink, malformed, out, partial>>
  PROVE  ExportInv'
<1> DEFINE o == ctx.op
           i == at.stream
<1>1. /\ o \in Ops /\ i \in DOMAIN sp[o] /\ i \in Nat /\ at.block \in Nat
      /\ Subtask = sp[o][i]
      /\ Len(Subtask.blocks) \in Nat /\ DOMAIN Subtask.blocks = 1 .. Len(Subtask.blocks)
  BY AtStream
<1>2. at'.stream = i + 1 /\ at'.block = 1
  OBVIOUS
<1>3. ASSUME NEW j \in DOMAIN sp[o], NEW c \in DOMAIN sp[o][j].blocks, sp[o][j].file # "none",
             Registers(sp[o][j], State)
      PROVE  Behind(j, c, at'.stream, at'.block) <=> Behind(j, c, i, at.block)
  <2>1. j \in Nat /\ c \in Nat /\ c >= 1
    BY <1>1, Located
  <2>2. CASE j # i
    BY <1>1, <1>2, <2>1, <2>2 DEF Behind
  <2>3. CASE j = i
    <3>1. ~NoBytes
      <4>1. i \in ctx.streams
        BY <1>1, <1>3, <2>3 DEF ExportInv, StreamsInv
      <4>2. Subtask.blocks # <<>>
        BY <1>1, <2>1, <2>3
      <4> QED
        BY <4>1, <4>2 DEF NoBytes
    <3>2. ~(at.block <= Len(Subtask.blocks))
      BY <1>1, <1>3, <2>3, <3>1 DEF AtBlock
    <3>3. c <= Len(Subtask.blocks)
      BY <1>1, <2>3
    <3> QED
      BY <1>1, <1>2, <2>1, <2>3, <3>2, <3>3 DEF Behind
  <2> QED
    BY <2>2, <2>3
<1> QED
  BY <1>3, WalkKept

\* An empty block.
LEMMA SkipBlockKeeps ==
  ASSUME ExportTypeOK, ExportInv, SkipBlock
  PROVE  ExportInv'
<1> DEFINE o == ctx.op
           i == at.stream
<1>0. InStream /\ AtBlock /\ IsEmpty(Subtask.blocks[at.block])
  BY DEF SkipBlock, AtBlock
<1>1. /\ o \in Ops /\ i \in DOMAIN sp[o] /\ i \in Nat /\ at.block \in Nat
      /\ Subtask = sp[o][i]
  BY <1>0, AtStream
<1>2. /\ at'.stream = i /\ at'.block = at.block + 1
      /\ UNCHANGED <<sp, cmd, ctx, left, sink, malformed, out, partial>>
  BY DEF SkipBlock, ExportTypeOK, saved
<1>3. ASSUME NEW j \in DOMAIN sp[o], NEW c \in DOMAIN sp[o][j].blocks
      PROVE  \/ Behind(j, c, at'.stream, at'.block) <=> Behind(j, c, i, at.block)
             \/ WantedIn(o, j, c) = {} /\ ~sp[o][j].blocks[c].defect
  <2>1. j \in Nat /\ c \in Nat
    BY <1>1, Located
  <2>2. CASE j # i \/ c # at.block
    BY <1>1, <1>2, <2>1, <2>2 DEF Behind
  <2>3. CASE j = i /\ c = at.block
    <3>1. sp[o][j].blocks[c].entries = <<>> /\ ~sp[o][j].blocks[c].defect
      BY <1>0, <1>1, <2>3 DEF IsEmpty
    <3>2. WantedIn(o, j, c) = {}
      BY <3>1 DEF WantedIn, KeptAt
    <3> QED
      BY <3>1, <3>2
  <2> QED
    BY <2>2, <2>3
<1> QED
  BY <1>2, <1>3, WalkKept

LEMMA BehindNext ==
  ASSUME NEW i \in Nat, NEW b \in Nat, NEW j \in Nat, NEW c \in Nat
  PROVE  Behind(j, c, i, b + 1) <=> Behind(j, c, i, b) \/ (j = i /\ c = b)
BY DEF Behind

\* One block read: its values are to come, at their ranks.
BlockRead(rows) ==
    /\ rows = Keep(Subtask.blocks[at.block].entries, Wanted(Subtask))
    /\ left' = [i \in DOMAIN rows |->
                   [type |-> Subtask.states[OwnId(Subtask)].type, v |-> rows[i].v]]
    /\ malformed' = malformed + (IF Subtask.blocks[at.block].defect THEN 1 ELSE 0)
    /\ at' = [at EXCEPT !.block = @ + 1, !.held = TRUE]
    /\ UNCHANGED <<sp, cmd, ctx, sink, out, partial>>

LEMMA ReadBlockKeeps ==
  ASSUME ExportTypeOK, ExportInv, AtBlock, NEW rows, BlockRead(rows)
  PROVE  ExportInv' /\ left' \in Seq(Pending) /\ malformed' \in Nat
<1> DEFINE o == ctx.op
           i == at.stream
           b == at.block
           W == WantedIn(o, i, b)
           P == PassedAt(o, i, b)
           s == Subtask.blocks[b].entries
           n == Len(Target.rows) + Len(sink.batch)
<1>1. InStream /\ left = <<>> /\ ~NoBytes /\ HeaderOk /\ Registers(Subtask, State) /\ b <= Len(Subtask.blocks)
  BY DEF AtBlock, InStream
<1>2. /\ o \in Ops /\ i \in DOMAIN sp[o] /\ i \in Nat /\ b \in Nat \ {0}
      /\ Subtask = sp[o][i] /\ Subtask \in Subtasks
      /\ Len(Subtask.blocks) \in Nat /\ DOMAIN Subtask.blocks = 1 .. Len(Subtask.blocks)
  BY <1>1, AtStream
<1>3. b \in DOMAIN sp[o][i].blocks
  <2>1. b \in 1 .. Len(Subtask.blocks)
    BY <1>1, <1>2
  <2> QED
    BY <1>2, <2>1
<1>4. s \in Seq(Entries) /\ Subtask.blocks[b] \in Blocks
  BY <1>2, <1>3, Located
<1>5. /\ at'.stream = i /\ at'.block = b + 1
      /\ UNCHANGED <<sp, cmd, ctx, sink, out, partial>>
  BY DEF ExportTypeOK, BlockRead
<1>6. sp[o][i].file # "none"
  BY <1>1, <1>2 DEF NoBytes, ExportInv, StreamsInv
<1>7. /\ PassedAt(o, i, b + 1) = P \cup Tagged(i, b, W)
      /\ Cardinality(PassedAt(o, i, b + 1)) = Cardinality(P) + Cardinality(W)
      /\ \A e \in W : Rank(o, <<i, b, e>>) = Cardinality(P) + UpTo(W, e)
  BY <1>1, <1>2, <1>3, <1>6, BlockRanks
<1>8. /\ rows \in Seq(Entries) /\ Len(rows) = Cardinality(W) /\ Cardinality(W) \in Nat
      /\ \A e \in W : UpTo(W, e) \in 1 .. Len(rows) /\ rows[UpTo(W, e)] = s[e]
  <2>1. W = KeptAt(s, Wanted(Subtask))
    BY <1>2 DEF WantedIn
  <2> HIDE DEF W, s
  <2>2. rows = Keep(s, Wanted(Subtask)) /\ s \in Seq(Entries)
    BY <1>4 DEF s, BlockRead
  <2>3. rows \in Seq(Entries) /\ Len(rows) = Cardinality(W) /\ Cardinality(W) \in Nat
    BY <2>1, <2>2, KeepPositions
  <2>4. \A e \in W : UpTo(W, e) \in 1 .. Len(rows) /\ rows[UpTo(W, e)] = s[e]
    BY <2>1, <2>2, KeepAt
  <2> QED
    BY <2>3, <2>4
<1>9. Subtask.states[OwnId(Subtask)].type \in Types
  <2>1. Subtask.states \in Seq([name : StateNames, type : Types])
    BY <1>2 DEF Subtasks
  <2> DEFINE named == {j \in DOMAIN Subtask.states : Subtask.states[j].name = State}
  <2>2. named \subseteq Nat /\ named # {}
    BY <1>1, <2>1 DEF Registers, NamesOf
  <2>3. OwnId(Subtask) \in DOMAIN Subtask.states
    <3>1. \E k \in named : \A j \in named : k <= j
      BY <2>2, LeastOf
    <3> QED
      BY <3>1 DEF OwnId, StateId
  <2> DEFINE q == Subtask.states
             k == OwnId(Subtask)
             R == [name : StateNames, type : Types]
  <2>4. q[k] \in R
    <3>1. q \in Seq(R) /\ k \in DOMAIN q
      BY <2>1, <2>3
    <3> HIDE DEF q, k, R
    <3> QED
      BY <3>1
  <2> QED
    BY <2>4
<1>10. /\ left' \in Seq(Pending) /\ Len(left') = Len(rows)
       /\ \A k \in 1 .. Len(rows) : left'[k].v = rows[k].v
  <2>1. DOMAIN rows = 1 .. Len(rows) /\ Len(rows) \in Nat
    BY <1>8
  <2>2. \A k \in 1 .. Len(rows) : rows[k].v \in Values
    <3>1. \A k \in 1 .. Len(rows) : rows[k] \in Entries
      BY <1>8
    <3> QED
      BY <3>1 DEF Entries
  <2>3. \A k \in 1 .. Len(rows) : left'[k] \in Pending /\ left'[k].v = rows[k].v
    BY <1>9, <2>1, <2>2 DEF Pending, BlockRead
  <2>4. left' \in [1 .. Len(rows) -> Pending]
    BY <2>1, <2>3 DEF BlockRead
  <2>5. left' \in Seq(Pending) /\ Len(left') = Len(rows)
    BY <2>1, <2>4
  <2> QED
    BY <2>3, <2>5
<1>11. malformed' \in Nat /\ (malformed' > 0 <=> malformed > 0 \/ Subtask.blocks[b].defect)
  <2>1. malformed \in Nat /\ Subtask.blocks[b].defect \in BOOLEAN
    BY <1>4 DEF ExportTypeOK, Blocks
  <2> QED
    BY <2>1 DEF BlockRead
<1>12. /\ Target' = Target /\ n \in Nat /\ Len(Target.rows) \in Nat /\ Len(sink.batch) \in Nat
       /\ n = Cardinality(P)
  <2>1. Target \in Outputs /\ sink.batch \in Seq(Rows) /\ Target' = Target
    BY <1>5 DEF ExportTypeOK, Target
  <2>2. Target.rows \in Seq(Rows)
    BY <2>1 DEF Outputs
  <2>3. Len(left) = 0
    BY <1>1
  <2>4. n + Len(left) = Cardinality(P)
    BY DEF ExportInv, ValuesInv, Passed
  <2>5. Len(Target.rows) \in Nat /\ Len(sink.batch) \in Nat
    BY <2>1, <2>2
  <2> DEFINE x == Len(Target.rows)
             y == Len(sink.batch)
             z == Len(left)
  <2>6. x \in Nat /\ y \in Nat /\ z = 0 /\ x + y + z = Cardinality(P)
    BY <2>3, <2>4, <2>5
  <2>7. x + y \in Nat /\ x + y = Cardinality(P)
    <3> HIDE DEF x, y, z, P
    <3> QED
      BY <2>6
  <2> QED
    BY <2>1, <2>5, <2>7
<1> HIDE DEF n
<1>13. Stored(o)' = Stored(o) /\ StillThere
  BY <1>5, UnchangedThere DEF Stored
<1>14. Passed' = PassedAt(o, i, b + 1)
  BY <1>5, <1>13 DEF Passed, PassedAt, Behind
<1> DEFINE Shown(k) == RowShown(Target.rows, sink.batch, left', k)
<1>15. ASSUME NEW p \in P PROVE Shown(Rank(o, p)) = Decoded(ValueAt(o, p))
  <2>1. Rank(o, p) \in 1 .. n
    BY <1>2, <1>12, RankBounds
  <2>2. RowShown(Target.rows, sink.batch, left, Rank(o, p)) = Decoded(ValueAt(o, p))
    BY DEF ExportInv, ValuesInv, Passed
  <2> QED
    BY <1>12, <2>1, <2>2 DEF RowShown, n
<1>16. ASSUME NEW e \in W PROVE Shown(Rank(o, <<i, b, e>>)) = Decoded(ValueAt(o, <<i, b, e>>))
  <2> DEFINE k == UpTo(W, e)
  <2>1. Rank(o, <<i, b, e>>) = n + k /\ k \in 1 .. Len(rows) /\ left'[k].v = s[e].v
    BY <1>7, <1>8, <1>10, <1>12
  <2> HIDE DEF k
  <2>2. Shown(n + k) = Decoded(left'[k].v)
    <3> DEFINE x == Len(Target.rows)
               y == Len(sink.batch)
    <3>1. x \in Nat /\ y \in Nat /\ n = x + y /\ k \in Nat /\ k > 0
      BY <1>8, <1>12, <2>1 DEF n
    <3>2. ~(n + k <= x) /\ ~(n + k <= x + y) /\ (n + k) - x - y = k
      <4> HIDE DEF x, y
      <4> QED
        BY <3>1
    <3> QED
      BY <3>2 DEF RowShown
  <2>3. ValueAt(o, <<i, b, e>>) = s[e].v
    BY <1>2 DEF ValueAt
  <2> QED
    BY <2>1, <2>2, <2>3
<1>17. ASSUME NEW p \in Passed' PROVE Shown(Rank(o, p)) = Decoded(ValueAt(o, p))
  <2>1. p \in P \/ \E e \in W : p = <<i, b, e>>
    BY <1>7, <1>14 DEF Tagged
  <2> HIDE DEF Shown, P, W
  <2> QED
    BY <1>15, <1>16, <2>1
<1>18. ValuesInv'
  <2>1. \A p \in Stored(o) : Rank(o, p)' = Rank(o, p) /\ ValueAt(o, p)' = ValueAt(o, p)
    BY <1>2, <1>5, <1>13, SameStored
  <2>2. Passed' \subseteq Stored(o)
    BY <1>14 DEF PassedAt
  <2>3. ASSUME NEW p \in Passed'
        PROVE  (RowShown(Target.rows, sink.batch, left, Rank(o, p)) = Decoded(ValueAt(o, p)))'
    <3>1. /\ Rank(o, p)' = Rank(o, p) /\ Target'.rows = Target.rows
          /\ sink'.batch = sink.batch
      BY <1>5, <1>12, <2>1, <2>2
    <3>2. RowShown(Target.rows, sink.batch, left, Rank(o, p))'
             = RowShown(Target'.rows, sink'.batch, left', Rank(o, p)')
      BY DEF RowShown, Shows, Decoded
    <3>3. RowShown(Target.rows, sink.batch, left, Rank(o, p))' = Shown(Rank(o, p))
      BY <3>1, <3>2
    <3>4. Decoded(ValueAt(o, p))' = Decoded(ValueAt(o, p))
      BY <2>1, <2>2 DEF Decoded
    <3> QED
      BY <1>17, <3>3, <3>4
  <2>4. (Len(Target.rows) + Len(sink.batch) + Len(left) = Cardinality(Passed))'
    BY <1>5, <1>7, <1>8, <1>10, <1>12, <1>14 DEF n
  <2>5. (cmd.format = "ndjson" => sink.batch = <<>>)'
    BY <1>5 DEF ExportInv, ValuesInv
  <2> QED
    BY <1>5, <2>3, <2>4, <2>5 DEF ValuesInv
<1>19. DefectsInv'
  <2>1. \A j, c : DefectIn(o, j, c)' <=> DefectIn(o, j, c)
    BY <1>2, <1>5, <1>13, SameStored
  <2>2. DefectIn(o, i, b) <=> Subtask.blocks[b].defect
    BY <1>1, <1>2, <1>3, <1>6 DEF DefectIn
  <2>3. \A j, c \in Nat : Behind(j, c, i, b + 1) <=> Behind(j, c, i, b) \/ (j = i /\ c = b)
    BY <1>2, BehindNext
  <2>4. malformed > 0 <=> \E j, c \in Nat : Behind(j, c, i, b) /\ DefectIn(o, j, c)
    BY DEF ExportInv, DefectsInv
  <2>5. malformed' > 0 <=> \E j, c \in Nat : Behind(j, c, i, b + 1) /\ DefectIn(o, j, c)
    BY <1>2, <1>11, <2>2, <2>3, <2>4
  <2>6. \A j, c \in Nat : Behind(j, c, at.stream, at.block)' <=> Behind(j, c, i, b + 1)
    BY <1>5 DEF Behind
  <2> QED
    BY <1>5, <2>1, <2>5, <2>6 DEF DefectsInv
<1>20. OnlyHolder(ctx.op)' /\ StreamsInv'
  BY <1>2, <1>5, <1>13, ContextKept DEF ExportInv
<1> QED
  BY <1>10, <1>11, <1>18, <1>19, <1>20 DEF ExportInv

\* What is written goes to the end of the file.
LEMMA WriteTarget ==
  ASSUME ExportTypeOK, UNCHANGED cmd, NEW rows \in Seq(Rows), NEW w \in BOOLEAN, Write(rows, w)
  PROVE  /\ Target \in Outputs /\ Target.rows \in Seq(Rows)
         /\ Target' = [there |-> TRUE, rows |-> Target.rows \o rows, whole |-> w]
         /\ Target'.rows = Target.rows \o rows /\ Target'.whole = w
         /\ partial' \in Outputs /\ out' \in Outputs
         /\ cmd.target # "file" => partial' = partial
<1>1. out \in Outputs /\ partial \in Outputs
  BY DEF ExportTypeOK
<1>2. ASSUME NEW f \in Outputs
      PROVE  /\ f.rows \in Seq(Rows) /\ f.rows \o rows \in Seq(Rows)
             /\ [there |-> TRUE, rows |-> f.rows \o rows, whole |-> w] \in Outputs
  <2>1. f.rows \in Seq(Rows)
    BY DEF Outputs
  <2>2. f.rows \o rows \in Seq(Rows)
    BY <2>1
  <2> QED
    BY <2>1, <2>2 DEF Outputs
<1>3. CASE cmd.target = "file"
  <2>1. partial' = [there |-> TRUE, rows |-> partial.rows \o rows, whole |-> w] /\ out' = out
    BY <1>3 DEF Write
  <2> QED
    BY <1>1, <1>2, <1>3, <2>1 DEF Target
<1>4. CASE cmd.target # "file"
  <2>1. out' = [there |-> TRUE, rows |-> out.rows \o rows, whole |-> w] /\ partial' = partial
    BY <1>4 DEF Write
  <2> QED
    BY <1>1, <1>2, <1>4, <2>1 DEF Target
<1> QED
  BY <1>3, <1>4

\* The value to come next.
LEMMA NextValue ==
  ASSUME ExportTypeOK, left # <<>>
  PROVE  left \in Seq(Pending) /\ left[1].v \in Values /\ left[1].type \in Types
         /\ Tail(left) \in Seq(Pending)
<1>1. left \in Seq(Pending)
  BY DEF ExportTypeOK
<1>2. left[1] \in Pending /\ Tail(left) \in Seq(Pending)
  BY <1>1
<1> QED
  BY <1>1, <1>2 DEF Pending

\* A value becomes a row, in the batch or, with the batch, in the file.
LEMMA RowKeeps ==
  ASSUME ExportTypeOK, ExportInv, UNCHANGED <<sp, cmd, ctx, at, malformed>>, left # <<>>,
         NEW c \in Rows, Shows(c) = Decoded(left[1].v), left' = Tail(left),
         \/ /\ Target' = Target /\ sink'.batch = Append(sink.batch, c)
            /\ cmd.format # "ndjson"
         \/ /\ Target'.rows = Target.rows \o Append(sink.batch, c) /\ sink'.batch = <<>>
  PROVE  ExportInv'
<1> DEFINE r == Target.rows
           b == sink.batch
           l == left
           n == Len(r) + Len(b) + Len(l)
<1>1. ctx.op \in Ops /\ StillThere
  BY UnchangedThere DEF ExportInv, StreamsInv
<1>2. r \in Seq(Rows) /\ b \in Seq(Rows)
  <2>1. Target \in Outputs
    BY DEF ExportTypeOK, Target
  <2> QED
    BY <2>1 DEF ExportTypeOK, Outputs
<1>3. l \in Seq(Pending) /\ Tail(l) \in Seq(Pending) /\ Append(b, c) \in Seq(Rows)
  BY <1>2, NextValue
<1>4. /\ Len(r) + Len(Append(b, c)) + Len(Tail(l)) = n
      /\ \A k \in 1 .. n : RowShown(r, Append(b, c), Tail(l), k) = RowShown(r, b, l, k)
  BY <1>2, <1>3, RowAdded
<1>5. /\ Len(r \o Append(b, c)) = Len(r) + Len(Append(b, c))
      /\ \A k \in 1 .. Len(r) + Len(Append(b, c)) + Len(Tail(l)) :
            RowShown(r \o Append(b, c), <<>>, Tail(l), k) = RowShown(r, Append(b, c), Tail(l), k)
  BY <1>2, <1>3, BatchWritten
<1>6. PassedAt(ctx.op, at'.stream, at'.block) = Passed
  BY DEF Passed
<1>7. ValuesInv'
  <2>1. CASE /\ Target' = Target /\ sink'.batch = Append(b, c) /\ cmd.format # "ndjson"
    <3>1. ValuesInv
      BY DEF ExportInv
    <3> QED
      BY <1>1, <1>4, <1>6, <2>1, <3>1, ValuesKept
  <2>2. CASE Target'.rows = r \o Append(b, c) /\ sink'.batch = <<>>
    <3>1. ValuesInv
      BY DEF ExportInv
    <3>2. Len(<<>>) = 0 /\ Len(Append(b, c)) \in Nat /\ Len(r) \in Nat /\ Len(Tail(l)) \in Nat
      BY <1>2, <1>3
    <3>3. Len(Target'.rows) + Len(<<>>) + Len(Tail(l)) = n
      <4> DEFINE x == Len(r)
                 y == Len(Append(b, c))
                 z == Len(Tail(l))
      <4>1. x + y + 0 + z = x + y + z
        <5>1. x \in Nat /\ y \in Nat /\ z \in Nat
          BY <3>2
        <5> HIDE DEF x, y, z
        <5> QED
          BY <5>1
      <4> QED
        BY <1>4, <1>5, <2>2, <3>2, <4>1
    <3>4. \A k \in 1 .. n : RowShown(Target'.rows, <<>>, Tail(l), k) = RowShown(r, b, l, k)
      BY <1>4, <1>5, <2>2
    <3> QED
      BY <1>1, <1>6, <2>2, <3>1, <3>3, <3>4, ValuesKept
  <2> QED
    BY <2>1, <2>2
<1>8. DefectsInv'
  BY <1>1, DefectsKept DEF ExportInv
<1>9. OnlyHolder(ctx.op)' /\ StreamsInv'
  BY <1>1, ContextKept DEF ExportInv
<1> QED
  BY <1>7, <1>8, <1>9 DEF ExportInv

LEMMA NdjsonRowKeeps ==
  ASSUME ExportTypeOK, ExportInv, NdjsonRow
  PROVE  ExportInv' /\ partial' \in Outputs /\ out' \in Outputs /\ left' \in Seq(Pending)
         /\ (cmd.target # "file" => partial' = partial)
<1> DEFINE c == Line(left[1].v)
<1>1. /\ left # <<>> /\ cmd.format = "ndjson" /\ Write(<<c>>, FALSE) /\ left' = Tail(left)
      /\ UNCHANGED <<sp, cmd, ctx, at, malformed, sink>>
  BY DEF NdjsonRow
<1>2. c \in Rows /\ Shows(c) = Decoded(left[1].v) /\ Tail(left) \in Seq(Pending)
  BY <1>1, NextValue, LineShows
<1> HIDE DEF c
<1>3. sink.batch = <<>> /\ <<c>> = Append(<<>>, c) /\ <<c>> \in Seq(Rows)
  BY <1>1, <1>2 DEF ExportInv, ValuesInv
<1>4. /\ Target'.rows = Target.rows \o <<c>> /\ partial' \in Outputs /\ out' \in Outputs
      /\ (cmd.target # "file" => partial' = partial)
  BY <1>1, <1>3, WriteTarget
<1>5. Target'.rows = Target.rows \o Append(sink.batch, c) /\ sink'.batch = <<>>
  BY <1>1, <1>3, <1>4
<1>6. ExportInv'
  BY <1>1, <1>2, <1>5, RowKeeps
<1> QED
  BY <1>1, <1>2, <1>4, <1>6

LEMMA ParquetRowKeeps ==
  ASSUME ExportTypeOK, ExportInv, ParquetRow
  PROVE  /\ ExportInv' /\ partial' \in Outputs /\ out' \in Outputs /\ left' \in Seq(Pending)
         /\ sink' \in [column : Columns, batch : Seq(Rows)]
         /\ (cmd.target # "file" => partial' = partial)
<1> DEFINE column == IF sink.column = "none" THEN ColumnFor(left[1].type) ELSE sink.column
           c == Cell(left[1].v, column)
           batch == Append(sink.batch, c)
           full == Len(batch) >= BatchRows
<1>1. /\ left # <<>> /\ cmd.format = "parquet" /\ left' = Tail(left)
      /\ UNCHANGED <<sp, cmd, ctx, at, malformed>>
      /\ sink' = [column |-> column, batch |-> IF full THEN <<>> ELSE batch]
      /\ IF full THEN Write(batch, FALSE) ELSE UNCHANGED <<partial, out>>
  BY DEF ParquetRow, Emptied
<1>2. c \in Rows /\ Shows(c) = Decoded(left[1].v) /\ Tail(left) \in Seq(Pending)
  BY <1>1, NextValue, CellShows
<1>3. column \in Columns
  <2>1. sink.column \in Columns
    BY DEF ExportTypeOK
  <2>2. ColumnFor(left[1].type) \in Columns
    BY DEF ColumnFor, Columns
  <2> QED
    BY <2>1, <2>2
<1>4. sink.batch \in Seq(Rows)
  BY DEF ExportTypeOK
<1> HIDE DEF c, column
<1>5. batch \in Seq(Rows) /\ <<>> \in Seq(Rows)
  BY <1>2, <1>4
<1>6. sink' \in [column : Columns, batch : Seq(Rows)]
  <2> HIDE DEF batch
  <2> QED
    BY <1>1, <1>3, <1>5
<1>7. CASE full
  <2>1. sink'.batch = <<>> /\ Write(batch, FALSE)
    BY <1>1, <1>7
  <2>2. /\ Target'.rows = Target.rows \o batch /\ partial' \in Outputs /\ out' \in Outputs
        /\ (cmd.target # "file" => partial' = partial)
    <3> HIDE DEF batch
    <3> QED
      BY <1>1, <1>5, <2>1, WriteTarget
  <2>3. ExportInv'
    BY <1>1, <1>2, <2>1, <2>2, RowKeeps
  <2> QED
    BY <1>1, <1>2, <1>6, <2>2, <2>3
<1>8. CASE ~full
  <2>1. sink'.batch = batch /\ UNCHANGED <<partial, out>>
    BY <1>1, <1>8
  <2>2. Target' = Target /\ partial' \in Outputs /\ out' \in Outputs
    BY <1>1, <2>1 DEF Target, ExportTypeOK
  <2>3. ExportInv'
    BY <1>1, <1>2, <2>1, <2>2, RowKeeps
  <2> QED
    BY <1>1, <1>2, <1>6, <2>1, <2>2, <2>3
<1> QED
  BY <1>7, <1>8

\* At the end everything was passed: what is written is whole.
LEMMA FinishHolds ==
  ASSUME ExportTypeOK, ExportInv, Finish
  PROVE  /\ partial' \in Outputs /\ out' \in Outputs
         /\ (cmd.target # "file" => partial' = partial)
         /\ OnlyHolder(ctx.op)' /\ (Defects(ctx.op)' <=> malformed' > 0)
         /\ Holds(Target, ctx.op)'
<1> DEFINE o == ctx.op
           r == Target.rows
           b == sink.batch
<1>1. /\ left = <<>> /\ AtEnd /\ Write(b, TRUE) /\ UNCHANGED <<sp, cmd, ctx, malformed>>
  BY DEF Finish
<1>2. o \in Ops /\ StillThere
  BY <1>1, UnchangedThere DEF ExportInv, StreamsInv
<1>3. b \in Seq(Rows) /\ Len(left) = 0 /\ left \in Seq(Pending)
  BY <1>1 DEF ExportTypeOK
<1>4. /\ r \in Seq(Rows) /\ Target'.rows = r \o b /\ Target'.whole = TRUE
      /\ partial' \in Outputs /\ out' \in Outputs
      /\ (cmd.target # "file" => partial' = partial)
  BY <1>1, <1>3, WriteTarget
<1>5. ASSUME NEW j \in DOMAIN sp[o], NEW c
      PROVE  Behind(j, c, at.stream, at.block)
  <2>1. j \in 1 .. Len(sp[o]) /\ Len(sp[o]) \in Nat /\ at.stream \in Nat
    BY <1>2, Located DEF ExportTypeOK
  <2>2. at.stream > Len(sp[o])
    BY <1>1 DEF AtEnd
  <2>3. j < at.stream
    BY <2>1, <2>2
  <2> QED
    BY <2>3 DEF Behind
<1>6. Passed = Stored(o)
  <2>1. \A p \in Stored(o) : Behind(p[1], p[2], at.stream, at.block)
    BY <1>2, <1>5, PlaceIs
  <2> QED
    BY <2>1 DEF Passed, PassedAt
<1>7. /\ Len(r \o b) = Cardinality(Stored(o))
      /\ \A p \in Stored(o) : Shows((r \o b)[Rank(o, p)]) = Decoded(ValueAt(o, p))
  <2> DEFINE n == Len(r) + Len(b)
  <2>1. /\ r \o b \in Seq(Rows) /\ Len(r \o b) = n
        /\ \A k \in 1 .. n + Len(left) : RowShown(r \o b, <<>>, left, k) = RowShown(r, b, left, k)
    BY <1>3, <1>4, BatchWritten
  <2>2. Len(r) \in Nat /\ Len(b) \in Nat
    BY <1>3, <1>4
  <2>3. n + Len(left) = n /\ n \in Nat
    <3> DEFINE x == Len(r)
               y == Len(b)
    <3>1. x \in Nat /\ y \in Nat /\ x + y + 0 = x + y /\ x + y \in Nat
      <4>1. x \in Nat /\ y \in Nat
        BY <2>2
      <4> HIDE DEF x, y
      <4> QED
        BY <4>1
    <3> QED
      BY <1>3, <3>1
  <2>4. n = Cardinality(Stored(o))
    BY <1>6, <2>3 DEF ExportInv, ValuesInv
  <2>5. ASSUME NEW p \in Stored(o)
        PROVE  Shows((r \o b)[Rank(o, p)]) = Decoded(ValueAt(o, p))
    <3>1. Rank(o, p) \in 1 .. n
      <4>1. at.stream \in Nat /\ at.block \in Nat
        BY DEF ExportTypeOK
      <4>2. p \in PassedAt(o, at.stream, at.block)
        BY <1>6 DEF Passed
      <4> QED
        BY <1>2, <1>6, <2>4, <4>1, <4>2, RankBounds DEF Passed
    <3>2. RowShown(r, b, left, Rank(o, p)) = Decoded(ValueAt(o, p))
      BY <1>6 DEF ExportInv, ValuesInv
    <3>3. RowShown(r \o b, <<>>, left, Rank(o, p)) = Decoded(ValueAt(o, p))
      BY <2>1, <2>3, <3>1, <3>2
    <3>4. Rank(o, p) <= Len(r \o b)
      <4> HIDE DEF n
      <4> QED
        BY <2>1, <2>3, <3>1
    <3> QED
      BY <3>3, <3>4 DEF RowShown
  <2> QED
    BY <2>1, <2>4, <2>5
<1>8. Holds(Target, o)'
  <2>1. /\ Stored(o)' = Stored(o)
        /\ \A p \in Stored(o) : Rank(o, p)' = Rank(o, p) /\ ValueAt(o, p)' = ValueAt(o, p)
    BY <1>1, <1>2, SameStored
  <2>2. Target'.whole /\ Len(Target'.rows) = Cardinality(Stored(o)')
    BY <1>4, <1>7, <2>1
  <2>3. ASSUME NEW row, NEW v, Shows(row) = Decoded(v)
        PROVE  Tells(row, v)
    BY <2>3 DEF Tells, Decoded
  <2>4. \A p \in Stored(o)' : Tells(Target'.rows[Rank(o, p)'], ValueAt(o, p)')
    BY <1>4, <1>7, <2>1, <2>3
  <2> QED
    BY <2>2, <2>4 DEF Holds, Tells, Shows
<1>9. Defects(o)' <=> malformed' > 0
  <2>1. Defects(o)' <=> Defects(o)
    BY <1>1, <1>2, SameStored
  <2>2. Defects(o) <=> \E j, c \in Nat : Behind(j, c, at.stream, at.block) /\ DefectIn(o, j, c)
    <3>1. \A j \in DOMAIN sp[o] : j \in Nat /\ \A c \in DOMAIN sp[o][j].blocks : c \in Nat
      BY <1>2, Located
    <3> QED
      BY <1>5, <3>1 DEF Defects, DefectIn
  <2> QED
    BY <1>1, <2>1, <2>2 DEF ExportInv, DefectsInv
<1>10. OnlyHolder(o)'
  BY <1>1, <1>2, ContextKept DEF ExportInv
<1> QED
  BY <1>4, <1>8, <1>9, <1>10

\* The operator found is the only one asked about that holds the state, and all its
\* streams were opened; nothing was passed yet.
LEMMA ResolveStarts ==
  ASSUME ExportTypeOK, FreshInv, pc = "resolve", NEW o \in cmd.ops,
         {p \in cmd.ops : Holder(p) # {}} = {o}, Unread(o) = {}, ~MayHoldToo(cmd.ops, o),
         ctx' = [op |-> o, streams |-> Streams(o), headers |-> HeaderRead(o)],
         UNCHANGED <<sp, cmd, at, left, sink, malformed, out, partial>>
  PROVE  ExportInv'
<1>1. o \in Ops /\ cmd.ops \subseteq Ops /\ ctx'.op = o /\ ctx'.streams = Streams(o)
  BY DEF ExportTypeOK
<1>2. ASSUME NEW p \in Ops, NEW i \in DOMAIN sp[p]
      PROVE  sp[p][i].file \in {"ok", "missing", "unreadable", "none"}
  BY Located DEF Subtasks
<1>3. OnlyHolder(ctx.op)'
  <2>1. HasState(o)
    <3>1. PICK i \in Holder(o) : TRUE
      OBVIOUS
    <3> QED
      BY <3>1 DEF Holder, HeaderRead, HasState, RegisteredIn
  <2>2. ASSUME NEW p \in cmd.ops, HasState(p), p # o PROVE FALSE
    <3>1. Holder(p) = {}
      BY <2>2
    <3>2. Unread(p) = {}
      BY <2>2, <3>1 DEF MayHoldToo
    <3>3. PICK i \in DOMAIN sp[p] : sp[p][i].file # "none" /\ Registers(sp[p][i], State)
      BY <2>2 DEF HasState, RegisteredIn
    <3>4. sp[p][i].file # "missing"
      BY <3>2, <3>3 DEF Unread, OpenFailed
    <3>5. sp[p][i].file # "unreadable"
      BY <3>1, <3>2, <3>3 DEF Unread, Searched, Streams, HeaderRead
    <3>6. sp[p][i].file # "ok"
      BY <3>1, <3>3 DEF Holder, HeaderRead
    <3> QED
      BY <1>1, <1>2, <3>3, <3>4, <3>5, <3>6
  <2>3. OnlyHolder(o)
    BY <2>1, <2>2 DEF OnlyHolder
  <2> QED
    BY <1>1, <2>3 DEF OnlyHolder, HasState, RegisteredIn
<1>4. StreamsInv'
  <2>1. ASSUME NEW i \in DOMAIN sp[o] PROVE i \in Streams(o) <=> sp[o][i].file # "none"
    <3>1. sp[o][i].file # "missing"
      BY DEF Unread, OpenFailed
    <3> QED
      BY <1>1, <1>2, <3>1 DEF Streams
  <2> QED
    BY <1>1, <2>1 DEF StreamsInv
<1>5. at.stream = 1 /\ at.block = 1 /\ left = <<>> /\ sink.batch = <<>> /\ malformed = 0
  BY DEF FreshInv, First, NewSink
<1>6. ASSUME NEW j \in DOMAIN sp[o], NEW c \in DOMAIN sp[o][j].blocks
      PROVE  ~Behind(j, c, 1, 1)
  <2>1. j \in Nat /\ j >= 1 /\ c \in Nat /\ c >= 1
    BY <1>1, Located
  <2> QED
    BY <2>1 DEF Behind
<1>7. ValuesInv'
  <2>1. PassedAt(o, 1, 1) = {}
    <3>1. \A p \in Stored(o) : ~Behind(p[1], p[2], 1, 1)
      BY <1>1, <1>6, PlaceIs
    <3> QED
      BY <3>1 DEF PassedAt
  <2>2. StillThere
    BY UnchangedThere
  <2>3. Stored(o)' = Stored(o)
    BY <1>1, <2>2, SameStored
  <2>4. Passed' = {}
    BY <1>1, <1>5, <2>1, <2>3 DEF Passed, PassedAt, Stored, Behind
  <2>5. Target'.rows = <<>>
    BY DEF FreshInv, Target
  <2>6. Cardinality(Passed') = 0 /\ Len(Target'.rows) + Len(sink'.batch) + Len(left') = 0
    BY <1>5, <2>4, <2>5, FS_EmptySet
  <2> QED
    BY <1>5, <2>4, <2>6 DEF ValuesInv
<1>8. DefectsInv'
  <2>1. \A j, c \in Nat : DefectIn(o, j, c) => ~Behind(j, c, 1, 1)
    BY <1>6 DEF DefectIn
  <2>2. \A j, c \in Nat : DefectIn(ctx.op, j, c)' <=> DefectIn(o, j, c)
    BY <1>1 DEF DefectIn, Registers, NamesOf
  <2>3. \A j, c \in Nat : Behind(j, c, at.stream, at.block)' <=> Behind(j, c, 1, 1)
    BY <1>5 DEF Behind
  <2> QED
    BY <1>5, <2>1, <2>2, <2>3 DEF DefectsInv
<1> QED
  BY <1>3, <1>4, <1>7, <1>8 DEF ExportInv

(***************************************************************************)
(* The invariant.                                                          *)
(***************************************************************************)

LEMMA EmptyFiles == NoFile \in Outputs /\ Created \in Outputs /\ NewSink \in [column : Columns, batch : Seq(Rows)]
<1>1. <<>> \in Seq(Rows)
  OBVIOUS
<1> QED
  BY <1>1 DEF NoFile, Created, NewSink, Outputs, Columns

LEMMA InitInv == Init => IInv
<1> SUFFICES ASSUME Init PROVE IInv
  OBVIOUS
<1>1. ExportTypeOK
  <2>1. sp \in [Ops -> Seq(Subtasks)]
    BY StateExportAssumption DEF Init
  <2>2. left \in Seq(Pending)
    BY DEF Init
  <2>3. sink \in [column : Columns, batch : Seq(Rows)] /\ out \in Outputs /\ partial \in Outputs /\ path \in Outputs
    BY EmptyFiles DEF Init
  <2> QED
    BY <2>1, <2>2, <2>3 DEF Init, ExportTypeOK, NoCmd, First, Ended
<1>2. PhaseInv /\ PathIsWhole
  BY DEF Init, PhaseInv, PathIsWhole, NoCmd, NoFile, ExportSteps
<1> QED
  BY <1>1, <1>2 DEF Init, IInv

\* The file asked for stays whole.
LEMMA PathKept ==
  ASSUME StillThere, UNCHANGED path, PathIsWhole
  PROVE  (path.there => \E o \in Ops : Holds(path, o))'
<1> SUFFICES ASSUME path.there PROVE \E o \in Ops : Holds(path, o)'
  OBVIOUS
<1>1. PICK o \in Ops : Holds(path, o)
  BY DEF PathIsWhole
<1>2. /\ Stored(o)' = Stored(o)
      /\ \A p \in Stored(o) : Rank(o, p)' = Rank(o, p) /\ ValueAt(o, p)' = ValueAt(o, p)
  BY SameStored
<1>3. Holds(path, o)'
  BY <1>1, <1>2 DEF Holds, Tells, Shows
<1> QED
  BY <1>3

\* A command that has ended without success, or lists: only the files matter.
LEMMA EndsIn ==
  ASSUME IInv, StillThere, UNCHANGED path, ExportTypeOK', PhaseInv',
         pc' \in {"err", "closed", "killed", "list"},
         pc' = "err" /\ partial'.there => partial'.whole \/ cmd'.target # "file"
  PROVE  IInv'
<1>1. PathIsWhole'
  BY PathKept DEF IInv, PathIsWhole
<1> QED
  BY <1>1 DEF IInv

\* An error ends it.
LEMMA FailedEnds ==
  ASSUME IInv, pc \in ExportSteps, Failed,
         UNCHANGED <<sp, cmd, at, left, sink, malformed, out, path>>
  PROVE  IInv'
<1>1. ExportTypeOK /\ PhaseInv
  BY DEF IInv
<1>2. StillThere
  BY <1>1, UnchangedThere
<1>3. /\ pc' = "err" /\ partial' \in Outputs
      /\ partial'.there => cmd'.target # "file"
  BY <1>1, EmptyFiles DEF Failed, ExportTypeOK, NoFile
<1>4. ExportTypeOK' /\ PhaseInv'
  BY <1>1, <1>3 DEF ExportTypeOK, PhaseInv, Ended, ExportSteps
<1> QED
  BY <1>2, <1>3, <1>4, EndsIn

LEMMA ExportsOn ==
  ASSUME IInv, StillThere, UNCHANGED path, ExportTypeOK', PhaseInv', pc' = "export", ExportInv'
  PROVE  IInv'
<1>1. PathIsWhole'
  BY PathKept DEF IInv, PathIsWhole
<1> QED
  BY <1>1 DEF IInv

LEMMA StartsFresh ==
  ASSUME IInv, StillThere, UNCHANGED path, ExportTypeOK', PhaseInv', pc' \in {"create", "resolve"}, FreshInv'
  PROVE  IInv'
<1>1. PathIsWhole'
  BY PathKept DEF IInv, PathIsWhole
<1> QED
  BY <1>1 DEF IInv

\* Nothing changes but files of the savepoint that are lost.
LEMMA LostKeeps ==
  ASSUME IInv, StillThere, UNCHANGED <<cmd, pc, export, listed, saved>>
  PROVE  IInv'
<1>1. ExportTypeOK /\ PhaseInv
  BY DEF IInv
<1>2. UNCHANGED <<cmd, pc, ctx, at, left, sink, malformed, listed, out, partial, path>>
  BY DEF export, saved
<1>3. ExportTypeOK' /\ PhaseInv'
  BY <1>1, <1>2 DEF ExportTypeOK, PhaseInv, StillThere
<1>4. PathIsWhole'
  <2>1. (path.there => \E o \in Ops : Holds(path, o))'
    BY <1>2, PathKept DEF IInv
  <2> QED
    BY <1>2, <2>1 DEF IInv, PathIsWhole
<1>5. pc' \in {"create", "resolve"} => FreshInv'
  BY <1>2 DEF IInv, FreshInv, Target
<1>6. pc' = "export" => ExportInv'
  BY <1>1, <1>2, ExportKept DEF IInv
<1>7. ASSUME NEW f \in Outputs, WrittenInv(f)
      PROVE  /\ OnlyHolder(ctx.op)' /\ (Defects(ctx.op)' <=> malformed' > 0)
             /\ f.whole /\ Len(f.rows) = Cardinality(Stored(ctx.op)')
             /\ \A p \in Stored(ctx.op)' :
                   Tells(f.rows[Rank(ctx.op, p)'], ValueAt(ctx.op, p)')
  <2>1. ctx.op \in cmd.ops /\ cmd.ops \subseteq Ops
    BY <1>1, <1>7 DEF WrittenInv, OnlyHolder, ExportTypeOK
  <2>2. OnlyHolder(ctx.op)'
    BY <1>1, <1>2, <1>7, <2>1, ContextKept DEF WrittenInv
  <2>3. /\ Defects(ctx.op)' <=> Defects(ctx.op)
        /\ Stored(ctx.op)' = Stored(ctx.op)
        /\ \A p \in Stored(ctx.op) : Rank(ctx.op, p)' = Rank(ctx.op, p) /\ ValueAt(ctx.op, p)' = ValueAt(ctx.op, p)
    BY <1>2, <2>1, SameStored
  <2>4. /\ f.whole /\ Len(f.rows) = Cardinality(Stored(ctx.op)')
        /\ \A p \in Stored(ctx.op)' :
              Tells(f.rows[Rank(ctx.op, p)'], ValueAt(ctx.op, p)')
    BY <1>7, <2>3 DEF WrittenInv, Holds
  <2> QED
    BY <1>2, <1>7, <2>2, <2>3, <2>4 DEF WrittenInv
<1>8. pc' = "rename" => WrittenInv(partial)'
  <2> SUFFICES ASSUME pc' = "rename" PROVE WrittenInv(partial)'
    OBVIOUS
  <2>1. partial \in Outputs /\ WrittenInv(partial)
    BY <1>1, <1>2 DEF IInv, ExportTypeOK
  <2>2. /\ OnlyHolder(ctx.op)' /\ (Defects(ctx.op)' <=> malformed' > 0)
        /\ partial'.whole /\ Len(partial'.rows) = Cardinality(Stored(ctx.op)')
        /\ \A p \in Stored(ctx.op)' :
              Tells(partial'.rows[Rank(ctx.op, p)'], ValueAt(ctx.op, p)')
    BY <1>2, <1>7, <2>1
  <2> QED
    BY <2>2 DEF WrittenInv, Holds, Tells, Shows
<1>9. pc' = "ok" /\ cmd'.what = "export" => WrittenInv(IF cmd.target = "file" THEN path ELSE out)'
  <2> SUFFICES ASSUME pc' = "ok", cmd'.what = "export"
               PROVE  WrittenInv(IF cmd.target = "file" THEN path ELSE out)'
    OBVIOUS
  <2> DEFINE f == IF cmd.target = "file" THEN path ELSE out
  <2>1. f \in Outputs /\ WrittenInv(f)
    BY <1>1, <1>2 DEF IInv, ExportTypeOK
  <2>2. f' = f
    BY <1>2
  <2> HIDE DEF f
  <2>3. /\ OnlyHolder(ctx.op)' /\ (Defects(ctx.op)' <=> malformed' > 0)
        /\ f'.whole /\ Len(f'.rows) = Cardinality(Stored(ctx.op)')
        /\ \A p \in Stored(ctx.op)' :
              Tells(f'.rows[Rank(ctx.op, p)'], ValueAt(ctx.op, p)')
    BY <1>7, <2>1, <2>2
  <2>4. WrittenInv(f)'
    BY <2>3 DEF WrittenInv, Holds, Tells, Shows
  <2> QED
    BY <2>4 DEF f
<1>10. pc' = "ok" /\ cmd'.what = "list" => AllListed'
  BY <1>2, SameStored DEF IInv, AllListed
<1> QED
  BY <1>3, <1>4, <1>5, <1>6, <1>8, <1>9, <1>10 DEF IInv

LEMMA StartKeeps ==
  ASSUME IInv, Command
  PROVE  IInv'
<1>1. ExportTypeOK
  BY DEF IInv
<1>2. PICK what \in {"list", "export"}, ops \in SUBSET Ops, format \in {"ndjson", "parquet"},
           target \in {"file", "stdout", "device"} :
        Start(what, ops, format, target) /\ (what = "list" => target = "stdout" /\ format = "ndjson")
  BY DEF Command
<1>3. /\ cmd' = [what |-> what, ops |-> ops, format |-> format, target |-> target]
      /\ pc' = IF format = "parquet" /\ target = "stdout" THEN "err"
               ELSE IF what = "list" THEN "list" ELSE IF target = "stdout" THEN "resolve" ELSE "create"
      /\ at' = First /\ left' = <<>> /\ sink' = NewSink /\ malformed' = 0 /\ out' = NoFile
      /\ UNCHANGED <<sp, partial, path>>
  BY <1>2 DEF Start
<1>4. StillThere
  BY <1>1, <1>3, UnchangedThere
<1>5. ExportTypeOK'
  <2>1. left' \in Seq(Pending) /\ at' \in [stream : Nat \ {0}, block : Nat \ {0}, held : BOOLEAN]
    BY <1>3 DEF First
  <2>2. sink' \in [column : Columns, batch : Seq(Rows)] /\ out' \in Outputs
    BY <1>3, EmptyFiles
  <2>3. pc' \in {"err", "list", "resolve", "create"}
    BY <1>3
  <2>4. cmd' \in [what : {"none", "list", "export"}, ops : SUBSET Ops,
                format : {"ndjson", "parquet"}, target : {"file", "stdout", "device"}]
    BY <1>3
  <2> QED
    BY <1>1, <1>3, <2>1, <2>2, <2>3, <2>4 DEF ExportTypeOK, Ended, ExportSteps
<1>6. PhaseInv'
  BY <1>2, <1>3 DEF PhaseInv, ExportSteps
<1>7. CASE pc' \in {"err", "list"}
  <2>1. pc' = "err" => cmd'.target # "file"
    BY <1>3
  <2> QED
    BY <1>3, <1>4, <1>5, <1>6, <1>7, <2>1, EndsIn
<1>8. CASE pc' \in {"create", "resolve"}
  <2>1. pc' = "resolve" => Target'.rows = <<>>
    BY <1>3 DEF Target, NoFile
  <2>2. FreshInv'
    BY <1>3, <2>1 DEF FreshInv
  <2> QED
    BY <1>3, <1>4, <1>5, <1>6, <1>8, <2>2, StartsFresh
<1> QED
  BY <1>3, <1>7, <1>8

LEMMA ListKeeps ==
  ASSUME IInv, ListStates
  PROVE  IInv'
<1>1. ExportTypeOK /\ PhaseInv /\ cmd.what = "list" /\ cmd.target = "stdout"
  BY DEF IInv, PhaseInv, ListStates
<1>2. /\ pc' \in {"err", "ok"}
      /\ pc' = "ok" => \A o \in Ops : OpenFailed(o) = {} /\ Streams(o) = HeaderRead(o)
      /\ listed' = UNION {{o} \X UNION {NamesOf(sp[o][i]) : i \in HeaderRead(o)} : o \in Ops}
      /\ UNCHANGED <<sp, cmd, ctx, at, left, sink, malformed, out, partial, path>>
  BY DEF ListStates, export, saved
<1>3. StillThere
  BY <1>1, <1>2, UnchangedThere
<1>4. ExportTypeOK' /\ PhaseInv'
  BY <1>1, <1>2 DEF ExportTypeOK, PhaseInv, Ended, ExportSteps
<1>5. CASE pc' = "err"
  BY <1>1, <1>2, <1>3, <1>4, <1>5, EndsIn
<1>6. CASE pc' = "ok"
  <2>1. PathIsWhole'
    BY <1>2, <1>3, <1>6, PathKept DEF IInv, PathIsWhole
  <2>2. ASSUME NEW o \in Ops, NEW n
        PROVE  RegisteredIn(o, n) <=> \E i \in HeaderRead(o) : n \in NamesOf(sp[o][i])
    <3>1. ASSUME NEW i \in DOMAIN sp[o]
          PROVE  i \in HeaderRead(o) <=> sp[o][i].file # "none"
      <4>1. sp[o][i].file \in {"ok", "missing", "unreadable", "none"}
        BY <1>1, Located DEF Subtasks
      <4> QED
        BY <1>2, <1>6, <4>1 DEF OpenFailed, Streams, HeaderRead
    <3>2. HeaderRead(o) \subseteq DOMAIN sp[o]
      BY DEF HeaderRead
    <3> QED
      BY <3>1, <3>2 DEF RegisteredIn, Registers
  <2>3. ASSUME NEW o \in Ops, NEW i \in HeaderRead(o) PROVE NamesOf(sp[o][i]) \subseteq StateNames
    <3>1. i \in DOMAIN sp[o]
      BY DEF HeaderRead
    <3>2. sp[o][i] \in Subtasks
      BY <1>1, <3>1, Located
    <3> DEFINE q == sp[o][i].states
               R == [name : StateNames, type : Types]
    <3>3. q \in Seq(R)
      BY <3>2 DEF Subtasks
    <3> HIDE DEF q, R
    <3>4. \A k \in DOMAIN q : q[k] \in R
      BY <3>3
    <3>5. \A k \in DOMAIN q : q[k].name \in StateNames
      BY <3>4 DEF R
    <3> QED
      BY <3>5 DEF NamesOf, q
  <2>4. ASSUME NEW l
        PROVE  l \in listed' <=> l \in Ops \X StateNames /\ RegisteredIn(l[1], l[2])
    <3>1. l \in listed' <=> \E o \in Ops : \E i \in HeaderRead(o) : \E n \in NamesOf(sp[o][i]) : l = <<o, n>>
      BY <1>2
    <3> QED
      BY <2>2, <2>3, <3>1
  <2>5. \A l \in Ops \X StateNames : RegisteredIn(l[1], l[2])' <=> RegisteredIn(l[1], l[2])
    BY <1>3, SameStored
  <2>6. listed' = {l \in Ops \X StateNames : RegisteredIn(l[1], l[2])'}
    BY <2>4, <2>5
  <2>7. AllListed'
    BY <2>6 DEF AllListed
  <2> QED
    BY <1>1, <1>2, <1>4, <1>6, <2>1, <2>7 DEF IInv
<1> QED
  BY <1>2, <1>5, <1>6

LEMMA CreateKeeps ==
  ASSUME IInv, Create
  PROVE  IInv'
<1>1. ExportTypeOK /\ PhaseInv /\ FreshInv /\ pc = "create" /\ cmd.what = "export"
  BY DEF IInv, Create, PhaseInv, ExportSteps
<1>2. UNCHANGED <<sp, cmd, at, left, sink, malformed, path>>
  BY DEF Create, export
<1>3. CASE Failed /\ UNCHANGED out
  BY <1>1, <1>2, <1>3, FailedEnds DEF ExportSteps
<1>4. CASE /\ pc' = "resolve"
           /\ \/ cmd.target = "file" /\ partial' = Created /\ out' = out
              \/ cmd.target # "file" /\ out' = Created /\ partial' = partial
  <2>1. StillThere
    BY <1>1, <1>2, UnchangedThere
  <2>2. out' \in Outputs /\ partial' \in Outputs
    BY <1>1, <1>4, EmptyFiles DEF ExportTypeOK
  <2>3. ExportTypeOK' /\ PhaseInv'
    BY <1>1, <1>2, <1>4, <2>2 DEF ExportTypeOK, PhaseInv, ExportSteps
  <2>4. Target'.rows = <<>>
    BY <1>2, <1>4 DEF Target, Created
  <2>5. FreshInv'
    BY <1>1, <1>2, <2>4 DEF FreshInv
  <2> QED
    BY <1>2, <1>4, <2>1, <2>3, <2>5, StartsFresh
<1> QED
  BY <1>3, <1>4 DEF Create

LEMMA ResolveKeeps ==
  ASSUME IInv, Resolve
  PROVE  IInv'
<1> DEFINE holding == {o \in cmd.ops : Holder(o) # {}}
<1>1. ExportTypeOK /\ PhaseInv /\ FreshInv /\ pc = "resolve"
  BY DEF IInv, Resolve
<1>2. UNCHANGED <<sp, cmd, at, left, sink, malformed, out, path>>
  BY DEF Resolve
<1>3. CASE Failed
  BY <1>1, <1>2, <1>3, FailedEnds DEF ExportSteps
<1>4. ASSUME NEW o \in holding, holding = {o}, Unread(o) = {}, ~MayHoldToo(cmd.ops, o),
             ctx' = [op |-> o, streams |-> Streams(o), headers |-> HeaderRead(o)],
             pc' = "export", UNCHANGED partial
      PROVE  IInv'
  <2>1. ExportInv'
    BY <1>1, <1>2, <1>4, ResolveStarts
  <2>2. ExportTypeOK' /\ PhaseInv'
    BY <1>1, <1>2, <1>4 DEF ExportTypeOK, PhaseInv, ExportSteps
  <2>3. StillThere
    BY <1>1, <1>2, UnchangedThere
  <2> QED
    BY <1>2, <1>4, <2>1, <2>2, <2>3, ExportsOn
<1> QED
  BY <1>3, <1>4 DEF Resolve

LEMMA SkipStreamInv ==
  ASSUME IInv, SkipStream
  PROVE  IInv'
<1>1. ExportTypeOK /\ PhaseInv /\ ExportInv /\ pc = "export" /\ InStream /\ ~AtBlock
  BY DEF IInv, SkipStream, InStream
<1>2. UNCHANGED <<sp, cmd, ctx, left, sink, malformed, out, path>>
  BY DEF SkipStream
<1>3. CASE Failed /\ UNCHANGED at
  BY <1>1, <1>2, <1>3, FailedEnds DEF ExportSteps
<1>4. CASE /\ NoBytes \/ HeaderOk
           /\ at' = [stream |-> at.stream + 1, block |-> 1, held |-> FALSE]
           /\ UNCHANGED <<pc, partial>>
  <2>1. ExportInv'
    BY <1>1, <1>2, <1>4, SkipStreamKeeps
  <2>2. at' \in [stream : Nat \ {0}, block : Nat \ {0}, held : BOOLEAN]
    BY <1>1, <1>4 DEF ExportTypeOK
  <2>3. ExportTypeOK' /\ PhaseInv'
    BY <1>1, <1>2, <1>4, <2>2 DEF ExportTypeOK, PhaseInv
  <2>4. StillThere
    BY <1>1, <1>2, UnchangedThere
  <2> QED
    BY <1>1, <1>2, <1>4, <2>1, <2>3, <2>4, ExportsOn
<1> QED
  BY <1>3, <1>4 DEF SkipStream

LEMMA SkipBlockInv ==
  ASSUME IInv, SkipBlock
  PROVE  IInv'
<1>1. ExportTypeOK /\ PhaseInv /\ ExportInv /\ pc = "export"
  BY DEF IInv, SkipBlock, AtBlock, InStream
<1>2. /\ UNCHANGED <<sp, cmd, pc, ctx, left, sink, malformed, out, partial, path>>
      /\ at' = [at EXCEPT !.block = @ + 1]
  BY DEF SkipBlock, saved
<1>3. ExportInv'
  BY <1>1, SkipBlockKeeps
<1>4. at' \in [stream : Nat \ {0}, block : Nat \ {0}, held : BOOLEAN]
  <2>1. /\ at \in [stream : Nat \ {0}, block : Nat \ {0}, held : BOOLEAN]
        /\ at.block + 1 \in Nat \ {0}
    BY <1>1 DEF ExportTypeOK
  <2> QED
    BY <1>2, <2>1
<1>5. ExportTypeOK' /\ PhaseInv'
  BY <1>1, <1>2, <1>4 DEF ExportTypeOK, PhaseInv
<1>6. StillThere
  BY <1>1, <1>2, UnchangedThere
<1> QED
  BY <1>1, <1>2, <1>3, <1>5, <1>6, ExportsOn

LEMMA ReadBlockInv ==
  ASSUME IInv, ReadBlock
  PROVE  IInv'
<1> DEFINE rows == Keep(Subtask.blocks[at.block].entries, Wanted(Subtask))
<1>1. ExportTypeOK /\ PhaseInv /\ ExportInv /\ pc = "export" /\ AtBlock
  BY DEF IInv, ReadBlock, AtBlock, InStream
<1>2. UNCHANGED <<sp, cmd, ctx, sink, out, path>>
  BY DEF ReadBlock
<1>3. CASE Failed /\ UNCHANGED <<left, malformed, at>>
  BY <1>1, <1>2, <1>3, FailedEnds DEF ExportSteps
<1>4. CASE /\ left' = [i \in DOMAIN rows |->
                          [type |-> Subtask.states[OwnId(Subtask)].type, v |-> rows[i].v]]
           /\ malformed' = malformed + (IF Subtask.blocks[at.block].defect THEN 1 ELSE 0)
           /\ at' = [at EXCEPT !.block = @ + 1, !.held = TRUE]
           /\ UNCHANGED <<pc, partial>>
  <2>1. BlockRead(rows) /\ UNCHANGED <<pc, partial>> /\ at' = [at EXCEPT !.block = @ + 1, !.held = TRUE]
    BY <1>2, <1>4 DEF BlockRead
  <2>2. at' \in [stream : Nat \ {0}, block : Nat \ {0}, held : BOOLEAN]
    <3>1. /\ at \in [stream : Nat \ {0}, block : Nat \ {0}, held : BOOLEAN]
          /\ at.block + 1 \in Nat \ {0}
      BY <1>1 DEF ExportTypeOK
    <3> QED
      BY <2>1, <3>1
  <2> HIDE DEF rows
  <2>3. ExportInv' /\ left' \in Seq(Pending) /\ malformed' \in Nat
    BY <1>1, <2>1, ReadBlockKeeps
  <2>4. ExportTypeOK' /\ PhaseInv'
    BY <1>1, <1>2, <2>1, <2>2, <2>3 DEF ExportTypeOK, PhaseInv
  <2>5. StillThere
    BY <1>1, <1>2, UnchangedThere
  <2> QED
    BY <1>1, <1>2, <2>1, <2>3, <2>4, <2>5, ExportsOn
<1> QED
  BY <1>3, <1>4 DEF ReadBlock

LEMMA RowsInv ==
  ASSUME IInv, NdjsonRow \/ ParquetRow
  PROVE  IInv'
<1>1. ExportTypeOK /\ PhaseInv /\ ExportInv /\ pc = "export"
  BY DEF IInv, NdjsonRow, ParquetRow
<1>2. UNCHANGED <<sp, cmd, pc, ctx, at, malformed, path>>
  BY DEF NdjsonRow, ParquetRow
<1>3. /\ ExportInv' /\ partial' \in Outputs /\ out' \in Outputs /\ left' \in Seq(Pending)
      /\ sink' \in [column : Columns, batch : Seq(Rows)]
  <2>1. CASE NdjsonRow
    <3>1. sink' = sink
      BY <2>1 DEF NdjsonRow
    <3> QED
      BY <1>1, <2>1, <3>1, NdjsonRowKeeps DEF ExportTypeOK
  <2>2. CASE ParquetRow
    BY <1>1, <2>2, ParquetRowKeeps
  <2> QED
    BY <2>1, <2>2
<1>4. ExportTypeOK' /\ PhaseInv'
  BY <1>1, <1>2, <1>3 DEF ExportTypeOK, PhaseInv
<1>5. StillThere
  BY <1>1, <1>2, UnchangedThere
<1> QED
  BY <1>1, <1>2, <1>3, <1>4, <1>5, ExportsOn

LEMMA WriteFailsInv ==
  ASSUME IInv, WriteFails
  PROVE  IInv'
<1>1. ExportTypeOK /\ PhaseInv /\ pc = "export"
  BY DEF IInv, WriteFails
<1>2. UNCHANGED <<sp, cmd, ctx, at, left, sink, malformed, out, path>>
  BY DEF WriteFails, export
<1>3. CASE Failed
  BY <1>1, <1>2, <1>3, FailedEnds DEF ExportSteps
<1>4. CASE pc' = "closed" /\ partial' = partial
  <2>1. ExportTypeOK' /\ PhaseInv'
    BY <1>1, <1>2, <1>4 DEF ExportTypeOK, PhaseInv, Ended, ExportSteps
  <2>2. StillThere
    BY <1>1, <1>2, UnchangedThere
  <2> QED
    BY <1>2, <1>4, <2>1, <2>2, EndsIn
<1> QED
  BY <1>3, <1>4 DEF WriteFails

LEMMA FinishInv ==
  ASSUME IInv, Finish
  PROVE  IInv'
<1>1. ExportTypeOK /\ PhaseInv /\ ExportInv /\ pc = "export" /\ cmd.what = "export"
  BY DEF IInv, Finish, PhaseInv, ExportSteps
<1>2. /\ UNCHANGED <<sp, cmd, ctx, at, left, malformed, path>> /\ sink' = NewSink
      /\ pc' = IF cmd.target = "file" THEN "rename" ELSE "ok"
  BY DEF Finish
<1>3. /\ partial' \in Outputs /\ out' \in Outputs
      /\ (cmd.target # "file" => partial' = partial)
      /\ OnlyHolder(ctx.op)' /\ (Defects(ctx.op)' <=> malformed' > 0)
      /\ Holds(Target, ctx.op)'
  BY <1>1, FinishHolds
<1>4. ExportTypeOK' /\ PhaseInv'
  BY <1>1, <1>2, <1>3, EmptyFiles DEF ExportTypeOK, PhaseInv, Ended, ExportSteps
<1>5. StillThere
  BY <1>1, <1>2, UnchangedThere
<1>6. PathIsWhole'
  BY <1>2, <1>5, PathKept DEF IInv, PathIsWhole
<1>7. pc' = "rename" => WrittenInv(partial)'
  BY <1>2, <1>3 DEF WrittenInv, Target
<1>8. pc' = "ok" => WrittenInv(IF cmd.target = "file" THEN path ELSE out)'
  BY <1>2, <1>3 DEF WrittenInv, Target
<1> QED
  BY <1>1, <1>2, <1>4, <1>6, <1>7, <1>8 DEF IInv

LEMMA RenameInv ==
  ASSUME IInv, Rename
  PROVE  IInv'
<1>1. ExportTypeOK /\ PhaseInv /\ WrittenInv(partial) /\ pc = "rename" /\ cmd.what = "export" /\ cmd.target = "file"
  BY DEF IInv, Rename, PhaseInv, ExportSteps
<1>2. UNCHANGED <<sp, cmd, ctx, at, left, sink, malformed, out>>
  BY DEF Rename, export
<1>3. StillThere
  BY <1>1, <1>2, UnchangedThere
<1>4. CASE pc' = "err" /\ UNCHANGED <<partial, path>>
  <2>1. ExportTypeOK' /\ PhaseInv'
    BY <1>1, <1>2, <1>4 DEF ExportTypeOK, PhaseInv, Ended, ExportSteps
  <2>2. partial'.whole
    BY <1>1, <1>4 DEF WrittenInv, Holds
  <2> QED
    BY <1>3, <1>4, <2>1, <2>2, EndsIn
<1>5. CASE path' = partial /\ partial' = NoFile /\ pc' = "ok"
  <2>1. ExportTypeOK' /\ PhaseInv'
    BY <1>1, <1>2, <1>5, EmptyFiles DEF ExportTypeOK, PhaseInv, Ended, ExportSteps
  <2> DEFINE o == ctx.op
  <2>2. o \in Ops
    BY <1>1 DEF WrittenInv, OnlyHolder, ExportTypeOK
  <2>3. /\ Stored(o)' = Stored(o) /\ (Defects(o)' <=> Defects(o))
        /\ \A p \in Stored(o) : Rank(o, p)' = Rank(o, p) /\ ValueAt(o, p)' = ValueAt(o, p)
    BY <1>2, <1>3, <2>2, SameStored
  <2>4. Holds(path, o)'
    BY <1>1, <1>5, <2>3 DEF WrittenInv, Holds, Tells, Shows
  <2>5. OnlyHolder(o)'
    BY <1>1, <1>2, <1>3, <2>2, ContextKept DEF WrittenInv
  <2>6. WrittenInv(IF cmd.target = "file" THEN path ELSE out)'
    BY <1>1, <1>2, <2>3, <2>4, <2>5 DEF WrittenInv
  <2>7. PathIsWhole'
    BY <1>2, <1>5, <2>2, <2>4 DEF PathIsWhole, NoFile
  <2> QED
    BY <1>1, <1>2, <1>5, <2>1, <2>6, <2>7 DEF IInv
<1> QED
  BY <1>4, <1>5 DEF Rename

LEMMA KillInv ==
  ASSUME IInv, Kill
  PROVE  IInv'
<1>1. ExportTypeOK /\ PhaseInv
  BY DEF IInv
<1>2. pc' = "killed" /\ UNCHANGED <<sp, cmd, ctx, at, left, sink, malformed, out, partial, path>>
  BY DEF Kill, export, saved
<1>3. ExportTypeOK' /\ PhaseInv'
  BY <1>1, <1>2 DEF ExportTypeOK, PhaseInv, Ended, ExportSteps
<1>4. StillThere
  BY <1>1, <1>2, UnchangedThere
<1> QED
  BY <1>2, <1>3, <1>4, EndsIn

LEMMA NextInv == IInv /\ [Next]_vars => IInv'
<1> SUFFICES ASSUME IInv, [Next]_vars PROVE IInv'
  OBVIOUS
<1>1. CASE Command
  BY <1>1, StartKeeps
<1>2. CASE Step
  BY <1>2, ListKeeps, CreateKeeps, ResolveKeeps, SkipStreamInv, SkipBlockInv, ReadBlockInv,
     RowsInv, WriteFailsInv, FinishInv, RenameInv DEF Step
<1>3. CASE Kill
  BY <1>3, KillInv
<1>4. ASSUME NEW o \in Ops, NEW i \in DOMAIN sp[o], Lose(o, i) PROVE IInv'
  <2>1. StillThere
    BY <1>4, LostThere DEF IInv
  <2> QED
    BY <1>4, <2>1, LostKeeps DEF Lose
<1>5. CASE UNCHANGED vars
  <2>1. StillThere
    BY <1>5, UnchangedThere DEF IInv, vars
  <2> QED
    BY <1>5, <2>1, LostKeeps DEF vars
<1> QED
  BY <1>1, <1>2, <1>3, <1>4, <1>5 DEF Next

\* The commands keep the invariant, for every savepoint: between two steps of
\* export_state_rows, the rows in the file, in the batch and still to come are the values
\* passed, in order.
THEOREM ExportInvariant == Spec => []IInv
BY InitInv, NextInv, PTL DEF Spec

\* SuccessIsWhole: a command that says it succeeded told every value stored, a NaN or an
\* infinity as a null, whatever files could not be read or were lost while it ran
\* (export_state_rows, list_states).
THEOREM SuccessfulIsWhole == Spec => []SuccessIsWhole
<1>1. IInv => SuccessIsWhole
  <2> SUFFICES ASSUME IInv, pc = "ok" PROVE SuccessIsWhole
    BY DEF SuccessIsWhole
  <2>1. cmd.what \in {"list", "export"}
    BY DEF IInv, ExportTypeOK, PhaseInv
  <2>2. CASE cmd.what = "list"
    BY <2>2 DEF IInv, AllListed, SuccessIsWhole
  <2>3. CASE cmd.what = "export"
    <3>1. WrittenInv(IF cmd.target = "file" THEN path ELSE out)
      BY <2>3 DEF IInv
    <3> QED
      BY <2>3, <3>1 DEF WrittenInv, OnlyHolder, SuccessIsWhole
  <2> QED
    BY <2>1, <2>2, <2>3
<1> QED
  BY <1>1, ExportInvariant, PTL

\* PathIsWhole: the file asked for is only ever a whole export, and an error before the
\* rename removes the side file (write_then_rename).
THEOREM PathsAreWhole == Spec => []PathIsWhole
<1>1. IInv => PathIsWhole
  BY DEF IInv
<1> QED
  BY <1>1, ExportInvariant, PTL

-----------------------------------------------------------------------------
(***************************************************************************)
(* JsonExport.                                                             *)
(***************************************************************************)

Steps == {"none", "create", "check", "write", "rename", "remove", "sent", "ended"}

\* Where a worker has a .partial that it will rename or remove.
Busy == {"check", "write", "rename", "remove"}
Excused == kept \/ crashes > 0

\* Any number of explorers: somebody is busy with the .partial, or it has an excuse.
LeftInv ==
    /\ wk \in [Explorers -> Steps]
    /\ job \in [Explorers -> BOOLEAN]
    /\ crashes \in Nat
    /\ \A e \in Explorers : Working(e) => job[e]
    /\ tmp # None => Excused \/ \E e \in Explorers : wk[e] \in Busy

LEMMA LeftInit == JsonInit => LeftInv
BY DEF JsonInit, LeftInv, Steps, Working

\* A worker takes a step, and does not leave a .partial without an excuse.
LEMMA WorkerLeaves ==
  ASSUME LeftInv, NEW e \in Explorers, Working(e), NEW s \in Steps, Goto(e, s),
         UNCHANGED <<job, crashes>>, kept => kept',
         tmp' # None => Excused' \/ s \in Busy \/ (tmp # None /\ wk[e] \notin Busy)
  PROVE  LeftInv'
<1>1. /\ wk' \in [Explorers -> Steps] /\ wk'[e] = s
      /\ \A d \in Explorers \ {e} : wk'[d] = wk[d]
  BY DEF LeftInv, Goto
<1>2. ASSUME tmp' # None
      PROVE  Excused' \/ \E d \in Explorers : wk'[d] \in Busy
  <2>1. CASE Excused' \/ s \in Busy
    BY <1>1, <2>1
  <2>2. CASE tmp # None /\ wk[e] \notin Busy
    BY <1>1, <2>2 DEF LeftInv, Excused
  <2> QED
    BY <1>2, <2>1, <2>2
<1>3. \A d \in Explorers : Working(d)' => job'[d]
  BY <1>1 DEF LeftInv, Working
<1> QED
  BY <1>1, <1>2, <1>3 DEF LeftInv

\* The event loop changes the place of a worker that is not busy, if any.
LEMMA LoopLeaves ==
  ASSUME LeftInv, NEW e \in Explorers, NEW s \in Steps \ Busy, NEW b \in BOOLEAN,
         wk' = [wk EXCEPT ![e] = s], job' = [job EXCEPT ![e] = b],
         s \notin {"none", "ended"} => b, tmp' = tmp, kept' = kept,
         \/ crashes' = crashes /\ wk[e] \notin Busy
         \/ crashes' = crashes + 1
  PROVE  LeftInv'
<1>1. /\ wk' \in [Explorers -> Steps] /\ wk'[e] = s
      /\ \A d \in Explorers \ {e} : wk'[d] = wk[d] /\ job'[d] = job[d]
      /\ job' \in [Explorers -> BOOLEAN] /\ job'[e] = b
  BY DEF LeftInv
<1>2. crashes' \in Nat /\ (crashes > 0 => crashes' > 0) /\ (crashes' # crashes => crashes' > 0)
  BY DEF LeftInv
<1>3. \A d \in Explorers : Working(d)' => job'[d]
  BY <1>1 DEF LeftInv, Working
<1>4. ASSUME tmp' # None
      PROVE  Excused' \/ \E d \in Explorers : wk'[d] \in Busy
  BY <1>1, <1>2, <1>4 DEF LeftInv, Excused
<1> QED
  BY <1>1, <1>2, <1>3, <1>4 DEF LeftInv

\* Nothing of this changes.
LEMMA NothingLeaves ==
  ASSUME LeftInv, UNCHANGED <<wk, job, tmp, kept, crashes>>
  PROVE  LeftInv'
BY DEF LeftInv, Excused, Working

LEMMA LeftNext == LeftInv /\ [JsonNext]_jsonVars => LeftInv'
<1> SUFFICES ASSUME LeftInv, [JsonNext]_jsonVars PROVE LeftInv'
  OBVIOUS
<1>1. CASE UNCHANGED jsonVars
  BY <1>1, NothingLeaves DEF jsonVars, files, screen, thread
<1> SUFFICES ASSUME NEW e \in Explorers,
                    \/ WorkerRuns(e) \/ ExportFails(e)
                    \/ KeyE(e) \/ KeyQ(e) \/ CtrlC(e) \/ OtherKey(e) \/ Poll(e)
                    \/ Exit(e) \/ Crash(e) \/ Open(e)
             PROVE  LeftInv'
  BY <1>1 DEF JsonNext
<1>2. CASE CreateTmp(e)
  BY <1>2, WorkerLeaves DEF CreateTmp, Working, Steps, Busy, screen
<1>3. CASE Check(e)
  BY <1>3, WorkerLeaves DEF Check, Working, Steps, Busy, screen, files
<1>4. CASE WritePage(e)
  BY <1>4, WorkerLeaves DEF WritePage, Working, Steps, Busy, screen
<1>5. CASE RenameTmp(e)
  <2>1. Working(e) /\ wk[e] = "rename" /\ UNCHANGED <<job, crashes>> /\ Goto(e, "sent") /\ "sent" \in Steps
    BY <1>5 DEF RenameTmp, Done, Working, Steps, screen
  <2>2. CASE tmp' = None /\ UNCHANGED kept
    BY <2>1, <2>2, WorkerLeaves
  <2>3. CASE kept' = TRUE
    BY <2>1, <2>3, WorkerLeaves DEF Excused
  <2> QED
    BY <1>5, <2>2, <2>3 DEF RenameTmp
<1>6. CASE RemoveTmp(e)
  BY <1>6, WorkerLeaves DEF RemoveTmp, Done, Working, Steps, screen
<1>7. CASE ThreadEnds(e)
  BY <1>7, WorkerLeaves DEF ThreadEnds, Working, Steps, Busy, screen, files
<1>8. CASE ExportFails(e)
  BY <1>8, WorkerLeaves DEF ExportFails, Working, Steps, Busy, screen, files
<1>9. CASE KeyE(e)
  <2>1. UNCHANGED <<tmp, kept, crashes>>
    BY <1>9 DEF KeyE, files
  <2>2. CASE Exporting(e) /\ UNCHANGED <<job, thread>>
    BY <2>1, <2>2, NothingLeaves DEF thread
  <2>3. CASE ~Exporting(e) /\ job' = [job EXCEPT ![e] = TRUE] /\ Goto(e, "create")
    <3>1. ~Working(e)
      BY <2>3 DEF Exporting, LeftInv
    <3>2. wk[e] \notin Busy /\ "create" \in Steps \ Busy
      BY <3>1 DEF Working, Busy, Steps
    <3>3. wk' = [wk EXCEPT ![e] = "create"]
      BY <2>3 DEF Goto
    <3> QED
      BY <2>1, <2>3, <3>2, <3>3, LoopLeaves
  <2> QED
    BY <1>9, <2>2, <2>3 DEF KeyE
<1>10. CASE KeyQ(e) \/ CtrlC(e) \/ OtherKey(e) \/ Open(e)
  BY <1>10, NothingLeaves DEF KeyQ, CtrlC, OtherKey, Open, files, thread
<1>11. CASE Poll(e)
  <2>1. UNCHANGED <<tmp, kept, crashes>>
    BY <1>11 DEF Poll, files
  <2>2. CASE wk[e] = "ended"
    <3>1. wk' = [wk EXCEPT ![e] = "none"] /\ job' = [job EXCEPT ![e] = FALSE]
      BY <1>11, <2>2 DEF Poll, ForgetJob, Goto
    <3>2. wk[e] \notin Busy /\ "none" \in Steps \ Busy
      BY <2>2 DEF Busy, Steps
    <3> QED
      BY <2>1, <3>1, <3>2, LoopLeaves
  <2>3. CASE wk[e] # "ended"
    BY <1>11, <2>1, <2>3, NothingLeaves DEF Poll
  <2> QED
    BY <2>2, <2>3
<1>12. CASE Exit(e) \/ Crash(e)
  <2>1. /\ wk' = [wk EXCEPT ![e] = "none"] /\ job' = [job EXCEPT ![e] = FALSE]
        /\ tmp' = tmp /\ kept' = kept
    BY <1>12 DEF Exit, Crash, Gone, files
  <2>2. "none" \in Steps \ Busy
    BY DEF Busy, Steps
  <2>3. (crashes' = crashes /\ wk[e] \notin Busy) \/ crashes' = crashes + 1
    BY <1>12 DEF Exit, Crash, Working, Busy
  <2> QED
    BY <2>1, <2>2, <2>3, LoopLeaves
<1> QED
  BY <1>2, <1>3, <1>4, <1>5, <1>6, <1>7, <1>8, <1>9, <1>10, <1>11, <1>12 DEF WorkerRuns

\* NothingLeftBehind, for any number of explorers: every path of export_json but a failed
\* rename ends with the .partial renamed or removed, and `q` and Ctrl-C wait for it.
THEOREM LeavesNothing == JsonSpec => []NothingLeftBehind
<1>1. LeftInv => NothingLeftBehind
  BY DEF LeftInv, NothingLeftBehind, Excused, Working, Busy
<1> QED
  BY <1>1, LeftInit, LeftNext, PTL DEF JsonSpec

-----------------------------------------------------------------------------
(***************************************************************************)
(* One explorer.                                                           *)
(***************************************************************************)

Writing == {"check", "write", "rename"}

\* The variables hold what their declarations say.
Typed ==
    /\ tmp \in Files \cup {None} /\ final \in Files \cup {None}
    /\ data \in [Files -> SUBSET (1 .. Pages)]
    /\ wk \in [Explorers -> Steps]
    /\ file \in [Explorers -> Files \cup {None}]
    /\ page \in [Explorers -> 0 .. Pages]
    /\ result \in [Explorers -> {"none", "ok", "err"}]
    /\ status \in [Explorers -> {"none", "exporting", "running", "exported", "failed", "confirm"}]

\* A worker writes the .partial, its pages in order; what it says is so.
WriterInv(e) ==
    /\ wk[e] \in Writing =>
          /\ tmp # None /\ file[e] = tmp
          /\ data[tmp] = 1 .. page[e]
          /\ IF wk[e] = "rename" THEN page[e] = Pages ELSE page[e] < Pages
    /\ wk[e] \notin Writing \cup {"remove"} => page[e] = 0
    /\ result[e] = "ok" \/ status[e] = "exported" => final # None

\* The files have different names, and the real one is whole.
WholeInv ==
    /\ Typed
    /\ final # None => tmp # final /\ Whole(final)
    /\ \A e \in Explorers : WriterInv(e)

LEMMA WholeInit == JsonInit => WholeInv
<1> SUFFICES ASSUME JsonInit PROVE WholeInv
  OBVIOUS
<1>1. 0 \in 0 .. Pages
  BY JsonExportAssumption
<1> QED
  BY <1>1 DEF JsonInit, WholeInv, Typed, WriterInv, Steps, Writing

\* With one explorer there are three files, and so one that is unused.
LEMMA SomeUnused ==
  ASSUME NEW x, Explorers = {x}, WholeInv, tmp = None
  PROVE  \E f \in Unused : TRUE
<1>1. Cardinality(Explorers) = 1
  BY FS_Singleton
<1>2. 1 \in Files /\ 2 \in Files /\ 3 \in Files
  BY <1>1 DEF Files
<1>3. \E f \in {1, 2, 3} : f # final /\ f # file[x] /\ f # None
  BY DEF None
<1> QED
  BY <1>2, <1>3 DEF Unused

\* A new .partial: the old one of that name, emptied, or an unused file.
LEMMA CreateWhole ==
  ASSUME NEW x, Explorers = {x}, WholeInv, CreateTmp(x)
  PROVE  WholeInv'
<1> DEFINE f == IF tmp # None THEN tmp ELSE CHOOSE f \in Unused : TRUE
<1>1. /\ wk[x] = "create" /\ tmp' = f /\ data' = [data EXCEPT ![f] = {}]
      /\ file' = [file EXCEPT ![x] = f] /\ wk' = [wk EXCEPT ![x] = "check"]
      /\ UNCHANGED <<final, page, status, result>>
  BY DEF CreateTmp, Goto, screen
<1>2. Typed /\ WriterInv(x) /\ (final # None => tmp # final /\ Whole(final))
  BY DEF WholeInv
<1>3. f \in Files /\ f # final /\ f # None
  <2>1. CASE tmp # None
    BY <1>2, <2>1 DEF Typed
  <2>2. CASE tmp = None
    <3>1. f \in Unused
      BY <2>2, SomeUnused
    <3> QED
      BY <3>1 DEF Unused, Files, None
  <2> QED
    BY <2>1, <2>2
<1> HIDE DEF f
<1>4. page[x] = 0
  BY <1>1, <1>2 DEF WriterInv, Writing
<1>5. Typed'
  BY <1>1, <1>2, <1>3 DEF Typed, Steps
<1>6. wk'[x] = "check" /\ file'[x] = f /\ data'[f] = {} /\ \A g \in Files : g # f => data'[g] = data[g]
  BY <1>1, <1>2, <1>3 DEF Typed
<1>7. final' # None => tmp' # final' /\ Whole(final)'
  BY <1>1, <1>2, <1>3, <1>6 DEF Whole, Typed
<1>8. WriterInv(x)'
  <2>1. 1 .. 0 = {} /\ 0 < Pages
    BY JsonExportAssumption
  <2> QED
    BY <1>1, <1>2, <1>3, <1>4, <1>6, <2>1 DEF WriterInv, Writing
<1> QED
  BY <1>5, <1>7, <1>8 DEF WholeInv

\* A page more.
LEMMA WriteWhole ==
  ASSUME NEW x, Explorers = {x}, WholeInv, WritePage(x)
  PROVE  WholeInv'
<1> DEFINE p == page[x] + 1
           s == IF p = Pages THEN "rename" ELSE "check"
<1>1. /\ wk[x] = "write" /\ page' = [page EXCEPT ![x] = p]
      /\ data' = [data EXCEPT ![file[x]] = data[file[x]] \cup {p}]
      /\ wk' = [wk EXCEPT ![x] = s]
      /\ UNCHANGED <<tmp, final, file, status, result>>
  BY DEF WritePage, Goto, screen
<1>2. Typed /\ WriterInv(x) /\ (final # None => tmp # final /\ Whole(final))
  BY DEF WholeInv
<1>3. /\ tmp # None /\ file[x] = tmp /\ tmp \in Files /\ data[tmp] = 1 .. page[x]
      /\ page[x] < Pages /\ page[x] \in 0 .. Pages
  BY <1>1, <1>2 DEF WriterInv, Writing, Typed
<1>4. /\ p \in 0 .. Pages /\ p \in 1 .. Pages /\ (1 .. page[x]) \cup {p} = 1 .. p
      /\ IF s = "rename" THEN p = Pages ELSE p < Pages
  BY <1>3, JsonExportAssumption
<1>5. s \in Steps /\ s \in Writing
  BY DEF Steps, Writing
<1> HIDE DEF p, s
<1>6. data[tmp] \cup {p} \in SUBSET (1 .. Pages)
  BY <1>2, <1>3, <1>4 DEF Typed
<1>7. Typed'
  BY <1>1, <1>2, <1>3, <1>4, <1>5, <1>6 DEF Typed
<1>8. /\ wk'[x] = s /\ page'[x] = p /\ data'[tmp] = 1 .. p
      /\ \A g \in Files : g # tmp => data'[g] = data[g]
  BY <1>1, <1>2, <1>3, <1>4 DEF Typed
<1>9. final' # None => tmp' # final' /\ Whole(final)'
  BY <1>1, <1>2, <1>8 DEF Whole, Typed
<1>10. WriterInv(x)'
  BY <1>1, <1>2, <1>3, <1>4, <1>5, <1>8 DEF WriterInv
<1> QED
  BY <1>7, <1>9, <1>10 DEF WholeInv

\* The worker's last message, with the file names it leaves.
LEMMA DoneWhole ==
  ASSUME NEW x, Explorers = {x}, WholeInv, NEW r \in {"ok", "err"}, Done(x, r),
         UNCHANGED <<data, screen>>, tmp' \in {tmp, None},
         \/ final' = final /\ r = "err"
         \/ wk[x] = "rename" /\ final' = tmp /\ tmp' = None
  PROVE  WholeInv'
<1>1. /\ result' = [result EXCEPT ![x] = r] /\ file' = [file EXCEPT ![x] = None]
      /\ page' = [page EXCEPT ![x] = 0] /\ wk' = [wk EXCEPT ![x] = "sent"]
      /\ UNCHANGED <<data, status>>
  BY DEF Done, Goto, screen
<1>2. Typed /\ WriterInv(x) /\ (final # None => tmp # final /\ Whole(final))
  BY DEF WholeInv
<1>3. final' \in Files \cup {None} /\ 0 \in 0 .. Pages
  BY <1>2, JsonExportAssumption DEF Typed
<1>4. Typed'
  BY <1>1, <1>2, <1>3 DEF Typed, Steps
<1>5. wk'[x] = "sent" /\ page'[x] = 0 /\ result'[x] = r /\ status'[x] = status[x]
  BY <1>1, <1>2 DEF Typed
<1>6. wk[x] = "rename" => Whole(tmp) /\ tmp # None
  BY <1>2 DEF WriterInv, Writing, Whole
<1>7. final' # None => tmp' # final' /\ Whole(final)'
  BY <1>1, <1>2, <1>6 DEF Whole
<1>8. final # None => final' # None
  BY <1>6
<1>9. r = "ok" => final' # None
  BY <1>6
<1>10. WriterInv(x)'
  BY <1>2, <1>5, <1>8, <1>9 DEF WriterInv, Writing
<1> QED
  BY <1>4, <1>7, <1>10 DEF WholeInv

\* A step that leaves the files alone: the worker goes on, is removed or is new.
LEMMA ElseWhole ==
  ASSUME NEW x, Explorers = {x}, WholeInv, UNCHANGED files,
         wk' \in [Explorers -> Steps], file' \in [Explorers -> Files \cup {None}],
         page' \in [Explorers -> 0 .. Pages], result' \in [Explorers -> {"none", "ok", "err"}],
         status' \in [Explorers -> {"none", "exporting", "running", "exported", "failed", "confirm"}],
         \/ file'[x] = file[x] /\ page'[x] = page[x] /\ (wk'[x] = wk[x] \/ (wk[x] = "check" /\ wk'[x] = "write"))
         \/ wk'[x] \notin Writing \cup {"remove"} /\ page'[x] = 0
         \/ wk'[x] = "remove",
         result'[x] = "ok" => result[x] = "ok",
         status'[x] = "exported" => status[x] = "exported" \/ result[x] = "ok"
  PROVE  WholeInv'
<1>1. UNCHANGED <<tmp, final, data>>
  BY DEF files
<1>2. Typed /\ WriterInv(x) /\ (final # None => tmp # final /\ Whole(final))
  BY DEF WholeInv
<1>3. Typed'
  BY <1>1, <1>2 DEF Typed
<1>4. final' # None => tmp' # final' /\ Whole(final)'
  BY <1>1, <1>2 DEF Whole
<1>5. WriterInv(x)'
  BY <1>1, <1>2 DEF WriterInv, Writing
<1> QED
  BY <1>3, <1>4, <1>5 DEF WholeInv

LEMMA WholeNext ==
  ASSUME NEW x, Explorers = {x}
  PROVE  WholeInv /\ LeftInv /\ [JsonNext]_jsonVars => WholeInv'
<1> SUFFICES ASSUME WholeInv, LeftInv, [JsonNext]_jsonVars PROVE WholeInv'
  OBVIOUS
<1>1. Typed /\ WriterInv(x)
  BY DEF WholeInv
<1>2. CASE UNCHANGED jsonVars
  BY <1>1, <1>2, ElseWhole DEF Typed, jsonVars, screen, thread
<1> SUFFICES ASSUME \/ WorkerRuns(x) \/ ExportFails(x)
                    \/ KeyE(x) \/ KeyQ(x) \/ CtrlC(x) \/ OtherKey(x) \/ Poll(x)
                    \/ Exit(x) \/ Crash(x) \/ Open(x)
             PROVE  WholeInv'
  BY <1>2 DEF JsonNext
<1>3. CASE CreateTmp(x)
  BY <1>3, CreateWhole
<1>4. CASE Check(x)
  <2>1. /\ wk[x] = "check" /\ UNCHANGED <<files, file, page, result, status>>
        /\ wk' = [wk EXCEPT ![x] = IF cancel[x] THEN "remove" ELSE "write"]
    BY <1>4 DEF Check, Goto, screen
  <2> QED
    BY <1>1, <2>1, ElseWhole DEF Typed, Steps
<1>5. CASE WritePage(x)
  BY <1>5, WriteWhole
<1>6. CASE RenameTmp(x)
  <2>1. wk[x] = "rename" /\ UNCHANGED <<data, screen>>
    BY <1>6 DEF RenameTmp
  <2>2. CASE tmp # None /\ final' = tmp /\ tmp' = None /\ Done(x, "ok")
    BY <2>1, <2>2, DoneWhole
  <2>3. CASE Done(x, "err") /\ UNCHANGED <<tmp, final>>
    BY <2>1, <2>3, DoneWhole
  <2> QED
    BY <1>6, <2>2, <2>3 DEF RenameTmp
<1>7. CASE RemoveTmp(x)
  BY <1>7, DoneWhole DEF RemoveTmp
<1>8. CASE ThreadEnds(x)
  <2>1. /\ wk[x] = "sent" /\ UNCHANGED <<files, file, page, result, status>>
        /\ wk' = [wk EXCEPT ![x] = "ended"]
    BY <1>8 DEF ThreadEnds, Goto, screen
  <2>2. page[x] = 0
    BY <1>1, <2>1 DEF WriterInv, Writing
  <2> QED
    BY <1>1, <2>1, <2>2, ElseWhole DEF Typed, Steps, Writing
<1>9. CASE ExportFails(x)
  <2>1. UNCHANGED <<files, file, page, result, status>> /\ wk' = [wk EXCEPT ![x] = "remove"]
    BY <1>9 DEF ExportFails, Goto, screen
  <2> QED
    BY <1>1, <2>1, ElseWhole DEF Typed, Steps
<1>10. CASE KeyE(x)
  <2>1. UNCHANGED files
    BY <1>10 DEF KeyE
  <2>2. CASE Exporting(x) /\ Say(x, "running") /\ UNCHANGED <<job, thread>>
    <3>1. status' = [status EXCEPT ![x] = "running"] /\ UNCHANGED <<wk, file, page, result>>
      BY <2>2 DEF Say, thread
    <3> QED
      BY <1>1, <2>1, <3>1, ElseWhole DEF Typed
  <2>3. CASE /\ ~Exporting(x) /\ Goto(x, "create") /\ result' = [result EXCEPT ![x] = "none"]
             /\ Say(x, "exporting") /\ UNCHANGED <<file, page>>
    <3>1. wk[x] \in {"none", "ended"}
      BY <2>3 DEF Exporting, Working, LeftInv
    <3>2. page[x] = 0
      BY <1>1, <3>1 DEF WriterInv, Writing
    <3>3. /\ wk' = [wk EXCEPT ![x] = "create"] /\ result' = [result EXCEPT ![x] = "none"]
          /\ status' = [status EXCEPT ![x] = "exporting"] /\ UNCHANGED <<file, page>>
      BY <2>3 DEF Goto, Say
    <3> QED
      BY <1>1, <2>1, <3>2, <3>3, ElseWhole DEF Typed, Steps, Writing
  <2> QED
    BY <1>10, <2>2, <2>3 DEF KeyE
<1>11. CASE KeyQ(x)
  <2>1. /\ UNCHANGED <<files, wk, file, page, result>>
        /\ UNCHANGED status \/ status' = [status EXCEPT ![x] = "confirm"]
    BY <1>11 DEF KeyQ, Say
  <2> QED
    BY <1>1, <2>1, ElseWhole DEF Typed
<1>12. CASE CtrlC(x) \/ OtherKey(x) \/ Open(x)
  <2>1. UNCHANGED <<files, wk, file, page, result, status>>
    BY <1>12 DEF CtrlC, OtherKey, Open, thread
  <2> QED
    BY <1>1, <2>1, ElseWhole DEF Typed
<1>13. CASE Poll(x)
  <2>1. /\ UNCHANGED <<files, file, page>> /\ result' = [result EXCEPT ![x] = "none"]
        /\ status' = [status EXCEPT ![x] =
              CASE result[x] = "ok" -> "exported" [] result[x] = "err" -> "failed" [] OTHER -> status[x]]
    BY <1>13 DEF Poll
  <2>2. wk' = wk \/ (wk[x] = "ended" /\ wk' = [wk EXCEPT ![x] = "none"])
    BY <1>13 DEF Poll, ForgetJob, Goto
  <2>3. result[x] \in {"none", "ok", "err"} /\ (wk[x] = "ended" => page[x] = 0)
    BY <1>1 DEF Typed, WriterInv, Writing
  <2>4. /\ status' \in [Explorers -> {"none", "exporting", "running", "exported", "failed", "confirm"}]
        /\ status'[x] = "exported" => status[x] = "exported" \/ result[x] = "ok"
    BY <1>1, <2>1, <2>3 DEF Typed
  <2>5. /\ wk' \in [Explorers -> Steps]
        /\ wk'[x] = wk[x] \/ (wk'[x] = "none" /\ page[x] = 0)
    BY <1>1, <2>2, <2>3 DEF Typed, Steps
  <2> QED
    BY <1>1, <2>1, <2>4, <2>5, ElseWhole DEF Typed, Writing
<1>14. CASE Exit(x) \/ Crash(x)
  <2>1. /\ UNCHANGED files /\ wk' = [wk EXCEPT ![x] = "none"] /\ file' = [file EXCEPT ![x] = None]
        /\ page' = [page EXCEPT ![x] = 0] /\ result' = [result EXCEPT ![x] = "none"]
        /\ status' = [status EXCEPT ![x] = "none"]
    BY <1>14 DEF Exit, Crash, Gone, Say
  <2>2. 0 \in 0 .. Pages
    BY JsonExportAssumption
  <2> QED
    BY <1>1, <2>1, <2>2, ElseWhole DEF Typed, Steps, Writing
<1> QED
  BY <1>3, <1>4, <1>5, <1>6, <1>7, <1>8, <1>9, <1>10, <1>11, <1>12, <1>13, <1>14 DEF WorkerRuns

\* ExportWhole, when one explorer has the savepoint open: the real name is given only to
\* a .partial whose pages were all written, and an export that was reported is there.
THEOREM ExportsWhole ==
  ASSUME NEW x, Explorers = {x}
  PROVE  JsonSpec => []ExportWhole
<1>1. JsonInit => WholeInv /\ LeftInv
  BY WholeInit, LeftInit
<1>2. WholeInv /\ LeftInv /\ [JsonNext]_jsonVars => WholeInv' /\ LeftInv'
  BY WholeNext, LeftNext
<1>3. WholeInv => ExportWhole
  BY DEF WholeInv, WriterInv, ExportWhole
<1> QED
  BY <1>1, <1>2, <1>3, PTL DEF JsonSpec
=============================================================================
