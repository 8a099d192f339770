--------------------------- MODULE KeyCounts_proofs ---------------------------
(***************************************************************************)
(* Proofs about KeyCounts, for any number of explorers, operators, pages   *)
(* and versions of _metadata.                                              *)
(***************************************************************************)
EXTENDS KeyCounts, Kept_proofs, SequenceTheorems

Entries == [op : Ops, ver : Versions, keys : 0 .. Pages]
Files == [head : 0 .. MaxVersions, body : Seq(Entries), whole : BOOLEAN, synced : BOOLEAN]
Msgs == [kind : {"progress", "done"}, op : Ops, keys : 0 .. Pages, complete : BOOLEAN]
Workers == [at : {"none", "run", "ended"}, todo : Seq(Ops), pages : 0 .. Pages,
            keys : 0 .. Pages, ok : BOOLEAN]

\* The variables hold what their declarations say.
Typed ==
    /\ meta \in Versions
    /\ cache \in Files
    /\ older \subseteq Files
    /\ temp \in [Explorers -> Files]
    /\ ui \in [Explorers -> UiSteps]
    /\ opened \in [Explorers -> 0 .. MaxVersions]
    /\ shown \in [Explorers -> [Ops -> Counts]]
    /\ browsed \in [Explorers -> [Ops -> Browsing]]
    /\ counted \in [Explorers -> Seq(Entries)]
    /\ complete \in [Explorers -> BOOLEAN]
    /\ job \in [Explorers -> BOOLEAN]
    /\ fin \in [Explorers -> BOOLEAN]
    /\ head \in [Explorers -> 0 .. MaxVersions]
    /\ wk \in [Explorers -> Workers]
    /\ cancel \in [Explorers -> BOOLEAN]
    /\ chan \in [Explorers -> Seq(Msgs)]
    /\ overtaken \subseteq Versions \X Versions

\* v is w, or an explorer had v open when w came (ov, the pairs overtaken).
Near(ov, v, w) == v = w \/ <<v, w>> \in ov

\* Who had u open when w came had it open when each version between them came.
OvertakenInv ==
    \A u, w \in Versions : <<u, w>> \in overtaken =>
       /\ u < w /\ w <= meta
       /\ \A x \in Versions : u < x /\ x <= w => <<u, x>> \in overtaken

\* No operator twice.
OpsOnce(body) == \A i, j \in 1 .. Len(body) : body[i].op = body[j].op => i = j

\* Every file a power loss can leave is whole, on disk, and exact of the version it
\* names or of one that was open when that came.
FileInv(ov, f) ==
    /\ f.whole /\ f.synced
    /\ \/ f = NoFile
       \/ \E v \in Versions : Exactly(v, f.body) /\ Near(ov, v, f.head) /\ OpsOnce(f.body)
FilesInv == FileInv(overtaken, cache) /\ \A f \in older : FileInv(overtaken, f)

Within(t, o) == \E k \in 1 .. Len(t) : t[k] = o
Once(t) == \A k, l \in 1 .. Len(t) : t[k] = t[l] => k = l
Done(m) == m.kind = "done"

WorkerInv(e) ==
    /\ Once(wk[e].todo)
    /\ ~Working(e) => wk[e].todo = <<>>
    /\ wk[e].pages < Pages
    /\ wk[e].keys <= wk[e].pages
    /\ wk[e].ok => wk[e].keys = wk[e].pages
    /\ cancel[e] <=> At(e, "quit")
    /\ fin[e] => At(e, "drain") /\ ~Working(e)
    /\ ~job[e] /\ ~At(e, "quit") => ~Working(e) /\ chan[e] = <<>>

\* The channel ch of a worker with t to count: it has said Done of an operator once
\* and last, or has it still to count; none is shown (sh) with an exact count yet.
Later(ch, i, o) == \E j \in 1 .. Len(ch) : i < j /\ Done(ch[j]) /\ ch[j].op = o
MessagesOk(ch, t, sh) ==
    \A i \in 1 .. Len(ch) :
       /\ Done(ch[i]) /\ ch[i].complete => ch[i].keys = Pages
       /\ Done(ch[i]) => ~Within(t, ch[i].op)
       /\ Done(ch[i]) => \A j \in 1 .. Len(ch) : i < j => ch[j].op # ch[i].op
       /\ ~Done(ch[i]) => Within(t, ch[i].op) \/ Later(ch, i, ch[i].op)
       /\ sh[ch[i].op].kind # "exact"

\* What is shown as exact is (of version v), and is not counted again; what is
\* shown as being counted, and not browsed past, will be heard of.
ExactOk(sh, t, v) ==
    \A o \in Ops : sh[o].kind = "exact" => sh[o].ver = v /\ sh[o].keys = Pages /\ ~Within(t, o)
Heard(ch, t, o) == Within(t, o) \/ \E i \in 1 .. Len(ch) : Done(ch[i]) /\ ch[i].op = o
CountingOk(sh, br, ch, t, running) ==
    \A o \in Ops : sh[o].kind = "counting" /\ br[o] = "part" => running /\ Heard(ch, t, o)

\* The counts kept for the cache.
CountedOk(cs, v, sh) ==
    /\ OpsOnce(cs)
    /\ \A i \in 1 .. Len(cs) : cs[i].ver = v /\ cs[i].keys = Pages /\ sh[cs[i].op].kind = "exact"

\* Counts of the version open; or of another one, all of them from the cache, of
\* which one was open when the other came. Then there is nothing left to count, so
\* nothing will be saved.
CountsOf(sh, t, cs, v) == ExactOk(sh, t, v) /\ CountedOk(cs, v, sh)
CachedOk(ov, sh, t, cs, v0) ==
    /\ \A o \in Ops : sh[o].kind = "exact"
    /\ \E v \in Versions : (Near(ov, v, v0) \/ Near(ov, v0, v)) /\ CountsOf(sh, t, cs, v)

TodoInv(e) ==
    /\ MessagesOk(chan[e], wk[e].todo, shown[e])
    /\ CountingOk(shown[e], browsed[e], chan[e], wk[e].todo, job[e])
    /\ \/ CountsOf(shown[e], wk[e].todo, counted[e], opened[e])
       \/ /\ ui[e] = "idle" /\ ~job[e]
          /\ CachedOk(overtaken, shown[e], wk[e].todo, counted[e], opened[e])

\* What an explorer saves is what it has open and counted, under the name of a
\* version it has open or that came since.
SaveInv(e) ==
    /\ ui[e] \in {"closed", "quit"} => opened[e] = 0
    /\ ui[e] \notin {"closed", "quit"} => opened[e] \in Versions /\ Near(overtaken, opened[e], meta)
    /\ ui[e] \in SaveSteps => Exactly(opened[e], counted[e])
    /\ ui[e] \in SaveSteps \ {"head"} => Near(overtaken, opened[e], head[e])
    /\ ui[e] \in {"sync", "rename"} =>
          temp[e] = [head |-> head[e], body |-> counted[e], whole |-> TRUE,
                     synced |-> ui[e] = "rename"]
    /\ ui[e] \in {"closed", "load", "quit"} =>
          /\ ~job[e] /\ chan[e] = <<>> /\ counted[e] = <<>>
          /\ \A o \in Ops : shown[e][o].kind = "unknown"

ExplorerInv(e) == WorkerInv(e) /\ TodoInv(e) /\ SaveInv(e)

IInv ==
    /\ Typed
    /\ OvertakenInv
    /\ FilesInv
    /\ \A e \in Explorers : ExplorerInv(e)

-----------------------------------------------------------------------------
(***************************************************************************)
(* Lemmas the actions share.                                               *)
(***************************************************************************)

LEMMA NoFileIsFile == NoFile \in Files /\ \A ov : FileInv(ov, NoFile)
<1>1. <<>> \in Seq(Entries)
  OBVIOUS
<1>2. 0 \in 0 .. MaxVersions
  BY KeyCountsAssumption
<1> QED
  BY <1>1, <1>2 DEF NoFile, Files, FileInv

LEMMA UnknownIsCount == Unknown \in Counts /\ Unknown.kind = "unknown"
<1>1. 0 \in 0 .. MaxVersions /\ 0 \in 0 .. Pages
  BY KeyCountsAssumption
<1> QED
  BY <1>1 DEF Unknown, Counts

LEMMA NoWorkerIsWorker ==
  /\ NoWorker \in Workers /\ NoWorker.at = "none" /\ NoWorker.todo = <<>>
  /\ NoWorker.pages = 0 /\ NoWorker.keys = 0
<1>1. <<>> \in Seq(Ops) /\ 0 \in 0 .. Pages
  BY KeyCountsAssumption
<1> QED
  BY <1>1 DEF NoWorker, Workers

\* A new worker has its targets to count, each once.
LEMMA SpawnedWorker ==
  ASSUME NEW S \in SUBSET Ops
  PROVE  LET w == Spawned(S) IN
         /\ w \in Workers /\ w.at = "run" /\ w.pages = 0 /\ w.keys = 0
         /\ w.ok /\ Once(w.todo)
         /\ \A o : Within(w.todo, o) <=> o \in S
<1> DEFINE t == SetToSeq(S)
<1>1. IsFiniteSet(S)
  BY KeyCountsAssumption, FS_Subset
<1>2. /\ t \in Seq(S)
      /\ \A i, j \in 1 .. Len(t) : t[i] = t[j] => i = j
      /\ \A x \in S : \E i \in 1 .. Len(t) : t[i] = x
  BY <1>1, SetAsSeq
<1>3. Spawned(S) = [at |-> "run", todo |-> t, pages |-> 0, keys |-> 0, ok |-> TRUE]
  BY DEF Spawned
<1> HIDE DEF t
<1>4. \A i \in 1 .. Len(t) : t[i] \in S
  BY <1>2
<1>5. t \in Seq(Ops)
  BY <1>2, <1>4
<1>6. Spawned(S) \in Workers
  BY <1>3, <1>5, KeyCountsAssumption DEF Workers
<1>7. /\ Spawned(S).todo = t /\ Spawned(S).at = "run" /\ Spawned(S).pages = 0
      /\ Spawned(S).keys = 0 /\ Spawned(S).ok
  BY <1>3
<1>8. \A o : Within(t, o) <=> o \in S
  BY <1>2, <1>4 DEF Within
<1>9. Once(t)
  BY <1>2 DEF Once
<1> QED
  BY <1>6, <1>7, <1>8, <1>9

\* Whoever counts or saves has counts of the version it has open.
LEMMA OwnCounts ==
  ASSUME NEW e \in Explorers, TodoInv(e), job[e] \/ ui[e] # "idle"
  PROVE  /\ ExactOk(shown[e], wk[e].todo, opened[e])
         /\ CountedOk(counted[e], opened[e], shown[e])
BY DEF TodoInv, CountsOf

\* A step leaves an explorer alone whose values it leaves alone.
LEMMA OthersKeep ==
  ASSUME NEW e \in Explorers, ExplorerInv(e), meta' = meta, overtaken' = overtaken,
         temp'[e] = temp[e],
         ui'[e] = ui[e], opened'[e] = opened[e], shown'[e] = shown[e],
         browsed'[e] = browsed[e], counted'[e] = counted[e], job'[e] = job[e],
         fin'[e] = fin[e], head'[e] = head[e], wk'[e] = wk[e], cancel'[e] = cancel[e],
         chan'[e] = chan[e]
  PROVE  ExplorerInv(e)'
<1>1. WorkerInv(e)'
  BY DEF ExplorerInv, WorkerInv, Working, At
<1>2. TodoInv(e)'
  BY DEF ExplorerInv, TodoInv
<1>5. SaveInv(e)'
  BY DEF ExplorerInv, SaveInv, Exactly
<1> QED
  BY <1>1, <1>2, <1>5 DEF ExplorerInv

\* A step of explorer e leaves the values of the others alone.
OnlyFor(e) ==
    \A d \in Explorers \ {e} :
       /\ temp'[d] = temp[d] /\ ui'[d] = ui[d] /\ opened'[d] = opened[d]
       /\ shown'[d] = shown[d] /\ browsed'[d] = browsed[d] /\ counted'[d] = counted[d]
       /\ job'[d] = job[d] /\ fin'[d] = fin[d] /\ head'[d] = head[d] /\ wk'[d] = wk[d]
       /\ cancel'[d] = cancel[d] /\ chan'[d] = chan[d]

LEMMA StepKeeps ==
  ASSUME IInv, NEW e \in Explorers, Typed', FilesInv', meta' = meta, overtaken' = overtaken,
         OnlyFor(e), ExplorerInv(e)'
  PROVE  IInv'
<1>2. OvertakenInv'
  BY DEF IInv, OvertakenInv
<1>1. ASSUME NEW d \in Explorers, d # e
      PROVE  ExplorerInv(d)'
  BY <1>1, OthersKeep DEF IInv, OnlyFor
<1> QED
  BY <1>1, <1>2 DEF IInv

\* The position of an operator's last message.
LEMMA LastMessage ==
  ASSUME NEW msgs \in Seq(Msgs), NEW o
  PROVE  LET last == LastOf(msgs, o) IN
         \/ last = 0 /\ \A i \in 1 .. Len(msgs) : msgs[i].op # o
         \/ /\ last \in 1 .. Len(msgs) /\ msgs[last].op = o
            /\ \A i \in 1 .. Len(msgs) : msgs[i].op = o => i <= last
<1> DEFINE I == {i \in 1 .. Len(msgs) : msgs[i].op = o}
<1>1. LastOf(msgs, o) = IF I # {} THEN Max(I) ELSE 0
  BY DEF LastOf, SelectLastInSeq
<1>2. Len(msgs) \in Nat /\ I \subseteq Nat /\ \A x \in I : x <= Len(msgs)
  OBVIOUS
<1>3. CASE I = {}
  BY <1>1, <1>3
<1>4. CASE I # {}
  <2>1. Max(I) \in I /\ \A y \in I : y <= Max(I)
    <3> HIDE DEF I
    <3> QED
      BY <1>2, <1>4, MaxOfBounded
  <2> QED
    BY <1>1, <1>4, <2>1
<1> QED
  BY <1>3, <1>4

\* Entries of different operators: there are no more than operators, and when there
\* are as many, they are of all the operators.
LEMMA CountedBound ==
  ASSUME NEW body \in Seq(Entries), OpsOnce(body)
  PROVE  /\ Len(body) <= Cardinality(Ops)
         /\ Len(body) >= Cardinality(Ops) => {c.op : c \in Range(body)} = Ops
<1> DEFINE n == Len(body)
           f == [i \in 1 .. n |-> body[i].op]
<1>1. n \in Nat /\ IsFiniteSet(Ops) /\ Cardinality(Ops) \in Nat
  BY KeyCountsAssumption, FS_CardinalityType
<1>2. \A i \in 1 .. n : body[i].op \in Ops
  <2>1. \A i \in 1 .. n : body[i] \in Entries
    OBVIOUS
  <2> QED
    BY <2>1 DEF Entries
<1>3. f \in Injection(1 .. n, Ops)
  BY <1>2 DEF OpsOnce, Injection, IsInjective
<1>4. IsFiniteSet(1 .. n) /\ Cardinality(1 .. n) = n
  <2>1. n \in Nat
    BY <1>1
  <2> HIDE DEF n, f
  <2>2. IsFiniteSet(1 .. n) /\ Cardinality(1 .. n) = IF 1 > n THEN 0 ELSE n - 1 + 1
    BY <2>1, FS_Interval
  <2> QED
    BY <2>1, <2>2
<1>5. n <= Cardinality(Ops) /\ (n = Cardinality(Ops) <=> f \in Surjection(1 .. n, Ops))
  <2> HIDE DEF f, n
  <2> QED
    BY <1>1, <1>3, <1>4, FS_Injection
<1>6. n >= Cardinality(Ops) => f \in Surjection(1 .. n, Ops)
  <2> HIDE DEF f, n
  <2> QED
    BY <1>1, <1>5
<1>7. n >= Cardinality(Ops) => \A o \in Ops : \E i \in 1 .. n : body[i].op = o
  BY <1>6 DEF Surjection
<1>8. Range(body) = {body[i] : i \in 1 .. n}
  BY DEF Range
<1>9. n >= Cardinality(Ops) => {c.op : c \in Range(body)} = Ops
  <2> HIDE DEF f, n
  <2> QED
    BY <1>2, <1>7, <1>8
<1> QED
  BY <1>5, <1>9 DEF n

\* Nothing is counted, sent or shown before the first explorer opens the savepoint.
LEMMA InitInv == Init => IInv
<1> SUFFICES ASSUME Init PROVE IInv
  OBVIOUS
<1>1. Typed
  <2>1. meta \in Versions /\ cache \in Files /\ older \subseteq Files /\ temp \in [Explorers -> Files]
    BY NoFileIsFile, KeyCountsAssumption DEF Init, Versions
  <2>2. /\ ui \in [Explorers -> UiSteps] /\ opened \in [Explorers -> 0 .. MaxVersions]
        /\ head \in [Explorers -> 0 .. MaxVersions]
    BY KeyCountsAssumption DEF Init, UiSteps
  <2>3. shown \in [Explorers -> [Ops -> Counts]] /\ browsed \in [Explorers -> [Ops -> Browsing]]
    BY UnknownIsCount DEF Init, Browsing
  <2>4. counted \in [Explorers -> Seq(Entries)] /\ chan \in [Explorers -> Seq(Msgs)]
    <3>1. <<>> \in Seq(Entries) /\ <<>> \in Seq(Msgs)
      OBVIOUS
    <3> QED
      BY <3>1 DEF Init
  <2>5. /\ complete \in [Explorers -> BOOLEAN] /\ job \in [Explorers -> BOOLEAN]
        /\ fin \in [Explorers -> BOOLEAN] /\ cancel \in [Explorers -> BOOLEAN]
    BY DEF Init
  <2>6. wk \in [Explorers -> Workers] /\ overtaken \subseteq Versions \X Versions
    BY NoWorkerIsWorker DEF Init
  <2> QED
    BY <2>1, <2>2, <2>3, <2>4, <2>5, <2>6 DEF Typed
<1>2. FilesInv /\ OvertakenInv
  BY NoFileIsFile DEF Init, FilesInv, OvertakenInv
<1>3. ASSUME NEW e \in Explorers
      PROVE  ExplorerInv(e)
  <2>1. /\ wk[e] = NoWorker /\ chan[e] = <<>> /\ counted[e] = <<>> /\ ~job[e] /\ ~fin[e]
        /\ ~cancel[e] /\ ui[e] = "closed" /\ opened[e] = 0 /\ \A o \in Ops : shown[e][o].kind = "unknown"
    BY UnknownIsCount DEF Init
  <2>2. WorkerInv(e)
    BY <2>1, NoWorkerIsWorker, KeyCountsAssumption DEF WorkerInv, Working, At, Once
  <2>3. TodoInv(e)
    BY <2>1 DEF TodoInv, CountsOf, MessagesOk, ExactOk, CountingOk, CountedOk, OpsOnce
  <2>4. SaveInv(e)
    BY <2>1 DEF SaveInv, SaveSteps
  <2> QED
    BY <2>2, <2>3, <2>4 DEF ExplorerInv
<1> QED
  BY <1>1, <1>2, <1>3 DEF IInv

-----------------------------------------------------------------------------
(***************************************************************************)
(* The count pass.                                                         *)
(***************************************************************************)

\* What is left to count after a message about the first of it.
LEMMA TodoAfter ==
  ASSUME NEW t \in Seq(Ops), t # <<>>, Once(t)
  PROVE  /\ Head(t) \in Ops /\ Within(t, Head(t))
         /\ Tail(t) \in Seq(Ops) /\ Once(Tail(t))
         /\ \A o : Within(Tail(t), o) <=> Within(t, o) /\ o # Head(t)
<1> DEFINE u == Tail(t)
           n == Len(t)
           m == Len(u)
<1>1. /\ u \in Seq(Ops) /\ n \in Nat /\ n > 0 /\ m = n - 1 /\ Head(t) = t[1] /\ t[1] \in Ops
      /\ \A k \in 1 .. n - 1 : u[k] = t[k + 1]
  BY HeadTailProperties
<1>2. \A k, l \in 1 .. n : t[k] = t[l] => k = l
  BY DEF Once
<1> HIDE DEF u, n, m
<1>3. \A k, l \in 1 .. m : u[k] = u[l] => k = l
  BY <1>1, <1>2
<1>4. ASSUME NEW o, NEW k \in 1 .. m, u[k] = o
      PROVE  (\E i \in 1 .. n : t[i] = o) /\ o # t[1]
  <2>1. k + 1 \in 1 .. n /\ t[k + 1] = o /\ k + 1 # 1 /\ 1 \in 1 .. n
    BY <1>1, <1>4
  <2> QED
    BY <1>2, <2>1
<1>5. ASSUME NEW o, NEW k \in 1 .. n, t[k] = o, o # t[1]
      PROVE  \E i \in 1 .. m : u[i] = o
  <2>1. k # 1
    BY <1>5
  <2>2. k - 1 \in 1 .. m /\ u[k - 1] = t[(k - 1) + 1] /\ (k - 1) + 1 = k
    BY <1>1, <2>1
  <2> QED
    BY <1>5, <2>2
<1>6. Within(t, t[1])
  <2>1. 1 \in 1 .. n
    BY <1>1
  <2> QED
    BY <2>1 DEF Within, n
<1>7. Once(u)
  BY <1>3 DEF Once, m
<1>8. \A o : Within(u, o) <=> Within(t, o) /\ o # t[1]
  BY <1>4, <1>5 DEF Within, m, n
<1> QED
  BY <1>1, <1>6, <1>7, <1>8 DEF u

\* A message about an operator that is to be counted keeps the channel in order:
\* progress leaves it to be counted, Done takes it from what is.
LEMMA MessageSent ==
  ASSUME NEW ch \in Seq(Msgs), NEW t, NEW u, NEW sh, NEW m \in Msgs,
         MessagesOk(ch, t, sh), Within(t, m.op), sh[m.op].kind # "exact",
         Done(m) /\ m.complete => m.keys = Pages,
         \A o : Within(u, o) <=> Within(t, o) /\ ~(Done(m) /\ o = m.op)
  PROVE  /\ MessagesOk(Append(ch, m), u, sh)
         /\ \A o : Heard(ch, t, o) => Heard(Append(ch, m), u, o)
<1> DEFINE n == Len(ch)
           c2 == Append(ch, m)
<1>1. n \in Nat /\ Len(c2) = n + 1 /\ c2[n + 1] = m /\ \A i \in 1 .. n : c2[i] = ch[i]
  OBVIOUS
<1>2. \A i \in 1 .. n :
       /\ Done(ch[i]) /\ ch[i].complete => ch[i].keys = Pages
       /\ Done(ch[i]) => ~Within(t, ch[i].op)
       /\ Done(ch[i]) => \A j \in 1 .. n : i < j => ch[j].op # ch[i].op
       /\ ~Done(ch[i]) => Within(t, ch[i].op) \/ Later(ch, i, ch[i].op)
       /\ sh[ch[i].op].kind # "exact"
  BY DEF MessagesOk
<1>3. \A i \in 1 .. n : \A o : Later(ch, i, o) <=> \E j \in 1 .. n : i < j /\ Done(ch[j]) /\ ch[j].op = o
  BY DEF Later
<1> HIDE DEF n, c2
<1>4. \A i : \A o : Later(c2, i, o) <=> \E j \in 1 .. n + 1 : i < j /\ Done(c2[j]) /\ c2[j].op = o
  BY <1>1 DEF Later
<1>5. \A j \in 1 .. n : j \in 1 .. n + 1 /\ j < n + 1
  BY <1>1
<1>6. n + 1 \in 1 .. n + 1
  BY <1>1
<1>7. ASSUME NEW i \in 1 .. n + 1
      PROVE  /\ Done(c2[i]) /\ c2[i].complete => c2[i].keys = Pages
             /\ Done(c2[i]) => ~Within(u, c2[i].op)
             /\ Done(c2[i]) => \A j \in 1 .. n + 1 : i < j => c2[j].op # c2[i].op
             /\ ~Done(c2[i]) => Within(u, c2[i].op) \/ Later(c2, i, c2[i].op)
             /\ sh[c2[i].op].kind # "exact"
  <2>1. CASE i = n + 1
    <3>1. c2[i] = m /\ \A j \in 1 .. n + 1 : ~(i < j)
      BY <1>1, <2>1
    <3> QED
      BY <3>1
  <2>2. CASE i \in 1 .. n
    <3>1. c2[i] = ch[i]
      BY <1>1, <2>2
    <3>2. Done(ch[i]) => \A j \in 1 .. n + 1 : i < j => c2[j].op # ch[i].op
      <4>1. Done(ch[i]) => m.op # ch[i].op
        BY <1>2, <2>2
      <4>2. \A j \in 1 .. n + 1 : j = n + 1 \/ j \in 1 .. n
        BY <1>1
      <4> QED
        BY <1>1, <1>2, <2>2, <4>1, <4>2
    <3>3. ~Done(ch[i]) => Within(u, ch[i].op) \/ Later(c2, i, ch[i].op)
      <4>1. CASE Later(ch, i, ch[i].op)
        <5>1. PICK j \in 1 .. n : i < j /\ Done(ch[j]) /\ ch[j].op = ch[i].op
          BY <1>3, <2>2, <4>1
        <5> QED
          BY <1>1, <1>4, <1>5, <5>1
      <4>2. CASE Within(t, ch[i].op) /\ Done(m) /\ ch[i].op = m.op
        BY <1>1, <1>4, <1>5, <1>6, <2>2, <4>2
      <4>3. CASE Within(t, ch[i].op) /\ ~(Done(m) /\ ch[i].op = m.op)
        BY <4>3
      <4> QED
        BY <1>2, <2>2, <4>1, <4>2, <4>3
    <3> QED
      BY <1>2, <2>2, <3>1, <3>2, <3>3
  <2> QED
    BY <1>1, <2>1, <2>2
<1>8. MessagesOk(c2, u, sh)
  BY <1>1, <1>7 DEF MessagesOk
<1>9. ASSUME NEW o, Heard(ch, t, o)
      PROVE  Heard(c2, u, o)
  <2>1. CASE Within(t, o) /\ ~(Done(m) /\ o = m.op)
    BY <2>1 DEF Heard
  <2>2. CASE Done(m) /\ o = m.op
    BY <1>1, <1>6, <2>2 DEF Heard
  <2>3. CASE \E i \in 1 .. n : Done(ch[i]) /\ ch[i].op = o
    BY <1>1, <1>5, <2>3 DEF Heard
  <2> QED
    BY <1>9, <2>1, <2>2, <2>3 DEF Heard, n
<1> QED
  BY <1>8, <1>9 DEF c2

\* A worker sends a message about the operator it counts, and goes on with it or,
\* after Done, with the next.
LEMMA SendInv ==
  ASSUME IInv, NEW e \in Explorers, Working(e), ~cancel[e], wk[e].todo # <<>>,
         NEW m \in Msgs, m.op = Head(wk[e].todo), Done(m) /\ m.complete => m.keys = Pages,
         NEW w \in Workers, w.at = "run", w.pages < Pages, w.keys <= w.pages,
         w.ok => w.keys = w.pages,
         w.todo = IF Done(m) THEN Tail(wk[e].todo) ELSE wk[e].todo,
         wk' = [wk EXCEPT ![e] = w],
         chan' = [chan EXCEPT ![e] = Append(chan[e], m)],
         UNCHANGED <<disk, ui, app, job, fin, head, cancel, overtaken>>
  PROVE  IInv'
<1>1. UNCHANGED <<meta, overtaken, cache, older, temp, ui, opened, shown, browsed, counted, complete,
                  job, fin, head, cancel>>
  BY DEF disk, app
<1>2. Typed /\ ExplorerInv(e)
  BY DEF IInv
<1>3. Typed'
  <2>1. Append(chan[e], m) \in Seq(Msgs)
    BY <1>2 DEF Typed
  <2> HIDE DEF Msgs, Workers
  <2> QED
    BY <1>1, <1>2, <2>1 DEF Typed
<1>4. FilesInv' /\ OvertakenInv'
  BY <1>1 DEF IInv, FilesInv, OvertakenInv
<1>5. wk'[e] = w /\ chan'[e] = Append(chan[e], m)
  BY <1>2 DEF Typed
<1>6. wk[e].todo \in Seq(Ops) /\ Once(wk[e].todo) /\ chan[e] \in Seq(Msgs)
  BY <1>2 DEF Typed, Workers, ExplorerInv, WorkerInv
<1>7. /\ m.op \in Ops /\ Within(wk[e].todo, m.op) /\ Once(w.todo)
      /\ \A o : Within(w.todo, o) <=> Within(wk[e].todo, o) /\ ~(Done(m) /\ o = m.op)
  BY <1>6, TodoAfter
<1>8. job[e] /\ ~At(e, "quit") /\ ~fin[e]
  BY <1>2 DEF ExplorerInv, WorkerInv
<1>9. WorkerInv(e)'
  BY <1>1, <1>2, <1>5, <1>7, <1>8 DEF ExplorerInv, WorkerInv, Working, At
<1>10. TodoInv(e)'
  <2>1. /\ MessagesOk(chan[e], wk[e].todo, shown[e])
        /\ ExactOk(shown[e], wk[e].todo, opened[e])
        /\ CountingOk(shown[e], browsed[e], chan[e], wk[e].todo, job[e])
        /\ CountedOk(counted[e], opened[e], shown[e])
    BY <1>2, <1>8, OwnCounts DEF ExplorerInv, TodoInv
  <2>2. shown[e][m.op].kind # "exact"
    BY <1>7, <2>1 DEF ExactOk
  <2>3. /\ MessagesOk(chan'[e], w.todo, shown[e])
        /\ \A o : Heard(chan[e], wk[e].todo, o) => Heard(chan'[e], w.todo, o)
    BY <1>5, <1>6, <1>7, <2>1, <2>2, MessageSent, ZenonT(40)
  <2>4. ExactOk(shown[e], w.todo, opened[e])
    BY <1>7, <2>1 DEF ExactOk
  <2>5. CountingOk(shown[e], browsed[e], chan'[e], w.todo, job[e])
    BY <2>1, <2>3 DEF CountingOk
  <2> QED
    BY <1>1, <1>5, <2>1, <2>3, <2>4, <2>5 DEF TodoInv, CountsOf
<1>11. SaveInv(e)'
  BY <1>1, <1>2, <1>8 DEF ExplorerInv, SaveInv, Exactly, At
<1>12. ASSUME NEW d \in Explorers, d # e
       PROVE  ExplorerInv(d)'
  <2>1. wk'[d] = wk[d] /\ chan'[d] = chan[d]
    BY <1>2, <1>12 DEF Typed
  <2> QED
    BY <1>1, <2>1, OthersKeep DEF IInv
<1>13. ExplorerInv(e)'
  BY <1>9, <1>10, <1>11 DEF ExplorerInv
<1> QED
  BY <1>3, <1>4, <1>12, <1>13 DEF IInv

\* The fields of a worker.
LEMMA WorkerFields ==
  ASSUME NEW w \in Workers
  PROVE  /\ w.at \in {"none", "run", "ended"} /\ w.todo \in Seq(Ops)
         /\ w.pages \in 0 .. Pages /\ w.keys \in 0 .. Pages /\ w.ok \in BOOLEAN
BY DEF Workers

\* A page more, or the operator's last page.
LEMMA WorkerScansInv ==
  ASSUME IInv, NEW e \in Explorers, NEW sound \in BOOLEAN, WorkerScans(e, sound)
  PROVE  IInv'
<1> DEFINE pages == wk[e].pages + 1
           keys  == wk[e].keys + (IF sound THEN 1 ELSE 0)
           ok    == wk[e].ok /\ sound
           msg(k, n, f) == [kind |-> k, op |-> Head(wk[e].todo), keys |-> n, complete |-> f]
<1>1. /\ Working(e) /\ ~cancel[e] /\ wk[e].todo # <<>>
      /\ UNCHANGED <<disk, ui, app, job, fin, head, cancel, overtaken>>
  BY DEF WorkerScans
<1>2. wk[e] \in Workers
  BY DEF IInv, Typed
<1>3. /\ wk[e].todo \in Seq(Ops) /\ wk[e].pages \in 0 .. Pages /\ wk[e].keys \in 0 .. Pages
      /\ wk[e].ok \in BOOLEAN
  BY <1>2, WorkerFields
<1>4. /\ wk[e].keys <= wk[e].pages /\ (wk[e].ok => wk[e].keys = wk[e].pages)
      /\ wk[e].pages < Pages /\ Once(wk[e].todo)
  BY DEF IInv, ExplorerInv, WorkerInv
<1>5. /\ pages \in 0 .. Pages /\ keys \in 0 .. Pages /\ keys <= pages /\ ok \in BOOLEAN
      /\ ok => keys = pages
  BY <1>3, <1>4, KeyCountsAssumption
<1>6. Head(wk[e].todo) \in Ops
  BY <1>1, <1>3, <1>4, TodoAfter
<1> HIDE DEF pages, keys, ok
<1>7. CASE /\ pages < Pages
           /\ chan' = [chan EXCEPT ![e] = Append(chan[e], msg("progress", 0, TRUE))]
           /\ wk' = [wk EXCEPT ![e] = [wk[e] EXCEPT !.pages = pages, !.keys = keys, !.ok = ok]]
  <2> DEFINE w == [wk[e] EXCEPT !.pages = pages, !.keys = keys, !.ok = ok]
             m == msg("progress", 0, TRUE)
  <2>1. /\ w \in Workers /\ w.at = "run" /\ w.pages = pages /\ w.keys = keys /\ w.ok = ok
        /\ w.todo = wk[e].todo
    BY <1>1, <1>2, <1>5 DEF Workers, Working
  <2>2. m \in Msgs /\ ~Done(m) /\ m.op = Head(wk[e].todo)
    BY <1>5, <1>6, KeyCountsAssumption DEF Msgs, Done
  <2>3. wk' = [wk EXCEPT ![e] = w] /\ chan' = [chan EXCEPT ![e] = Append(chan[e], m)]
    BY <1>7
  <2>4. w.pages < Pages /\ w.keys <= w.pages /\ (w.ok => w.keys = w.pages)
    BY <1>5, <1>7, <2>1
  <2> HIDE DEF w, m
  <2>5. w.todo = IF Done(m) THEN Tail(wk[e].todo) ELSE wk[e].todo
    BY <2>1, <2>2
  <2> QED
    BY <1>1, <2>1, <2>2, <2>3, <2>4, <2>5, SendInv
<1>8. CASE /\ pages = Pages
           /\ chan' = [chan EXCEPT ![e] = Append(chan[e], msg("done", keys, ok))]
           /\ wk' = [wk EXCEPT ![e] = NextTarget(wk[e])]
  <2> DEFINE w == NextTarget(wk[e])
             m == msg("done", keys, ok)
  <2>1. w \in Workers /\ w.at = "run" /\ w.pages = 0 /\ w.keys = 0 /\ w.todo = Tail(wk[e].todo)
    <3>1. Tail(wk[e].todo) \in Seq(Ops) /\ 0 \in 0 .. Pages
      BY <1>1, <1>3, <1>4, TodoAfter, KeyCountsAssumption
    <3> QED
      BY <3>1 DEF Workers, NextTarget
  <2>2. m \in Msgs /\ Done(m) /\ m.op = Head(wk[e].todo) /\ (m.complete => m.keys = Pages)
    BY <1>5, <1>6, <1>8 DEF Msgs, Done
  <2>3. wk' = [wk EXCEPT ![e] = w] /\ chan' = [chan EXCEPT ![e] = Append(chan[e], m)]
    BY <1>8
  <2>4. w.pages < Pages /\ w.keys <= w.pages /\ w.keys = w.pages
    BY <2>1, KeyCountsAssumption
  <2> HIDE DEF w, m
  <2> QED
    BY <1>1, <2>1, <2>2, <2>3, <2>4, SendInv
<1> QED
  BY <1>7, <1>8 DEF WorkerScans, Send, pages, keys, ok

\* The scan of an operator fails.
LEMMA WorkerFailsInv ==
  ASSUME IInv, NEW e \in Explorers, WorkerFails(e)
  PROVE  IInv'
<1> DEFINE w == NextTarget(wk[e])
           m == [kind |-> "done", op |-> Head(wk[e].todo), keys |-> wk[e].keys, complete |-> FALSE]
<1>1. /\ Working(e) /\ ~cancel[e] /\ wk[e].todo # <<>>
      /\ wk' = [wk EXCEPT ![e] = w] /\ chan' = [chan EXCEPT ![e] = Append(chan[e], m)]
      /\ UNCHANGED <<disk, ui, app, job, fin, head, cancel, overtaken>>
  BY DEF WorkerFails, Send
<1>2. wk[e] \in Workers /\ Once(wk[e].todo)
  BY DEF IInv, Typed, ExplorerInv, WorkerInv
<1>3. wk[e].todo \in Seq(Ops) /\ wk[e].keys \in 0 .. Pages
  BY <1>2, WorkerFields
<1>4. Head(wk[e].todo) \in Ops /\ Tail(wk[e].todo) \in Seq(Ops) /\ 0 \in 0 .. Pages
  BY <1>1, <1>2, <1>3, TodoAfter, KeyCountsAssumption
<1>5. w \in Workers /\ w.at = "run" /\ w.pages = 0 /\ w.keys = 0 /\ w.todo = Tail(wk[e].todo)
  BY <1>4 DEF Workers, NextTarget
<1>6. m \in Msgs /\ Done(m) /\ m.op = Head(wk[e].todo) /\ ~m.complete
  BY <1>3, <1>4 DEF Msgs, Done
<1>7. w.pages < Pages /\ w.keys <= w.pages /\ w.keys = w.pages
  BY <1>5, KeyCountsAssumption
<1> HIDE DEF w, m
<1> QED
  BY <1>1, <1>5, <1>6, <1>7, SendInv

\* The worker ends: it has nothing left to count, or its explorer is about to exit.
LEMMA WorkerEndsInv ==
  ASSUME IInv, NEW e \in Explorers, WorkerEnds(e)
  PROVE  IInv'
<1> DEFINE w == [NoWorker EXCEPT !.at = "ended"]
<1>1. /\ Working(e) /\ (cancel[e] \/ wk[e].todo = <<>>)
      /\ wk' = [wk EXCEPT ![e] = w]
      /\ UNCHANGED <<meta, overtaken, cache, older, temp, ui, opened, shown, browsed, counted, complete,
                     job, fin, head, cancel, chan>>
  BY DEF WorkerEnds, disk, app
<1>2. Typed /\ ExplorerInv(e)
  BY DEF IInv
<1>3. w \in Workers /\ w.at = "ended" /\ w.todo = <<>> /\ w.pages = 0 /\ w.keys = 0
  BY NoWorkerIsWorker DEF Workers
<1> HIDE DEF w
<1>4. Typed'
  BY <1>1, <1>2, <1>3 DEF Typed
<1>5. FilesInv' /\ OvertakenInv'
  BY <1>1 DEF IInv, FilesInv, OvertakenInv
<1>6. wk'[e] = w
  BY <1>1, <1>2 DEF Typed
<1>7. WorkerInv(e)'
  BY <1>1, <1>2, <1>3, <1>6, KeyCountsAssumption DEF ExplorerInv, WorkerInv, Working, At, Once
<1>8. TodoInv(e)'
  <2>1. TodoInv(e) /\ SaveInv(e) /\ (cancel[e] <=> At(e, "quit"))
    BY <1>2 DEF ExplorerInv, WorkerInv
  <2>2. CASE wk[e].todo = <<>>
    BY <1>1, <1>3, <1>6, <2>1, <2>2 DEF TodoInv
  <2>3. CASE cancel[e]
    <3>1. chan[e] = <<>> /\ \A o \in Ops : shown[e][o].kind = "unknown"
      BY <2>1, <2>3 DEF SaveInv, At
    <3>2. CountedOk(counted[e], opened[e], shown[e])
      BY <2>1, <2>3, OwnCounts DEF At
    <3>3. MessagesOk(<<>>, w.todo, shown[e]) /\ ExactOk(shown[e], w.todo, opened[e])
      BY <3>1 DEF MessagesOk, ExactOk
    <3>4. CountingOk(shown[e], browsed[e], <<>>, w.todo, job[e])
      BY <3>1 DEF CountingOk
    <3> QED
      BY <1>1, <1>6, <3>1, <3>2, <3>3, <3>4 DEF TodoInv, CountsOf
  <2> QED
    BY <1>1, <2>2, <2>3
<1>9. SaveInv(e)'
  BY <1>1, <1>2 DEF ExplorerInv, SaveInv, Exactly
<1>10. ASSUME NEW d \in Explorers, d # e
       PROVE  ExplorerInv(d)'
  <2>1. wk'[d] = wk[d]
    BY <1>1, <1>2, <1>10 DEF Typed
  <2> QED
    BY <1>1, <2>1, OthersKeep DEF IInv
<1>11. ExplorerInv(e)'
  BY <1>7, <1>8, <1>9 DEF ExplorerInv
<1> QED
  BY <1>4, <1>5, <1>10, <1>11 DEF IInv

-----------------------------------------------------------------------------
(***************************************************************************)
(* Opening, browsing, starting a count, leaving.                           *)
(***************************************************************************)

\* An explorer that shows and counts nothing has nothing to answer for.
LEMMA NothingShown ==
  ASSUME NEW sh, NEW br, NEW t, NEW v, NEW running, \A o \in Ops : sh[o].kind = "unknown"
  PROVE  /\ MessagesOk(<<>>, t, sh) /\ CountsOf(sh, t, <<>>, v)
         /\ CountingOk(sh, br, <<>>, t, running)
BY DEF CountsOf, MessagesOk, ExactOk, CountingOk, CountedOk, OpsOnce

\* _metadata is parsed: the explorer has its version open.
LEMMA OpenInv ==
  ASSUME IInv, NEW e \in Explorers, Open(e)
  PROVE  IInv'
<1>1. /\ ui[e] = "closed" /\ opened' = [opened EXCEPT ![e] = meta]
      /\ ui' = [ui EXCEPT ![e] = "load"]
      /\ UNCHANGED <<meta, overtaken, cache, older, temp, shown, browsed, counted, complete, job, fin,
                     head, wk, cancel, chan>>
  BY DEF Open, At, Goto, disk, thread
<1>2. Typed /\ ExplorerInv(e)
  BY DEF IInv
<1>3. Typed'
  BY <1>1, <1>2, KeyCountsAssumption DEF Typed, Versions, UiSteps
<1>4. FilesInv'
  BY <1>1 DEF IInv, FilesInv
<1>5. OnlyFor(e)
  BY <1>1, <1>2 DEF Typed, OnlyFor
<1>6. ui'[e] = "load" /\ opened'[e] = meta
  BY <1>1, <1>2 DEF Typed
<1>7. /\ ~job[e] /\ chan[e] = <<>> /\ counted[e] = <<>> /\ \A o \in Ops : shown[e][o].kind = "unknown"
  BY <1>1, <1>2 DEF ExplorerInv, SaveInv
<1>8. WorkerInv(e)'
  BY <1>1, <1>2, <1>6 DEF ExplorerInv, WorkerInv, Working, At
<1>9. TodoInv(e)'
  BY <1>1, <1>7, NothingShown DEF TodoInv
<1>10. SaveInv(e)'
  BY <1>1, <1>2, <1>6, <1>7 DEF SaveInv, SaveSteps, Near, Typed
<1> QED
  BY <1>1, <1>3, <1>4, <1>5, <1>8, <1>9, <1>10, StepKeeps DEF ExplorerInv

\* Whether the worker has ended is read.
LEMMA PollInv ==
  ASSUME IInv, NEW e \in Explorers, Poll(e)
  PROVE  IInv'
<1>1. /\ ui[e] = "idle" /\ job[e] /\ fin' = [fin EXCEPT ![e] = ~Working(e)]
      /\ ui' = [ui EXCEPT ![e] = "drain"]
      /\ UNCHANGED <<meta, overtaken, cache, older, temp, opened, shown, browsed, counted, complete, job,
                     head, wk, cancel, chan>>
  BY DEF Poll, At, Goto, disk, app, thread
<1>2. Typed /\ ExplorerInv(e)
  BY DEF IInv
<1>3. Typed'
  BY <1>1, <1>2 DEF Typed, UiSteps
<1>4. FilesInv'
  BY <1>1 DEF IInv, FilesInv
<1>5. OnlyFor(e)
  BY <1>1, <1>2 DEF Typed, OnlyFor
<1>6. ui'[e] = "drain" /\ fin'[e] = ~Working(e)
  BY <1>1, <1>2 DEF Typed
<1>7. WorkerInv(e)'
  BY <1>1, <1>2, <1>6 DEF ExplorerInv, WorkerInv, Working, At
<1>8. TodoInv(e)'
  BY <1>1, <1>2, OwnCounts DEF ExplorerInv, TodoInv, CountsOf
<1>9. SaveInv(e)'
  BY <1>1, <1>2, <1>6 DEF ExplorerInv, SaveInv, SaveSteps
<1> QED
  BY <1>1, <1>3, <1>4, <1>5, <1>7, <1>8, <1>9, StepKeeps DEF ExplorerInv

\* An operator is browsed on.
LEMMA BrowseInv ==
  ASSUME IInv, NEW e \in Explorers, NEW o \in Ops, NEW found \in Browsing \ {"part"},
         Browse(e, o, found)
  PROVE  IInv'
<1>1. /\ browsed' = [browsed EXCEPT ![e][o] = found]
      /\ UNCHANGED <<meta, overtaken, cache, older, temp, ui, opened, shown, counted, complete, job, fin,
                     head, wk, cancel, chan>>
  BY DEF Browse, disk, thread
<1>2. Typed /\ ExplorerInv(e)
  BY DEF IInv
<1>3. /\ browsed' \in [Explorers -> [Ops -> Browsing]]
      /\ \A p \in Ops : browsed'[e][p] = "part" => browsed[e][p] = "part"
      /\ \A d \in Explorers \ {e} : browsed'[d] = browsed[d]
  BY <1>1, <1>2 DEF Typed
<1>4. Typed'
  BY <1>1, <1>2, <1>3 DEF Typed
<1>5. FilesInv'
  BY <1>1 DEF IInv, FilesInv
<1>6. OnlyFor(e)
  BY <1>1, <1>3 DEF OnlyFor
<1>7. WorkerInv(e)'
  BY <1>1, <1>2 DEF ExplorerInv, WorkerInv, Working, At
<1>8. CountingOk(shown[e], browsed'[e], chan[e], wk[e].todo, job[e])
  BY <1>2, <1>3 DEF ExplorerInv, TodoInv, CountingOk
<1>9. TodoInv(e)'
  BY <1>1, <1>2, <1>8 DEF ExplorerInv, TodoInv
<1>10. SaveInv(e)'
  BY <1>1, <1>2 DEF ExplorerInv, SaveInv, Exactly
<1> QED
  BY <1>1, <1>4, <1>5, <1>6, <1>7, <1>9, <1>10, StepKeeps DEF ExplorerInv

\* An explorer that starts a count has a worker for the targets and no message yet.
LEMMA StartCountWorker ==
  ASSUME Typed, NEW e \in Explorers, NEW targets \in SUBSET Ops, targets # {},
         StartCount(e, targets)
  PROVE  /\ complete' \in [Explorers -> BOOLEAN] /\ job' \in [Explorers -> BOOLEAN]
         /\ wk' \in [Explorers -> Workers] /\ cancel' \in [Explorers -> BOOLEAN]
         /\ chan' \in [Explorers -> Seq(Msgs)]
         /\ \A d \in Explorers \ {e} :
               /\ job'[d] = job[d] /\ wk'[d] = wk[d] /\ cancel'[d] = cancel[d] /\ chan'[d] = chan[d]
         /\ job'[e] /\ ~cancel'[e] /\ chan'[e] = <<>> /\ wk'[e] = Spawned(targets)
<1>1. /\ complete' = [complete EXCEPT ![e] = TRUE]
      /\ job' = [job EXCEPT ![e] = TRUE]
      /\ wk' = [wk EXCEPT ![e] = Spawned(targets)]
      /\ cancel' = [cancel EXCEPT ![e] = FALSE]
      /\ chan' = [chan EXCEPT ![e] = <<>>]
  BY DEF StartCount
<1>2. Spawned(targets) \in Workers
  BY SpawnedWorker
<1>3. <<>> \in Seq(Msgs)
  OBVIOUS
<1>4. wk' \in [Explorers -> Workers] /\ wk'[e] = Spawned(targets)
  BY <1>1, <1>2 DEF Typed
<1> QED
  BY <1>1, <1>3, <1>4 DEF Typed

\* `C` counts again what is not known exactly.
LEMMA KeyCInv ==
  ASSUME IInv, NEW e \in Explorers, KeyC(e)
  PROVE  IInv'
<1> DEFINE targets == {o \in Ops : ~KnownExactly(e, o)}
<1>1. /\ ui[e] = "idle" /\ StartCount(e, targets)
      /\ UNCHANGED <<meta, overtaken, cache, older, temp, ui, opened, shown, browsed, counted, fin, head>>
  BY DEF KeyC, At, disk
<1>2. Typed /\ ExplorerInv(e)
  BY DEF IInv
<1>3. CASE targets = {}
  <2>1. UNCHANGED <<complete, job, wk, cancel, chan>>
    BY <1>1, <1>3 DEF StartCount, thread
  <2>2. Typed'
    BY <1>1, <1>2, <2>1 DEF Typed
  <2>3. FilesInv' /\ OvertakenInv'
    BY <1>1 DEF IInv, FilesInv, OvertakenInv
  <2>4. \A d \in Explorers : ExplorerInv(d)'
    BY <1>1, <2>1, OthersKeep DEF IInv
  <2> QED
    BY <2>2, <2>3, <2>4 DEF IInv
<1>4. CASE targets # {}
  <2> DEFINE w == Spawned(targets)
  <2>1. /\ complete' \in [Explorers -> BOOLEAN] /\ job' \in [Explorers -> BOOLEAN]
        /\ wk' \in [Explorers -> Workers] /\ cancel' \in [Explorers -> BOOLEAN]
        /\ chan' \in [Explorers -> Seq(Msgs)]
        /\ \A d \in Explorers \ {e} :
              /\ job'[d] = job[d] /\ wk'[d] = wk[d] /\ cancel'[d] = cancel[d] /\ chan'[d] = chan[d]
        /\ job'[e] /\ ~cancel'[e] /\ chan'[e] = <<>> /\ wk'[e] = w
    BY <1>1, <1>2, <1>4, StartCountWorker
  <2>2. /\ w.at = "run" /\ w.pages = 0 /\ w.keys = 0 /\ Once(w.todo)
        /\ \A o : Within(w.todo, o) <=> o \in targets
    BY SpawnedWorker
  <2>3. \A o \in Ops : /\ shown[e][o].kind = "exact" => o \notin targets
                       /\ shown[e][o].kind = "counting" /\ browsed[e][o] = "part" => o \in targets
    BY DEF KnownExactly, BrowsedToEnd
  <2> HIDE DEF w, targets
  <2>4. Typed'
    BY <1>1, <1>2, <2>1 DEF Typed
  <2>5. FilesInv'
    BY <1>1 DEF IInv, FilesInv
  <2>6. OnlyFor(e)
    BY <1>1, <2>1 DEF OnlyFor
  <2>7. WorkerInv(e)'
    BY <1>1, <1>2, <2>1, <2>2, KeyCountsAssumption DEF ExplorerInv, WorkerInv, Working, At
  <2>8. TodoInv(e)'
    <3>1. /\ ExactOk(shown[e], wk[e].todo, opened[e])
          /\ CountedOk(counted[e], opened[e], shown[e])
      <4>1. ~\A o \in Ops : shown[e][o].kind = "exact"
        BY <1>4, <2>3 DEF targets
      <4> QED
        BY <1>2, <4>1 DEF ExplorerInv, TodoInv, CountsOf, CachedOk
    <3>2. MessagesOk(<<>>, w.todo, shown[e]) /\ ExactOk(shown[e], w.todo, opened[e])
      BY <2>2, <2>3, <3>1 DEF MessagesOk, ExactOk
    <3>3. CountingOk(shown[e], browsed[e], <<>>, w.todo, TRUE)
      BY <2>2, <2>3 DEF CountingOk, Heard
    <3>4. job'[e] = TRUE
      BY <2>1
    <3> QED
      BY <1>1, <2>1, <3>1, <3>2, <3>3, <3>4 DEF TodoInv, CountsOf
  <2>9. SaveInv(e)'
    BY <1>1, <1>2 DEF ExplorerInv, SaveInv, SaveSteps
  <2> QED
    BY <1>1, <2>4, <2>5, <2>6, <2>7, <2>8, <2>9, StepKeeps DEF ExplorerInv
<1> QED
  BY <1>3, <1>4

\* What an explorer forgets when it leaves.
LEMMA ForgottenKeeps ==
  ASSUME Typed, NEW e \in Explorers, Forgotten(e)
  PROVE  /\ shown' \in [Explorers -> [Ops -> Counts]] /\ browsed' \in [Explorers -> [Ops -> Browsing]]
         /\ counted' \in [Explorers -> Seq(Entries)] /\ complete' \in [Explorers -> BOOLEAN]
         /\ job' \in [Explorers -> BOOLEAN] /\ fin' \in [Explorers -> BOOLEAN]
         /\ chan' \in [Explorers -> Seq(Msgs)] /\ opened' \in [Explorers -> 0 .. MaxVersions]
         /\ head' \in [Explorers -> 0 .. MaxVersions]
         /\ \A d \in Explorers \ {e} :
               /\ shown'[d] = shown[d] /\ browsed'[d] = browsed[d] /\ counted'[d] = counted[d]
               /\ job'[d] = job[d] /\ fin'[d] = fin[d] /\ chan'[d] = chan[d]
               /\ opened'[d] = opened[d] /\ head'[d] = head[d]
         /\ ~job'[e] /\ ~fin'[e] /\ chan'[e] = <<>> /\ counted'[e] = <<>> /\ opened'[e] = 0
         /\ \A o \in Ops : shown'[e][o].kind = "unknown"
<1>1. [o \in Ops |-> Unknown] \in [Ops -> Counts] /\ [o \in Ops |-> "part"] \in [Ops -> Browsing]
  BY UnknownIsCount DEF Browsing
<1>2. <<>> \in Seq(Entries) /\ <<>> \in Seq(Msgs) /\ 0 \in 0 .. MaxVersions
  BY KeyCountsAssumption
<1>3. /\ shown' \in [Explorers -> [Ops -> Counts]] /\ shown'[e] = [o \in Ops |-> Unknown]
      /\ \A d \in Explorers \ {e} : shown'[d] = shown[d]
  BY <1>1 DEF Forgotten, Typed
<1>4. /\ browsed' \in [Explorers -> [Ops -> Browsing]]
      /\ \A d \in Explorers \ {e} : browsed'[d] = browsed[d]
  BY <1>1 DEF Forgotten, Typed
<1>5. /\ counted' \in [Explorers -> Seq(Entries)] /\ counted'[e] = <<>>
      /\ chan' \in [Explorers -> Seq(Msgs)] /\ chan'[e] = <<>>
      /\ \A d \in Explorers \ {e} : counted'[d] = counted[d] /\ chan'[d] = chan[d]
  BY <1>2 DEF Forgotten, Typed
<1>6. /\ opened' \in [Explorers -> 0 .. MaxVersions] /\ head' \in [Explorers -> 0 .. MaxVersions]
      /\ opened'[e] = 0 /\ \A d \in Explorers \ {e} : opened'[d] = opened[d] /\ head'[d] = head[d]
  BY <1>2 DEF Forgotten, Typed
<1>7. /\ complete' \in [Explorers -> BOOLEAN] /\ job' \in [Explorers -> BOOLEAN]
      /\ fin' \in [Explorers -> BOOLEAN] /\ ~job'[e] /\ ~fin'[e]
      /\ \A d \in Explorers \ {e} : job'[d] = job[d] /\ fin'[d] = fin[d]
  BY DEF Forgotten, Typed
<1> QED
  BY <1>3, <1>4, <1>5, <1>6, <1>7, UnknownIsCount

\* `q`: the worker is told to end.
LEMMA QuitInv ==
  ASSUME IInv, NEW e \in Explorers, Quit(e)
  PROVE  IInv'
<1>1. /\ ui[e] = "idle" /\ cancel' = [cancel EXCEPT ![e] = TRUE]
      /\ ui' = [ui EXCEPT ![e] = "quit"] /\ Forgotten(e)
      /\ UNCHANGED <<meta, overtaken, cache, older, temp, wk>>
  BY DEF Quit, At, Goto, disk
<1>2. Typed /\ ExplorerInv(e)
  BY DEF IInv
<1>3. Typed'
  BY <1>1, <1>2, ForgottenKeeps DEF Typed, UiSteps
<1>4. FilesInv'
  BY <1>1 DEF IInv, FilesInv
<1>5. OnlyFor(e)
  <2>1. \A d \in Explorers \ {e} : cancel'[d] = cancel[d] /\ ui'[d] = ui[d]
    BY <1>1, <1>2 DEF Typed
  <2> QED
    BY <1>1, <1>2, <2>1, ForgottenKeeps DEF OnlyFor
<1>6. ui'[e] = "quit" /\ cancel'[e]
  BY <1>1, <1>2 DEF Typed
<1>7. WorkerInv(e)'
  BY <1>1, <1>2, <1>6, ForgottenKeeps DEF ExplorerInv, WorkerInv, Working, At
<1>8. TodoInv(e)'
  <2>1. chan'[e] = <<>> /\ counted'[e] = <<>> /\ \A o \in Ops : shown'[e][o].kind = "unknown"
    BY <1>1, <1>2, ForgottenKeeps
  <2> QED
    BY <2>1, NothingShown DEF TodoInv
<1>9. SaveInv(e)'
  BY <1>1, <1>2, <1>6, ForgottenKeeps DEF SaveInv, SaveSteps
<1> QED
  BY <1>1, <1>3, <1>4, <1>5, <1>7, <1>8, <1>9, StepKeeps DEF ExplorerInv

\* A process that is gone leaves its files at most.
LEMMA GoneInv ==
  ASSUME IInv, NEW e \in Explorers, Gone(e), UNCHANGED <<meta, overtaken, cache, older>>,
         temp' \in [Explorers -> Files], \A d \in Explorers \ {e} : temp'[d] = temp[d]
  PROVE  IInv'
<1>1. /\ ui' = [ui EXCEPT ![e] = "closed"] /\ Forgotten(e)
      /\ cancel' = [cancel EXCEPT ![e] = FALSE] /\ wk' = [wk EXCEPT ![e] = NoWorker]
  BY DEF Gone, Goto
<1>2. Typed /\ ExplorerInv(e)
  BY DEF IInv
<1>3. /\ ui' \in [Explorers -> UiSteps] /\ cancel' \in [Explorers -> BOOLEAN]
      /\ wk' \in [Explorers -> Workers] /\ ui'[e] = "closed" /\ ~cancel'[e] /\ wk'[e] = NoWorker
      /\ \A d \in Explorers \ {e} : cancel'[d] = cancel[d] /\ ui'[d] = ui[d] /\ wk'[d] = wk[d]
  <2>1. ui' \in [Explorers -> UiSteps] /\ cancel' \in [Explorers -> BOOLEAN]
    BY <1>1, <1>2 DEF Typed, UiSteps
  <2>2. wk' \in [Explorers -> Workers] /\ wk'[e] = NoWorker
    BY <1>1, <1>2, NoWorkerIsWorker DEF Typed
  <2>3. /\ ui'[e] = "closed" /\ ~cancel'[e]
        /\ \A d \in Explorers \ {e} : cancel'[d] = cancel[d] /\ ui'[d] = ui[d] /\ wk'[d] = wk[d]
    BY <1>1, <1>2 DEF Typed
  <2> QED
    BY <2>1, <2>2, <2>3
<1>4. Typed'
  BY <1>1, <1>2, <1>3, ForgottenKeeps DEF Typed
<1>5. FilesInv'
  BY DEF IInv, FilesInv
<1>6. OnlyFor(e)
  BY <1>1, <1>2, <1>3, ForgottenKeeps DEF OnlyFor
<1>7. WorkerInv(e)'
  BY <1>1, <1>2, <1>3, NoWorkerIsWorker, KeyCountsAssumption, ForgottenKeeps
     DEF WorkerInv, Working, At, Once
<1>8. TodoInv(e)'
  <2>1. chan'[e] = <<>> /\ counted'[e] = <<>> /\ \A o \in Ops : shown'[e][o].kind = "unknown"
    BY <1>1, <1>2, ForgottenKeeps
  <2> QED
    BY <2>1, NothingShown DEF TodoInv
<1>9. SaveInv(e)'
  BY <1>1, <1>2, <1>3, ForgottenKeeps DEF SaveInv, SaveSteps
<1> QED
  BY <1>4, <1>5, <1>6, <1>7, <1>8, <1>9, StepKeeps DEF ExplorerInv

LEMMA ExitInv ==
  ASSUME IInv, NEW e \in Explorers, Exit(e)
  PROVE  IInv'
BY GoneInv DEF Exit, disk, IInv, Typed

LEMMA CrashInv ==
  ASSUME IInv, NEW e \in Explorers, Crash(e)
  PROVE  IInv'
<1>1. temp' \in [Explorers -> Files] /\ \A d \in Explorers \ {e} : temp'[d] = temp[d]
  BY NoFileIsFile DEF Crash, SetTemp, TempOf, IInv, Typed
<1> QED
  BY <1>1, GoneInv DEF Crash

-----------------------------------------------------------------------------
(***************************************************************************)
(* Saving, and the world.                                                  *)
(***************************************************************************)

\* A step of save, which changes nothing but its place, its header, its side file
\* and the cache.
LEMMA SaveStepInv ==
  ASSUME IInv, NEW e \in Explorers, ui[e] \in SaveSteps,
         NEW step \in UiSteps \ {"closed", "load", "drain", "quit"},
         ui' = [ui EXCEPT ![e] = step],
         UNCHANGED <<meta, overtaken, app, job, fin, thread>>,
         NEW h \in 0 .. MaxVersions, head' = [head EXCEPT ![e] = h],
         NEW f \in Files, temp' = [temp EXCEPT ![e] = f],
         cache' \in Files, older' \subseteq Files, FilesInv',
         step \in SaveSteps \ {"head"} => Near(overtaken, opened[e], h),
         step \in {"sync", "rename"} =>
            f = [head |-> h, body |-> counted[e], whole |-> TRUE, synced |-> step = "rename"]
  PROVE  IInv'
<1>1. UNCHANGED <<meta, overtaken, opened, shown, browsed, counted, complete, job, fin, wk, cancel, chan>>
  BY DEF app, thread
<1>2. Typed /\ ExplorerInv(e)
  BY DEF IInv
<1>3. Typed'
  BY <1>1, <1>2 DEF Typed
<1>4. OnlyFor(e)
  BY <1>1, <1>2 DEF Typed, OnlyFor
<1>5. ui'[e] = step /\ head'[e] = h /\ temp'[e] = f
  BY <1>2 DEF Typed
<1>6. ui[e] \notin {"closed", "load", "drain", "quit"} /\ step # "quit"
  BY DEF SaveSteps
<1>7. WorkerInv(e)'
  BY <1>1, <1>2, <1>5, <1>6 DEF ExplorerInv, WorkerInv, Working, At
<1>8. TodoInv(e)'
  <2>1. ui[e] # "idle"
    BY DEF SaveSteps
  <2> QED
    BY <1>1, <1>2, <2>1, OwnCounts DEF ExplorerInv, TodoInv, CountsOf
<1>9. /\ opened[e] \in Versions /\ Near(overtaken, opened[e], meta)
      /\ Exactly(opened[e], counted[e])
  BY <1>2, <1>6 DEF ExplorerInv, SaveInv
<1>10. Exactly(opened[e], counted[e])'
  BY <1>1, <1>9 DEF Exactly
<1>11. SaveInv(e)'
  BY <1>1, <1>5, <1>9, <1>10 DEF SaveInv
<1> QED
  BY <1>1, <1>3, <1>4, <1>7, <1>8, <1>11, StepKeeps DEF ExplorerInv

LEMMA SaveHeadInv ==
  ASSUME IInv, NEW e \in Explorers, SaveHead(e)
  PROVE  IInv'
<1>1. Typed /\ SaveInv(e) /\ FilesInv
  BY DEF IInv, ExplorerInv
<1>2. /\ ui[e] = "head" /\ ui' = [ui EXCEPT ![e] = "create"]
      /\ UNCHANGED <<meta, overtaken, app, job, fin, thread>>
      /\ head' = [head EXCEPT ![e] = meta] /\ UNCHANGED <<cache, older, temp>>
  BY DEF SaveHead, At, Goto, disk
<1> DEFINE f == temp[e]
<1>3. f \in Files /\ temp' = [temp EXCEPT ![e] = f]
  BY <1>1, <1>2 DEF Typed
<1>4. meta \in 0 .. MaxVersions /\ Near(overtaken, opened[e], meta) /\ cache' \in Files /\ older' \subseteq Files /\ FilesInv'
  BY <1>1, <1>2, KeyCountsAssumption DEF Typed, Versions, FilesInv, SaveInv
<1>5. "create" \in UiSteps \ {"closed", "load", "drain", "quit"} /\ "head" \in SaveSteps
  BY DEF UiSteps, SaveSteps
<1>6. "create" \notin {"sync", "rename"} /\ ui[e] \in SaveSteps
  BY <1>2, <1>5
<1> HIDE DEF f
<1> QED
  BY <1>2, <1>6, <1>3, <1>4, <1>5, SaveStepInv

LEMMA SaveCreateInv ==
  ASSUME IInv, NEW e \in Explorers, SaveCreate(e)
  PROVE  IInv'
<1> DEFINE f == [NoFile EXCEPT !.whole = FALSE, !.synced = FALSE]
<1>1. Typed /\ SaveInv(e) /\ FilesInv
  BY DEF IInv, ExplorerInv
<1>2. /\ ui[e] = "create" /\ ui' = [ui EXCEPT ![e] = "write"]
      /\ UNCHANGED <<meta, overtaken, app, job, fin, thread>>
      /\ temp' = [temp EXCEPT ![e] = f] /\ UNCHANGED <<cache, older, head>>
  BY DEF SaveCreate, At, Goto, SetTemp, TempOf
<1>3. f \in Files
  BY NoFileIsFile DEF Files
<1>4. /\ head[e] \in 0 .. MaxVersions /\ head' = [head EXCEPT ![e] = head[e]]
      /\ Near(overtaken, opened[e], head[e]) /\ cache' \in Files /\ older' \subseteq Files /\ FilesInv'
  BY <1>1, <1>2 DEF Typed, FilesInv, SaveInv, SaveSteps
<1>5. "write" \in UiSteps \ {"closed", "load", "drain", "quit"} /\ "create" \in SaveSteps
  BY DEF UiSteps, SaveSteps
<1> HIDE DEF f
<1> QED
  BY <1>2, <1>3, <1>4, <1>5, SaveStepInv, ZenonT(40)

LEMMA SaveWriteInv ==
  ASSUME IInv, NEW e \in Explorers, SaveWrite(e)
  PROVE  IInv'
<1> DEFINE f == [head |-> head[e], body |-> counted[e], whole |-> TRUE, synced |-> FALSE]
<1>1. Typed /\ SaveInv(e) /\ FilesInv
  BY DEF IInv, ExplorerInv
<1>2. /\ ui[e] = "write" /\ ui' = [ui EXCEPT ![e] = "sync"]
      /\ UNCHANGED <<meta, overtaken, app, job, fin, thread>>
      /\ temp' = [temp EXCEPT ![e] = f] /\ UNCHANGED <<cache, older, head>>
  BY DEF SaveWrite, At, Goto, SetTemp, TempOf
<1>3. f \in Files /\ f = [head |-> head[e], body |-> counted[e], whole |-> TRUE, synced |-> "sync" = "rename"]
  BY <1>1 DEF Files, Typed
<1>4. /\ head[e] \in 0 .. MaxVersions /\ head' = [head EXCEPT ![e] = head[e]]
      /\ Near(overtaken, opened[e], head[e]) /\ cache' \in Files /\ older' \subseteq Files /\ FilesInv'
  BY <1>1, <1>2 DEF Typed, FilesInv, SaveInv, SaveSteps
<1>5. "sync" \in UiSteps \ {"closed", "load", "drain", "quit"} /\ "write" \in SaveSteps
  BY DEF UiSteps, SaveSteps
<1> HIDE DEF f
<1> QED
  BY <1>2, <1>3, <1>4, <1>5, SaveStepInv

\* A file, synced.
LEMMA SyncedFile ==
  ASSUME NEW g \in Files
  PROVE  [g EXCEPT !.synced = TRUE] =
            [head |-> g.head, body |-> g.body, whole |-> g.whole, synced |-> TRUE]
<1> DEFINE r == [g EXCEPT !.synced = TRUE]
           q == [head |-> g.head, body |-> g.body, whole |-> g.whole, synced |-> TRUE]
<1>1. r \in Files /\ q \in Files
  BY DEF Files
<1>2. r.head = q.head /\ r.body = q.body /\ r.whole = q.whole /\ r.synced = q.synced
  BY DEF Files
<1> HIDE DEF r, q
<1>3. r = q
  BY <1>1, <1>2 DEF Files
<1> QED
  BY <1>3 DEF r, q

LEMMA SaveSyncInv ==
  ASSUME IInv, NEW e \in Explorers, SaveSync(e)
  PROVE  IInv'
<1> DEFINE f == [temp[e] EXCEPT !.synced = TRUE]
<1>1. Typed /\ SaveInv(e) /\ FilesInv
  BY DEF IInv, ExplorerInv
<1>2. /\ ui[e] = "sync" /\ ui' = [ui EXCEPT ![e] = "rename"]
      /\ UNCHANGED <<meta, overtaken, app, job, fin, thread>>
      /\ temp' = [temp EXCEPT ![e] = f] /\ UNCHANGED <<cache, older, head>>
  BY DEF SaveSync, At, Goto, SetTemp, TempOf
<1>3. temp[e] = [head |-> head[e], body |-> counted[e], whole |-> TRUE, synced |-> ui[e] = "rename"]
  BY <1>1, <1>2 DEF SaveInv
<1>4. f = [head |-> head[e], body |-> counted[e], whole |-> TRUE, synced |-> TRUE]
  <2>1. f = [temp[e] EXCEPT !.synced = TRUE] /\ temp[e] \in Files
    BY <1>1 DEF Typed
  <2>2. /\ temp[e].head = head[e] /\ temp[e].body = counted[e] /\ temp[e].whole = TRUE
    BY <1>3
  <2> QED
    BY <2>1, <2>2, SyncedFile
<1>5. f \in Files /\ f = [head |-> head[e], body |-> counted[e], whole |-> TRUE, synced |-> "rename" = "rename"]
  BY <1>1, <1>4 DEF Files, Typed
<1>6. /\ head[e] \in 0 .. MaxVersions /\ head' = [head EXCEPT ![e] = head[e]]
      /\ Near(overtaken, opened[e], head[e]) /\ cache' \in Files /\ older' \subseteq Files /\ FilesInv'
  BY <1>1, <1>2 DEF Typed, FilesInv, SaveInv, SaveSteps
<1>7. "rename" \in UiSteps \ {"closed", "load", "drain", "quit"} /\ "sync" \in SaveSteps
  BY DEF UiSteps, SaveSteps
<1> HIDE DEF f
<1> QED
  BY <1>2, <1>5, <1>6, <1>7, SaveStepInv

\* The side file that replaces the cache is whole, synced and exact.
LEMMA SaveRenameInv ==
  ASSUME IInv, NEW e \in Explorers, SaveRename(e)
  PROVE  IInv'
<1>1. Typed /\ SaveInv(e) /\ FilesInv /\ TodoInv(e)
  BY DEF IInv, ExplorerInv
<1>2. /\ ui[e] = "rename" /\ ui' = [ui EXCEPT ![e] = "idle"]
      /\ UNCHANGED <<meta, overtaken, app, job, fin, thread>>
      /\ temp' = [temp EXCEPT ![e] = NoFile] /\ head' = [head EXCEPT ![e] = 0]
      /\ cache' = temp[e] /\ older' = older \cup {cache}
  BY DEF SaveRename, SaveReturns, At, Goto, SetTemp, TempOf
<1>3. temp[e] = [head |-> head[e], body |-> counted[e], whole |-> TRUE, synced |-> TRUE]
  BY <1>1, <1>2 DEF SaveInv
<1>4. /\ Exactly(opened[e], counted[e]) /\ OpsOnce(counted[e])
      /\ opened[e] \in Versions /\ Near(overtaken, opened[e], head[e])
  BY <1>1, <1>2, OwnCounts DEF SaveInv, SaveSteps, CountedOk
<1>5. FileInv(overtaken, temp[e])
  BY <1>3, <1>4 DEF FileInv
<1>6. FilesInv'
  BY <1>1, <1>2, <1>5 DEF FilesInv
<1>7. 0 \in 0 .. MaxVersions /\ cache' \in Files /\ older' \subseteq Files
  BY <1>1, <1>2, KeyCountsAssumption DEF Typed
<1>8. "idle" \in UiSteps \ {"closed", "load", "drain", "quit"} /\ "rename" \in SaveSteps /\ "idle" \notin SaveSteps
  BY DEF UiSteps, SaveSteps
<1> QED
  BY <1>2, <1>6, <1>7, <1>8, NoFileIsFile, SaveStepInv

LEMMA SaveFailsInv ==
  ASSUME IInv, NEW e \in Explorers, SaveFails(e)
  PROVE  IInv'
<1>1. Typed /\ FilesInv
  BY DEF IInv
<1>2. /\ ui[e] \in SaveSteps /\ ui' = [ui EXCEPT ![e] = "idle"]
      /\ UNCHANGED <<meta, overtaken, app, job, fin, thread>>
      /\ temp' = [temp EXCEPT ![e] = NoFile] /\ head' = [head EXCEPT ![e] = 0]
      /\ UNCHANGED <<cache, older>>
  BY DEF SaveFails, SaveReturns, Goto, SetTemp, TempOf
<1>3. 0 \in 0 .. MaxVersions /\ cache' \in Files /\ older' \subseteq Files /\ FilesInv'
  BY <1>1, <1>2, KeyCountsAssumption DEF Typed, FilesInv
<1>4. "idle" \in UiSteps \ {"closed", "load", "drain", "quit"} /\ "idle" \notin SaveSteps
  BY DEF UiSteps, SaveSteps
<1> QED
  BY <1>2, <1>3, <1>4, NoFileIsFile, SaveStepInv

\* Another _metadata, whoever has the old one open.
LEMMA ReplaceMetadataInv == IInv /\ ReplaceMetadata => IInv'
<1> SUFFICES ASSUME IInv, ReplaceMetadata PROVE IInv'
  OBVIOUS
<1> DEFINE new == {<<opened[e], meta + 1>> : e \in {x \in Explorers : opened[x] # 0}}
<1>1. /\ meta < MaxVersions /\ meta' = meta + 1 /\ overtaken' = overtaken \cup new
      /\ UNCHANGED <<cache, older, temp, ui, opened, shown, browsed, counted, complete, job, fin,
                     head, wk, cancel, chan>>
  BY DEF ReplaceMetadata, app, thread
<1>2. Typed /\ OvertakenInv /\ \A e \in Explorers : ExplorerInv(e)
  BY DEF IInv
<1>3. meta \in Nat /\ meta' \in Versions
  BY <1>1, <1>2, KeyCountsAssumption DEF Typed, Versions
<1>4. \A e \in Explorers : opened[e] # 0 =>
         opened[e] \in Versions /\ Near(overtaken, opened[e], meta)
  BY <1>2 DEF ExplorerInv, SaveInv
<1>5. \A u, w : <<u, w>> \in new =>
         w = meta + 1 /\ u \in Versions /\ Near(overtaken, u, meta)
  BY <1>4
<1>6. new \subseteq Versions \X Versions
  BY <1>1, <1>3, <1>4
<1>7. Typed'
  BY <1>1, <1>2, <1>3, <1>6 DEF Typed
<1>8. overtaken \subseteq overtaken'
  BY <1>1
<1>9. ASSUME NEW v, NEW w, Near(overtaken, v, w) PROVE Near(overtaken', v, w)
  BY <1>8, <1>9 DEF Near
<1>10. OvertakenInv'
  <2> SUFFICES ASSUME NEW u \in Versions, NEW w \in Versions, <<u, w>> \in overtaken'
               PROVE  /\ u < w /\ w <= meta'
                      /\ \A x \in Versions : u < x /\ x <= w => <<u, x>> \in overtaken'
    BY DEF OvertakenInv
  <2>1. CASE <<u, w>> \in overtaken
    BY <1>1, <1>2, <1>3, <1>8, <2>1 DEF OvertakenInv, Versions
  <2>2. CASE <<u, w>> \in new
    <3> HIDE DEF new
    <3>1. w = meta + 1 /\ Near(overtaken, u, meta) /\ meta \in Versions
      BY <1>2, <1>5, <2>2 DEF Typed
    <3>2. u <= meta /\ \A x \in Versions : u < x /\ x <= meta => <<u, x>> \in overtaken
      <4>1. CASE u = meta
        BY <1>3, <4>1 DEF Versions
      <4>2. CASE <<u, meta>> \in overtaken
        BY <1>2, <3>1, <4>2 DEF OvertakenInv, Versions
      <4> QED
        BY <3>1, <4>1, <4>2 DEF Near
    <3>3. \A x \in Versions : x <= w => x <= meta \/ x = w
      BY <1>3, <3>1 DEF Versions
    <3>4. u < w /\ w <= meta'
      BY <1>1, <1>3, <3>1, <3>2 DEF Versions
    <3> QED
      BY <1>1, <2>2, <3>2, <3>3, <3>4
  <2> QED
    BY <1>1, <2>1, <2>2
<1>11. FilesInv'
  <2>1. ASSUME NEW f, FileInv(overtaken, f) PROVE FileInv(overtaken', f)
    BY <1>9, <2>1 DEF FileInv
  <2> QED
    BY <1>1, <2>1 DEF IInv, FilesInv
<1>12. ASSUME NEW e \in Explorers
      PROVE  ExplorerInv(e)'
  <2>1. WorkerInv(e)'
    BY <1>1 DEF IInv, ExplorerInv, WorkerInv, Working, At
  <2>2. TodoInv(e)'
    <3>1. ASSUME NEW sh, NEW t, NEW cs, NEW v0, CachedOk(overtaken, sh, t, cs, v0)
          PROVE  CachedOk(overtaken', sh, t, cs, v0)
      BY <1>9, <3>1 DEF CachedOk
    <3> QED
      BY <1>1, <3>1 DEF IInv, ExplorerInv, TodoInv
  <2>3. SaveInv(e)'
    <3>1. SaveInv(e)
      BY <1>2 DEF ExplorerInv
    <3>2. ui[e] \notin {"closed", "quit"} => Near(overtaken', opened[e], meta')
      <4>1. ui[e] \notin {"closed", "quit"} => opened[e] \in Versions
        BY <3>1 DEF SaveInv
      <4>2. opened[e] \in Versions => opened[e] # 0
        BY DEF Versions
      <4>3. opened[e] # 0 => <<opened[e], meta + 1>> \in new
        OBVIOUS
      <4> QED
        BY <1>1, <4>1, <4>2, <4>3 DEF Near
    <3> HIDE DEF new
    <3> QED
      BY <1>1, <1>9, <3>1, <3>2 DEF SaveInv, Exactly
  <2> QED
    BY <2>1, <2>2, <2>3 DEF ExplorerInv
<1> QED
  BY <1>7, <1>10, <1>11, <1>12 DEF IInv

\* Whichever file a power loss leaves, it was synced: it is left as it was.
LEMMA PowerLossInv == IInv /\ PowerLoss => IInv'
<1> SUFFICES ASSUME IInv, PowerLoss PROVE IInv'
  OBVIOUS
<1>1. /\ older' = {}
      /\ UNCHANGED <<meta, overtaken, temp, ui, opened, shown, browsed, counted, complete, job, fin,
                     head, wk, cancel, chan>>
  BY DEF PowerLoss, app, thread
<1>2. PICK f \in {cache} \cup older : \E whole \in {f.whole, f.whole /\ f.synced} :
          cache' = [f EXCEPT !.whole = whole, !.synced = TRUE]
  BY DEF PowerLoss
<1>3. f \in Files /\ FileInv(overtaken, f)
  BY DEF IInv, Typed, FilesInv
<1>4. cache' = [f EXCEPT !.whole = TRUE, !.synced = TRUE] /\ f.whole = TRUE /\ f.synced = TRUE
  BY <1>2, <1>3 DEF FileInv, Files
<1>5. cache' = f
  BY <1>3, <1>4 DEF Files
<1>6. Typed' /\ FilesInv' /\ OvertakenInv'
  BY <1>1, <1>3, <1>5 DEF IInv, Typed, FilesInv, OvertakenInv
<1>7. \A e \in Explorers : ExplorerInv(e)'
  BY <1>1, OthersKeep DEF IInv
<1> QED
  BY <1>6, <1>7 DEF IInv

-----------------------------------------------------------------------------
(***************************************************************************)
(* Taking over the cached counts, and applying the worker's messages.      *)
(***************************************************************************)

\* Two versions that were open when the same one came: one was open when the other
\* came.
LEMMA BothOvertaken ==
  ASSUME IInv, NEW u \in Versions, NEW w \in Versions, NEW h \in Versions,
         Near(overtaken, u, h), Near(overtaken, w, h)
  PROVE  Near(overtaken, u, w) \/ Near(overtaken, w, u)
<1>1. ASSUME NEW x \in Versions, NEW y \in Versions, x < y,
             Near(overtaken, x, h), Near(overtaken, y, h)
      PROVE  <<x, y>> \in overtaken
  <2>1. y <= h
    BY <1>1 DEF IInv, OvertakenInv, Near, Versions
  <2> QED
    BY <1>1, <2>1 DEF IInv, OvertakenInv, Near, Versions
<1> QED
  BY <1>1 DEF Near, Versions

\* The cache, when it is used, has the exact count of every operator; otherwise none
\* is taken over, and all are counted.
LEMMA LoadCountsInv ==
  ASSUME IInv, NEW e \in Explorers, LoadCounts(e)
  PROVE  IInv'
<1> DEFINE body == IF Fresh(cache) THEN BodyOf(cache) ELSE <<>>
           known == {c.op : c \in Range(body)}
           ver(o) == (CHOOSE c \in Range(body) : c.op = o).ver
           keys(o) == (CHOOSE c \in Range(body) : c.op = o).keys
           sh == [o \in Ops |-> IF o \in known THEN Exact(ver(o), keys(o)) ELSE Unknown]
<1>1. /\ ui[e] = "load" /\ StartCount(e, Ops \ known)
      /\ shown' = [shown EXCEPT ![e] = sh] /\ counted' = [counted EXCEPT ![e] = body]
      /\ ui' = [ui EXCEPT ![e] = "idle"]
      /\ UNCHANGED <<meta, overtaken, cache, older, temp, opened, browsed, fin, head>>
  BY DEF LoadCounts, At, Goto, disk
<1>2. Typed /\ ExplorerInv(e) /\ FileInv(overtaken, cache)
  BY DEF IInv, FilesInv
<1>3. /\ ~job[e] /\ chan[e] = <<>> /\ wk[e].todo = <<>> /\ ~Working(e) /\ ~fin[e]
      /\ opened[e] \in Versions /\ Near(overtaken, opened[e], meta)
  BY <1>1, <1>2 DEF ExplorerInv, SaveInv, WorkerInv, At
<1>4. PICK v \in Versions :
         /\ body \in Seq(Entries) /\ OpsOnce(body)
         /\ \A c \in Range(body) : c.op \in Ops /\ c.ver = v /\ c.keys = Pages
         /\ Near(overtaken, v, opened[e]) \/ Near(overtaken, opened[e], v)
         /\ Ops \ known # {} => v = opened[e]
  <2>1. CASE Fresh(cache)
    <3>1. cache # NoFile /\ cache.head = meta /\ cache.whole
      BY <1>2, <2>1 DEF Fresh, FileInv
    <3>2. body = cache.body
      BY <2>1, <3>1 DEF BodyOf
    <3>3. body \in Seq(Entries)
      BY <1>2, <3>2 DEF Typed, Files
    <3>4. PICK v \in Versions : Exactly(v, body) /\ Near(overtaken, v, meta) /\ OpsOnce(body)
      BY <1>2, <3>1, <3>2 DEF FileInv
    <3>5. Near(overtaken, v, opened[e]) \/ Near(overtaken, opened[e], v)
      BY <1>2, <1>3, <3>4, BothOvertaken DEF Typed
    <3> HIDE DEF body
    <3>6. \A c \in Range(body) : c.op \in known /\ c.ver = v /\ c.keys = Pages
      BY <3>4 DEF Exactly
    <3>7. known = Ops
      BY <3>4 DEF Exactly
    <3> QED
      BY <3>3, <3>4, <3>5, <3>6, <3>7
  <2>2. CASE ~Fresh(cache)
    <3>1. body = <<>> /\ Range(body) = {}
      BY <2>2 DEF Range
    <3>2. <<>> \in Seq(Entries) /\ OpsOnce(<<>>)
      BY DEF OpsOnce
    <3>3. Near(overtaken, opened[e], opened[e])
      BY DEF Near
    <3> HIDE DEF body
    <3> QED
      BY <1>3, <3>1, <3>2, <3>3
  <2> QED
    BY <2>1, <2>2
<1> HIDE DEF body
<1>5. ASSUME NEW o \in Ops, o \in known
      PROVE  ver(o) = v /\ keys(o) = Pages
  <2>1. \E c \in Range(body) : c.op = o
    BY <1>5
  <2> QED
    BY <1>4, <2>1
<1>6. \A o \in Ops : sh[o] = IF o \in known THEN Exact(v, Pages) ELSE Unknown
  BY <1>5
<1>7. sh \in [Ops -> Counts]
  <2>1. Exact(v, Pages) \in Counts
    BY <1>2, KeyCountsAssumption DEF Exact, Counts, Versions
  <2> QED
    BY <1>6, <2>1, UnknownIsCount
<1>8. \A i \in 1 .. Len(body) : body[i].op \in known /\ body[i].op \in Ops /\ body[i].ver = v /\ body[i].keys = Pages
  <2>1. \A i \in 1 .. Len(body) : body[i] \in Range(body)
    BY <1>4, RangeAt
  <2> QED
    BY <1>4, <2>1
<1>9. \A o \in Ops : /\ o \in known => sh[o].kind = "exact" /\ sh[o].ver = v /\ sh[o].keys = Pages
                     /\ o \notin known => sh[o].kind = "unknown"
  BY <1>6, UnknownIsCount DEF Exact
<1> HIDE DEF sh, known
<1>10. /\ shown' \in [Explorers -> [Ops -> Counts]] /\ shown'[e] = sh
       /\ counted' \in [Explorers -> Seq(Entries)] /\ counted'[e] = body
       /\ ui' \in [Explorers -> UiSteps] /\ ui'[e] = "idle"
       /\ \A d \in Explorers \ {e} : shown'[d] = shown[d] /\ counted'[d] = counted[d] /\ ui'[d] = ui[d]
  <2>1. shown' \in [Explorers -> [Ops -> Counts]] /\ shown'[e] = sh
    BY <1>1, <1>2, <1>7 DEF Typed
  <2>2. counted' \in [Explorers -> Seq(Entries)] /\ counted'[e] = body
    BY <1>1, <1>2, <1>4 DEF Typed
  <2>3. ui' \in [Explorers -> UiSteps] /\ ui'[e] = "idle"
    BY <1>1, <1>2 DEF Typed, UiSteps
  <2>4. \A d \in Explorers \ {e} : shown'[d] = shown[d] /\ counted'[d] = counted[d] /\ ui'[d] = ui[d]
    BY <1>1, <1>2 DEF Typed
  <2> QED
    BY <2>1, <2>2, <2>3, <2>4
<1>11. CountedOk(body, v, sh)
  BY <1>4, <1>8, <1>9 DEF CountedOk
<1>12. /\ FilesInv' /\ SaveInv(e)'
  BY <1>1, <1>3, <1>10 DEF IInv, FilesInv, SaveInv, SaveSteps
<1>13. CASE Ops \ known = {}
  <2>1. UNCHANGED <<complete, job, wk, cancel, chan>>
    BY <1>1, <1>13 DEF StartCount, thread
  <2>2. Typed'
    BY <1>1, <1>2, <1>10, <2>1 DEF Typed
  <2>3. OnlyFor(e)
    BY <1>1, <1>10, <2>1 DEF OnlyFor
  <2>4. WorkerInv(e)'
    BY <1>1, <1>2, <1>3, <1>10, <2>1 DEF ExplorerInv, WorkerInv, Working, At
  <2>5. /\ MessagesOk(<<>>, <<>>, sh) /\ ExactOk(sh, <<>>, v)
        /\ CountingOk(sh, browsed[e], <<>>, <<>>, job[e])
    BY <1>9 DEF MessagesOk, ExactOk, CountingOk, Within
  <2>6. CountsOf(sh, <<>>, body, v) /\ \A o \in Ops : sh[o].kind = "exact"
    BY <1>9, <1>11, <1>13, <2>5 DEF CountsOf
  <2>7. CachedOk(overtaken, sh, <<>>, body, opened[e])
    BY <1>4, <2>6 DEF CachedOk
  <2>8. TodoInv(e)'
    BY <1>1, <1>3, <1>10, <2>1, <2>5, <2>7 DEF TodoInv
  <2> QED
    BY <1>1, <1>12, <2>2, <2>3, <2>4, <2>8, StepKeeps DEF ExplorerInv
<1>14. CASE Ops \ known # {}
  <2> DEFINE w == Spawned(Ops \ known)
  <2>1. /\ complete' \in [Explorers -> BOOLEAN] /\ job' \in [Explorers -> BOOLEAN]
        /\ wk' \in [Explorers -> Workers] /\ cancel' \in [Explorers -> BOOLEAN]
        /\ chan' \in [Explorers -> Seq(Msgs)]
        /\ \A d \in Explorers \ {e} :
              /\ job'[d] = job[d] /\ wk'[d] = wk[d] /\ cancel'[d] = cancel[d] /\ chan'[d] = chan[d]
        /\ job'[e] /\ ~cancel'[e] /\ chan'[e] = <<>> /\ wk'[e] = w
    BY <1>1, <1>2, <1>14, StartCountWorker
  <2>2. /\ w.at = "run" /\ w.pages = 0 /\ w.keys = 0 /\ Once(w.todo)
        /\ \A o : Within(w.todo, o) <=> o \in Ops \ known
    BY SpawnedWorker
  <2> HIDE DEF w
  <2>3. Typed'
    BY <1>1, <1>2, <1>10, <2>1 DEF Typed
  <2>4. OnlyFor(e)
    BY <1>1, <1>10, <2>1 DEF OnlyFor
  <2>5. WorkerInv(e)'
    BY <1>1, <1>3, <1>10, <2>1, <2>2, KeyCountsAssumption DEF WorkerInv, Working, At
  <2>6. /\ MessagesOk(<<>>, w.todo, sh) /\ ExactOk(sh, w.todo, v)
        /\ CountingOk(sh, browsed[e], <<>>, w.todo, job'[e])
    BY <1>9, <2>2 DEF MessagesOk, ExactOk, CountingOk
  <2>7. TodoInv(e)'
    BY <1>1, <1>3, <1>4, <1>10, <1>11, <1>14, <2>1, <2>6 DEF TodoInv, CountsOf
  <2> QED
    BY <1>1, <1>12, <2>3, <2>4, <2>5, <2>7, StepKeeps DEF ExplorerInv
<1> QED
  BY <1>13, <1>14

\* What an operator shows after the messages ch, before they are settled.
LEMMA ShownAfter ==
  ASSUME Typed, NEW e \in Explorers, NEW o \in Ops, opened[e] \in Versions,
         MessagesOk(chan[e], wk[e].todo, shown[e]),
         ExactOk(shown[e], wk[e].todo, opened[e]),
         CountingOk(shown[e], browsed[e], chan[e], wk[e].todo, job[e])
  PROVE  LET r == ShownNow(e, o) IN
         /\ r \in Counts
         /\ r.kind = "exact" => r.ver = opened[e] /\ r.keys = Pages /\ ~Within(wk[e].todo, o)
         /\ r.kind = "counting" /\ browsed[e][o] = "part" => Within(wk[e].todo, o)
         /\ shown[e][o].kind = "exact" => r.kind = "exact"
         /\ \A i \in 1 .. Len(chan[e]) :
               IsExact(chan[e][i]) /\ chan[e][i].op = o => r.kind = "exact"
<1> DEFINE ch == chan[e]
           n == Len(ch)
           t == wk[e].todo
           last == LastOf(ch, o)
           r == ShownNow(e, o)
<1>1. ch \in Seq(Msgs) /\ n \in Nat /\ opened[e] \in 0 .. MaxVersions /\ shown[e][o] \in Counts
  BY KeyCountsAssumption DEF Typed, Versions
<1>2. \A i \in 1 .. n :
       /\ ch[i] \in Msgs
       /\ Done(ch[i]) /\ ch[i].complete => ch[i].keys = Pages
       /\ Done(ch[i]) => ~Within(t, ch[i].op)
       /\ Done(ch[i]) => \A j \in 1 .. n : i < j => ch[j].op # ch[i].op
       /\ ~Done(ch[i]) => Within(t, ch[i].op) \/ Later(ch, i, ch[i].op)
       /\ shown[e][ch[i].op].kind # "exact"
  BY <1>1 DEF MessagesOk
<1>3. \/ last = 0 /\ \A i \in 1 .. n : ch[i].op # o
      \/ /\ last \in 1 .. n /\ ch[last].op = o
         /\ \A i \in 1 .. n : ch[i].op = o => i <= last
  BY <1>1, LastMessage
<1>4. r = IF last = 0 THEN shown[e][o] ELSE ShownFor(e, ch[last])
  BY DEF ShownNow
<1>5. \A i : Later(ch, i, o) <=> \E j \in 1 .. n : i < j /\ Done(ch[j]) /\ ch[j].op = o
  BY DEF Later
<1>6. Heard(ch, t, o) <=> Within(t, o) \/ \E i \in 1 .. n : Done(ch[i]) /\ ch[i].op = o
  BY DEF Heard
<1> HIDE DEF ch, n, t, last, r
<1>7. CASE last = 0
  <2>1. r = shown[e][o] /\ \A i \in 1 .. n : ch[i].op # o
    BY <1>3, <1>4, <1>7
  <2>2. r.kind = "exact" => r.ver = opened[e] /\ r.keys = Pages /\ ~Within(t, o)
    BY <2>1 DEF ExactOk, t
  <2>3. r.kind = "counting" /\ browsed[e][o] = "part" => Heard(ch, t, o)
    BY <2>1 DEF CountingOk, ch, t
  <2> QED
    BY <1>1, <1>6, <2>1, <2>2, <2>3 DEF ch, n, t, r
<1>8. CASE last # 0
  <2>1. /\ last \in 1 .. n /\ ch[last].op = o /\ r = ShownFor(e, ch[last]) /\ ch[last] \in Msgs
        /\ \A i \in 1 .. n : ch[i].op = o => i <= last
    BY <1>2, <1>3, <1>4, <1>8
  <2>2. shown[e][o].kind # "exact"
    BY <1>2, <2>1
  <2>3. CASE ~Done(ch[last])
    <3>1. ch[last].kind = "progress" /\ ch[last].keys \in 0 .. Pages
      BY <2>1, <2>3 DEF Done, Msgs
    <3>2. r = LowerBound("counting")
      BY <2>1, <3>1 DEF ShownFor
    <3>3. r \in Counts /\ r.kind = "counting"
      BY <3>2, KeyCountsAssumption DEF LowerBound, Counts
    <3>4. ~Later(ch, last, o)
      BY <1>1, <1>5, <2>1
    <3>5. Within(t, o)
      BY <1>2, <2>1, <2>3, <3>4
    <3>6. ASSUME NEW i \in 1 .. n, Done(ch[i]), ch[i].op = o
          PROVE  FALSE
      <4>1. i <= last /\ i # last
        BY <2>1, <2>3, <3>6
      <4>2. i < last
        BY <1>1, <2>1, <4>1
      <4> QED
        BY <1>2, <2>1, <3>6, <4>2
    <3>7. \A i \in 1 .. n : ~(IsExact(ch[i]) /\ ch[i].op = o)
      BY <3>6 DEF IsExact, Done
    <3> QED
      BY <2>2, <3>3, <3>5, <3>7 DEF ch, n, t, r
  <2>4. CASE Done(ch[last])
    <3>1. ch[last].kind = "done" /\ ch[last].keys \in 0 .. Pages /\ ch[last].complete \in BOOLEAN
      BY <2>1, <2>4 DEF Done, Msgs
    <3>2. r = IF ch[last].complete THEN Exact(opened[e], ch[last].keys) ELSE LowerBound("atleast")
      BY <2>1, <3>1 DEF ShownFor
    <3>3. /\ r \in Counts /\ (r.kind = "exact" <=> ch[last].complete) /\ r.kind # "counting"
          /\ r.kind = "exact" => r.ver = opened[e] /\ r.keys = ch[last].keys
      BY <1>1, <3>1, <3>2, KeyCountsAssumption DEF Exact, LowerBound, Counts
    <3>4. (ch[last].complete => ch[last].keys = Pages) /\ ~Within(t, o)
      BY <1>2, <2>1, <2>4
    <3>5. ASSUME NEW i \in 1 .. n, IsExact(ch[i]), ch[i].op = o
          PROVE  ch[last].complete
      <4>1. i <= last /\ Done(ch[i]) /\ ch[i].complete
        BY <2>1, <3>5 DEF IsExact, Done
      <4>2. ~(i < last)
        BY <1>2, <2>1, <3>5, <4>1
      <4>3. i = last
        BY <1>1, <2>1, <4>1, <4>2
      <4> QED
        BY <4>1, <4>3
    <3> QED
      BY <2>2, <3>3, <3>4, <3>5 DEF ch, n, t, r
  <2> QED
    BY <2>3, <2>4
<1> QED
  BY <1>7, <1>8

\* Applying the messages: what is shown and kept afterwards.
LEMMA ApplyCountsOk ==
  ASSUME Typed, NEW e \in Explorers, NEW settled, ApplyCounts(e, settled),
         opened[e] \in Versions, TodoInv(e), job[e] \/ ui[e] # "idle"
  PROVE  /\ shown'[e] \in [Ops -> Counts] /\ counted'[e] \in Seq(Entries)
         /\ shown' \in [Explorers -> [Ops -> Counts]]
         /\ ExactOk(shown'[e], wk[e].todo, opened[e])
         /\ \A o \in Ops : shown'[e][o].kind = "counting" /\ browsed[e][o] = "part" =>
               o \notin settled /\ Within(wk[e].todo, o)
         /\ CountedOk(counted'[e], opened[e], shown'[e])
<1> DEFINE now(o) == ShownNow(e, o)
           sh == [o \in Ops |-> IF o \in settled /\ now(o).kind = "counting"
                                THEN [now(o) EXCEPT !.kind = "atleast"] ELSE now(o)]
           ch == chan[e]
           S == {m \in Range(ch) : IsExact(m)}
           x == Keep(ch, S)
           new == [i \in DOMAIN x |-> Entry(e, x[i])]
<1>1. shown' = [shown EXCEPT ![e] = sh] /\ counted' = [counted EXCEPT ![e] = counted[e] \o new]
  BY DEF ApplyCounts
<1>2. /\ MessagesOk(ch, wk[e].todo, shown[e]) /\ ExactOk(shown[e], wk[e].todo, opened[e])
      /\ CountingOk(shown[e], browsed[e], ch, wk[e].todo, job[e])
      /\ CountedOk(counted[e], opened[e], shown[e])
  BY OwnCounts DEF TodoInv
<1>3. ASSUME NEW o \in Ops
      PROVE  /\ now(o) \in Counts
             /\ now(o).kind = "exact" =>
                   now(o).ver = opened[e] /\ now(o).keys = Pages /\ ~Within(wk[e].todo, o)
             /\ now(o).kind = "counting" /\ browsed[e][o] = "part" => Within(wk[e].todo, o)
             /\ shown[e][o].kind = "exact" => now(o).kind = "exact"
             /\ \A i \in 1 .. Len(ch) : IsExact(ch[i]) /\ ch[i].op = o => now(o).kind = "exact"
  BY <1>2, ShownAfter
<1> HIDE DEF now
<1>4. ASSUME NEW o \in Ops
      PROVE  /\ sh[o] \in Counts
             /\ sh[o].kind = "exact" <=> now(o).kind = "exact"
             /\ sh[o].kind = "exact" => sh[o] = now(o)
             /\ sh[o].kind = "counting" => sh[o] = now(o) /\ o \notin settled
  <2>1. now(o) \in Counts
    BY <1>3
  <2>2. CASE o \in settled /\ now(o).kind = "counting"
    <3>1. sh[o] = [now(o) EXCEPT !.kind = "atleast"]
      BY <2>2
    <3> QED
      BY <2>1, <2>2, <3>1 DEF Counts
  <2>3. CASE ~(o \in settled /\ now(o).kind = "counting")
    <3>1. sh[o] = now(o)
      BY <2>3
    <3> QED
      BY <2>1, <2>3, <3>1
  <2> QED
    BY <2>2, <2>3
<1>5. sh \in [Ops -> Counts]
  <2>1. sh = [o \in Ops |-> sh[o]]
    OBVIOUS
  <2> HIDE DEF sh
  <2> QED
    BY <1>4, <2>1
<1> HIDE DEF sh
<1>6. shown'[e] = sh /\ shown' \in [Explorers -> [Ops -> Counts]]
  BY <1>1, <1>5 DEF Typed
<1>7. ExactOk(sh, wk[e].todo, opened[e])
  BY <1>3, <1>4 DEF ExactOk
<1>8. \A o \in Ops : sh[o].kind = "counting" /\ browsed[e][o] = "part" =>
               o \notin settled /\ Within(wk[e].todo, o)
  BY <1>3, <1>4
<1>9. ch \in Seq(Msgs) /\ counted[e] \in Seq(Entries)
  BY DEF Typed
<1> DEFINE I == KeptAt(ch, S)
           n == Cardinality(I)
<1>10. PICK at \in [1 .. n -> I] :
               /\ n \in Nat /\ x \in Seq(Msgs) /\ Len(x) = n
               /\ \A k \in 1 .. n : x[k] = ch[at[k]]
               /\ \A k, l \in 1 .. n : k < l => at[k] < at[l]
  BY <1>9, KeepPositions
<1>11. \A i \in I : i \in 1 .. Len(ch) /\ IsExact(ch[i])
  BY <1>9 DEF KeptAt
<1>12. DOMAIN x = 1 .. n
  BY <1>10
<1>13. new = [i \in 1 .. n |-> Entry(e, x[i])]
  BY <1>12
<1> HIDE DEF I, n, x, S, ch, new
<1>14. ASSUME NEW k \in 1 .. n
       PROVE  /\ new[k] \in Entries /\ new[k].ver = opened[e] /\ new[k].keys = Pages
              /\ new[k].op = ch[at[k]].op /\ new[k].op \in Ops
              /\ sh[new[k].op].kind = "exact" /\ shown[e][new[k].op].kind # "exact"
              /\ \A l \in 1 .. n : k < l => new[k].op # new[l].op
  <2>1. at[k] \in 1 .. Len(ch) /\ IsExact(ch[at[k]]) /\ x[k] = ch[at[k]] /\ x[k] \in Msgs
    BY <1>10, <1>11
  <2>2. Done(x[k]) /\ x[k].complete
    BY <2>1 DEF IsExact, Done
  <2>3. x[k].keys = Pages /\ shown[e][x[k].op].kind # "exact"
    BY <1>2, <2>1, <2>2 DEF MessagesOk
  <2>4. x[k].op \in Ops /\ x[k].keys \in 0 .. Pages
    BY <2>1 DEF Msgs
  <2>5. new[k] = [op |-> x[k].op, ver |-> opened[e], keys |-> x[k].keys]
    BY <1>13 DEF Entry
  <2>6. new[k] \in Entries /\ new[k].ver = opened[e] /\ new[k].keys = Pages /\ new[k].op = x[k].op
    BY <1>9, <2>3, <2>4, <2>5 DEF Entries
  <2>7. sh[x[k].op].kind = "exact"
    BY <1>3, <1>4, <2>1, <2>4
  <2>8. ASSUME NEW l \in 1 .. n, k < l
        PROVE  new[k].op # new[l].op
    <3>1. at[k] < at[l] /\ at[l] \in 1 .. Len(ch) /\ x[l] = ch[at[l]]
      BY <1>10, <1>11, <2>8
    <3>2. ch[at[l]].op # ch[at[k]].op
      BY <1>2, <2>1, <2>2, <3>1 DEF MessagesOk
    <3>3. new[l].op = x[l].op
      BY <1>13 DEF Entry
    <3> QED
      BY <2>1, <2>6, <3>1, <3>2, <3>3
  <2> QED
    BY <2>1, <2>3, <2>4, <2>6, <2>7, <2>8
<1>15. new \in Seq(Entries) /\ Len(new) = n
  <2>1. n \in Nat /\ new \in [1 .. n -> Entries]
    BY <1>10, <1>13, <1>14
  <2> QED
    BY <2>1
<1> DEFINE cs == counted[e]
           p == Len(cs)
           both == cs \o new
<1>16. /\ both \in Seq(Entries) /\ p \in Nat /\ Len(both) = p + n
       /\ \A i \in 1 .. p : both[i] = cs[i]
       /\ \A i \in p + 1 .. p + n : both[i] = new[i - p]
  <2>1. /\ both \in Seq(Entries) /\ Len(both) = Len(cs) + Len(new)
        /\ \A i \in 1 .. Len(cs) + Len(new) : both[i] = IF i <= Len(cs) THEN cs[i] ELSE new[i - Len(cs)]
    BY <1>9, <1>15, ConcatProperties
  <2>2. p \in Nat /\ n \in Nat
    BY <1>9, <1>10
  <2>3. /\ Len(both) = p + n
        /\ \A i \in 1 .. p + n : both[i] = IF i <= p THEN cs[i] ELSE new[i - p]
    BY <1>15, <2>1
  <2>4. both \in Seq(Entries) /\ Len(both) = p + n
    BY <2>1, <2>3
  <2>5. \A i \in 1 .. p + n : both[i] = IF i <= p THEN cs[i] ELSE new[i - p]
    BY <2>3
  <2> HIDE DEF cs, p, both
  <2>6. /\ \A i \in 1 .. p : both[i] = cs[i]
        /\ \A i \in p + 1 .. p + n : both[i] = new[i - p]
    BY <2>2, <2>5
  <2> QED
    BY <2>2, <2>4, <2>6
<1>17. /\ \A i \in 1 .. p : /\ cs[i] \in Entries /\ cs[i].ver = opened[e] /\ cs[i].keys = Pages
                            /\ shown[e][cs[i].op].kind = "exact"
       /\ \A i, j \in 1 .. p : cs[i].op = cs[j].op => i = j
  BY <1>2, <1>9 DEF CountedOk, OpsOnce
<1>18. \A i \in 1 .. p : cs[i].op \in Ops
  BY <1>17 DEF Entries
<1> HIDE DEF cs, p, both
<1>19. ASSUME NEW i \in 1 .. p + n
       PROVE  /\ both[i].ver = opened[e] /\ both[i].keys = Pages /\ sh[both[i].op].kind = "exact"
              /\ \A j \in 1 .. p + n : i < j => both[i].op # both[j].op
  <2>1. \A j \in 1 .. p + n : j \in 1 .. p \/ (j \in p + 1 .. p + n /\ j - p \in 1 .. n)
    BY <1>10, <1>16
  <2>2. CASE i \in 1 .. p
    <3>1. both[i] = cs[i] /\ sh[cs[i].op].kind = "exact"
      BY <1>3, <1>4, <1>16, <1>17, <1>18, <2>2
    <3>2. ASSUME NEW j \in 1 .. p + n, i < j
          PROVE  both[i].op # both[j].op
      <4>1. CASE j \in 1 .. p
        BY <1>16, <1>17, <2>2, <3>1, <3>2, <4>1
      <4>2. CASE j \in p + 1 .. p + n /\ j - p \in 1 .. n
        <5>1. both[j] = new[j - p] /\ shown[e][new[j - p].op].kind # "exact"
          BY <1>14, <1>16, <4>2
        <5> QED
          BY <1>17, <2>2, <3>1, <5>1
      <4> QED
        BY <2>1, <4>1, <4>2
    <3> QED
      BY <1>17, <2>2, <3>1, <3>2
  <2>3. CASE i \in p + 1 .. p + n /\ i - p \in 1 .. n
    <3>1. both[i] = new[i - p]
      BY <1>16, <2>3
    <3>2. ASSUME NEW j \in 1 .. p + n, i < j
          PROVE  both[i].op # both[j].op
      <4>1. j \in p + 1 .. p + n /\ j - p \in 1 .. n /\ i - p < j - p
        BY <1>10, <1>16, <2>3, <3>2
      <4> QED
        BY <1>14, <1>16, <2>3, <3>1, <4>1
    <3> QED
      BY <1>14, <2>3, <3>1, <3>2
  <2> QED
    BY <2>1, <2>2, <2>3
<1>20. OpsOnce(both)
  <2> SUFFICES ASSUME NEW i \in 1 .. p + n, NEW j \in 1 .. p + n, both[i].op = both[j].op
               PROVE  i = j
    BY <1>16 DEF OpsOnce
  <2>1. ~(i < j) /\ ~(j < i)
    BY <1>19
  <2> QED
    BY <1>10, <1>16, <2>1
<1>21. CountedOk(both, opened[e], sh)
  BY <1>16, <1>19, <1>20 DEF CountedOk
<1>22. counted'[e] = both
  BY <1>1 DEF Typed, both, cs
<1> QED
  BY <1>5, <1>6, <1>7, <1>8, <1>16, <1>21, <1>22

\* The event loop takes the messages, and after the last of them forgets its job:
\* then nothing is left to hear of, and the counts are saved if there is one of every
\* operator.
LEMMA DrainInv ==
  ASSUME IInv, NEW e \in Explorers, Drain(e)
  PROVE  IInv'
<1> DEFINE step == IF fin[e] /\ MaySave(e) THEN "head" ELSE "idle"
<1>1. /\ ui[e] = "drain" /\ ApplyCounts(e, {})
      /\ IF fin[e] THEN ForgetJob(e) ELSE UNCHANGED <<job, wk, cancel>>
      /\ ui' = [ui EXCEPT ![e] = step]
      /\ fin' = [fin EXCEPT ![e] = FALSE]
      /\ UNCHANGED <<meta, overtaken, cache, older, temp, opened, browsed, head>>
  BY DEF Drain, At, Goto, disk
<1>2. Typed /\ ExplorerInv(e)
  BY DEF IInv
<1>3. /\ opened[e] \in Versions /\ Near(overtaken, opened[e], meta)
      /\ TodoInv(e) /\ WorkerInv(e)
  BY <1>1, <1>2 DEF ExplorerInv, SaveInv
<1>4. /\ counted'[e] \in Seq(Entries) /\ shown' \in [Explorers -> [Ops -> Counts]]
      /\ ExactOk(shown'[e], wk[e].todo, opened[e])
      /\ \A o \in Ops : shown'[e][o].kind = "counting" /\ browsed[e][o] = "part" => Within(wk[e].todo, o)
      /\ CountedOk(counted'[e], opened[e], shown'[e])
  BY <1>1, <1>2, <1>3, ApplyCountsOk
<1>5. step \in {"head", "idle"} /\ step \in UiSteps
  BY DEF UiSteps, SaveSteps
<1>6. step = "head" => Len(counted'[e]) >= Cardinality(Ops)
  BY DEF MaySave
<1> HIDE DEF step
<1>7. /\ counted' \in [Explorers -> Seq(Entries)] /\ complete' \in [Explorers -> BOOLEAN]
      /\ chan' \in [Explorers -> Seq(Msgs)] /\ chan'[e] = <<>>
      /\ \A d \in Explorers \ {e} : shown'[d] = shown[d] /\ counted'[d] = counted[d] /\ chan'[d] = chan[d]
  <2>1. chan' = [chan EXCEPT ![e] = <<>>] /\ <<>> \in Seq(Msgs)
    BY <1>1 DEF ApplyCounts
  <2>2. \E q : counted' = [counted EXCEPT ![e] = q]
    BY <1>1 DEF ApplyCounts
  <2>3. counted' \in [Explorers -> Seq(Entries)]
    BY <1>2, <1>4, <2>2 DEF Typed
  <2>4. \E q : shown' = [shown EXCEPT ![e] = q]
    BY <1>1 DEF ApplyCounts
  <2>5. complete' \in [Explorers -> BOOLEAN]
    BY <1>1, <1>2 DEF ApplyCounts, Typed
  <2> QED
    BY <1>2, <2>1, <2>2, <2>3, <2>4, <2>5 DEF Typed
<1>8. /\ job' \in [Explorers -> BOOLEAN] /\ wk' \in [Explorers -> Workers] /\ cancel' \in [Explorers -> BOOLEAN]
      /\ \A d \in Explorers \ {e} : job'[d] = job[d] /\ wk'[d] = wk[d] /\ cancel'[d] = cancel[d]
      /\ fin[e] => ~job'[e] /\ wk'[e] = NoWorker /\ ~cancel'[e]
      /\ ~fin[e] => job'[e] = job[e] /\ wk'[e] = wk[e] /\ cancel'[e] = cancel[e]
  <2>1. CASE fin[e]
    <3>1. ForgetJob(e)
      BY <1>1, <2>1
    <3>2. wk' \in [Explorers -> Workers] /\ wk'[e] = NoWorker
      BY <1>2, <3>1, NoWorkerIsWorker DEF ForgetJob, Typed
    <3> QED
      BY <1>2, <2>1, <3>1, <3>2 DEF ForgetJob, Typed
  <2>2. CASE ~fin[e]
    BY <1>1, <1>2, <2>2 DEF Typed
  <2> QED
    BY <2>1, <2>2
<1>9. ui'[e] = step /\ ~fin'[e] /\ opened'[e] = opened[e] /\ browsed'[e] = browsed[e]
  BY <1>1, <1>2 DEF Typed
<1>10. Typed'
  BY <1>1, <1>2, <1>4, <1>5, <1>7, <1>8 DEF Typed
<1>11. FilesInv'
  BY <1>1 DEF IInv, FilesInv
<1>12. OnlyFor(e)
  <2>1. \A d \in Explorers \ {e} : ui'[d] = ui[d] /\ fin'[d] = fin[d]
    BY <1>1, <1>2 DEF Typed
  <2> QED
    BY <1>1, <1>7, <1>8, <2>1 DEF OnlyFor
<1>13. ~cancel[e]
  BY <1>1, <1>3 DEF WorkerInv, At
<1>14. /\ wk'[e].todo = wk[e].todo
       /\ fin[e] => \A o : ~Within(wk[e].todo, o)
  <2>1. CASE fin[e]
    <3>1. wk[e].todo = <<>>
      BY <1>3, <2>1 DEF WorkerInv
    <3> QED
      BY <1>8, <2>1, <3>1, NoWorkerIsWorker DEF Within
  <2>2. CASE ~fin[e]
    BY <1>8, <2>2
  <2> QED
    BY <2>1, <2>2
<1>15. WorkerInv(e)'
  <2>1. CASE fin[e]
    <3>1. /\ wk'[e].at # "run" /\ wk'[e].todo = <<>> /\ wk'[e].pages = 0 /\ wk'[e].keys = 0
          /\ ~cancel'[e] /\ ui'[e] \in {"head", "idle"} /\ ~fin'[e] /\ chan'[e] = <<>>
      BY <1>5, <1>7, <1>8, <1>9, <2>1, NoWorkerIsWorker
    <3>2. Once(<<>>) /\ 0 < Pages
      BY KeyCountsAssumption DEF Once
    <3> QED
      BY <3>1, <3>2 DEF WorkerInv, Working, At
  <2>2. CASE ~fin[e]
    BY <1>1, <1>3, <1>5, <1>7, <1>8, <1>9, <1>13, <2>2 DEF WorkerInv, Working, At
  <2> QED
    BY <2>1, <2>2
<1>16. TodoInv(e)'
  <2>1. MessagesOk(<<>>, wk[e].todo, shown'[e])
    BY DEF MessagesOk
  <2>2. CountingOk(shown'[e], browsed[e], <<>>, wk[e].todo, job'[e])
    <3> SUFFICES ASSUME NEW o \in Ops, shown'[e][o].kind = "counting", browsed[e][o] = "part"
                 PROVE  job'[e] /\ Heard(<<>>, wk[e].todo, o)
      BY DEF CountingOk
    <3>1. Within(wk[e].todo, o)
      BY <1>4
    <3>2. ~fin[e] /\ wk[e].todo # <<>>
      <4>1. ~Within(<<>>, o)
        BY DEF Within
      <4> QED
        BY <1>14, <3>1, <4>1
    <3>3. job[e]
      BY <1>1, <1>3, <3>2 DEF WorkerInv, At
    <3> QED
      BY <1>8, <3>1, <3>2, <3>3 DEF Heard
  <2> QED
    BY <1>4, <1>7, <1>9, <1>14, <2>1, <2>2 DEF TodoInv, CountsOf
<1>17. SaveInv(e)'
  <2>1. step = "head" => Exactly(opened[e], counted'[e])
    <3> SUFFICES ASSUME step = "head" PROVE Exactly(opened[e], counted'[e])
      OBVIOUS
    <3>1. OpsOnce(counted'[e]) /\ \A i \in 1 .. Len(counted'[e]) :
             counted'[e][i].ver = opened[e] /\ counted'[e][i].keys = Pages
      BY <1>4 DEF CountedOk
    <3>2. {c.op : c \in Range(counted'[e])} = Ops
      BY <1>4, <1>6, <3>1, CountedBound
    <3>3. \A c \in Range(counted'[e]) : c.ver = opened[e] /\ c.keys = Pages
      BY <1>4, <3>1, RangeAt
    <3> QED
      BY <3>2, <3>3 DEF Exactly
  <2>2. step = "head" => Exactly(opened[e], counted[e])'
    BY <1>9, <2>1 DEF Exactly
  <2> QED
    BY <1>1, <1>3, <1>5, <1>9, <2>2 DEF SaveInv, SaveSteps
<1> QED
  BY <1>1, <1>10, <1>11, <1>12, <1>15, <1>16, <1>17, StepKeeps DEF ExplorerInv

\* `C` stops the count: what was being counted keeps a lower bound.
LEMMA StopCountInv ==
  ASSUME IInv, NEW e \in Explorers, StopCount(e)
  PROVE  IInv'
<1>1. /\ ui[e] = "idle" /\ job[e] /\ ApplyCounts(e, Settled(e)) /\ ForgetJob(e)
      /\ UNCHANGED <<meta, overtaken, cache, older, temp, ui, opened, browsed, fin, head>>
  BY DEF StopCount, At, disk
<1>2. Typed /\ ExplorerInv(e)
  BY DEF IInv
<1>3. /\ opened[e] \in Versions /\ Near(overtaken, opened[e], meta)
      /\ TodoInv(e) /\ WorkerInv(e)
  BY <1>1, <1>2 DEF ExplorerInv, SaveInv
<1>4. /\ counted'[e] \in Seq(Entries) /\ shown' \in [Explorers -> [Ops -> Counts]]
      /\ ExactOk(shown'[e], wk[e].todo, opened[e])
      /\ \A o \in Ops : shown'[e][o].kind = "counting" /\ browsed[e][o] = "part" => o \notin Settled(e)
      /\ CountedOk(counted'[e], opened[e], shown'[e])
  BY <1>1, <1>2, <1>3, ApplyCountsOk
<1>5. /\ counted' \in [Explorers -> Seq(Entries)] /\ complete' \in [Explorers -> BOOLEAN]
      /\ chan' \in [Explorers -> Seq(Msgs)] /\ chan'[e] = <<>>
      /\ \A d \in Explorers \ {e} : shown'[d] = shown[d] /\ counted'[d] = counted[d] /\ chan'[d] = chan[d]
  <2>1. chan' = [chan EXCEPT ![e] = <<>>] /\ <<>> \in Seq(Msgs)
    BY <1>1 DEF ApplyCounts
  <2>2. \E q : counted' = [counted EXCEPT ![e] = q]
    BY <1>1 DEF ApplyCounts
  <2>3. counted' \in [Explorers -> Seq(Entries)]
    BY <1>2, <1>4, <2>2 DEF Typed
  <2>4. \E q : shown' = [shown EXCEPT ![e] = q]
    BY <1>1 DEF ApplyCounts
  <2>5. complete' \in [Explorers -> BOOLEAN]
    BY <1>1, <1>2 DEF ApplyCounts, Typed
  <2> QED
    BY <1>2, <2>1, <2>2, <2>3, <2>4, <2>5 DEF Typed
<1>6. /\ job' \in [Explorers -> BOOLEAN] /\ wk' \in [Explorers -> Workers] /\ cancel' \in [Explorers -> BOOLEAN]
      /\ \A d \in Explorers \ {e} : job'[d] = job[d] /\ wk'[d] = wk[d] /\ cancel'[d] = cancel[d]
      /\ ~job'[e] /\ wk'[e] = NoWorker /\ ~cancel'[e]
  BY <1>1, <1>2, NoWorkerIsWorker DEF ForgetJob, Typed
<1>7. Typed'
  BY <1>1, <1>2, <1>4, <1>5, <1>6 DEF Typed
<1>8. FilesInv'
  BY <1>1 DEF IInv, FilesInv
<1>9. OnlyFor(e)
  BY <1>1, <1>5, <1>6 DEF OnlyFor
<1>10. WorkerInv(e)'
  BY <1>1, <1>3, <1>5, <1>6, NoWorkerIsWorker, KeyCountsAssumption DEF WorkerInv, Working, At, Once
<1>11. TodoInv(e)'
  <2>1. MessagesOk(<<>>, <<>>, shown'[e]) /\ ExactOk(shown'[e], <<>>, opened[e])
    BY <1>4 DEF MessagesOk, ExactOk, Within
  <2>2. CountingOk(shown'[e], browsed[e], <<>>, <<>>, FALSE)
    BY <1>4 DEF CountingOk, Settled, BrowsedToEnd
  <2>3. CountingOk(shown'[e], browsed[e], <<>>, <<>>, job'[e])
    BY <2>2 DEF CountingOk
  <2> QED
    BY <1>1, <1>4, <1>5, <1>6, <2>1, <2>3, NoWorkerIsWorker DEF TodoInv, CountsOf
<1>12. SaveInv(e)'
  BY <1>1, <1>3 DEF SaveInv, SaveSteps
<1> QED
  BY <1>1, <1>7, <1>8, <1>9, <1>10, <1>11, <1>12, StepKeeps DEF ExplorerInv

-----------------------------------------------------------------------------
(***************************************************************************)
(* The theorems.                                                           *)
(***************************************************************************)

LEMMA NextInv == IInv /\ [Next]_vars => IInv'
<1> SUFFICES ASSUME IInv, [Next]_vars PROVE IInv'
  OBVIOUS
<1>1. ASSUME NEW e \in Explorers, WorkerRuns(e) PROVE IInv'
  BY <1>1, WorkerEndsInv, WorkerScansInv, WorkerFailsInv DEF WorkerRuns
<1>2. ASSUME NEW e \in Explorers, EventLoop(e) PROVE IInv'
  BY <1>2, LoadCountsInv, PollInv, DrainInv, ExitInv, SaveHeadInv, SaveCreateInv, SaveWriteInv,
     SaveSyncInv, SaveRenameInv, SaveFailsInv DEF EventLoop, Save
<1>3. ASSUME NEW e \in Explorers, Open(e) \/ StopCount(e) \/ KeyC(e) \/ Quit(e) \/ Crash(e)
      PROVE  IInv'
  BY <1>3, OpenInv, StopCountInv, KeyCInv, QuitInv, CrashInv
<1>4. ASSUME NEW e \in Explorers, NEW o \in Ops, NEW found \in Browsing \ {"part"}, Browse(e, o, found)
      PROVE  IInv'
  BY <1>4, BrowseInv
<1>5. CASE UNCHANGED vars
  <2>1. UNCHANGED <<meta, overtaken, cache, older, temp, ui, opened, shown, browsed, counted, complete, job,
                    fin, head, wk, cancel, chan>>
    BY <1>5 DEF vars, disk, app, thread
  <2>2. Typed' /\ FilesInv' /\ OvertakenInv'
    BY <2>1 DEF IInv, Typed, FilesInv, OvertakenInv
  <2>3. \A e \in Explorers : ExplorerInv(e)'
    BY <2>1, OthersKeep DEF IInv
  <2> QED
    BY <2>2, <2>3 DEF IInv
<1> QED
  BY <1>1, <1>2, <1>3, <1>4, <1>5, ReplaceMetadataInv, PowerLossInv DEF Next

\* The inductive invariant holds in every state, for any number of explorers,
\* operators, pages and versions.
THEOREM Invariant == Spec => []IInv
BY InitInv, NextInv, PTL DEF Spec

\* TypeOK: in particular an explorer never keeps more counts than there are operators
\* (ApplyCounts appends a Done of an operator only once).
THEOREM TypeCorrect == Spec => []TypeOK
<1>1. IInv => TypeOK
  <2> SUFFICES ASSUME IInv PROVE TypeOK
    OBVIOUS
  <2>1. Typed
    BY DEF IInv
  <2>2. ASSUME NEW f \in Files PROVE IsFile(f)
    <3>1. f.head \in 0 .. MaxVersions /\ f.body \in Seq(Entries) /\ f.whole \in BOOLEAN /\ f.synced \in BOOLEAN
      BY DEF Files
    <3>2. Range(f.body) \subseteq Entries
      BY <3>1, RangeAt
    <3> QED
      BY <3>1, <3>2 DEF IsFile, Entries
  <2>3. IsFile(cache) /\ (\A f \in older : IsFile(f)) /\ (\A e \in Explorers : IsFile(temp[e]))
    BY <2>1, <2>2 DEF Typed
  <2>4. ASSUME NEW e \in Explorers PROVE Len(counted[e]) <= Cardinality(Ops)
    BY <2>1, CountedBound
       DEF IInv, ExplorerInv, TodoInv, CountsOf, CachedOk, CountedOk, Typed
  <2>5. ASSUME NEW e \in Explorers
        PROVE  /\ wk[e].at \in {"none", "run", "ended"}
               /\ wk[e].pages \in 0 .. Pages /\ wk[e].keys \in 0 .. wk[e].pages
    <3>1. wk[e] \in Workers /\ wk[e].keys <= wk[e].pages
      BY <2>1 DEF Typed, IInv, ExplorerInv, WorkerInv
    <3> QED
      BY <3>1, WorkerFields, KeyCountsAssumption
  <2> QED
    BY <2>1, <2>3, <2>4, <2>5 DEF Typed, TypeOK
<1> QED
  BY <1>1, Invariant, PTL

\* CacheTrue: save writes a side file of its own, syncs it and renames it, and only
\* when every operator was counted to its end; so the cache is never truncated, and
\* holds the exact counts of all operators of one _metadata: the one it names, or
\* one that was open when that came (save takes the header of the day).
THEOREM CacheIsTrue == Spec => []CacheTrue
<1>1. IInv => CacheTrue
  BY DEF IInv, FilesInv, FileInv, Near, CacheTrue
<1> QED
  BY <1>1, Invariant, PTL

\* ExactIsExact: apply_count and load show an exact count only of the savepoint that is
\* open, or of a version that was open when that came, or came while that was open.
THEOREM ExactCounts == Spec => []ExactIsExact
<1>1. IInv => ExactIsExact
  <2> SUFFICES ASSUME IInv, NEW e \in Explorers, NEW o \in Ops, shown[e][o].kind = "exact"
               PROVE  /\ shown[e][o].keys = Pages
                      /\ \/ shown[e][o].ver = opened[e]
                         \/ <<shown[e][o].ver, opened[e]>> \in overtaken
                         \/ <<opened[e], shown[e][o].ver>> \in overtaken
    BY DEF ExactIsExact
  <2>1. TodoInv(e)
    BY DEF IInv, ExplorerInv
  <2>2. CASE CountsOf(shown[e], wk[e].todo, counted[e], opened[e])
    BY <2>2 DEF CountsOf, ExactOk
  <2>3. CASE CachedOk(overtaken, shown[e], wk[e].todo, counted[e], opened[e])
    BY <2>3 DEF CachedOk, CountsOf, ExactOk, Near
  <2> QED
    BY <2>1, <2>2, <2>3 DEF TodoInv
<1> QED
  BY <1>1, Invariant, PTL

\* NoneLeftCounting: poll_jobs reads that the worker has ended before it reads the
\* channel, and cancel_count waits for the worker before it does; so a job is forgotten
\* only when the last word on every operator was heard.
THEOREM NothingHalfCounted == Spec => []NoneLeftCounting
<1>1. IInv => NoneLeftCounting
  <2> SUFFICES ASSUME IInv, NEW e \in Explorers, NEW o \in Ops,
                      At(e, "idle"), ~job[e], browsed[e][o] = "part", shown[e][o].kind = "counting"
               PROVE  FALSE
    BY DEF NoneLeftCounting
  <2>1. CountingOk(shown[e], browsed[e], chan[e], wk[e].todo, job[e])
    BY DEF IInv, ExplorerInv, TodoInv
  <2> QED
    BY <2>1 DEF CountingOk
<1> QED
  BY <1>1, Invariant, PTL
=============================================================================
