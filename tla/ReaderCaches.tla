----------------------------- MODULE ReaderCaches -----------------------------
(***************************************************************************)
(* What the threads of one process share of a StateReader: the cache of    *)
(* parsed blocks (src/src/reader/mod.rs) and the pool of open files        *)
(* (src/src/reader/source.rs), each behind its own mutex. A thread reads a *)
(* block with StateReader::grouped: look in the cache, take a file handle  *)
(* from the pool (opening it outside the lock when it is not there), read  *)
(* and parse the block, put it in the cache.                               *)
(*                                                                         *)
(* The tick counters only order entries by last use, so both structures    *)
(* are sequences here, least recently used first. Handles are told apart   *)
(* by their file only; a thread keeps the handle it reads through (an Arc) *)
(* after its eviction from the pool.                                       *)
(***************************************************************************)
EXTENDS Integers, Sequences, FiniteSets, SequencesExt, Kept

CONSTANTS Threads, Blocks,
          PathOf,        \* [Blocks -> the file that holds it]
          Weight,        \* [Blocks -> what it costs in the cache]
          CacheCapacity, \* BlockCache.capacity; 0 disables the cache
          OpenFiles      \* FilePool.capacity

ASSUME ReaderCachesAssumption ==
    /\ CacheCapacity \in Nat
    /\ OpenFiles \in Nat \ {0}
    /\ \A b \in Blocks : Weight[b] \in Nat \ {0}

Paths == {PathOf[b] : b \in Blocks}

VARIABLES cache,  \* BlockCache.blocks: the blocks kept, by last use
          used,   \* BlockCache.used
          pool,   \* FilePool.open: the files open, by last use
          th      \* [Threads -> where each is in `grouped`]

vars == <<cache, used, pool, th>>

Free == [pc |-> "free", block |-> "none", keep |-> FALSE]

Init ==
    /\ cache = <<>>
    /\ used = 0
    /\ pool = <<>>
    /\ th = [t \in Threads |-> Free]

Move(t, pc) == th' = [th EXCEPT ![t].pc = pc]
Finish(t) == th' = [th EXCEPT ![t] = Free]

\* x becomes the most recently used.
Without(s, x) == Keep(s, ToSet(s) \ {x})
Touch(s, x) == Append(Without(s, x), x)

(***************************************************************************)
(* BlockCache.                                                             *)
(***************************************************************************)

\* The weight of the blocks s: as many units as they have together.
Units(b) == {b} \X (1 .. Weight[b])
WeightOf(s) == Cardinality(UNION {Units(b) : b \in ToSet(s)})

\* BlockCache::get, first thing in StateReader::grouped.
CacheHit(t, b) ==
    /\ th[t].pc = "free"
    /\ b \in ToSet(cache)
    /\ cache' = Touch(cache, b)
    /\ UNCHANGED <<used, pool, th>>

CacheMiss(t, b, keep) ==
    /\ th[t].pc = "free"
    /\ b \notin ToSet(cache)
    /\ th' = [th EXCEPT ![t] = [Free EXCEPT !.pc = "lookup", !.block = b, !.keep = keep]]
    /\ UNCHANGED <<cache, used, pool>>

\* Mutant: the block already there is replaced without giving its weight back.
KeptWeight(b) == used

\* What is in use once a block parsed twice has been taken out again.
UsedWithout(b) == IF b \in ToSet(cache) THEN used - Weight[b] ELSE used

\* The oldest blocks, evicted until b fits or nothing is left.
Evicted(s, u, b) ==
    CHOOSE n \in 0 .. Len(s) :
        LET left(i) == u - WeightOf(SubSeq(s, 1, i))
        IN  /\ n = Len(s) \/ left(n) + Weight[b] <= CacheCapacity
            /\ \A i \in 0 .. n - 1 : left(i) + Weight[b] > CacheCapacity

\* BlockCache::insert, last thing in StateReader::grouped when the block is kept.
CacheInsert(t) ==
    LET b    == th[t].block
        rest == Without(cache, b)
        u    == UsedWithout(b)
        n    == Evicted(rest, u, b)
    IN  /\ th[t].pc = "parsed"
        /\ IF th[t].keep /\ CacheCapacity > 0
           THEN /\ cache' = Append(SubSeq(rest, n + 1, Len(rest)), b)
                /\ used' = u - WeightOf(SubSeq(rest, 1, n)) + Weight[b]
           ELSE UNCHANGED <<cache, used>>
        /\ Finish(t)
        /\ UNCHANGED pool

(***************************************************************************)
(* FilePool::get and the read.                                             *)
(***************************************************************************)

PathFor(t) == PathOf[th[t].block]
Pooled(path) == path \in ToSet(pool)

\* Under the lock: a handle of the file is shared and becomes the most recently
\* used; else the lock is released and the file opened.
PoolLookup(t) ==
    /\ th[t].pc = "lookup"
    /\ \/ Pooled(PathFor(t)) /\ pool' = Touch(pool, PathFor(t)) /\ Move(t, "read")
       \/ ~Pooled(PathFor(t)) /\ pool' = pool /\ Move(t, "open")
    /\ UNCHANGED <<cache, used>>

\* state_file::open_regular, outside the lock.
Open(t) ==
    /\ th[t].pc = "open"
    /\ Move(t, "pool")
    /\ UNCHANGED <<cache, used, pool>>

\* The file cannot be opened, or the read fails, or the block does not inflate.
Fail(t) ==
    /\ th[t].pc \in {"open", "read"}
    /\ Finish(t)
    /\ UNCHANGED <<cache, used, pool>>

\* Mutant: the pool is not looked at again once the file is open.
NotLookedAt(path) == FALSE

\* Whether another thread pooled the file meanwhile.
PooledMeanwhile(path) == Pooled(path)

\* The least recently used handles are closed until there is room for one.
MakeRoom(s) == SubSeq(s, Max({1, Len(s) - OpenFiles + 2}), Len(s))

\* Under the lock again: a handle pooled meanwhile is used instead (the one just
\* opened is closed); else this one is pooled, after closing the oldest.
PoolInsert(t) ==
    /\ th[t].pc = "pool"
    /\ \/ PooledMeanwhile(PathFor(t)) /\ pool' = Touch(pool, PathFor(t))
       \/ ~PooledMeanwhile(PathFor(t)) /\ pool' = Append(MakeRoom(pool), PathFor(t))
    /\ Move(t, "read")
    /\ UNCHANGED <<cache, used>>

\* read_exact_at through the handle, key_group_block, group_block.
Read(t) ==
    /\ th[t].pc = "read"
    /\ Move(t, "parsed")
    /\ UNCHANGED <<cache, used, pool>>

Grouped(t) ==
    \/ \E b \in Blocks : CacheHit(t, b) \/ \E keep \in BOOLEAN : CacheMiss(t, b, keep)
    \/ PoolLookup(t) \/ Open(t) \/ PoolInsert(t) \/ Read(t) \/ Fail(t) \/ CacheInsert(t)

Next == \E t \in Threads : Grouped(t)

Spec == Init /\ [][Next]_vars

(***************************************************************************)
(* Properties.                                                             *)
(***************************************************************************)

\* The weight in use is that of the blocks kept, each kept once, whoever parsed
\* it twice; the blocks fit the capacity, or there is one alone (BlockCache).
CacheAccounts ==
    /\ used = WeightOf(cache)
    /\ Cardinality(ToSet(cache)) = Len(cache)
    /\ used <= CacheCapacity \/ Len(cache) <= 1

\* The pool holds at most its capacity, and one handle of a file however many
\* threads opened it at once (FilePool::get).
PoolBounded ==
    /\ Len(pool) <= OpenFiles
    /\ Cardinality(ToSet(pool)) = Len(pool)
==============================================================================
