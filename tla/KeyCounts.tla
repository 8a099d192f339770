------------------------------ MODULE KeyCounts ------------------------------
(***************************************************************************)
(* The key counts of the terminal explorer: the background count pass      *)
(* (src/src/tui/jobs.rs, start_count), what the event loop makes of its    *)
(* messages (src/src/tui/app.rs) and the cache that keeps complete counts  *)
(* between runs (src/src/tui/counts.rs).                                   *)
(*                                                                         *)
(* Several explorers run on one savepoint and share its cache file. A      *)
(* count is <<version of _metadata it was counted from, pages counted>>:   *)
(* the exact count of every operator is <<version, Pages>>. How far a      *)
(* lower bound is, is left out: it promises nothing. The file system is    *)
(* modelled by what the code relies on: rename replaces a file whole, and  *)
(* a power loss may truncate what was not synced.                          *)
(***************************************************************************)
EXTENDS Integers, Sequences, FiniteSets, SequencesExt, Kept

CONSTANTS Explorers,      \* processes on this savepoint
          Ops,            \* its keyed operators
          Pages,          \* scan steps that count one operator
          MaxVersions     \* bound: versions of _metadata

ASSUME KeyCountsAssumption ==
    /\ Pages \in Nat \ {0}
    /\ MaxVersions \in Nat \ {0}
    /\ IsFiniteSet(Ops)

VARIABLES
    meta,      \* the version (size, modification time) of _metadata on disk
    cache,     \* the cache file
    older,     \* what a power loss may leave in its place
    temp,      \* the side file of an explorer
    ui,        \* where an explorer's event loop is
    opened,    \* the version it has open
    shown,     \* the KeyCount of each operator
    browsed,   \* what browsing found of each operator's keys
    counted,   \* App.counted
    complete,  \* App.count_complete
    job,       \* App.count_job is Some
    fin,       \* poll_jobs: the worker had ended before the channel was read
    head,      \* save: the header it read
    wk,        \* the worker: operators to count, pages and keys of the first one
    cancel,    \* the job's cancel flag
    chan,      \* the job's channel
    overtaken  \* history: <<v, w>>, an explorer had v open when _metadata became w

disk == <<meta, cache, older, temp>>
app  == <<opened, shown, browsed, counted, complete>>
thread == <<wk, cancel, chan>>
vars == <<disk, ui, app, job, fin, head, thread, overtaken>>

NoFile == [head |-> 0, body |-> <<>>, whole |-> TRUE, synced |-> TRUE]
Unknown == [kind |-> "unknown", ver |-> 0, keys |-> 0]
Exact(ver, keys) == [kind |-> "exact", ver |-> ver, keys |-> keys]
LowerBound(kind) == [kind |-> kind, ver |-> 0, keys |-> 0]
NoWorker == [at |-> "none", todo |-> <<>>, pages |-> 0, keys |-> 0, ok |-> TRUE]

Versions == 1 .. MaxVersions
SaveSteps == {"head", "create", "write", "sync", "rename"}
UiSteps == {"closed", "load", "idle", "drain", "quit"} \cup SaveSteps
Browsing == {"part", "end", "unreadable"}
Counts == [kind : {"unknown", "counting", "atleast", "exact"}, ver : 0 .. MaxVersions, keys : 0 .. Pages]

IsFile(f) ==
    /\ f.head \in 0 .. MaxVersions
    /\ \A e \in Range(f.body) : e.op \in Ops /\ e.ver \in Versions /\ e.keys \in 0 .. Pages
    /\ f.whole \in BOOLEAN /\ f.synced \in BOOLEAN

TypeOK ==
    /\ meta \in Versions
    /\ IsFile(cache) /\ (\A f \in older : IsFile(f)) /\ (\A e \in Explorers : IsFile(temp[e]))
    /\ ui \in [Explorers -> UiSteps]
    /\ opened \in [Explorers -> 0 .. MaxVersions]
    /\ shown \in [Explorers -> [Ops -> Counts]]
    /\ browsed \in [Explorers -> [Ops -> Browsing]]
    /\ \A b \in {complete, job, fin, cancel} : b \in [Explorers -> BOOLEAN]
    /\ \A e \in Explorers : Len(counted[e]) <= Cardinality(Ops)
    /\ head \in [Explorers -> 0 .. MaxVersions]
    /\ \A e \in Explorers :
          /\ wk[e].at \in {"none", "run", "ended"}
          /\ wk[e].pages \in 0 .. Pages /\ wk[e].keys \in 0 .. wk[e].pages
    /\ overtaken \subseteq Versions \X Versions

Init ==
    /\ meta = 1
    /\ cache = NoFile
    /\ older = {}
    /\ temp = [e \in Explorers |-> NoFile]
    /\ ui = [e \in Explorers |-> "closed"]
    /\ opened = [e \in Explorers |-> 0]
    /\ shown = [e \in Explorers |-> [o \in Ops |-> Unknown]]
    /\ browsed = [e \in Explorers |-> [o \in Ops |-> "part"]]
    /\ counted = [e \in Explorers |-> <<>>]
    /\ complete = [e \in Explorers |-> TRUE]
    /\ job = [e \in Explorers |-> FALSE]
    /\ fin = [e \in Explorers |-> FALSE]
    /\ head = [e \in Explorers |-> 0]
    /\ wk = [e \in Explorers |-> NoWorker]
    /\ cancel = [e \in Explorers |-> FALSE]
    /\ chan = [e \in Explorers |-> <<>>]
    /\ overtaken = {}

At(e, step) == ui[e] = step
Goto(e, step) == ui' = [ui EXCEPT ![e] = step]
Working(e) == wk[e].at = "run"

-----------------------------------------------------------------------------
(***************************************************************************)
(* The count pass (start_count in jobs.rs): one page per step.             *)
(***************************************************************************)

Send(e, kind, keys, ok) ==
    chan' = [chan EXCEPT ![e] = Append(@,
        [kind |-> kind, op |-> Head(wk[e].todo), keys |-> keys, complete |-> ok])]

NextTarget(w) == [at |-> "run", todo |-> Tail(w.todo), pages |-> 0, keys |-> 0, ok |-> TRUE]

\* The worker sees its cancel flag, or has no target left.
WorkerEnds(e) ==
    /\ Working(e)
    /\ cancel[e] \/ wk[e].todo = <<>>
    /\ wk' = [wk EXCEPT ![e] = [NoWorker EXCEPT !.at = "ended"]]
    /\ UNCHANGED <<disk, ui, app, job, fin, head, cancel, chan, overtaken>>

\* A scan step. With a key-group that cannot be read, or is malformed, keys are
\* missing.
WorkerScans(e, sound) ==
    LET pages == wk[e].pages + 1
        keys  == wk[e].keys + (IF sound THEN 1 ELSE 0)
        ok    == wk[e].ok /\ sound
    IN  /\ Working(e)
        /\ ~cancel[e]
        /\ wk[e].todo # <<>>
        /\ \/ /\ pages < Pages
              /\ Send(e, "progress", 0, TRUE)
              /\ wk' = [wk EXCEPT ![e] = [@ EXCEPT !.pages = pages, !.keys = keys, !.ok = ok]]
           \/ /\ pages = Pages
              /\ Send(e, "done", keys, ok)
              /\ wk' = [wk EXCEPT ![e] = NextTarget(@)]
        /\ UNCHANGED <<disk, ui, app, job, fin, head, cancel, overtaken>>

\* The scan fails: the operator is left at what was counted.
WorkerFails(e) ==
    /\ Working(e)
    /\ ~cancel[e]
    /\ wk[e].todo # <<>>
    /\ Send(e, "done", wk[e].keys, FALSE)
    /\ wk' = [wk EXCEPT ![e] = NextTarget(@)]
    /\ UNCHANGED <<disk, ui, app, job, fin, head, cancel, overtaken>>

-----------------------------------------------------------------------------
(***************************************************************************)
(* The event loop.                                                         *)
(***************************************************************************)

\* key_count: counted, or browsed to the end without an error.
BrowsedToEnd(e, o) == browsed[e][o] = "end"
KnownExactly(e, o) == shown[e][o].kind = "exact" \/ BrowsedToEnd(e, o)

\* load_errors: some operator met what cannot be read.
LoadErrors(e) == \E o \in Ops : browsed[e][o] = "unreadable"

\* start_count spawns a worker for the operators not known exactly, if any; a
\* job that ended but was not polled is dropped with its messages.
Spawned(targets) ==
    [at |-> "run", todo |-> SetToSeq(targets), pages |-> 0, keys |-> 0, ok |-> TRUE]
StartCount(e, targets) ==
    IF targets = {}
    THEN UNCHANGED <<complete, job, thread>>
    ELSE /\ complete' = [complete EXCEPT ![e] = TRUE]
         /\ job' = [job EXCEPT ![e] = TRUE]
         /\ wk' = [wk EXCEPT ![e] = Spawned(targets)]
         /\ cancel' = [cancel EXCEPT ![e] = FALSE]
         /\ chan' = [chan EXCEPT ![e] = <<>>]

\* App::new: _metadata is parsed,
Open(e) ==
    /\ At(e, "closed")
    /\ opened' = [opened EXCEPT ![e] = meta]
    /\ Goto(e, "load")
    /\ UNCHANGED <<disk, shown, browsed, counted, complete, job, fin, head, thread, overtaken>>

\* Mutant: the header is not compared.
FreshAlways(f) == f # NoFile

\* load: the cache is used when its header is that of _metadata now.
Fresh(f) == f # NoFile /\ f.head = meta

\* What load reads: all of a whole file; of a truncated one, a line cut short.
BodyOf(f) == IF f.whole THEN f.body ELSE [i \in DOMAIN f.body |-> [f.body[i] EXCEPT !.keys = 0]]

\* then the cached counts are taken over and the rest is counted.
LoadCounts(e) ==
    LET body == IF Fresh(cache) THEN BodyOf(cache) ELSE <<>>
        known == {c.op : c \in Range(body)}
        count(o) == LET c == CHOOSE c \in Range(body) : c.op = o IN Exact(c.ver, c.keys)
    IN  /\ At(e, "load")
        /\ shown' = [shown EXCEPT ![e] = [o \in Ops |-> IF o \in known THEN count(o) ELSE Unknown]]
        /\ counted' = [counted EXCEPT ![e] = body]
        /\ StartCount(e, Ops \ known)
        /\ Goto(e, "idle")
        /\ UNCHANGED <<disk, opened, browsed, fin, head, overtaken>>

\* apply_count.
Entry(e, m) == [op |-> m.op, ver |-> opened[e], keys |-> m.keys]
ShownFor(e, m) ==
    CASE m.kind = "progress" -> LowerBound("counting")
      [] m.kind = "done" /\ m.complete -> Exact(opened[e], m.keys)
      [] m.kind = "done" /\ ~m.complete -> LowerBound("atleast")

\* Mutant: a lower bound is kept as a count.
IsDone(m) == m.kind = "done"
IsExact(m) == m.kind = "done" /\ m.complete

\* What an operator shows once its last message is applied, if it has one.
LastOf(msgs, o) == SelectLastInSeq(msgs, LAMBDA m : m.op = o)
ShownNow(e, o) ==
    LET last == LastOf(chan[e], o)
    IN  IF last = 0 THEN shown[e][o] ELSE ShownFor(e, chan[e][last])

ApplyCounts(e, settled) ==
    LET msgs == chan[e]
        now == [o \in Ops |-> ShownNow(e, o)]
        exact == Keep(msgs, {m \in Range(msgs) : IsExact(m)})
    IN  /\ shown' = [shown EXCEPT ![e] =
              [o \in Ops |-> IF o \in settled /\ now[o].kind = "counting"
                             THEN [now[o] EXCEPT !.kind = "atleast"] ELSE now[o]]]
        /\ counted' = [counted EXCEPT ![e] = @ \o [i \in DOMAIN exact |-> Entry(e, exact[i])]]
        /\ complete' = [complete EXCEPT ![e] =
              @ /\ \A m \in Range(msgs) : m.kind = "done" => m.complete]
        /\ chan' = [chan EXCEPT ![e] = <<>>]

\* Mutant: a stopped count is left as it is.
SettlesNone(e) == {}

\* cancel_count: an operator still being counted, as key_count has it, keeps a
\* lower bound.
Settled(e) == {o \in Ops : ~BrowsedToEnd(e, o)}

\* poll_jobs: whether the worker has ended is read first,
Poll(e) ==
    /\ At(e, "idle")
    /\ job[e]
    /\ fin' = [fin EXCEPT ![e] = ~Working(e)]
    /\ Goto(e, "drain")
    /\ UNCHANGED <<disk, app, job, head, thread, overtaken>>

\* save_counts: only complete counts of every operator.
MaySave(e) ==
    /\ complete'[e]
    /\ Len(counted'[e]) >= Cardinality(Ops)
    /\ ~LoadErrors(e)

\* count_job = None: the job is dropped, its worker having ended.
ForgetJob(e) ==
    /\ job' = [job EXCEPT ![e] = FALSE]
    /\ wk' = [wk EXCEPT ![e] = NoWorker]
    /\ cancel' = [cancel EXCEPT ![e] = FALSE]

\* then its messages; after the last ones the counts may be saved.
Drain(e) ==
    /\ At(e, "drain")
    /\ ApplyCounts(e, {})
    /\ IF fin[e] THEN ForgetJob(e) ELSE UNCHANGED <<job, wk, cancel>>
    /\ Goto(e, IF fin[e] /\ MaySave(e) THEN "head" ELSE "idle")
    /\ fin' = [fin EXCEPT ![e] = FALSE]
    /\ UNCHANGED <<disk, opened, browsed, head, overtaken>>

\* Browsing an operator to its end, or into what cannot be read (also when a
\* window is read again).
Browse(e, o, found) ==
    /\ At(e, "idle")
    /\ \/ browsed[e][o] = "part"
       \/ BrowsedToEnd(e, o) /\ found = "unreadable"
    /\ browsed' = [browsed EXCEPT ![e][o] = found]
    /\ UNCHANGED <<disk, ui, opened, shown, counted, complete, job, fin, head, thread, overtaken>>

\* `C` stops a running count (cancel_count): Job::cancel raises the flag, at which the
\* worker can only end, and waits for that; then what it had sent is applied.
StopCount(e) ==
    /\ At(e, "idle")
    /\ job[e] /\ Working(e)
    /\ ApplyCounts(e, Settled(e))
    /\ ForgetJob(e)
    /\ UNCHANGED <<disk, ui, opened, browsed, fin, head, overtaken>>

\* `C` otherwise: start one.
KeyC(e) ==
    /\ At(e, "idle")
    /\ ~(job[e] /\ Working(e))
    /\ StartCount(e, {o \in Ops : ~KnownExactly(e, o)})
    /\ UNCHANGED <<disk, ui, opened, shown, browsed, counted, fin, head, overtaken>>

\* What the process showed and counted is no more.
Forgotten(e) ==
    /\ shown' = [shown EXCEPT ![e] = [o \in Ops |-> Unknown]]
    /\ browsed' = [browsed EXCEPT ![e] = [o \in Ops |-> "part"]]
    /\ counted' = [counted EXCEPT ![e] = <<>>]
    /\ complete' = [complete EXCEPT ![e] = TRUE]
    /\ job' = [job EXCEPT ![e] = FALSE]
    /\ fin' = [fin EXCEPT ![e] = FALSE]
    /\ chan' = [chan EXCEPT ![e] = <<>>]
    /\ opened' = [opened EXCEPT ![e] = 0]
    /\ head' = [head EXCEPT ![e] = 0]

\* `q` and Ctrl-C: shutdown cancels the job and waits for its worker; nothing is
\* drawn, received or saved any more.
Quit(e) ==
    /\ At(e, "idle")
    /\ cancel' = [cancel EXCEPT ![e] = TRUE]
    /\ Goto(e, "quit")
    /\ Forgotten(e)
    /\ UNCHANGED <<disk, wk, overtaken>>

\* The process is gone: nothing of it is left but its files.
Gone(e) ==
    /\ Goto(e, "closed")
    /\ Forgotten(e)
    /\ cancel' = [cancel EXCEPT ![e] = FALSE]
    /\ wk' = [wk EXCEPT ![e] = NoWorker]

Exit(e) ==
    /\ At(e, "quit")
    /\ ~Working(e)
    /\ Gone(e)
    /\ UNCHANGED <<disk, overtaken>>

-----------------------------------------------------------------------------
(***************************************************************************)
(* save: a side file of its own, synced, then renamed.                     *)
(***************************************************************************)

SaveHead(e) ==
    /\ At(e, "head")
    /\ head' = [head EXCEPT ![e] = meta]
    /\ Goto(e, "create")
    /\ UNCHANGED <<disk, app, job, fin, thread, overtaken>>

\* Mutant: one side file for all.
TempShared(e) == CHOOSE x \in Explorers : TRUE

\* temp_file: the process id and a counter make the name unique.
TempOf(e) == e

\* save returns.
SaveReturns(e) == Goto(e, "idle") /\ head' = [head EXCEPT ![e] = 0]

SetTemp(e, f) == temp' = [temp EXCEPT ![TempOf(e)] = f]

SaveCreate(e) ==
    /\ At(e, "create")
    /\ SetTemp(e, [NoFile EXCEPT !.whole = FALSE, !.synced = FALSE])
    /\ Goto(e, "write")
    /\ UNCHANGED <<meta, cache, older, app, job, fin, head, thread, overtaken>>

\* Mutant: the side file is renamed without being synced.
SaveWriteUnsynced(e) ==
    /\ At(e, "write")
    /\ SetTemp(e, [head |-> head[e], body |-> counted[e], whole |-> TRUE, synced |-> FALSE])
    /\ Goto(e, "rename")
    /\ UNCHANGED <<meta, cache, older, app, job, fin, head, thread, overtaken>>

SaveWrite(e) ==
    /\ At(e, "write")
    /\ SetTemp(e, [head |-> head[e], body |-> counted[e], whole |-> TRUE, synced |-> FALSE])
    /\ Goto(e, "sync")
    /\ UNCHANGED <<meta, cache, older, app, job, fin, head, thread, overtaken>>

SaveSync(e) ==
    /\ At(e, "sync")
    /\ SetTemp(e, [temp[TempOf(e)] EXCEPT !.synced = TRUE])
    /\ Goto(e, "rename")
    /\ UNCHANGED <<meta, cache, older, app, job, fin, head, thread, overtaken>>

SaveRename(e) ==
    /\ At(e, "rename")
    /\ cache' = temp[TempOf(e)]
    /\ older' = older \cup {cache}
    /\ SetTemp(e, NoFile)
    /\ SaveReturns(e)
    /\ UNCHANGED <<meta, app, job, fin, thread, overtaken>>

\* Any of these fails: the side file is removed.
SaveFails(e) ==
    /\ ui[e] \in SaveSteps
    /\ SetTemp(e, NoFile)
    /\ SaveReturns(e)
    /\ UNCHANGED <<meta, cache, older, app, job, fin, thread, overtaken>>

-----------------------------------------------------------------------------
(***************************************************************************)
(* The world.                                                              *)
(***************************************************************************)

\* The savepoint directory gets another _metadata, whoever has it open: nothing of
\* an explorer notices.
ReplaceMetadata ==
    /\ meta < MaxVersions
    /\ meta' = meta + 1
    /\ overtaken' = overtaken \cup
          {<<opened[e], meta + 1>> : e \in {x \in Explorers : opened[x] # 0}}
    /\ UNCHANGED <<cache, older, temp, ui, app, job, fin, head, thread>>

\* A process is killed; the side file it leaves has a name nobody uses again.
Crash(e) ==
    /\ ~At(e, "closed")
    /\ Gone(e)
    /\ SetTemp(e, NoFile)
    /\ UNCHANGED <<meta, cache, older, overtaken>>

\* The machine stops, and every process with it. A file that was not synced may be
\* found truncated, and a rename that had not reached the disk undone.
PowerLoss ==
    /\ \A e \in Explorers : At(e, "closed")
    /\ \E f \in {cache} \cup older : \E whole \in {f.whole, f.whole /\ f.synced} :
          cache' = [f EXCEPT !.whole = whole, !.synced = TRUE]
    /\ older' = {}
    /\ UNCHANGED <<meta, temp, ui, app, job, fin, head, thread, overtaken>>

Save(e) ==
    SaveHead(e) \/ SaveCreate(e) \/ SaveWrite(e) \/ SaveSync(e) \/ SaveRename(e) \/ SaveFails(e)

WorkerRuns(e) == WorkerEnds(e) \/ (\E sound \in BOOLEAN : WorkerScans(e, sound)) \/ WorkerFails(e)

EventLoop(e) == LoadCounts(e) \/ Poll(e) \/ Drain(e) \/ Exit(e) \/ Save(e)

Next ==
    \/ \E e \in Explorers : WorkerRuns(e) \/ EventLoop(e)
    \/ \E e \in Explorers : Open(e) \/ StopCount(e) \/ KeyC(e) \/ Quit(e) \/ Crash(e)
    \/ \E e \in Explorers, o \in Ops, found \in Browsing \ {"part"} : Browse(e, o, found)
    \/ ReplaceMetadata
    \/ PowerLoss

Spec == Init /\ [][Next]_vars

-----------------------------------------------------------------------------
(***************************************************************************)
(* Properties.                                                             *)
(***************************************************************************)

Exactly(v, body) ==
    /\ {c.op : c \in Range(body)} = Ops
    /\ \A c \in Range(body) : c.ver = v /\ c.keys = Pages

\* save syncs its side file before the rename, and the file is its own: whatever
\* crashes, and whoever else saves, the cache is an old file or a new one,
\* never a truncated one. It holds the exact counts of all operators of one
\* _metadata: no lower bound, no operator missing, nothing counted from another. That
\* one is the _metadata the file names, with one exception: save takes the header
\* when it saves, not when the savepoint was opened, so an explorer that had v open
\* when w came saves the counts of v under the name of w.
CacheTrue ==
    /\ cache.whole
    /\ cache # NoFile =>
          \E v \in Versions :
             Exactly(v, cache.body) /\ (v = cache.head \/ <<v, cache.head>> \in overtaken)

\* An operator shown with an exact count has that count in the savepoint the
\* explorer has open, counted now or read from the cache: all of its pages, and of
\* the version open, unless some explorer had the older of the two versions open
\* when the other one came (it saved the wrong name, or is this one, which
\* compared the header of the new _metadata).
ExactIsExact ==
    \A e \in Explorers, o \in Ops :
       shown[e][o].kind = "exact" =>
          /\ shown[e][o].keys = Pages
          /\ \/ shown[e][o].ver = opened[e]
             \/ <<shown[e][o].ver, opened[e]>> \in overtaken
             \/ <<opened[e], shown[e][o].ver>> \in overtaken

\* When the event loop has forgotten its job, no operator is left half counted
\* that was not browsed to its end: the last messages of a worker that ended are
\* never lost.
NoneLeftCounting ==
    \A e \in Explorers, o \in Ops :
       At(e, "idle") /\ ~job[e] /\ browsed[e][o] = "part" => shown[e][o].kind # "counting"
=============================================================================
