------------------------------ MODULE TreeSearch ------------------------------
(***************************************************************************)
(* Filtering and searching in the terminal tree: the event loop            *)
(* (src/src/tui/app.rs, src/src/tui/tree.rs) and the search worker it      *)
(* starts (src/src/tui/jobs.rs), which share a bounded channel and a       *)
(* cancel flag.                                                            *)
(*                                                                         *)
(* The event loop handles one key or one tick at a time. Ending a search   *)
(* drops its Job, which raises the flag, receives what the worker still    *)
(* sends and waits for its end: while it waits, ui.at is "join" and no key *)
(* is answered. The environment may lose key-groups (`bad`) and change the *)
(* protobuf profile, which replaces the reader.                            *)
(***************************************************************************)
EXTENDS KeyWindows

CONSTANTS Filters,      \* [kind, names, plain, lo, hi]: what the filter bar applies
          Capacity,     \* SEARCH_CHANNEL
          StepBlocks,   \* blocks read between two reports (search_step_bytes)
          MaxScroll,    \* bound: keys one PageDown or PageUp may scroll by
          MaxChanges,   \* bound: profile changes and key-groups lost, together
          MaxFilters    \* bound: filters applied in a session

\* A filter: the names it is about, the text it looks up at once (NoText when
\* there is none), and its range of key-groups.
NoText == "none"
FilterRecords ==
    [kind : {"none", "range", "exact", "pattern"}, names : SUBSET STRING,
     plain : STRING \cup {NoText}, lo : Nat, hi : Nat]

ASSUME TreeSearchAssumption ==
    /\ Capacity \in Nat \ {0} /\ StepBlocks \in Nat \ {0}
    /\ Filters \subseteq FilterRecords
    /\ \A f \in Filters : /\ f.kind = "exact" => f.names = {f.plain}
                          /\ f.kind = "pattern" => f.plain \in f.names \cup {NoText}
    /\ \A o \in Ops : \A i \in DOMAIN Items[o] : Items[o][i].name # NoText

VARIABLES snap,     \* [Ops -> KeyedSnapshot]
          opened,   \* the operators whose row is expanded
          rd,       \* the reader of the tree
          bad,      \* key-groups that cannot be read
          filter,   \* the applied filter
          queue,    \* Search::queue; empty when there is no search
          worker,   \* the search thread
          chan,     \* its channel
          cancel,   \* its cancel flag
          ui,       \* what the event loop is doing
          stopped,  \* whether the user stopped the last search
          applied   \* filters applied so far

loop == <<snap, opened, rd, filter, queue, ui, stopped, applied>>
thread == <<worker, chan, cancel>>
vars == <<loop, bad, thread>>

NoFilter == [kind |-> "none", names |-> {}, plain |-> NoText, lo |-> 0, hi |-> 0]
Idle == [at |-> "idle", then |-> NoFilter, ended |-> FALSE]
Ended == [pc |-> "ended", targets |-> <<>>, cur |-> NoNext, found |-> {},
          errors |-> {}, blocks |-> 0, rd |-> 0, names |-> {}]

Init ==
    /\ snap = [o \in Ops |-> Snapshot]
    /\ opened = {}
    /\ rd = 1
    /\ bad = {}
    /\ filter = NoFilter
    /\ queue = {}
    /\ worker = Ended
    /\ chan = <<>>
    /\ cancel = FALSE
    /\ ui = Idle
    /\ stopped = FALSE
    /\ applied = 0

MayChange == (rd - 1) + Cardinality(bad) < MaxChanges

\* The snapshots `sn` after one stage of ensure_window on the expanded operators.
Staged(sn, open, stage(_, _)) == [o \in Ops |-> IF o \in open THEN stage(o, sn[o]) ELSE sn[o]]

\* rebuild_flat_list: load the windows of the expanded operators (prepare, whose
\* stages are named by the quantifiers); an operator hidden as empty is no row
\* any more, and is collapsed with it.
Rebuild(sn, open, r) ==
    \E given \in {sn} :
    \E found \in {Staged(given, open, LAMBDA o, k : Browsed(o, k, bad, r))} :
    \E read \in {Staged(found, open, LAMBDA o, k : FillWindow(o, k, bad, r))} :
        /\ snap' = Staged(read, open, LAMBDA o, k : Retain(k))
        /\ opened' = {o \in open : Shown(snap'[o])}

(***************************************************************************)
(* Keys of the tree.                                                       *)
(***************************************************************************)

Toggle(o) ==
    /\ ui = Idle
    /\ Shown(snap[o])
    /\ Rebuild(snap, IF o \in opened THEN opened \ {o} ELSE opened \cup {o}, rd)
    /\ UNCHANGED <<rd, bad, filter, queue, thread, ui, stopped, applied>>

Scroll(o, forward, amount) ==
    /\ ui = Idle
    /\ o \in opened
    /\ IF forward THEN PagerDown(Listed(snap[o])) ELSE PagerUp(Listed(snap[o]))
    /\ Rebuild([snap EXCEPT ![o] = WithSeq(@, Scrolled(Listed(@), forward, amount))],
               opened, rd)
    /\ UNCHANGED <<rd, bad, filter, queue, thread, ui, stopped, applied>>

\* set_proto_context: a new reader over the same savepoint; the loaded keys are
\* dropped and the windows read again.
SelectProfile ==
    /\ ui = Idle
    /\ MayChange
    /\ rd' = rd + 1
    /\ Rebuild([o \in Ops |-> [snap[o] EXCEPT !.rows = << >>]], opened, rd')
    /\ UNCHANGED <<bad, filter, queue, thread, ui, stopped, applied>>

(***************************************************************************)
(* apply_filter.                                                           *)
(***************************************************************************)

FirstFrom(o, g) ==
    Min({i \in DOMAIN Items[o] : Items[o][i].kg >= g} \cup {Len(Items[o]) + 1})

\* A key-group range is sought when its cursor fits, else paged from the first
\* key; an exact key is looked up; a pattern without a wildcard is looked up
\* first and searched all the same (it ignores case).
FilteredBy(o, k, f) ==
    LET plain == [k EXCEPT !.all.offset = 0, !.filtered = NoSeq]
        got   == Lookup(o, f.plain, bad)
        range == [Browse(IF f.lo \in Sought[o] THEN FirstFrom(o, f.lo) ELSE Start)
                     EXCEPT !.start = f.lo, !.stop = f.hi]
        match == [Browse(IF f.kind = "exact" /\ got.is # "needs_scan" THEN NoNext ELSE Start)
                     EXCEPT !.matches = TRUE, !.pos = SetToSeq(got.keys)]
    IN  CASE f.kind = "none"  -> plain
          [] f.kind = "range" -> [plain EXCEPT !.filtered = range]
          [] OTHER -> [plain EXCEPT !.filtered = match,
                                    !.rows = Loaded(@, got.keys, rd),
                                    !.errors = @ \cup IF f.kind = "exact" THEN got.errors ELSE {}]

\* The operators left to the search worker.
ToSearch(f) ==
    CASE f.kind = "exact"   -> {o \in Ops : Lookup(o, f.plain, bad).is = "needs_scan"}
      [] f.kind = "pattern" -> Ops
      [] OTHER -> {}

\* start_search: a new worker, a new channel, a new flag.
StartSearch(f) ==
    /\ queue' = ToSearch(f)
    /\ worker' = IF queue' = {} THEN Ended
                 ELSE [Ended EXCEPT !.pc = "scan", !.rd = rd, !.names = f.names,
                                    !.targets = InOrder(queue'), !.cur = Start]
    /\ chan' = <<>>
    /\ cancel' = FALSE

\* Enter or Esc in the filter bar, or Esc on the tree: the running search is
\* dropped first.
Apply(f) ==
    /\ ui = Idle
    /\ f = NoFilter => filter # NoFilter
    /\ applied < MaxFilters
    /\ applied' = applied + 1
    /\ ui' = [at |-> "join", then |-> f, ended |-> FALSE]
    /\ filter' = f
    /\ queue' = {}
    /\ cancel' = TRUE
    /\ UNCHANGED <<snap, opened, rd, bad, worker, chan, stopped>>

\* Esc while a search runs: what it found stays.
CancelSearch ==
    /\ ui = Idle
    /\ queue # {}
    /\ ui' = [at |-> "joinonly", then |-> NoFilter, ended |-> FALSE]
    /\ queue' = {}
    /\ cancel' = TRUE
    /\ stopped' = TRUE
    /\ UNCHANGED <<snap, opened, rd, bad, filter, worker, chan, applied>>

Joining == ui.at \in {"join", "joinonly"}

\* Mutant: the event loop waits for the thread without receiving.
JoinDeaf == FALSE /\ UNCHANGED vars

\* Job::wait(false): what the worker sends meanwhile is dropped; that frees a
\* worker waiting on a full channel.
JoinReceive ==
    /\ Joining
    /\ chan # <<>>
    /\ chan' = Tail(chan)
    /\ UNCHANGED <<loop, bad, worker, cancel>>

\* The thread has ended: the rest of apply_filter, or of cancel_search.
JoinEnd ==
    /\ Joining
    /\ worker.pc = "ended"
    /\ ui' = Idle
    /\ UNCHANGED <<rd, bad, filter, applied>>
    /\ \/ /\ ui.at = "join"
          /\ stopped' = FALSE
          /\ StartSearch(ui.then)
          /\ Rebuild([o \in Ops |-> FilteredBy(o, snap[o], ui.then)], opened, rd)
       \/ /\ ui.at = "joinonly"
          /\ chan' = <<>>
          /\ Rebuild(snap, opened, rd)
          /\ UNCHANGED <<queue, worker, cancel, stopped>>

(***************************************************************************)
(* The search worker.                                                      *)
(***************************************************************************)

\* Before each block: the flag, then one block; a report is due at the end of
\* the operator and once StepBlocks were read.
WorkerScan ==
    LET o    == Head(worker.targets)
        page == ScanBlock(o, worker.cur, worker.names, bad)
        due  == page.next = NoNext \/ worker.blocks + 1 >= StepBlocks
    IN  /\ worker.pc = "scan"
        /\ worker' = IF cancel THEN Ended
                     ELSE [worker EXCEPT !.cur = page.next,
                                         !.found = @ \cup page.keys,
                                         !.errors = @ \cup page.errors,
                                         !.blocks = @ + 1,
                                         !.pc = IF due THEN "send" ELSE "scan"]
        /\ UNCHANGED <<loop, bad, chan, cancel>>

\* After a report: on with the operator, with the next one, or the end.
Sent(w) ==
    IF w.cur # NoNext
    THEN [w EXCEPT !.pc = "scan", !.found = {}, !.errors = {}, !.blocks = 0]
    ELSE IF Tail(w.targets) = <<>> THEN Ended
    ELSE [w EXCEPT !.pc = "scan", !.found = {}, !.errors = {}, !.blocks = 0,
                   !.targets = Tail(@), !.cur = Start]

\* SyncSender::send waits while the channel is full.
WorkerSend ==
    /\ worker.pc = "send"
    /\ Len(chan) < Capacity
    /\ chan' = Append(chan, [op |-> Head(worker.targets), keys |-> worker.found,
                             next |-> worker.cur, errors |-> worker.errors,
                             rd |-> worker.rd])
    /\ worker' = Sent(worker)
    /\ UNCHANGED <<loop, bad, cancel>>

(***************************************************************************)
(* poll_search.                                                            *)
(***************************************************************************)

\* apply_search: the reports of one operator come in key order, so those of one
\* drain are applied as one. The row of a match is kept when the match is new
\* and falls in the window or the page after it.
ApplyReports(k, keys, errors, next, r) ==
    LET new  == NewMatches(k.filtered, keys)
        pos  == k.filtered.pos \o new
        near == {pos[i] : i \in {j \in Len(k.filtered.pos) + 1 .. Len(pos) :
                                    j > k.filtered.offset /\ j <= Wanted(k.filtered)}}
    IN  [Note(k, errors) EXCEPT !.filtered.pos = pos, !.filtered.next = next,
                                !.rows = Loaded(@, near, r)]

ApplyDrained(o, k) ==
    LET mine == {i \in DOMAIN chan : chan[i].op = o}
    IN  IF mine = {} THEN k
        ELSE ApplyReports(k, UNION {chan[i].keys : i \in mine},
                          UNION {chan[i].errors : i \in mine},
                          chan[Max(mine)].next, chan[Max(mine)].rd)

\* Whether the thread has ended is read before the channel is drained.
PollCheck ==
    /\ ui = Idle
    /\ queue # {}
    /\ ui' = [at |-> "poll", then |-> NoFilter, ended |-> worker.pc = "ended"]
    /\ UNCHANGED <<snap, opened, rd, bad, filter, queue, thread, stopped, applied>>

\* Mutant: a drain that brings nothing is taken for the end of the search.
NothingCame == chan = <<>>

HasEnded == ui.ended

\* Every report is applied; an operator searched to its end leaves the queue,
\* and an empty queue (or an ended thread) drops the search, which joins it.
PollDrain ==
    LET after == [o \in Ops |-> ApplyDrained(o, snap[o])]
        left  == queue \ {chan[i].op : i \in {j \in DOMAIN chan : chan[j].next = NoNext}}
        over  == left = {} \/ HasEnded
    IN  /\ ui.at = "poll"
        /\ chan' = <<>>
        /\ queue' = IF over THEN {} ELSE left
        /\ cancel' = (cancel \/ over)
        /\ ui' = IF over THEN [at |-> "joinonly", then |-> NoFilter, ended |-> FALSE] ELSE Idle
        /\ IF chan # <<>> \/ HasEnded THEN Rebuild(after, opened, rd)
                                      ELSE UNCHANGED <<snap, opened>>
        /\ UNCHANGED <<rd, bad, filter, worker, stopped, applied>>

\* A state file goes away.
Lose(o, g) ==
    /\ <<o, g>> \notin bad
    /\ MayChange
    /\ bad' = bad \cup {<<o, g>>}
    /\ UNCHANGED <<loop, thread>>

Groups(o) == {Items[o][i].kg : i \in DOMAIN Items[o]}

Worker == WorkerScan \/ WorkerSend
Tick   == PollCheck \/ PollDrain
Join   == JoinReceive \/ JoinEnd
User ==
    \/ \E o \in Ops : Toggle(o)
    \/ \E o \in Ops, forward \in BOOLEAN, n \in 1 .. MaxScroll : Scroll(o, forward, n)
    \/ \E f \in Filters \cup {NoFilter} : Apply(f)
    \/ CancelSearch
    \/ SelectProfile
Next == User \/ Worker \/ Tick \/ Join \/ \E o \in Ops : \E g \in Groups(o) : Lose(o, g)

\* ENABLED of Worker, Tick and JoinEnd, written out, and what tells their steps
\* from the others of Next (only the worker changes itself while it runs, only
\* a tick enters or leaves "poll", only JoinEnd leaves a join): the rest of
\* these actions only computes pages and snapshots.
CanWork  == worker.pc = "scan" \/ (worker.pc = "send" /\ Len(chan) < Capacity)
WorkStep == worker.pc # "ended" /\ worker' # worker
CanTick  == (ui = Idle /\ queue # {}) \/ ui.at = "poll"
TickStep == ui.at # ui'.at /\ "poll" \in {ui.at, ui'.at}
CanEnd   == Joining /\ worker.pc = "ended"
EndStep  == Joining /\ ui' # ui

\* The threads are scheduled; the user and the file system owe nothing. The last
\* three are WF_vars(Worker), WF_vars(Tick) and WF_vars(JoinEnd).
Fairness ==
    /\ WF_vars(JoinReceive)
    /\ []<>~CanWork \/ []<><<WorkStep>>_vars
    /\ []<>~CanTick \/ []<><<TickStep>>_vars
    /\ []<>~CanEnd \/ []<><<EndStep>>_vars

Spec == Init /\ [][Next]_vars /\ Fairness

(***************************************************************************)
(* Properties.                                                             *)
(***************************************************************************)

\* The keys a filter is about.
Hits(o, f) ==
    {i \in DOMAIN Items[o] :
        CASE f.kind = "range" -> Items[o][i].kg \in f.lo .. f.hi
          [] f.kind = "none"  -> TRUE
          [] OTHER -> Items[o][i].name \in f.names}

\* S is complete: every key of it is listed, or its key-group was reported.
Complete(o, seq, S) ==
    \A i \in S : i \in ToSet(seq.pos) \/ Items[o][i].kg \in snap[o].errors

\* No key is missing from a window without a word: whatever was scrolled,
\* filtered, found and dropped before, each key of an expanded operator's
\* window is loaded, or the operator reports its key-group (ensure_window,
\* apply_search, set_reader).
WindowsLoaded ==
    ui = Idle => \A o \in opened :
        LET seq == Listed(snap[o])
        IN  \A i \in Window(seq) : \/ seq.pos[i] \in DOMAIN snap[o].rows
                                   \/ Items[o][seq.pos[i]].kg \in snap[o].errors

\* A list of matches says what it says: it holds only keys the filter is
\* about, none twice, and once it is no longer a lower bound ("n/m keys"
\* instead of "≥ n") it holds them all, but for reported key-groups
\* (apply_filter, apply_search, push_match, note_page).
MatchesExact ==
    ui = Idle => \A o \in Ops :
        LET seq == Listed(snap[o])
        IN  /\ ToSet(seq.pos) \subseteq Hits(o, filter)
            /\ Cardinality(ToSet(seq.pos)) = Len(seq.pos)
            /\ Done(seq) => Complete(o, seq, Hits(o, filter))

\* A search nobody stopped ran to the end of every operator: no report of the
\* worker is lost between its last send, its end and the drain (poll_search).
SearchRunsToEnd ==
    (ui = Idle /\ queue = {} /\ ~stopped) =>
        \A o \in Ops : snap[o].filtered.matches => Done(snap[o].filtered)

\* A search ends: it is polled to its end or dropped, whatever the channel
\* holds (start_search, poll_search).
SearchEnds == (queue # {}) ~> (queue = {})

\* The event loop never hangs on the worker: dropping a search whose worker
\* waits on the full channel ends (Job::drop, Job::wait).
JoinsEnd == Joining ~> ~Joining
==============================================================================
