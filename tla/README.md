# TLA+ verification of flink-state-explorer

flink-state-explorer opens a Flink savepoint and lets a user look at the keyed
state in it: in a terminal (`src/src/tui/`), in a browser (`src/src/web/`) or as
exported files. This directory holds TLA+ models of the parts where the order of
events matters and of the algorithms a key or a value passes through, TLC
configurations that check them on small instances, and proofs, checked by TLAPS, of
the results that do not depend on the instance.

`PROJECT.json` lists components, runs, the source lines behind every definition,
the hazards the properties are for, findings and theorems.

```
tlc -workers 2 -config PagedReader.cfg MCPagedReader   # one run
tlapm PagedReader_proofs.tla                           # the proofs of a module
```

## 1. The system

| Part | State it keeps | Operations | What is hard |
|---|---|---|---|
| Lazy reader (`reader/mod.rs`, `reader/source.rs`) | an open savepoint, per operator the handles of its subtasks; block cache; file pool | `key_page`, `scan_with`, `count`, `cursor_at`, `progress`, `get`, `entries` | pages cut inside blocks, files that disappear or are corrupt half way, cursors that come back later with other limits |
| Parsers (`parser/`) | none | metadata, key-group blocks, serializer snapshots, values | byte formats; lengths that lie |
| Web counts (`web/jobs.rs`) | registry of count jobs, a thread, a cancel flag and a status per job | `start`, `cancel`, `get`, drop | handlers and workers interleave; slots are counted from statuses |
| Web server (`web/http.rs`) | connections, read permits, download slots, bounded channels | accept, request, stream, stall watch, stop | slow clients, clients that leave, failures after the headers were sent |
| Web pages (`web/mod.rs`, `web/pages.rs`, `web/tools.rs`) | form parameters in the URL | pages, searches, lookups | continuation links |
| Terminal: event loop (`tui/app.rs`) | mode, jobs, tree, status line | keys, polling of workers | state read before a worker ends and used after |
| Terminal: workers (`tui/jobs.rs`) | thread, cancel flag, channel per job | count pass, search, export | last messages, full channels, waiting for the worker |
| Terminal: count cache (`tui/counts.rs`) | one cache file per savepoint | `load`, `save` | crashes, power loss, several explorers, a replaced `_metadata` |
| Terminal: tree and search (`tui/tree.rs`) | windows of keys and of map entries, the search and its matches | expand, scroll, filter, search, change the profile | windows that are read again, a search that reports meanwhile |
| JSON export (`export.rs`) | `export.json.partial`, `export.json` | `export_json` | abort, failure, kill between two writes; two explorers |
| Headless commands (`main.rs`, `export_state.rs`, `export_parquet.rs`) | row batches, `<path>.partial` | list states; export one to NDJSON or Parquet | which operator holds a state when files are missing; errors at the end of a stream |
| Key-groups (`parser/key_group.rs`), globs (`glob.rs`) | none | hash, owner of a key-group; match | 32-bit wrap-around; backtracking |

The lazy reader is under everything else: the key table, the searches, the counts
and the exports are all sequences of its pages. The terminal runs one thread for
the screen and one per job; they talk through a channel and a cancel flag, and
the screen thread *waits* for a job it cancels. The web explorer runs handlers on
blocking threads (with a permit each), counts on threads of their own and
downloads on producer threads that push chunks through a bounded channel.

What makes each part correct: every key once, or its key-group named as unreadable
(reader); a status that agrees with the thread behind it (web counts); a cache
that never lies (count cache); no half-written file under the real name (exports), and
no part of a state exported as all of it; no short file that looks whole, and no
reader that never ends (web server); no key missing from a window or a list of matches
that claims to be whole (tree); keys and values shown as what Flink stored, or as not
decoded (parsers).

## 2. Modules

| Module | Models | Abstraction |
|---|---|---|
| `KeyGroupLayout` | the pure part of `reader/mod.rs`: units, `check_offsets`, `header_len`, `block_range`, `seek`, `cursor_of`, `cursor_at`, `check_cursor`, `state_label`, `progress` | a file is its length, offsets and whether it opens and has a readable header; a block is a sequence of keys, each with the stateIds of its entries |
| `KeyStream` | abstract specification: a frontier moves over a stream of keys | no pages, no files |
| `PagedReader` | `key_page`, `scan_with`, `count` as a walk page after page; one step is one turn of a page's loop | the text of a key is whether the search matches it |
| `CountJobs` | `CountJobs::{start, cancel}`, its `Drop`, and the count worker of `web/jobs.rs` | a count is the number of pages it added up |
| `KeyCounts` | `start_count` in `tui/jobs.rs`; `poll_jobs`, `C`, quitting in `tui/app.rs`; `load` and `save` in `tui/counts.rs`; `key_count` and `total` in `tui/tree.rs` | an exact count is <<version of `_metadata`, pages counted>>, a lower bound only that; a file is whole or truncated, synced or not |
| `JsonExport` | `export_json`, `start_export`, and the keys `E`, `q`, Ctrl-C in `tui/app.rs` | a file is the set of the pages it holds |
| `WebServer` | `accept_loop`, `respond`, `streamed`, `ChannelBody`, `StallWatch` and the stop in `web/http.rs` | a request is a page, a failure or a download; hyper and tokio by what `http.rs` relies on |
| `ReaderCaches` | `grouped`, `BlockCache`, `FilePool` under several threads | the tick counters are the order of a sequence, least recently used first |
| `KeyGroupBlock` | `parse_key_group_block`, `split_key`, `decode_key` over bytes | keys are Strings or opaque |
| `BlockLookup` | a block as Flink writes it, cut anywhere; `group_block`, `record`, `get`, `entries` | the writer is external |
| `KeyWindows` | `KeySeq`, `KeyedSnapshot`, `ensure_window`, pagers: pure operators of `tui/tree.rs` | a cursor is the index of a key (what `PagedReader` shows of the reader) |
| `TreeSearch` | filter, search, poll, cancel, expand, scroll and profile change; the search worker of `tui/jobs.rs` with its bounded channel | a text is a name, a filter the set of names it is about |
| `Glob` | `glob_match`, `MatchMode`, `KeyMatcher` | |
| `StringValue` | the variable-length strings of `StringValue`, written and read | UTF-16 units |
| `KeyText` | String, Char, BigInteger, BigDecimal and Date keys as text and back | bytes of `Byte` bits and words of `WordBytes` |
| `KeyHash` | Java hash codes, murmur, key-groups, ranges of subtasks | a 32-bit integer is two halves |
| `StateValue` | the type of a state from its serializer snapshots, and the decoding of its values | a scalar is its bytes |
| `KeyInputs` | inputs of the five modules above, grown symbol by symbol | |
| `StateExport` | `list_states`, `export_state_rows`, both sinks and `write_then_rename` | a value is its kind, a type one of those with a column of their own or "another" |
| `MC...` | small instances | |
| `Kept` | what `retain`, `filter` and a removal leave of a list, by its positions | `SelectSeq` in a form the prover can reason about |
| `PagedReader_proofs`, `CountJobs_proofs`, `KeyCounts_proofs`, `WebServer_proofs`, `ReaderCaches_proofs`, `TreeSearch_proofs` | theorems of the module they are named after | |
| `Exports_proofs` | theorems of `StateExport` and of `JsonExport` | |
| `Kept_proofs` | lemmas about lists that these proofs share | |

How state and actions correspond to the code:

* **PagedReader.** `pos` is the local `Position` of the loop, `page` the locals that
  decide when a page is full (`visited`, `block_bytes`, `limit`, the budget),
  `cursor` the one the client holds between pages. `Begin` and `Refuse` are the
  entry of the three functions (`check_cursor`, `seek`); `Cut`, `Finish` their
  returns; `SkipUnreadable`, `ReadFails`, `KeysOfBlock`, `CountBlock` the turns
  of the loop. `ReadFails` may happen at every block: the file may be gone by the
  time it is read. `times`, `rep`, `malformed`, `tally`, `bytes` are what the
  client has been given.
* **CountJobs.** `start` holds the registry's lock throughout and is one step.
  `cancel` looks the job up, sets its flag, then its status: three steps
  (`CancelLookup`, `CancelFlag`, `CancelMark`). The worker's loop (look at the flag,
  count a page, publish, finish) is one step each, with failures and panics.
* **KeyCounts.** The event loop reads `is_running`, then drains the channel, then
  forgets the job: separate steps, between which the worker runs. `save` is read
  header, create side file, write, sync, rename: a crash or a power loss can fall
  between any two, and `_metadata` may be replaced at any time (`ReplaceMetadata`). The
  history variable `overtaken` holds the pairs of versions of which one was open when the
  other came.
* **JsonExport.** An open file and a name are different things: `create` truncates
  whatever has the name, a rename moves it, and a writer keeps writing to its file
  under any name.
* **ReaderCaches.** A thread holds the lock of the cache or of the pool for one step;
  opening a file and reading a block are steps between them, in which others run.
* **BlockLookup.** `WriteEntry` and `WriteEnd` are Flink; `Cut` shortens the file. What
  the reader answers is a function of the bytes, so it is checked in every state.
* **TreeSearch.** One key or one tick is one step, but `poll_search` reads `is_running`
  (`PollCheck`) and then drains (`PollDrain`), and dropping a job is a wait (`Join...`)
  in which only the worker moves. `Rebuild` is the `rebuild_flat_list` every handler
  ends with: it loads the windows of the expanded operators.
* **KeyInputs.** `kind` chooses an algorithm; `text`, `pat`, `date` and `val` are its
  input. Values are written by the serializers of `Shapes` (external) and may be cut at any
  byte, to none.
* **StateExport.** One step to find the operator, then one per stream, block and row, so
  files may be lost, a write fail or the process be killed between any two. `ctx.streams` and
  `ctx.headers` are what `OpContext::open` found; the loop goes over all subtasks and skips
  those without a stream.
* **WebServer.** `read` is the blocking task that keeps its permit when its client has
  left; `prod` the producer; `leaving` the producers that sent their last message
  and still hold a slot; `armed` what `StallWatch` knows; `handed`, `due`, `asked` what the
  client and hyper do: a chunk is not taken yet, hyper may ask for the next, hyper has asked
  and `poll_frame` returned `Pending`. `Stalled` looks at the watch alone, as
  `serve_watched` does.

Definitions introduced by `\* Mutant:` are deliberately wrong variants of the one
below them (a dropped guard, a missing reset, a swapped order). They are used by
no specification: substituted for the definition they vary, each must make the
property it is listed with in `PROJECT.json` fail, which shows that the property
depends on that line of the code.

## 3. Runs

| Run | Instance | Shows |
|---|---|---|
| `paged_reader` | 2 subtasks of 2 key-groups; 7 kinds of handle per subtask, damaged and sound blocks of up to 3 keys; limits 0 and 2, budgets 0 and 4 | every key once or its key-group listed (`NothingLostOrRepeated`, `DefectsReported`); issued cursors are accepted; exact counts and progress are exact; every page advances; the walk implements `KeyStream` |
| `count_jobs` | 2 operators, 2 handlers, 1 slot, 2 jobs | status agrees with thread; slots; done is complete and cancelled is not, also when a cancel races the last page; stopped jobs keep their status; a cancelled count stops, and all stop with the server |
| `key_counts` | 2 explorers, 1 operator of 2 pages, 2 versions of `_metadata`, replaced while open too; any number of kills and power losses | the cache is whole though both save at once, and true of the `_metadata` it names or of one that was open when that came; an exact count is exact, with the same exception; no operator stays half counted |
| `json_export` | 1 explorer, 3 pages, 2 kills | `export.json` is always whole, and there when the status line says so; nothing left behind; exports and quitting end |
| `web_server` | 3 clients, 2 connections, 1 permit, 1 slot, 2 chunks, 1 in flight | a clean transfer is whole and an error is not a short file; readers are bounded; the watch that cuts a client off is armed while a chunk waits for it, never while the connection waits for the producer |
| `web_server_live` | 2 clients | requests are answered; producers end, also when the server stops |
| `reader_caches` | 3 threads, 3 blocks in 3 files, one heavier than the cache; 2 open files | `used` is the weight of what is kept, within the capacity; no file is pooled twice and the pool keeps its bound |
| `block_lookup` | blocks of up to 3 entries of 4 states (MAP, VALUE, TIMER, one not registered), String and opaque keys, map keys with a unit 0, then cut at every byte | what is read back is what was written, up to the cut (`Ambiguous` map keys behind opaque keys excepted); a key is absent only if it cannot be behind a defect; pages of entries continue a record exactly |
| `tree_search` | 2 operators, 6 keys, pages of 2, channel of 1, 3 filters, 2 of them applied, 1 change | no window lacks a row without a word; lists of matches hold each match once, and all of them when they say so; no report is lost; searches and waits end |
| `key_inputs` | patterns to 4 and texts to 3 symbols, Strings to 6 units, numbers to 4 digits of 4-bit bytes, the bytes around the hash that mixes to `i32::MIN`, every day of an era, values of 88 shapes, whole and cut at every byte; keyed lists past `MaxListItems` | each algorithm agrees with its meaning; what is shown of a key finds it again; a value is shown as stored, with a marker where it stops (the exceptions are in `Told`) |
| `state_export` | 2 operators, the first with 2 subtasks, 6 kinds of subtask; 2 commands, 1 file lost | a command that succeeds told every value stored, a NaN or an infinity as a null; the path asked for only ever holds a whole export |
| `value_of_list` | a ValueState of a list of Shorts | the finding below |

### Finding

`value_of_list` expects a violation. `decode_state_value` takes every type `List<...>` for
the delimited elements of a keyed ListState, and the header gives a ValueState that holds a
list the same type, though Flink writes that list counted (`docs/parsing-format.md`): an
empty list is shown as `[0]`. `key_inputs` checks the same property over the shapes for which
it holds.

### Known disagreements without a run

Met while modelling. The first five happen in the models, and the property concerned names
the case as its exception, so that nothing else may go wrong there:

* `save` takes the header of `_metadata` at the time of the save (`tui/counts.rs:107`): if the
  file was replaced while it was explored, old counts are cached under the new header, where
  the README says they are "ignored once `_metadata` changes". `CacheTrue` and `ExactIsExact`
  allow a difference between two versions only if an explorer had one open when the other
  came (`overtaken`).
* A value of which no byte is left, or a map's value of which only the isNull byte is left, is
  shown as `null` (`parser/value.rs:86`), where the module says that bytes that end early are
  `[undecodable]` and that a null was stored. `ValuesReadBack` allows this null and no other
  (`Told`).
* A keyed list of more than 1,000,001 elements ends there without a marker
  (`parser/value.rs:167`); so does a list cut between two elements, which no reader of the
  bytes could tell. `Told` states both; the limit is `MaxListItems`.
* An undecodable key of a MAP state ends before the shortest suffix that looks like a namespace
  and a map key (`keyed_state.rs:1293`). If the map key contains a unit 0 followed by what
  reads as a string, that suffix is inside the map key: the map key's beginning leaks into
  the key, where the comment at `keyed_state.rs:1269` says it never does. The key `01` with the map key
  `"\u0000\u0001"` is shown as `010003`. `BlocksReadBack` says so of `Ambiguous` map keys
  behind opaque keys and excludes it everywhere else.
* A NaN or an infinity is exported as `null`, and to Parquet as NULL without a note
  (`export_parquet.rs:76`, `parser/value.rs:7` and the README say such a null was stored by
  Flink). `SuccessIsWhole` and `PathIsWhole` compare rows with the values stored and allow this
  one loss (`Tells`). (In `StateValue` a scalar is its bytes, so `ValuesReadBack` does not see
  it.)

Of the others the passing runs leave out the one event each of them needs:

* A walk through a malformed key-group to the end shows its count as exact
  (`tui/tree.rs:349`); the count pass calls the same count a lower bound.
* A pass stopped on an operator browsed to its end leaves it `Counting` (`tui/app.rs:271`);
  the row shows it again when a window cannot be read any more. `NoneLeftCounting` is about
  operators not browsed to their end.
* Two explorers on one savepoint export through one `export.json.partial` (`export.rs:92`), two
  headless exports to one path through one `<path>.partial` (`main.rs:397`): a half-written file
  can take the real name. `JsonExport` has one explorer and `StateExport` one command at a time.
* An abort that arrives while the last page of `export.json` is written is not seen, and the
  file is left, where the README says "no `export.json` is left".
* A profile change lets a running search go on with the old reader, and rows it reports into
  the first windows are shown as the old profile decodes them (`tui/tree.rs:1182`).
* The header keeps the outermost composite of a serializer only (`keyed_state.rs:202`). Besides
  the list in a ValueState: a Map with a Tuple or POJO key, a Ttl of a list of POJOs, a keyed
  array of POJOs and a ValueState of a Map are read as another type.

### Bounds, and why they are enough

* Key-groups and blocks: two subtasks are needed for a unit boundary, two key-groups
  each for an empty one next to a full one, three keys for a cut that is neither at
  the first nor at the last key. Limit and budget 0 are the edges the code treats
  specially. All of `PagedReader`'s properties are proved without bounds.
* `MaxJobs` = 2 lets two operators contend for the slot, and a job be replaced while a
  cancel of the first is still on its way. All safety properties of `CountJobs`
  are proved for every value.
* The safety properties of `KeyCounts`, `WebServer`, `ReaderCaches`, `TreeSearch` and
  `StateExport`, `NothingLeftBehind` of `JsonExport`, and its `ExportWhole` with one explorer are proved
  without bounds too: their runs' bounds matter to the liveness properties.
* `Pages` = 2 or 3 gives a first, a middle and a last page; a worker is
  interrupted in, before and after each.
* `MaxVersions` = 2: the cache is about two versions that differ. Kills and power losses are
  not bounded in `KeyCounts`; `MaxCrashes` = 2 in `JsonExport` lets an export run over what
  a killed one left.
* Three threads and two open files: one thread evicts while another opens the file a third
  one has just pooled. A block of weight 4 does not fit a cache of 3.
* Pages of two keys and six keys give windows before, at and past the end; a channel of one
  report fills at the second; two filters let a search be dropped for another one.
* Three entries make a run of two and a run of one, or one key with entries of two states; a
  limit of one entry makes every record continue.
* Alphabets of `key_inputs` hold what the algorithms treat specially (both cases of a letter,
  backslash, `u`, hex digits, surrogates, the delimiter, flags); lengths allow a literal
  `\uXXXX`, two stars with text between and a sign byte that must stay. `Byte` = 4 and
  `WordBytes` = 2 keep numbers of a few digits wider than one word. The known hash codes of
  `tests/key_group_test.rs` are an ASSUME of `MCKeyInputs`.
* Two subtasks that register their states in different orders, two commands (the second over
  what the first one left) and one file lost while a command runs; batches of two rows.
* `MaxListItems` = 1 and keyed lists of three elements: below, at and past the limit of
  `decode_list`.
* Three clients on two connections and one permit: one is refused, one waits, one is
  served. Two chunks with one in flight fill the channel and block the producer.
* `SYMMETRY` is used only in runs without liveness, over sets no action or property
  names an element of.
* `CHECK_DEADLOCK FALSE` where the system may rest: no jobs left to start within
  `MaxJobs`; explorers closed after their bounded crashes; a server that stopped; inputs and
  blocks that are complete; commands that have run. `reader_caches` never rests and checks it.

### Fairness

Threads that run keep running; nothing a user or a client does is ever required.

* `CountJobs`: every worker, and a handler that has begun a cancel. Not failures,
  and not `start` or `cancel` themselves.
* `JsonExport`: the worker and the event loop, which polls on a timer. No key has to be
  pressed. (`KeyCounts` uses the same job, channel and wait; only its safety is checked.)
* `TreeSearch`: the search worker, the tick and the wait for a dropped job. TLC cannot
  evaluate ENABLED of these actions in reasonable time, so weak fairness is written out:
  `CanWork`, `CanTick`, `CanEnd` are their enabling conditions and `WorkStep`, `TickStep`,
  `EndStep` tell their steps from the others.
* `WebServer`: the server's task, blocking tasks, producers and the stall clock. No
  fairness on clients: they may stop sending or taking for ever.

## 4. Proofs

TLAPS proves the following for every value of the constants that satisfies the named
assumptions. Each inductive invariant was first checked by TLC on the instance of the
module's run. The proof that it is kept has one lemma per action and under it one step
per conjunct the action can disturb.

**PagedReader_proofs**, from `ParallelismAssumption`, `SavepointsAssumption` (handles
with disjoint key-group ranges inside the operator's, which Flink writes) and
`PagingAssumption` (limits, budgets and ordinals are naturals, 0 included):
`TypeCorrect`, `NothingLostOrRepeatedHolds`, `ReportedOnceHolds`,
`DefectsReportedHolds`, `PagesAdvanceHolds`, `IssuedCursorsAcceptedHolds`,
`WalkImplementsStream`, `CountsExactHolds`. `WellFormed`, a part of
`SavepointsAssumption`, also says that a header registers a name once, so the entries of
one key with different stateIds are of different states.

1. `Base == TypeOK /\ PosInv` is inductive. Types alone are not: whether a returned
   cursor is a cursor depends on where the page stands. `PosInv` says that a page
   stands at or after its cursor, that it keeps the cursor's ordinal only in the
   cursor's own key-group, and that it has visited nothing while it stands there.
   `SeekFacts` and `SeekReaches` say what `seek` finds and what it passes: nothing
   but empty key-groups.
2. `Handed` describes one step: the frontier moves forward, each wanted key passed is
   handed over once unless its key-group is listed, and each damaged block passed is
   complained of. `StepHands` proves it of every step, one lemma per action.
3. `HandedInv` says the same of everything behind the frontier; it is kept by any step
   that is `Handed` (`NextHanded`), which gives the three invariants.
4. A step that is `Handed` is a step of `KeyStream` (`StepRefines`): the refinement.
   `Cut`, `Finish` and a block that ends a page move the cursor (`StepAdvances`):
   `PagesAdvance`. Since cursors only move forward and there are finitely many of them,
   a client that keeps asking comes to the end.
5. `CursorsAccepted` says that the client's cursor is the one it began with, none, or one
   that `check_cursor` accepts. A returned cursor names the unit its page stands in;
   `HolderAccepted` shows from the disjoint ranges that this is the one unit
   `check_cursor` looks for.
6. `CountInv` says what a count owes: its bytes are the stored bytes of the readable blocks
   behind the frontier, and its tally of a state the keys, and the entries, that the blocks
   counted hold of it. Sums are cardinalities of tagged sets (`StoredBytes`, `AddedKeys`,
   `AddedEntries`), so adding a block is a union of disjoint sets (`DisjointSum`) and
   nothing is folded. `SeekPays` shows that what `seek` passes has nothing to pay,
   `BlockPays` that a counted block pays for itself; `KeysCountOnce` maps the keys of a
   block one to one to the places they are counted at.

**CountJobs_proofs**, from `CountJobsAssumption`: `CountJobsTypeCorrect`,
`LiveIffWorkingHolds`, `OneWorkerPerOpHolds`, `StatusTellsCountsHolds`,
`StoppedStaysHolds`, `SlotBoundHolds`. The inductive invariant `IInv` ties the worker's
place to the job's flag, status and pages, and says that a handler half way through a
cancel has a job that exists. `SlotBound` is not inductive over statuses alone:
`WorkersInRunning` shows that every worker is one of the live jobs `start` counts, and
`WorkersStep` that only `start` adds one.

**Kept_proofs**: what is left of a list by `Keep` has the elements asked for, each as
often and in the same order as before (`KeepPositions`, `KeepElements`), and at the place
that is the number of those kept up to it (`KeepAt`); a list without repetition is as long as
its set of elements (`DistinctLength`); a set listed by `SetToSeq`; the greatest and the least
of a set of numbers. The library's induction theorems cannot be used, so these rest on
counting positions and on minimal elements.

**WebServer_proofs**, from `WebServerAssumption`: `TypeCorrect`, `DownloadsWhole`,
`PermitsBound`, `StallsBlameClients`. `CleanIsWhole` is about the last moment of a
download; what carries it is `Flow`: every chunk made is taken by the client, handed to
hyper, held as the first one, or in the channel, and a producer that is gone has left its
last word at the channel's end. `BodyInv` gives the stall watch: a frame is handed over or
due, never both; the watch is armed from the moment a chunk is handed over until hyper asks
for the next one, and off while it has asked. `Permits` counts readers and slots together with the clients that
have left and the producers that are leaving; `Queue` says that a client waits once, so
`Admit` hands one permit to one reader.

**KeyCounts_proofs**, from `KeyCountsAssumption`: `TypeCorrect`, `CacheIsTrue`,
`ExactCounts`, `NothingHalfCounted`. `FilesInv` speaks of the cache and of every older
version a power loss may bring back: renamed after `sync_all`, so whole, and exact of the
version it names or of one overtaken by that (`Near`). `OvertakenInv` says that who had `u`
open when `w` came had it open when every version between them came, so a second save
under a wrong name and a power loss stay within the exception (`BothOvertaken`). An explorer
shows counts of the version it has open (`CountsOf`), or a cache of another one as a whole
(`CachedOk`), and then has nothing left to count or to save. `SaveInv` follows
one save through its steps, each explorer with its own side file. `TodoInv` ties the
three places an operator's count can be: still in the worker's list, in a message of the
channel, or shown; a worker says `done` of an operator once and last. From that follow
that the shown counts are exact, and that the event loop, which reads `is_running` before
it drains, has heard of every operator when it forgets the job.

**ReaderCaches_proofs**, from `ReaderCachesAssumption`: `CacheAccounted`, `PoolKeepsBound`.
`CacheInv` and `PoolInv` add that no block and no file is held twice, which every step must
know of the other threads' inserts. The weight of a list of blocks is the number of
its `Units` (a block of weight n has n of them) rather than a folded sum: the
same number, and cardinalities can be reasoned about. `CutInTwo` and `EvictedEnough` show
that evicting the least recently used blocks makes room for the new one.

**Exports_proofs** holds the proofs about both exports.

`ExportInvariant`, `SuccessfulIsWhole` and `PathsAreWhole` are about `StateExport`, from
`StateExportAssumption` (a batch has a row; the savepoints are any lists of subtasks, with any
states, blocks, defects and files). "Every value, once and in order" is said without
concatenating the blocks: a value has a place `<<subtask, block, entry>>`, its `Rank` is the
number of places up to it, and the row of that rank tells the value stored there (`Holds`,
`Tells`; a NaN or an infinity is told as a null). The inductive
invariant `IInv` has a part per phase of the command:

1. Nothing is written before the operator is found (`FreshInv`), and it is the only one asked
   about that holds the state (`ResolveStarts`). This is where a file that could not be read
   matters: it may hold the state in an operator that seems not to.
2. While the streams are walked (`ExportInv`), the rows in the file, those of the batch and the
   values of the block still to come are, in this order, the values passed, each at its rank
   (`ValuesInv`), and `malformed` is positive when a defect was passed. `BlockRanks` shows that
   the values of a block have the ranks that follow; `RowKeeps` that a value may move from the
   block to the batch or the file, and a full batch to the file; `CellShows` that a value that
   does not fit its column is in the note.
3. At the end of the streams all values were passed (`FinishHolds`), so the side file is whole
   when it is renamed (`WrittenInv`).
4. A file that is lost meanwhile still counts in `Stored` (`SameStored`): an export that runs
   on must have read it before, or it fails.

`LeavesNothing` and `ExportsWhole` are about `JsonExport`, from `JsonExportAssumption`.
`LeavesNothing`, for any number of explorers: if there is a `.partial`, a worker is busy with
it or it has an excuse (`LeftInv`). `ExportsWhole`, for one explorer: `WriterInv` says that the
file being written is the `.partial`, with its pages in order, and is never the one that has
the real name. The hypothesis that there is one explorer is needed: two of them share the
`.partial` (`export.rs:92`, above).

**TreeSearch_proofs**, from `KeyWindowsAssumption` and `TreeSearchAssumption`: `Invariant`,
`SearchesRunToEnd`, `Lists_Invariant`, `WindowsAreLoaded`, `MatchesAreExact`. `FlowInv` says that every queued operator is ahead of the worker or
ended by a report in the channel (`QueueInv`), that the report that ends an operator is the
last about it (`ChannelInv`), that what `PollCheck` saw still holds when the channel is
drained (`PollInv`), and that an operator not searched to its end is queued unless the user
stopped the search (`SearchInv`). `RebuildKeeps` shows that loading windows, which
every handler does, leaves a search alone.

`Lists_Invariant`, `WindowsAreLoaded` and `MatchesAreExact` are about what is on the screen.
`DataInv` adds to `FlowInv`: a list that is browsed holds the keys of its range, in order and
as far as it was browsed, and a list of matches the keys the filter is about, each once and
as far as it was searched, but for key-groups reported as unreadable (`ListsInv`); a report,
together with the list and the reports before it (`Told`), tells of every match before its
cursor, and so does what the worker has found (`ReportsInv`); the window of an expanded
operator is loaded (`WindowInv`). The walk of one page
(`BrowseEnd`) is a recursive function: `WalkExists` and `WalkForward` show by a minimal
counterexample that it exists and moves forward. `RunCovers`, `PageCovers` and `FewPlaces`
show that the pages `ensure_window` asks for leave no row of the window unread.
`TreeSearchAssumption` says of the filters what the filter bar can make: an exact one is
about one name, a pattern includes its own plain text as a name or has none, and no key is
named like the empty text.

Only model-checked:

* liveness (`StoppingEnds`, `ExportsEnd`, `RequestsAnswered`, `ProducersEnd`, `SearchEnds`,
  `JoinsEnd`): reasoning about fairness and ENABLED is beyond the prover used;
* the algorithms of `KeyInputs` and `BlockLookup`: recursive over their input, and the prover
  has no induction over data;
* `ExportWhole` for several explorers is not claimed.

## 5. Not modelled

* The framing of `_metadata` and of the keyed header, and operator state: sequential decoding
  of a trusted format. Its result is the input of `KeyGroupLayout` and `StateValue`.
* `decode_map_blob`, and Kryo, protobuf and Kafka values: opaque or decoded by libraries.
* Windows of map entries and the rows of states under a key: the same window arithmetic as
  the key windows, over entries already read.
* Overlays, filter bar, profile picker: editing and key routing of one screen, sequential.
* Web pages, sessions and guards: a response is a function of one request and one call of the
  reader; what a continuation link carries is a cursor of `PagedReader`.
* Rendering, HTML text, CSS and scripts, operator summaries, argument parsing, error wording:
  no state whose history matters.
* Profiles: configuration files. RocksDB SST files: the code only recognises them.

## 6. Plan

The walk of the reader came first, because everything rests on it; then the threads around
it, then what a key and a value pass through, then the proofs. Every safety property of a
state machine that is claimed is now a theorem; what is left to TLC is liveness and the
algorithms over their inputs. Where the model could grow: windows of map entries, and
`set_reader` while a search runs.
