---------------------------- MODULE StateExport ----------------------------
(***************************************************************************)
(* The headless commands: --list-states, and --export-state, which streams *)
(* one keyed state of one operator to NDJSON or Parquet                    *)
(* (src/src/main.rs, src/src/export_state.rs, src/src/export_parquet.rs).  *)
(*                                                                         *)
(* A subtask is its file ("ok", "missing", "unreadable" once opened, or    *)
(* "none": no stream), the states its header registers, in its own order   *)
(* and with their value types, and its key-group blocks: entries by        *)
(* stateId with the value stored, whether a defect ends the block, whether *)
(* it inflates.                                                            *)
(* A row is the value it shows; its other columns are copied.              *)
(***************************************************************************)
EXTENDS Integers, Sequences, FiniteSets, Kept

CONSTANTS Ops,          \* the operators of the savepoint
          Savepoints,   \* set of [Ops -> sequences of subtasks]
          StateNames,   \* the names states are registered under
          State,        \* the state to export
          BatchRows,    \* rows of a Parquet batch
          MaxRuns, MaxLost    \* bounds: commands run, files lost

\* A value is its kind, a decoded marker and a NaN or an infinity apart; a type is the
\* one its state was declared with, those without a column of their own being one.
Values   == {"null", "bool", "long", "double", "nan", "text", "marker", "object"}
Types    == {"Boolean", "Long", "Double", "String", "Pojo"}
Entries  == [id : Nat, v : Values]
Blocks   == [entries : Seq(Entries), defect : BOOLEAN, inflates : BOOLEAN]
Subtasks == [file : {"ok", "missing", "unreadable", "none"}, states : Seq([name : StateNames, type : Types]),
             blocks : Seq(Blocks)]

ASSUME StateExportAssumption ==
    /\ BatchRows \in Nat \ {0}
    /\ Savepoints \subseteq [Ops -> Seq(Subtasks)]

VARIABLES sp,       \* the savepoint on disk
          cmd,      \* the command: what, the operators --operator matches, format, target
          pc,       \* where it is; "ok", "err", "closed" or "killed" once it ended
          ctx,      \* the operator exported, its streams, those whose header was read
          at,       \* the stream and the block it is at, whether its file is held open
          left,     \* values of the block not handed to the sink yet
          sink,     \* the Parquet sink: its value column, its batch
          malformed,       \* ExportStats.malformed_key_groups
          listed,          \* the states --list-states printed
          out,             \* what reached the pipe or the device
          partial, path,   \* the files of those names
          runs, lost

export == <<ctx, at, left, sink, malformed>>
saved  == <<out, partial, path>>
bounds == <<runs, lost>>
vars   == <<sp, cmd, pc, export, listed, saved, bounds>>

NoFile  == [there |-> FALSE, rows |-> <<>>, whole |-> FALSE]
Created == [there |-> TRUE, rows |-> <<>>, whole |-> FALSE]
NoCtx   == [op |-> "none", streams |-> {}, headers |-> {}]
NewSink == [column |-> "none", batch |-> <<>>]
First   == [stream |-> 1, block |-> 1, held |-> FALSE]
NoCmd   == [what |-> "none", ops |-> {}, format |-> "ndjson", target |-> "file"]

Init ==
    /\ sp \in Savepoints
    /\ cmd = NoCmd
    /\ pc = "idle"
    /\ ctx = NoCtx /\ at = First /\ left = <<>>
    /\ sink = NewSink /\ malformed = 0 /\ listed = {}
    /\ out = NoFile /\ partial = NoFile /\ path = NoFile
    /\ runs = 0 /\ lost = 0

Ended == {"idle", "ok", "err", "closed", "killed"}

(***************************************************************************)
(* Streams, states and values.                                             *)
(***************************************************************************)

\* OpContext::open: the subtasks whose stream could be opened, and those of them whose
\* header was read; the others with a stream have failed.
Streams(o) == {i \in DOMAIN sp[o] : sp[o][i].file \in {"ok", "unreadable"}}
HeaderRead(o) == {i \in DOMAIN sp[o] : sp[o][i].file = "ok"}
OpenFailed(o) == {i \in DOMAIN sp[o] : sp[o][i].file = "missing"}

NamesOf(t) == {t.states[i].name : i \in DOMAIN t.states}
Registers(t, name) == name \in NamesOf(t)
\* SubtaskHeader::state_id: the first of that name.
StateId(t, name) ==
    CHOOSE i \in DOMAIN t.states : /\ t.states[i].name = name
                                   /\ \A j \in DOMAIN t.states : t.states[j].name = name => i <= j

\* decode_entry_value of a value stored: JSON has no NaN and no infinity.
Decoded(v) == IF v = "nan" THEN "null" ELSE v

(***************************************************************************)
(* The commands.                                                           *)
(***************************************************************************)

\* A command line. Parquet does not go to stdout.
Start(what, ops, format, target) ==
    /\ pc \in Ended
    /\ runs < MaxRuns
    /\ runs' = runs + 1
    /\ cmd' = [what |-> what, ops |-> ops, format |-> format, target |-> target]
    /\ pc' = IF format = "parquet" /\ target = "stdout" THEN "err"
             ELSE IF what = "list" THEN "list"
             ELSE IF target = "stdout" THEN "resolve"
             ELSE "create"
    /\ ctx' = NoCtx /\ at' = First /\ left' = <<>>
    /\ sink' = NewSink /\ malformed' = 0 /\ listed' = {} /\ out' = NoFile
    /\ UNCHANGED <<sp, partial, path, lost>>

\* list_states: what can be read is listed; a file that cannot makes the run fail.
ListStates ==
    /\ pc = "list"
    /\ listed' = UNION {{o} \X UNION {NamesOf(sp[o][i]) : i \in HeaderRead(o)} : o \in Ops}
    /\ pc' = IF \E o \in Ops : OpenFailed(o) # {} \/ Streams(o) # HeaderRead(o)
             THEN "err" ELSE "ok"
    /\ UNCHANGED <<sp, cmd, export, saved, bounds>>

\* Mutant: what was written before the error is kept.
KeepsSideFile ==
    /\ pc' = "err"
    /\ partial' = partial

\* An error ends the export: the side file is removed.
Failed ==
    /\ pc' = "err"
    /\ partial' = IF cmd.target = "file" THEN NoFile ELSE partial

\* write_then_rename: the side file is created, or truncated if it is there (a device is
\* written to directly), before anything is read.
Create ==
    /\ pc = "create"
    /\ \/ cmd.target = "file" /\ partial' = Created /\ pc' = "resolve" /\ UNCHANGED out
       \/ cmd.target # "file" /\ out' = Created /\ pc' = "resolve" /\ UNCHANGED partial
       \/ Failed /\ UNCHANGED out
    /\ UNCHANGED <<sp, cmd, export, listed, path, bounds>>

\* The streams of o searched for the state, up to the first header that has it.
Holder(o) == {i \in HeaderRead(o) : Registers(sp[o][i], State)}
Searched(o) == {i \in Streams(o) : \A h \in Holder(o) : i <= h}
\* The files of o that could not be read as far as the search went.
Unread(o) == OpenFailed(o) \cup (Searched(o) \ HeaderRead(o))

\* Mutant: files that could not be read in other operators are not minded.
IgnoresElsewhere(ops, o) == FALSE

\* Another operator may hold the state in a file that could not be read.
MayHoldToo(ops, o) == \E p \in ops \ {o} : Holder(p) = {} /\ Unread(p) # {}

\* export_state_rows up to the first block: exactly one operator holds the state, and
\* every file that could hold it was read.
Resolve ==
    LET holding == {o \in cmd.ops : Holder(o) # {}}
    IN  /\ pc = "resolve"
        /\ \/ /\ \E o \in holding :
                    /\ holding = {o}
                    /\ Unread(o) = {}
                    /\ ~MayHoldToo(cmd.ops, o)
                    /\ ctx' = [op |-> o, streams |-> Streams(o), headers |-> HeaderRead(o)]
              /\ pc' = "export"
              /\ UNCHANGED partial
           \/ /\ \A o \in holding : holding # {o} \/ Unread(o) # {} \/ MayHoldToo(cmd.ops, o)
              /\ Failed
              /\ UNCHANGED ctx
        /\ UNCHANGED <<sp, cmd, at, left, sink, malformed, listed, out, path, bounds>>

Subtask == sp[ctx.op][at.stream]
AtEnd == at.stream > Len(sp[ctx.op])
InStream == pc = "export" /\ left = <<>> /\ ~AtEnd
NoBytes == at.stream \notin ctx.streams \/ Subtask.blocks = <<>>
HeaderOk == at.stream \in ctx.headers
AtBlock ==
    /\ InStream
    /\ ~NoBytes /\ HeaderOk /\ Registers(Subtask, State)
    /\ at.block <= Len(Subtask.blocks)
IsEmpty(b) == b.entries = <<>> /\ ~b.defect

\* A subtask without a stream or a byte, without the state, or read to its last block is
\* left; a stream whose header could not be read ends the export.
SkipStream ==
    /\ InStream
    /\ ~AtBlock
    /\ \/ /\ NoBytes \/ HeaderOk
          /\ at' = [stream |-> at.stream + 1, block |-> 1, held |-> FALSE]
          /\ UNCHANGED <<pc, partial>>
       \/ ~NoBytes /\ ~HeaderOk /\ Failed /\ UNCHANGED at
    /\ UNCHANGED <<sp, cmd, ctx, left, sink, malformed, listed, out, path, bounds>>

SkipBlock ==
    /\ AtBlock
    /\ IsEmpty(Subtask.blocks[at.block])
    /\ at' = [at EXCEPT !.block = @ + 1]
    /\ UNCHANGED <<sp, cmd, pc, ctx, left, sink, malformed, listed, saved, bounds>>

\* A subtask registers its states in its own order: which of its entries are wanted.
OwnId(t) == StateId(t, State)
Wanted(t) == {e \in Entries : e.id = OwnId(t)}

\* One block: read through a file kept open from the first block on, inflated, and its
\* entries of the state handed over; a defect is counted, the entries before it kept.
ReadBlock ==
    LET b == Subtask.blocks[at.block]
        rows == Keep(b.entries, Wanted(Subtask))
        fine == (at.held \/ Subtask.file = "ok") /\ b.inflates
    IN  /\ AtBlock
        /\ ~IsEmpty(b)
        /\ \/ /\ fine
              /\ left' = [i \in DOMAIN rows |->
                             [type |-> Subtask.states[OwnId(Subtask)].type, v |-> rows[i].v]]
              /\ malformed' = malformed + (IF b.defect THEN 1 ELSE 0)
              /\ at' = [at EXCEPT !.block = @ + 1, !.held = TRUE]
              /\ UNCHANGED <<pc, partial>>
           \/ ~fine /\ Failed /\ UNCHANGED <<left, malformed, at>>
        /\ UNCHANGED <<sp, cmd, ctx, sink, listed, out, path, bounds>>

(***************************************************************************)
(* The sinks.                                                              *)
(***************************************************************************)

\* ValueColumn::for_value_type.
ColumnFor(type) ==
    CASE type = "Long" -> "Int64" [] type = "Double" -> "Float64" [] type = "Boolean" -> "Boolean"
      [] type = "String" -> "Utf8" [] OTHER -> "Json"

\* Whether a JSON value can be stored in a column.
Fits(v, column) ==
    CASE column = "Int64" -> v = "long"
      [] column = "Float64" -> v \in {"long", "double"}
      [] column = "Boolean" -> v = "bool"
      [] column = "Utf8" -> v \in {"text", "marker"}
      [] column = "Json" -> TRUE

\* Builders::push: a value that does not fit is NULL, and the note says what it was.
Cell(stored, column) ==
    LET v == Decoded(stored)
    IN  [value |-> IF Fits(v, column) THEN v ELSE "null",
         note |-> IF Fits(v, column) THEN "null" ELSE v]

\* An NDJSON line holds the value as it is.
Line(stored) == [value |-> Decoded(stored), note |-> "null"]

\* Rows added to the side file, the pipe or the device.
Write(rows, whole) ==
    LET to(f) == [there |-> TRUE, rows |-> f.rows \o rows, whole |-> whole]
    IN  IF cmd.target = "file"
        THEN partial' = to(partial) /\ out' = out
        ELSE out' = to(out) /\ partial' = partial

\* Builders::finish: the batch is handed over whole.
Emptied(batch) == <<>>

\* NdjsonSink::row.
NdjsonRow ==
    /\ pc = "export" /\ left # <<>> /\ cmd.format = "ndjson"
    /\ Write(<<Line(left[1].v)>>, FALSE)
    /\ left' = Tail(left)
    /\ UNCHANGED <<sp, cmd, pc, ctx, at, sink, malformed, listed, path, bounds>>

\* ParquetSink::row: the first row's type makes the column; a full batch is written.
ParquetRow ==
    LET column == IF sink.column = "none" THEN ColumnFor(left[1].type) ELSE sink.column
        batch == Append(sink.batch, Cell(left[1].v, column))
        full == Len(batch) >= BatchRows
    IN  /\ pc = "export" /\ left # <<>> /\ cmd.format = "parquet"
        /\ sink' = [column |-> column, batch |-> IF full THEN Emptied(batch) ELSE batch]
        /\ IF full THEN Write(batch, FALSE) ELSE UNCHANGED <<partial, out>>
        /\ left' = Tail(left)
        /\ UNCHANGED <<sp, cmd, pc, ctx, at, malformed, listed, path, bounds>>

\* A write fails; on stdout because its reader went away, which is not an error.
WriteFails ==
    /\ pc = "export"
    /\ left # <<>> \/ AtEnd
    /\ IF cmd.target = "stdout" THEN pc' = "closed" /\ partial' = partial ELSE Failed
    /\ UNCHANGED <<sp, cmd, export, listed, out, path, bounds>>

\* RowSink::finish: the last batch and the footer, or a flush; a state without an entry
\* makes an empty file.
Finish ==
    /\ pc = "export" /\ left = <<>> /\ AtEnd
    /\ Write(sink.batch, TRUE)
    /\ sink' = NewSink
    /\ pc' = IF cmd.target = "file" THEN "rename" ELSE "ok"
    /\ UNCHANGED <<sp, cmd, ctx, at, left, malformed, listed, path, bounds>>

Rename ==
    /\ pc = "rename"
    /\ \/ path' = partial /\ partial' = NoFile /\ pc' = "ok"
       \/ pc' = "err" /\ UNCHANGED <<partial, path>>
    /\ UNCHANGED <<sp, cmd, export, listed, out, bounds>>

\* The process is killed (Ctrl-C).
Kill ==
    /\ pc \notin Ended
    /\ pc' = "killed"
    /\ UNCHANGED <<sp, cmd, export, listed, saved, bounds>>

\* A file of the savepoint goes away.
Lose(o, i) ==
    /\ lost < MaxLost
    /\ sp[o][i].file = "ok"
    /\ sp' = [sp EXCEPT ![o][i].file = "missing"]
    /\ lost' = lost + 1
    /\ UNCHANGED <<cmd, pc, export, listed, saved, runs>>

Command ==
    \/ Start("list", {}, "ndjson", "stdout")
    \/ \E ops \in SUBSET Ops, format \in {"ndjson", "parquet"}, target \in {"file", "stdout", "device"} :
          Start("export", ops, format, target)

Step ==
    \/ ListStates \/ Create \/ Resolve \/ SkipStream \/ SkipBlock \/ ReadBlock
    \/ NdjsonRow \/ ParquetRow \/ WriteFails \/ Finish \/ Rename

Next == Command \/ Step \/ Kill \/ \E o \in Ops : \E i \in DOMAIN sp[o] : Lose(o, i)

Spec == Init /\ [][Next]_vars

(***************************************************************************)
(* Properties. What a file held before it was lost counts too.             *)
(***************************************************************************)

\* The places of o's values of the state, <<subtask, block, entry>>, those after a defect
\* left out, and how many there are up to one of them.
Stored(o) ==
    UNION {UNION {{<<i, b, e>> : e \in KeptAt(sp[o][i].blocks[b].entries, Wanted(sp[o][i]))} :
                     b \in DOMAIN sp[o][i].blocks} :
              i \in {i \in DOMAIN sp[o] : sp[o][i].file # "none" /\ Registers(sp[o][i], State)}}
Precedes(p, q) ==
    \/ p[1] < q[1]
    \/ p[1] = q[1] /\ p[2] < q[2]
    \/ p[1] = q[1] /\ p[2] = q[2] /\ p[3] < q[3]
Rank(o, p) == Cardinality({q \in Stored(o) : q = p \/ Precedes(q, p)})
ValueAt(o, p) == sp[o][p[1]].blocks[p[2]].entries[p[3]].v

RegisteredIn(o, n) == \E i \in DOMAIN sp[o] : sp[o][i].file # "none" /\ Registers(sp[o][i], n)
HasState(o) == RegisteredIn(o, State)

Defects(o) ==
    \E i \in DOMAIN sp[o] : /\ sp[o][i].file # "none"
                            /\ Registers(sp[o][i], State)
                            /\ \E b \in DOMAIN sp[o][i].blocks : sp[o][i].blocks[b].defect

\* A row shows its value: in the value column, or else in the note.
Shows(row) == IF row.note = "null" THEN row.value ELSE row.note
\* It tells the value stored, or, for a NaN or an infinity alone, a null that was not.
Tells(row, stored) == Shows(row) = stored \/ (stored = "nan" /\ Shows(row) = "null")
Holds(f, o) ==
    /\ f.whole
    /\ Len(f.rows) = Cardinality(Stored(o))
    /\ \A p \in Stored(o) : Tells(f.rows[Rank(o, p)], ValueAt(o, p))

\* A command that succeeds tells all there is: an export has every value stored for the
\* state, once and in order, from the only operator asked about that holds it, and warns
\* if a key-group was malformed; a list has every state. What it does not tell is a NaN
\* or an infinity, whose row cannot be told from a null's (export_state_rows, list_states).
SuccessIsWhole ==
    pc = "ok" =>
        IF cmd.what = "list"
        THEN listed = {l \in Ops \X StateNames : RegisteredIn(l[1], l[2])}
        ELSE \E o \in cmd.ops :
                /\ HasState(o) /\ \A p \in cmd.ops : HasState(p) => p = o
                /\ Holds(IF cmd.target = "file" THEN path ELSE out, o)
                /\ Defects(o) <=> malformed > 0

\* The file asked for is only ever a whole export, whatever fails or is killed, and a
\* run that failed before the rename leaves no side file (write_then_rename).
PathIsWhole ==
    /\ path.there => \E o \in Ops : Holds(path, o)
    /\ (pc = "err" /\ partial.there) => partial.whole \/ cmd.target # "file"
=============================================================================
