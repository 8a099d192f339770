----------------------------- MODULE JsonExport -----------------------------
(***************************************************************************)
(* The `E` export of the terminal explorer: export_json (src/src/export.rs)*)
(* on a worker thread (start_export in src/src/tui/jobs.rs), and the keys  *)
(* that start, abort and wait for it (src/src/tui/app.rs).                 *)
(*                                                                         *)
(* Every explorer of a savepoint writes export.json.partial in the         *)
(* savepoint directory and renames it to export.json. A file is the set of *)
(* the pages of the export it holds: all explorers write the same pages at *)
(* the same places. `create` truncates the file of that name if there is   *)
(* one, and an open file keeps being written under any name.               *)
(*                                                                         *)
(* The names differ from StateExport's: Exports_proofs extends both.       *)
(***************************************************************************)
EXTENDS Integers, FiniteSets

CONSTANTS Explorers,    \* explorers open on the savepoint
          Pages,        \* pages of keys in the export
          MaxCrashes    \* bound: processes killed

ASSUME JsonExportAssumption ==
    /\ Pages \in Nat \ {0}
    /\ MaxCrashes \in Nat
    /\ IsFiniteSet(Explorers)

\* As many files as are ever in use: export.json and one per worker, or one left
\* under the partial name.
Files == 1 .. Cardinality(Explorers) + 2
None  == 0

VARIABLES
    tmp,       \* the file named export.json.partial, or None
    final,     \* the file named export.json, or None
    data,      \* the pages a file holds
    ui,        \* an explorer's event loop
    armed,     \* App.quit_armed
    job,       \* App.export_job is Some
    status,    \* what the status line says of the last export
    wk,        \* where an explorer's export worker is
    file,      \* the file it writes
    page,      \* pages it has written
    cancel,    \* its cancel flag
    result,    \* its ExportMsg::Done, not yet received
    kept,      \* ghost: a rename failed, which keeps the .partial
    crashes

files    == <<tmp, final, data>>
screen   == <<ui, armed, job, status>>
thread   == <<wk, file, page, cancel, result>>
jsonVars == <<files, screen, thread, kept, crashes>>

TypeOK ==
    /\ tmp \in Files \cup {None} /\ final \in Files \cup {None}
    /\ data \in [Files -> SUBSET (1 .. Pages)]
    /\ ui \in [Explorers -> {"run", "quit", "closed"}]
    /\ armed \in [Explorers -> BOOLEAN]
    /\ job \in [Explorers -> BOOLEAN]
    /\ status \in [Explorers -> {"none", "exporting", "running", "exported", "failed", "confirm"}]
    /\ wk \in [Explorers -> {"none", "create", "check", "write", "rename", "remove", "sent", "ended"}]
    /\ file \in [Explorers -> Files \cup {None}]
    /\ page \in [Explorers -> 0 .. Pages]
    /\ cancel \in [Explorers -> BOOLEAN]
    /\ result \in [Explorers -> {"none", "ok", "err"}]
    /\ kept \in BOOLEAN
    /\ crashes \in 0 .. MaxCrashes
    /\ \A e \in Explorers : armed[e] => job[e]

JsonInit ==
    /\ tmp = None /\ final = None
    /\ data = [f \in Files |-> {}]
    /\ ui = [e \in Explorers |-> "run"]
    /\ armed = [e \in Explorers |-> FALSE]
    /\ job = [e \in Explorers |-> FALSE]
    /\ status = [e \in Explorers |-> "none"]
    /\ wk = [e \in Explorers |-> "none"]
    /\ file = [e \in Explorers |-> None]
    /\ page = [e \in Explorers |-> 0]
    /\ cancel = [e \in Explorers |-> FALSE]
    /\ result = [e \in Explorers |-> "none"]
    /\ kept = FALSE
    /\ crashes = 0

Working(e)   == wk[e] \notin {"none", "ended"}
Exporting(e) == job[e] /\ Working(e)
Goto(e, step) == wk' = [wk EXCEPT ![e] = step]
Say(e, text) == status' = [status EXCEPT ![e] = text]

-----------------------------------------------------------------------------
(***************************************************************************)
(* export_json, on the worker.                                             *)
(***************************************************************************)

\* File::create: the file of that name, emptied, or a new one.
Unused == {f \in Files : f \notin {tmp, final} /\ \A e \in Explorers : file[e] # f}
CreateTmp(e) ==
    /\ wk[e] = "create"
    /\ LET f == IF tmp # None THEN tmp ELSE CHOOSE f \in Unused : TRUE
       IN  /\ tmp' = f
           /\ data' = [data EXCEPT ![f] = {}]
           /\ file' = [file EXCEPT ![e] = f]
    /\ Goto(e, "check")
    /\ UNCHANGED <<final, screen, page, cancel, result, kept, crashes>>

\* Mutants: a cancelled export counts as finished; it waits.
CheckBreaks(e) ==
    /\ wk[e] = "check"
    /\ Goto(e, IF cancel[e] THEN "rename" ELSE "write")
    /\ UNCHANGED <<files, screen, file, page, cancel, result, kept, crashes>>

CheckWaits(e) ==
    /\ wk[e] = "check"
    /\ ~cancel[e]
    /\ Goto(e, "write")
    /\ UNCHANGED <<files, screen, file, page, cancel, result, kept, crashes>>

\* `cancelled`: between two pages.
Check(e) ==
    /\ wk[e] = "check"
    /\ Goto(e, IF cancel[e] THEN "remove" ELSE "write")
    /\ UNCHANGED <<files, screen, file, page, cancel, result, kept, crashes>>

\* A page of keys is read and written, where this export is in its file.
WritePage(e) ==
    /\ wk[e] = "write"
    /\ page' = [page EXCEPT ![e] = @ + 1]
    /\ data' = [data EXCEPT ![file[e]] = @ \cup {page[e] + 1}]
    /\ Goto(e, IF page[e] + 1 = Pages THEN "rename" ELSE "check")
    /\ UNCHANGED <<tmp, final, screen, file, cancel, result, kept, crashes>>

\* Done is the last message of the worker,
Done(e, r) ==
    /\ result' = [result EXCEPT ![e] = r]
    /\ file' = [file EXCEPT ![e] = None]
    /\ page' = [page EXCEPT ![e] = 0]
    /\ Goto(e, "sent")

\* which then ends.
ThreadEnds(e) ==
    /\ wk[e] = "sent"
    /\ Goto(e, "ended")
    /\ UNCHANGED <<files, screen, file, page, cancel, result, kept, crashes>>

\* The whole file takes the real name; without a .partial, or when the rename
\* fails, the export fails and nothing is removed.
RenameTmp(e) ==
    /\ wk[e] = "rename"
    /\ \/ /\ tmp # None
          /\ final' = tmp
          /\ tmp' = None
          /\ Done(e, "ok")
          /\ UNCHANGED kept
       \/ /\ Done(e, "err")
          /\ kept' = TRUE
          /\ UNCHANGED <<tmp, final>>
    /\ UNCHANGED <<data, screen, cancel, crashes>>

\* create, a read or a write fails.
ExportFails(e) ==
    /\ wk[e] \in {"create", "write"}
    /\ Goto(e, "remove")
    /\ UNCHANGED <<files, screen, file, page, cancel, result, kept, crashes>>

\* Mutant: the .partial is not removed.
RemoveNothing(e) ==
    /\ wk[e] = "remove"
    /\ Done(e, "err")
    /\ UNCHANGED <<files, screen, cancel, kept, crashes>>

\* The error path: remove_file, by name.
RemoveTmp(e) ==
    /\ wk[e] = "remove"
    /\ tmp' = None
    /\ Done(e, "err")
    /\ UNCHANGED <<final, data, screen, cancel, kept, crashes>>

-----------------------------------------------------------------------------
(***************************************************************************)
(* The event loop.                                                         *)
(***************************************************************************)

\* `E`. A job that has ended but was not polled is dropped with its result.
KeyE(e) ==
    /\ ui[e] = "run"
    /\ armed' = [armed EXCEPT ![e] = FALSE]
    /\ \/ /\ Exporting(e)
          /\ Say(e, "running")
          /\ UNCHANGED <<job, thread>>
       \/ /\ ~Exporting(e)
          /\ job' = [job EXCEPT ![e] = TRUE]
          /\ Goto(e, "create")
          /\ cancel' = [cancel EXCEPT ![e] = FALSE]
          /\ result' = [result EXCEPT ![e] = "none"]
          /\ Say(e, "exporting")
          /\ UNCHANGED <<file, page>>
    /\ UNCHANGED <<files, ui, kept, crashes>>

\* shutdown: the job is told to stop and waited for.
Shutdown(e) ==
    /\ ui' = [ui EXCEPT ![e] = "quit"]
    /\ cancel' = [cancel EXCEPT ![e] = job[e]]

\* `q`: while an export runs, the first one asks and the second one aborts.
KeyQ(e) ==
    /\ ui[e] = "run"
    /\ \/ /\ Exporting(e) /\ ~armed[e]
          /\ armed' = [armed EXCEPT ![e] = TRUE]
          /\ Say(e, "confirm")
          /\ UNCHANGED <<ui, cancel>>
       \/ /\ ~Exporting(e) \/ armed[e]
          /\ Shutdown(e)
          /\ UNCHANGED <<armed, status>>
    /\ UNCHANGED <<files, job, wk, file, page, result, kept, crashes>>

\* Ctrl-C quits at once.
CtrlC(e) ==
    /\ ui[e] = "run"
    /\ Shutdown(e)
    /\ UNCHANGED <<files, armed, job, status, wk, file, page, result, kept, crashes>>

\* Any other key takes the question back.
OtherKey(e) ==
    /\ ui[e] = "run"
    /\ armed[e]
    /\ armed' = [armed EXCEPT ![e] = FALSE]
    /\ UNCHANGED <<files, ui, job, status, thread, kept, crashes>>

\* poll_jobs: a result is shown, and a job whose worker has ended is forgotten.
ForgetJob(e) ==
    /\ job' = [job EXCEPT ![e] = FALSE]
    /\ armed' = [armed EXCEPT ![e] = FALSE]
    /\ cancel' = [cancel EXCEPT ![e] = FALSE]
    /\ Goto(e, "none")

Poll(e) ==
    /\ ui[e] = "run"
    /\ job[e]
    /\ result[e] # "none" \/ wk[e] = "ended"
    /\ status' = [status EXCEPT ![e] =
          CASE result[e] = "ok" -> "exported" [] result[e] = "err" -> "failed" [] OTHER -> @]
    /\ result' = [result EXCEPT ![e] = "none"]
    /\ IF wk[e] = "ended" THEN ForgetJob(e) ELSE UNCHANGED <<job, armed, cancel, wk>>
    /\ UNCHANGED <<files, ui, file, page, kept, crashes>>

\* The process is gone; its open file stays as it is.
Gone(e) ==
    /\ ui' = [ui EXCEPT ![e] = "closed"]
    /\ armed' = [armed EXCEPT ![e] = FALSE]
    /\ job' = [job EXCEPT ![e] = FALSE]
    /\ wk' = [wk EXCEPT ![e] = "none"]
    /\ file' = [file EXCEPT ![e] = None]
    /\ page' = [page EXCEPT ![e] = 0]
    /\ cancel' = [cancel EXCEPT ![e] = FALSE]
    /\ result' = [result EXCEPT ![e] = "none"]
    /\ Say(e, "none")

Exit(e) ==
    /\ ui[e] = "quit"
    /\ ~Working(e)
    /\ Gone(e)
    /\ UNCHANGED <<files, kept, crashes>>

Crash(e) ==
    /\ ui[e] # "closed"
    /\ crashes < MaxCrashes
    /\ crashes' = crashes + 1
    /\ Gone(e)
    /\ UNCHANGED <<files, kept>>

\* The explorer is started again.
Open(e) ==
    /\ ui[e] = "closed"
    /\ ui' = [ui EXCEPT ![e] = "run"]
    /\ UNCHANGED <<files, armed, job, status, thread, kept, crashes>>

WorkerRuns(e) == CreateTmp(e) \/ Check(e) \/ WritePage(e) \/ RenameTmp(e) \/ RemoveTmp(e) \/ ThreadEnds(e)

JsonNext ==
    \E e \in Explorers :
       \/ WorkerRuns(e) \/ ExportFails(e)
       \/ KeyE(e) \/ KeyQ(e) \/ CtrlC(e) \/ OtherKey(e) \/ Poll(e)
       \/ Exit(e) \/ Crash(e) \/ Open(e)

JsonSpec == JsonInit /\ [][JsonNext]_jsonVars

\* The worker and the event loop keep running; nobody has to press a key.
FairSpec ==
    /\ JsonSpec
    /\ \A e \in Explorers : WF_jsonVars(WorkerRuns(e)) /\ WF_jsonVars(Poll(e)) /\ WF_jsonVars(Exit(e))

-----------------------------------------------------------------------------
(***************************************************************************)
(* Properties.                                                             *)
(***************************************************************************)

Whole(f) == data[f] = 1 .. Pages

\* export_json: a failed, cancelled or killed export never leaves a half-written
\* file under the real name; and when the status line says where the keys were
\* exported to, they are there.
ExportWhole ==
    /\ final # None => Whole(final)
    /\ \A e \in Explorers : status[e] = "exported" => final # None

\* Only a worker, a kill or a failed rename leaves a .partial behind: an export
\* that was aborted, by `q` or Ctrl-C, cleans up before the explorer is gone.
NothingLeftBehind ==
    tmp # None => kept \/ crashes > 0 \/ \E e \in Explorers : Working(e)

\* An export ends, aborted or not, and so does an explorer that was told to quit:
\* Job::cancel never waits for ever.
ExportsEnd ==
    \A e \in Explorers :
       /\ Working(e) ~> ~Working(e)
       /\ ui[e] = "quit" ~> ui[e] = "closed"
=============================================================================
