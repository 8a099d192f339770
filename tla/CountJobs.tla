------------------------------ MODULE CountJobs ------------------------------
(***************************************************************************)
(* The background counts of the web explorer (src/src/web/jobs.rs): HTTP   *)
(* handlers start, restart and cancel counts; each count has a worker      *)
(* thread; the registry is dropped when the server stops.                  *)
(*                                                                         *)
(* `start` holds the registry's lock throughout, and only `start` makes a  *)
(* job live, so it is one step. `cancel` looks the job up under the lock,  *)
(* then sets its flag, then its status: three steps, between which the job *)
(* may finish and be replaced.                                             *)
(***************************************************************************)
EXTENDS Integers, FiniteSets, FiniteSetsExt

CONSTANTS Ops,          \* operators
          Handlers,     \* concurrent HTTP handlers
          MaxRunning,   \* WebOptions.max_running_counts
          Pages,        \* steps that count one operator to its end
          MaxJobs       \* bound: jobs ever started

ASSUME CountJobsAssumption ==
    /\ MaxRunning \in Nat
    /\ Pages \in Nat \ {0}
    /\ MaxJobs \in Nat
    /\ IsFiniteSet(Ops)
    /\ 0 \notin Ops

JobIds == 1 .. MaxJobs
None   == 0

VARIABLES
    jobs,      \* the registry: each operator's job, or None
    used,      \* ids given out so far
    op,        \* the operator of a job
    status,    \* JobStatus of a job; "unused" before it exists
    cancel,    \* the cancel flag of a job
    counted,   \* pages a job has added up
    pc,        \* where a job's worker is
    handler,   \* what a handler is doing: the job it cancels and its next step
    dropped    \* CountJobs was dropped

vars == <<jobs, used, op, status, cancel, counted, pc, handler, dropped>>

Statuses == {"unused", "running", "cancelling", "done", "cancelled", "failed"}
Steps    == {"none", "check", "count", "stop", "last", "finish", "panic", "ended"}

TypeOK ==
    /\ jobs \in [Ops -> JobIds \cup {None}]
    /\ used \in 0 .. MaxJobs
    /\ op \in [JobIds -> Ops \cup {None}]
    /\ status \in [JobIds -> Statuses]
    /\ cancel \in [JobIds -> BOOLEAN]
    /\ counted \in [JobIds -> 0 .. Pages]
    /\ pc \in [JobIds -> Steps]
    /\ handler \in [Handlers -> [step : {"idle", "flag", "mark"}, job : JobIds \cup {None}]]
    /\ dropped \in BOOLEAN

Idle == [step |-> "idle", job |-> None]

Init ==
    /\ jobs = [o \in Ops |-> None]
    /\ used = 0
    /\ op = [j \in JobIds |-> None]
    /\ status = [j \in JobIds |-> "unused"]
    /\ cancel = [j \in JobIds |-> FALSE]
    /\ counted = [j \in JobIds |-> 0]
    /\ pc = [j \in JobIds |-> "none"]
    /\ handler = [h \in Handlers |-> Idle]
    /\ dropped = FALSE

\* Mutant: a cancelling job gives its slot back at once.
IsLiveRunningOnly(s) == s = "running"

\* JobStatus::is_live: the worker holds one of the running slots.
IsLive(s) == s \in {"running", "cancelling"}

Slots == Max({MaxRunning, 1})

-----------------------------------------------------------------------------
(***************************************************************************)
(* Handlers.                                                               *)
(***************************************************************************)

\* start answers with the job that is there, unless it is asked to restart it
\* and its worker has stopped.
MayStart(o, restart) == jobs[o] # None => restart /\ ~IsLive(status[jobs[o]])

\* A slot is free (Err(Busy) otherwise), counting the registry's live jobs.
Running == {o \in Ops : jobs[o] # None /\ IsLive(status[jobs[o]])}
HasSlot == Cardinality(Running) < Slots

\* start: the new job is registered; the thread may fail to spawn.
Start(o, restart, spawns) ==
    LET j == used + 1
    IN  /\ ~dropped
        /\ used < MaxJobs
        /\ MayStart(o, restart)
        /\ HasSlot
        /\ used' = j
        /\ jobs' = [jobs EXCEPT ![o] = j]
        /\ op' = [op EXCEPT ![j] = o]
        /\ status' = [status EXCEPT ![j] = IF spawns THEN "running" ELSE "failed"]
        /\ pc' = [pc EXCEPT ![j] = IF spawns THEN "check" ELSE "ended"]
        /\ UNCHANGED <<cancel, counted, handler, dropped>>

\* cancel, in three steps.
CancelLookup(h, o) ==
    /\ ~dropped
    /\ handler[h] = Idle
    /\ jobs[o] # None
    /\ handler' = [handler EXCEPT ![h] = [step |-> "flag", job |-> jobs[o]]]
    /\ UNCHANGED <<jobs, used, op, status, cancel, counted, pc, dropped>>

CancelFlag(h) ==
    /\ handler[h].step = "flag"
    /\ cancel' = [cancel EXCEPT ![handler[h].job] = TRUE]
    /\ handler' = [handler EXCEPT ![h].step = "mark"]
    /\ UNCHANGED <<jobs, used, op, status, counted, pc, dropped>>

\* Mutants: the job is shown as cancelled at once; any job becomes cancelling.
CancelMarkedCancelled(s) == IF s = "running" THEN "cancelled" ELSE s
CancelMarkedAlways(s) == "cancelling"

\* Only a running job becomes cancelling.
CancelMarked(s) == IF s = "running" THEN "cancelling" ELSE s

CancelMark(h) ==
    /\ handler[h].step = "mark"
    /\ status' = [status EXCEPT ![handler[h].job] = CancelMarked(@)]
    /\ handler' = [handler EXCEPT ![h] = Idle]
    /\ UNCHANGED <<jobs, used, op, cancel, counted, pc, dropped>>

\* Drop for CountJobs: no handler holds the registry any more.
DropJobs ==
    /\ ~dropped
    /\ \A h \in Handlers : handler[h] = Idle
    /\ dropped' = TRUE
    /\ cancel' = [j \in JobIds |-> cancel[j] \/ \E o \in Ops : jobs[o] = j]
    /\ UNCHANGED <<jobs, used, op, status, counted, pc, handler>>

-----------------------------------------------------------------------------
(***************************************************************************)
(* The worker of job j (run).                                              *)
(***************************************************************************)

Goto(j, step) == pc' = [pc EXCEPT ![j] = step]

\* Mutant: a cancelled worker waits instead of returning.
WorkerCheckWaits(j) ==
    /\ pc[j] = "check"
    /\ ~cancel[j]
    /\ Goto(j, "count")
    /\ UNCHANGED <<jobs, used, op, status, cancel, counted, handler, dropped>>

WorkerCheck(j) ==
    /\ pc[j] = "check"
    /\ Goto(j, IF cancel[j] THEN "stop" ELSE "count")
    /\ UNCHANGED <<jobs, used, op, status, cancel, counted, handler, dropped>>

\* Mutant: the worker honours a cancel before it looks whether it is done.
WorkerCountCancelFirst(j) ==
    /\ pc[j] = "count"
    /\ counted' = [counted EXCEPT ![j] = @ + 1]
    /\ Goto(j, IF cancel[j] THEN "stop" ELSE IF counted[j] + 1 = Pages THEN "last" ELSE "check")
    /\ UNCHANGED <<jobs, used, op, status, cancel, handler, dropped>>

\* A count page, added to the snapshot; `next` is None after the last one.
WorkerCount(j) ==
    /\ pc[j] = "count"
    /\ counted' = [counted EXCEPT ![j] = @ + 1]
    /\ Goto(j, IF counted[j] + 1 = Pages THEN "last" ELSE "check")
    /\ UNCHANGED <<jobs, used, op, status, cancel, handler, dropped>>

\* A cancel that raced the last step loses.
WorkerLast(j) ==
    /\ pc[j] = "last"
    /\ cancel' = [cancel EXCEPT ![j] = FALSE]
    /\ Goto(j, "finish")
    /\ UNCHANGED <<jobs, used, op, status, counted, handler, dropped>>

\* count fails, or the worker panics.
WorkerFails(j) ==
    /\ pc[j] \in {"check", "count"}
    /\ Goto(j, "panic")
    /\ UNCHANGED <<jobs, used, op, status, cancel, counted, handler, dropped>>

\* finish: the status the worker leaves.
FinalStatus(step) ==
    CASE step = "stop"   -> "cancelled"
      [] step = "finish" -> "done"
      [] step = "panic"  -> "failed"

WorkerFinish(j) ==
    /\ pc[j] \in {"stop", "finish", "panic"}
    /\ status' = [status EXCEPT ![j] = FinalStatus(pc[j])]
    /\ Goto(j, "ended")
    /\ UNCHANGED <<jobs, used, op, cancel, counted, handler, dropped>>

WorkerRuns(j) == WorkerCheck(j) \/ WorkerCount(j) \/ WorkerLast(j) \/ WorkerFinish(j)

Next ==
    \/ \E o \in Ops, restart, spawns \in BOOLEAN : Start(o, restart, spawns)
    \/ \E h \in Handlers, o \in Ops : CancelLookup(h, o)
    \/ \E h \in Handlers : CancelFlag(h) \/ CancelMark(h)
    \/ DropJobs
    \/ \E j \in JobIds : WorkerRuns(j) \/ WorkerFails(j)

Spec == Init /\ [][Next]_vars

\* Every worker thread and every handler that has begun keeps running; nobody
\* has to start, cancel or stop anything, and no count has to fail.
FairSpec ==
    /\ Spec
    /\ \A j \in JobIds : WF_vars(WorkerRuns(j))
    /\ \A h \in Handlers : WF_vars(CancelFlag(h) \/ CancelMark(h))

-----------------------------------------------------------------------------
(***************************************************************************)
(* Properties.                                                             *)
(***************************************************************************)

Working(j) == pc[j] \notin {"none", "ended"}

\* The status shown for a job says whether its worker runs: a job is never
\* shown as stopped while its worker still reads blocks, nor live for ever.
LiveIffWorking == \A j \in JobIds : IsLive(status[j]) <=> Working(j)

Workers == {j \in JobIds : Working(j)}

\* No more workers than slots, whatever is cancelled, restarted or replaced.
SlotBound == Cardinality(Workers) <= Slots

\* At most one worker per operator, and it is the registry's job: a worker is
\* never out of reach of cancel.
OneWorkerPerOp == \A j \in JobIds : Working(j) => jobs[op[j]] = j

\* "done" means counted to the end, "cancelled" that something is missing: a
\* cancel that races the last step neither loses the complete counts nor
\* passes partial ones off as complete.
StatusTellsCounts ==
    \A j \in JobIds :
       /\ status[j] = "done" => counted[j] = Pages
       /\ status[j] = "cancelled" => counted[j] < Pages /\ cancel[j]

\* A job that stopped keeps its status and its counts for the session, though
\* a cancel that looked it up earlier may still be on its way.
StoppedStays ==
    [][\A j \in JobIds : status[j] \in {"done", "cancelled", "failed"}
          => status'[j] = status[j] /\ counted'[j] = counted[j]]_vars

\* A job shown as cancelling stops, and when the server stops so do all counts
\* (CountJobs::cancel, Drop for CountJobs).
StoppingEnds ==
    /\ \A j \in JobIds : status[j] = "cancelling" ~> ~Working(j)
    /\ dropped ~> \A j \in JobIds : ~Working(j)
=============================================================================
