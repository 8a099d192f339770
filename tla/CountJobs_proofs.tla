-------------------------- MODULE CountJobs_proofs --------------------------
(***************************************************************************)
(* Proofs about CountJobs, for any number of operators, handlers, pages    *)
(* and jobs.                                                               *)
(***************************************************************************)
EXTENDS CountJobs, FiniteSetTheorems, TLAPS

\* What a job's fields say of each other, and of the handlers that hold it.
JobInv ==
    \A j \in JobIds :
       /\ j > used => pc[j] = "none"
       /\ pc[j] = "none" => status[j] = "unused" /\ counted[j] = 0
       /\ pc[j] \in {"check", "count"} => counted[j] < Pages
       /\ pc[j] = "stop" => counted[j] < Pages /\ cancel[j]
       /\ pc[j] \in {"last", "finish"} => counted[j] = Pages

RegistryInv ==
    /\ \A o \in Ops : jobs[o] # None => jobs[o] <= used /\ op[jobs[o]] = o
    /\ \A h \in Handlers : handler[h].step # "idle" => handler[h].job # None
    /\ \A j \in JobIds : Working(j) => op[j] \in Ops

IInv ==
    /\ TypeOK
    /\ JobInv
    /\ RegistryInv
    /\ LiveIffWorking
    /\ OneWorkerPerOp
    /\ StatusTellsCounts

\* The invariant holds before any job was started.
LEMMA InitInv == Init => IInv
<1> SUFFICES ASSUME Init PROVE IInv
  OBVIOUS
<1>1. TypeOK
  <2>1. used \in 0 .. MaxJobs /\ counted \in [JobIds -> 0 .. Pages]
    BY CountJobsAssumption DEF Init
  <2>2. /\ jobs \in [Ops -> JobIds \cup {None}] /\ op \in [JobIds -> Ops \cup {None}]
        /\ status \in [JobIds -> Statuses] /\ pc \in [JobIds -> Steps]
    BY DEF Init, Statuses, Steps
  <2>3. cancel \in [JobIds -> BOOLEAN] /\ dropped \in BOOLEAN
    BY DEF Init
  <2>4. Idle \in [step : {"idle", "flag", "mark"}, job : JobIds \cup {None}]
    BY DEF Idle
  <2>5. handler \in [Handlers -> [step : {"idle", "flag", "mark"}, job : JobIds \cup {None}]]
    BY <2>4 DEF Init
  <2> QED
    BY <2>1, <2>2, <2>3, <2>5 DEF TypeOK
<1>2. \A j \in JobIds : /\ pc[j] = "none" /\ status[j] = "unused" /\ counted[j] = 0
                        /\ ~Working(j)
  BY DEF Init, Working
<1>3. JobInv
  BY <1>2 DEF JobInv
<1>4. RegistryInv
  BY <1>2 DEF RegistryInv, Init, Idle
<1>5. LiveIffWorking /\ OneWorkerPerOp /\ StatusTellsCounts
  BY <1>2 DEF LiveIffWorking, OneWorkerPerOp, StatusTellsCounts, IsLive
<1> QED
  BY <1>1, <1>3, <1>4, <1>5 DEF IInv

\* start registers a job under a new id, for an operator without a worker.
LEMMA StartInv ==
  ASSUME IInv, NEW o \in Ops, NEW restart \in BOOLEAN, NEW spawns \in BOOLEAN,
         Start(o, restart, spawns)
  PROVE  IInv'
<1> DEFINE j == used + 1
<1>1. /\ used \in Nat /\ j \in JobIds /\ j # None /\ TypeOK /\ Pages \in Nat \ {0}
  BY CountJobsAssumption DEF IInv, TypeOK, Start, JobIds, None
<1>2. pc[j] = "none" /\ status[j] = "unused" /\ counted[j] = 0
  BY <1>1 DEF IInv, JobInv
<1>3. /\ used' = j /\ jobs' = [jobs EXCEPT ![o] = j] /\ op' = [op EXCEPT ![j] = o]
      /\ status' = [status EXCEPT ![j] = IF spawns THEN "running" ELSE "failed"]
      /\ pc' = [pc EXCEPT ![j] = IF spawns THEN "check" ELSE "ended"]
      /\ UNCHANGED <<cancel, counted, handler, dropped>>
  BY DEF Start
<1>4. used < MaxJobs /\ (jobs[o] # None => ~IsLive(status[jobs[o]]))
  BY DEF Start, MayStart
<1> HIDE DEF j
<1>5. TypeOK'
  <2>1. used' \in 0 .. MaxJobs
    BY <1>1, <1>3 DEF JobIds
  <2> QED
    BY <1>1, <1>3, <2>1 DEF TypeOK, Statuses, Steps
<1>6. \A i \in JobIds : i # j => /\ pc'[i] = pc[i] /\ status'[i] = status[i] /\ op'[i] = op[i]
                                 /\ counted'[i] = counted[i] /\ cancel'[i] = cancel[i]
  BY <1>1, <1>3 DEF TypeOK
<1>7. /\ pc'[j] = (IF spawns THEN "check" ELSE "ended") /\ op'[j] = o
      /\ status'[j] = (IF spawns THEN "running" ELSE "failed") /\ counted'[j] = 0
  BY <1>1, <1>2, <1>3 DEF TypeOK
<1>8. jobs'[o] = j /\ \A q \in Ops : q # o => jobs'[q] = jobs[q]
  BY <1>3, <1>1 DEF TypeOK
<1>9. \A q \in Ops : jobs[q] # j
  BY <1>1 DEF IInv, RegistryInv, j
<1>10. JobInv'
  BY <1>1, <1>3, <1>6, <1>7 DEF IInv, JobInv, j, JobIds
<1>11. RegistryInv'
  <2>1. \A q \in Ops : jobs'[q] # None => jobs'[q] <= used' /\ op'[jobs'[q]] = q
    <3>1. ASSUME NEW q \in Ops, q # o, jobs[q] # None
          PROVE  jobs[q] <= used' /\ op'[jobs[q]] = q
      <4>1. jobs[q] \in JobIds /\ jobs[q] <= used /\ op[jobs[q]] = q
        BY <1>1, <3>1 DEF IInv, RegistryInv, TypeOK
      <4> QED
        BY <1>1, <1>3, <1>6, <1>9, <4>1 DEF j, JobIds
    <3> QED
      BY <1>1, <1>3, <1>7, <1>8, <3>1 DEF JobIds
  <2>2. \A h \in Handlers : handler'[h].step # "idle" => handler'[h].job # None
    BY <1>3 DEF IInv, RegistryInv
  <2>3. \A i \in JobIds : Working(i)' => op'[i] \in Ops
    BY <1>6, <1>7 DEF IInv, RegistryInv, Working
  <2> QED
    BY <2>1, <2>2, <2>3 DEF RegistryInv
<1>12. LiveIffWorking'
  BY <1>6, <1>7 DEF IInv, LiveIffWorking, Working, IsLive
<1>13. OneWorkerPerOp'
  <2>1. ASSUME NEW i \in JobIds, i # j, Working(i)
        PROVE  jobs'[op'[i]] = i
    <3>1. op[i] \in Ops /\ jobs[op[i]] = i /\ IsLive(status[i])
      BY <2>1 DEF IInv, OneWorkerPerOp, RegistryInv, LiveIffWorking
    <3>2. i # None
      BY DEF JobIds, None
    <3>3. op[i] # o
      BY <3>1, <3>2, <1>4
    <3> QED
      BY <3>1, <3>3, <1>6, <1>8, <2>1
  <2> QED
    BY <2>1, <1>6, <1>7, <1>8 DEF OneWorkerPerOp, Working
<1>14. StatusTellsCounts'
  BY <1>6, <1>7 DEF IInv, StatusTellsCounts
<1> QED
  BY <1>5, <1>10, <1>11, <1>12, <1>13, <1>14 DEF IInv

\* A step of a handler's cancel that touches no job.
LEMMA CancelLookupInv ==
  ASSUME IInv, NEW h \in Handlers, NEW o \in Ops, CancelLookup(h, o)
  PROVE  IInv'
<1>1. /\ handler' = [handler EXCEPT ![h] = [step |-> "flag", job |-> jobs[o]]]
      /\ jobs[o] \in JobIds /\ jobs[o] # None
      /\ UNCHANGED <<jobs, used, op, status, cancel, counted, pc, dropped>>
  BY DEF CancelLookup, IInv, TypeOK
<1>2. handler' \in [Handlers -> [step : {"idle", "flag", "mark"}, job : JobIds \cup {None}]]
  BY <1>1 DEF IInv, TypeOK
<1>3. \A g \in Handlers : handler'[g].step # "idle" => handler'[g].job # None
  BY <1>1 DEF IInv, TypeOK, RegistryInv
<1>4. TypeOK'
  BY <1>1, <1>2 DEF IInv, TypeOK
<1>5. JobInv' /\ LiveIffWorking' /\ OneWorkerPerOp' /\ StatusTellsCounts'
  BY <1>1 DEF IInv, JobInv, LiveIffWorking, OneWorkerPerOp, StatusTellsCounts, Working
<1>6. RegistryInv'
  BY <1>1, <1>3 DEF IInv, RegistryInv, Working
<1> QED
  BY <1>4, <1>5, <1>6 DEF IInv

\* A raised flag breaks nothing: it only ever goes from FALSE to TRUE here.
LEMMA CancelFlagInv ==
  ASSUME IInv, NEW h \in Handlers, CancelFlag(h)
  PROVE  IInv'
<1> DEFINE j == handler[h].job
<1>1. /\ handler' = [handler EXCEPT ![h].step = "mark"]
      /\ cancel' = [cancel EXCEPT ![j] = TRUE]
      /\ UNCHANGED <<jobs, used, op, status, counted, pc, dropped>>
      /\ handler[h].step = "flag"
  BY DEF CancelFlag
<1>2. handler' \in [Handlers -> [step : {"idle", "flag", "mark"}, job : JobIds \cup {None}]]
  BY <1>1 DEF IInv, TypeOK
<1>3. \A g \in Handlers : handler'[g].step # "idle" => handler'[g].job # None
  BY <1>1 DEF IInv, TypeOK, RegistryInv
<1>4. cancel' \in [JobIds -> BOOLEAN]
  BY <1>1 DEF IInv, TypeOK
<1>5. \A i \in JobIds : cancel[i] => cancel'[i]
  BY <1>1 DEF IInv, TypeOK
<1>6. TypeOK'
  BY <1>1, <1>2, <1>4 DEF IInv, TypeOK
<1>7. JobInv' /\ LiveIffWorking' /\ OneWorkerPerOp' /\ StatusTellsCounts'
  BY <1>1, <1>5 DEF IInv, JobInv, LiveIffWorking, OneWorkerPerOp, StatusTellsCounts, Working
<1>8. RegistryInv'
  BY <1>1, <1>3 DEF IInv, RegistryInv, Working
<1> QED
  BY <1>6, <1>7, <1>8 DEF IInv

\* Marking a job as cancelling keeps a live job live and a stopped one as it is.
LEMMA CancelMarkInv ==
  ASSUME IInv, NEW h \in Handlers, CancelMark(h)
  PROVE  IInv'
<1> DEFINE j == handler[h].job
<1>1. /\ handler' = [handler EXCEPT ![h] = Idle]
      /\ status' = [status EXCEPT ![j] = CancelMarked(status[j])]
      /\ UNCHANGED <<jobs, used, op, cancel, counted, pc, dropped>>
  BY DEF CancelMark
<1>2. handler' \in [Handlers -> [step : {"idle", "flag", "mark"}, job : JobIds \cup {None}]]
  BY <1>1 DEF IInv, TypeOK, Idle
<1>3. \A g \in Handlers : handler'[g].step # "idle" => handler'[g].job # None
  BY <1>1 DEF IInv, TypeOK, RegistryInv, Idle
<1>4. status' \in [JobIds -> Statuses]
  BY <1>1 DEF IInv, TypeOK, Statuses, CancelMarked
<1>5. \A i \in JobIds : \/ status'[i] = status[i]
                        \/ status[i] = "running" /\ status'[i] = "cancelling"
  BY <1>1 DEF IInv, TypeOK, CancelMarked
<1>6. TypeOK'
  BY <1>1, <1>2, <1>4 DEF IInv, TypeOK
<1>7. JobInv' /\ LiveIffWorking' /\ OneWorkerPerOp' /\ StatusTellsCounts'
  BY <1>1, <1>5 DEF IInv, JobInv, LiveIffWorking, OneWorkerPerOp, StatusTellsCounts, Working, IsLive
<1>8. RegistryInv'
  BY <1>1, <1>3 DEF IInv, RegistryInv, Working
<1> QED
  BY <1>6, <1>7, <1>8 DEF IInv

\* Dropping the registry raises flags and nothing else.
LEMMA DropJobsInv ==
  ASSUME IInv, DropJobs
  PROVE  IInv'
<1>1. /\ cancel' = [j \in JobIds |-> cancel[j] \/ \E o \in Ops : jobs[o] = j] /\ dropped' = TRUE
      /\ UNCHANGED <<jobs, used, op, status, counted, pc, handler>>
  BY DEF DropJobs
<1>2. cancel' \in [JobIds -> BOOLEAN] /\ dropped' \in BOOLEAN
  BY <1>1
<1>3. \A i \in JobIds : cancel[i] => cancel'[i]
  BY <1>1
<1>4. TypeOK'
  BY <1>1, <1>2 DEF IInv, TypeOK
<1>5. JobInv' /\ LiveIffWorking' /\ OneWorkerPerOp' /\ StatusTellsCounts'
  BY <1>1, <1>3 DEF IInv, JobInv, LiveIffWorking, OneWorkerPerOp, StatusTellsCounts, Working
<1>6. RegistryInv'
  BY <1>1 DEF IInv, RegistryInv, Working
<1> QED
  BY <1>4, <1>5, <1>6 DEF IInv


\* What every step of a worker leaves alone, and what it must show about the
\* job it works for, so that the invariant is kept.
LEMMA WorkerKeeps ==
  ASSUME IInv, NEW j \in JobIds, Working(j),
         UNCHANGED <<jobs, used, op, handler, dropped>>, TypeOK',
         \A i \in JobIds : i # j => /\ pc'[i] = pc[i] /\ status'[i] = status[i]
                                    /\ counted'[i] = counted[i] /\ cancel'[i] = cancel[i],
         pc'[j] # "none",
         pc'[j] \in {"check", "count"} => counted'[j] < Pages,
         pc'[j] = "stop" => counted'[j] < Pages /\ cancel'[j],
         pc'[j] \in {"last", "finish"} => counted'[j] = Pages,
         IsLive(status'[j]) <=> pc'[j] # "ended",
         status'[j] = "done" => counted'[j] = Pages,
         status'[j] = "cancelled" => counted'[j] < Pages /\ cancel'[j]
  PROVE  IInv'
<1>1. JobInv'
  BY DEF IInv, JobInv, Working
<1>2. RegistryInv'
  BY DEF IInv, RegistryInv, Working
<1>3. LiveIffWorking'
  BY DEF IInv, LiveIffWorking, Working
<1>4. OneWorkerPerOp'
  BY DEF IInv, OneWorkerPerOp, Working
<1>5. StatusTellsCounts'
  BY DEF IInv, StatusTellsCounts
<1> QED
  BY <1>1, <1>2, <1>3, <1>4, <1>5 DEF IInv

\* The worker reads its flag.
LEMMA WorkerCheckInv ==
  ASSUME IInv, NEW j \in JobIds, WorkerCheck(j)
  PROVE  IInv'
<1>1. /\ pc[j] = "check" /\ pc' = [pc EXCEPT ![j] = IF cancel[j] THEN "stop" ELSE "count"]
      /\ UNCHANGED <<jobs, used, op, status, cancel, counted, handler, dropped>>
  BY DEF WorkerCheck, Goto
<1>2. Working(j)
  BY <1>1 DEF Working
<1>3. IsLive(status[j]) /\ counted[j] < Pages
  BY <1>1, <1>2 DEF IInv, LiveIffWorking, JobInv
<1>4. pc'[j] = IF cancel[j] THEN "stop" ELSE "count"
  BY <1>1 DEF IInv, TypeOK
<1>5. TypeOK'
  BY <1>1 DEF IInv, TypeOK, Steps
<1>6. \A i \in JobIds : i # j => pc'[i] = pc[i]
  BY <1>1 DEF IInv, TypeOK
<1>7. status[j] \notin {"done", "cancelled"}
  BY <1>3 DEF IsLive
<1> QED
  BY <1>1, <1>2, <1>3, <1>4, <1>5, <1>6, <1>7, WorkerKeeps

\* The worker adds a page.
LEMMA WorkerCountInv ==
  ASSUME IInv, NEW j \in JobIds, WorkerCount(j)
  PROVE  IInv'
<1>1. /\ pc[j] = "count" /\ counted' = [counted EXCEPT ![j] = counted[j] + 1]
      /\ pc' = [pc EXCEPT ![j] = IF counted[j] + 1 = Pages THEN "last" ELSE "check"]
      /\ UNCHANGED <<jobs, used, op, status, cancel, handler, dropped>>
  BY DEF WorkerCount, Goto
<1>2. Working(j)
  BY <1>1 DEF Working
<1>3. IsLive(status[j]) /\ counted[j] < Pages /\ counted[j] \in 0 .. Pages /\ Pages \in Nat
  BY <1>1, <1>2, CountJobsAssumption DEF IInv, LiveIffWorking, JobInv, TypeOK
<1>4. /\ pc'[j] = (IF counted[j] + 1 = Pages THEN "last" ELSE "check")
      /\ counted'[j] = counted[j] + 1
  BY <1>1 DEF IInv, TypeOK
<1>5. counted[j] + 1 \in 0 .. Pages
  BY <1>3
<1>6. TypeOK'
  BY <1>1, <1>5 DEF IInv, TypeOK, Steps
<1>7. \A i \in JobIds : i # j => pc'[i] = pc[i] /\ counted'[i] = counted[i]
  BY <1>1 DEF IInv, TypeOK
<1>8. status[j] \notin {"done", "cancelled"}
  BY <1>3 DEF IsLive
<1>9. /\ pc'[j] = "check" => counted'[j] < Pages
      /\ pc'[j] = "last" => counted'[j] = Pages
  BY <1>3, <1>4
<1> QED
  BY <1>1, <1>2, <1>3, <1>4, <1>6, <1>7, <1>8, <1>9, WorkerKeeps

\* The worker has counted all: a cancel that came too late is taken back.
LEMMA WorkerLastInv ==
  ASSUME IInv, NEW j \in JobIds, WorkerLast(j)
  PROVE  IInv'
<1>1. /\ pc[j] = "last" /\ cancel' = [cancel EXCEPT ![j] = FALSE]
      /\ pc' = [pc EXCEPT ![j] = "finish"]
      /\ UNCHANGED <<jobs, used, op, status, counted, handler, dropped>>
  BY DEF WorkerLast, Goto
<1>2. Working(j)
  BY <1>1 DEF Working
<1>3. IsLive(status[j]) /\ counted[j] = Pages
  BY <1>1, <1>2 DEF IInv, LiveIffWorking, JobInv
<1>4. pc'[j] = "finish"
  BY <1>1 DEF IInv, TypeOK
<1>5. cancel' \in [JobIds -> BOOLEAN]
  BY <1>1 DEF IInv, TypeOK
<1>6. TypeOK'
  BY <1>1, <1>5 DEF IInv, TypeOK, Steps
<1>7. \A i \in JobIds : i # j => pc'[i] = pc[i] /\ cancel'[i] = cancel[i]
  BY <1>1 DEF IInv, TypeOK
<1>8. status[j] \notin {"done", "cancelled"}
  BY <1>3 DEF IsLive
<1> QED
  BY <1>1, <1>2, <1>3, <1>4, <1>6, <1>7, <1>8, WorkerKeeps

\* A failing worker goes on to say so.
LEMMA WorkerFailsInv ==
  ASSUME IInv, NEW j \in JobIds, WorkerFails(j)
  PROVE  IInv'
<1>1. /\ pc[j] \in {"check", "count"} /\ pc' = [pc EXCEPT ![j] = "panic"]
      /\ UNCHANGED <<jobs, used, op, status, cancel, counted, handler, dropped>>
  BY DEF WorkerFails, Goto
<1>2. Working(j)
  BY <1>1 DEF Working
<1>3. IsLive(status[j])
  BY <1>2 DEF IInv, LiveIffWorking
<1>4. pc'[j] = "panic"
  BY <1>1 DEF IInv, TypeOK
<1>5. TypeOK'
  BY <1>1 DEF IInv, TypeOK, Steps
<1>6. \A i \in JobIds : i # j => pc'[i] = pc[i]
  BY <1>1 DEF IInv, TypeOK
<1>7. status[j] \notin {"done", "cancelled"}
  BY <1>3 DEF IsLive
<1> QED
  BY <1>1, <1>2, <1>3, <1>4, <1>5, <1>6, <1>7, WorkerKeeps

\* The worker leaves its final status and ends.
LEMMA WorkerFinishInv ==
  ASSUME IInv, NEW j \in JobIds, WorkerFinish(j)
  PROVE  IInv'
<1>1. /\ pc[j] \in {"stop", "finish", "panic"} /\ pc' = [pc EXCEPT ![j] = "ended"]
      /\ status' = [status EXCEPT ![j] = FinalStatus(pc[j])]
      /\ UNCHANGED <<jobs, used, op, cancel, counted, handler, dropped>>
  BY DEF WorkerFinish, Goto
<1>2. Working(j)
  BY <1>1 DEF Working
<1>3. pc'[j] = "ended" /\ status'[j] = FinalStatus(pc[j])
  BY <1>1 DEF IInv, TypeOK
<1>4. /\ FinalStatus(pc[j]) \in {"done", "cancelled", "failed"}
      /\ FinalStatus(pc[j]) = "done" => pc[j] = "finish"
      /\ FinalStatus(pc[j]) = "cancelled" => pc[j] = "stop"
  BY <1>1 DEF FinalStatus
<1>5. /\ pc[j] = "finish" => counted[j] = Pages
      /\ pc[j] = "stop" => counted[j] < Pages /\ cancel[j]
  BY DEF IInv, JobInv
<1>6. TypeOK'
  BY <1>1, <1>4 DEF IInv, TypeOK, Steps, Statuses
<1>7. \A i \in JobIds : i # j => pc'[i] = pc[i] /\ status'[i] = status[i]
  BY <1>1 DEF IInv, TypeOK
<1>8. ~IsLive(status'[j])
  BY <1>3, <1>4 DEF IsLive
<1> QED
  BY <1>1, <1>2, <1>3, <1>4, <1>5, <1>6, <1>7, <1>8, WorkerKeeps


\* Every step keeps the invariant.
LEMMA NextInv == IInv /\ [Next]_vars => IInv'
<1> SUFFICES ASSUME IInv, [Next]_vars PROVE IInv'
  OBVIOUS
<1>1. CASE \E o \in Ops, restart, spawns \in BOOLEAN : Start(o, restart, spawns)
  BY <1>1, StartInv
<1>2. CASE \E h \in Handlers, o \in Ops : CancelLookup(h, o)
  BY <1>2, CancelLookupInv
<1>3. CASE \E h \in Handlers : CancelFlag(h) \/ CancelMark(h)
  BY <1>3, CancelFlagInv, CancelMarkInv
<1>4. CASE DropJobs
  BY <1>4, DropJobsInv
<1>5. CASE \E j \in JobIds : WorkerRuns(j) \/ WorkerFails(j)
  BY <1>5, WorkerCheckInv, WorkerCountInv, WorkerLastInv, WorkerFailsInv, WorkerFinishInv
     DEF WorkerRuns
<1>6. CASE UNCHANGED vars
  BY <1>6 DEF vars, IInv, TypeOK, JobInv, RegistryInv, LiveIffWorking, OneWorkerPerOp,
              StatusTellsCounts, Working
<1> QED
  BY <1>1, <1>2, <1>3, <1>4, <1>5, <1>6 DEF Next

\* The inductive invariant holds in every reachable state.
LEMMA InvHolds == Spec => []IInv
  BY InitInv, NextInv, PTL DEF Spec

\* The registry, the job records, the workers and the handlers keep their types.
THEOREM CountJobsTypeCorrect == Spec => []TypeOK
<1>1. IInv => TypeOK
  BY DEF IInv
<1> QED
  BY <1>1, InvHolds, PTL

\* A job's status is live exactly while its worker runs.
THEOREM LiveIffWorkingHolds == Spec => []LiveIffWorking
<1>1. IInv => LiveIffWorking
  BY DEF IInv
<1> QED
  BY <1>1, InvHolds, PTL

\* An operator has at most one worker, and cancel reaches it.
THEOREM OneWorkerPerOpHolds == Spec => []OneWorkerPerOp
<1>1. IInv => OneWorkerPerOp
  BY DEF IInv
<1> QED
  BY <1>1, InvHolds, PTL

\* "done" means complete counts and "cancelled" means partial ones.
THEOREM StatusTellsCountsHolds == Spec => []StatusTellsCounts
<1>1. IInv => StatusTellsCounts
  BY DEF IInv
<1> QED
  BY <1>1, InvHolds, PTL

\* A stopped job keeps its status and its counts: its worker has ended, and a
\* late cancel marks running jobs only.
THEOREM StoppedStaysHolds == Spec => StoppedStays
<1> DEFINE Stopped(j) == status[j] \in {"done", "cancelled", "failed"}
           Stays == \A j \in JobIds : Stopped(j)
                       => status'[j] = status[j] /\ counted'[j] = counted[j]
<1>1. IInv /\ [Next]_vars => Stays
  <2> SUFFICES ASSUME IInv, [Next]_vars, NEW j \in JobIds, Stopped(j)
               PROVE  status'[j] = status[j] /\ counted'[j] = counted[j]
    OBVIOUS
  <2>1. ~Working(j) /\ pc[j] = "ended"
    BY DEF IInv, LiveIffWorking, IsLive, JobInv, Working
  <2>2. TypeOK
    BY DEF IInv
  <2>3. CASE \E o \in Ops, restart, spawns \in BOOLEAN : Start(o, restart, spawns)
    <3>1. j # used + 1
      BY <2>1 DEF IInv, JobInv, TypeOK
    <3> QED
      BY <2>2, <2>3, <3>1 DEF Start, TypeOK
  <2>4. CASE \E h \in Handlers, o \in Ops : CancelLookup(h, o)
    BY <2>4 DEF CancelLookup
  <2>5. CASE \E h \in Handlers : CancelFlag(h) \/ CancelMark(h)
    BY <2>2, <2>5 DEF CancelFlag, CancelMark, CancelMarked, TypeOK
  <2>6. CASE DropJobs
    BY <2>6 DEF DropJobs
  <2>7. CASE \E i \in JobIds : WorkerRuns(i) \/ WorkerFails(i)
    <3>1. PICK i \in JobIds : WorkerRuns(i) \/ WorkerFails(i)
      BY <2>7
    <3>2. i # j
      BY <2>1, <3>1 DEF WorkerRuns, WorkerCheck, WorkerCount, WorkerLast, WorkerFinish, WorkerFails
    <3> QED
      BY <2>2, <3>1, <3>2
         DEF TypeOK, WorkerRuns, WorkerCheck, WorkerCount, WorkerLast, WorkerFinish, WorkerFails
  <2>8. CASE UNCHANGED vars
    BY <2>8 DEF vars
  <2> QED
    BY <2>3, <2>4, <2>5, <2>6, <2>7, <2>8 DEF Next
<1> QED
  BY <1>1, InvHolds, PTL DEF Spec, StoppedStays

-----------------------------------------------------------------------------
\* There is always at least one slot.
LEMMA SlotsPositive == Slots \in Nat \ {0}
<1>1. \E x \in {MaxRunning, 1} : \A y \in {MaxRunning, 1} : x >= y
  <2>1. CASE MaxRunning >= 1
    BY <2>1, CountJobsAssumption
  <2>2. CASE ~(MaxRunning >= 1)
    BY <2>2, CountJobsAssumption
  <2> QED
    BY <2>1, <2>2
<1>2. Slots \in {MaxRunning, 1} /\ Slots >= 1
  BY <1>1 DEF Slots, Max
<1> QED
  BY <1>2, CountJobsAssumption

\* Distinct workers work for distinct operators, whose jobs are live: there are
\* no more workers than live jobs in the registry.
LEMMA WorkersInRunning ==
  ASSUME IInv
  PROVE  /\ IsFiniteSet(Workers) /\ IsFiniteSet(Running)
         /\ Cardinality(Workers) <= Cardinality(Running)
<1> DEFINE f == [j \in Workers |-> op[j]]
<1>1. \A j \in Workers : op[j] \in Running /\ jobs[op[j]] = j
  BY DEF Workers, Running, IInv, OneWorkerPerOp, LiveIffWorking, RegistryInv, JobIds, None
<1>2. f \in [Workers -> Running] /\ \A i, j \in Workers : f[i] = f[j] => i = j
  BY <1>1
<1>3. f \in Injection(Workers, Running)
  BY <1>2 DEF Injection, IsInjective
<1>4. IsFiniteSet(Running)
  BY CountJobsAssumption, FS_Subset DEF Running
<1> HIDE DEF f
<1> QED
  BY <1>3, <1>4, FS_Injection

\* Only start makes a worker, and only one.
LEMMA WorkersStep ==
  ASSUME IInv, [Next]_vars
  PROVE  \/ Workers' \subseteq Workers
         \/ HasSlot /\ \E j \in JobIds : Workers' \subseteq Workers \cup {j}
<1> USE DEF Workers, Working
<1>0. TypeOK
  BY DEF IInv
<1>1. CASE \E o \in Ops, restart, spawns \in BOOLEAN : Start(o, restart, spawns)
  <2>1. used + 1 \in JobIds
    BY <1>0, <1>1, CountJobsAssumption DEF Start, TypeOK, JobIds
  <2>2. HasSlot /\ \A i \in JobIds : i # used + 1 => pc'[i] = pc[i]
    BY <1>0, <1>1 DEF Start, TypeOK
  <2> QED
    BY <2>1, <2>2
<1>2. CASE UNCHANGED pc
  BY <1>2
<1>3. CASE \E j \in JobIds : WorkerRuns(j) \/ WorkerFails(j)
  <2>1. PICK j \in JobIds : WorkerRuns(j) \/ WorkerFails(j)
    BY <1>3
  <2>2. Working(j)
    BY <2>1 DEF WorkerRuns, WorkerCheck, WorkerCount, WorkerLast, WorkerFinish, WorkerFails
  <2>3. \A i \in JobIds : i # j => pc'[i] = pc[i]
    BY <1>0, <2>1
       DEF TypeOK, Goto, WorkerRuns, WorkerCheck, WorkerCount, WorkerLast, WorkerFinish, WorkerFails
  <2> QED
    BY <2>2, <2>3
<1> QED
  BY <1>1, <1>2, <1>3 DEF Next, vars, CancelLookup, CancelFlag, CancelMark, DropJobs

\* No more workers than slots, for any number of operators and any history of
\* starts, restarts, cancels and failures.
THEOREM SlotBoundHolds == Spec => []SlotBound
<1>1. Init => SlotBound
  <2> SUFFICES ASSUME Init PROVE SlotBound
    OBVIOUS
  <2>1. Workers = {}
    BY DEF Init, Workers, Working
  <2>2. Cardinality(Workers) = 0
    BY <2>1, FS_EmptySet
  <2> QED
    BY <2>2, SlotsPositive DEF SlotBound
<1>2. IInv /\ SlotBound /\ [Next]_vars => SlotBound'
  <2> SUFFICES ASSUME IInv, SlotBound, [Next]_vars
               PROVE  Cardinality(Workers') <= Slots
    BY DEF SlotBound, Slots
  <2>1. /\ IsFiniteSet(Workers) /\ IsFiniteSet(Running)
        /\ Cardinality(Workers) <= Cardinality(Running)
    BY WorkersInRunning
  <2>2. Cardinality(Workers) \in Nat /\ Cardinality(Running) \in Nat /\ Slots \in Nat
    BY <2>1, FS_CardinalityType, SlotsPositive
  <2>3. CASE Workers' \subseteq Workers
    <3>1. Cardinality(Workers') <= Cardinality(Workers) /\ IsFiniteSet(Workers')
      BY <2>1, <2>3, FS_Subset
    <3>2. Cardinality(Workers') \in Nat
      BY <3>1, FS_CardinalityType
    <3> QED
      BY <2>2, <3>1, <3>2 DEF SlotBound
  <2>4. CASE HasSlot /\ \E j \in JobIds : Workers' \subseteq Workers \cup {j}
    <3>1. PICK j \in JobIds : Workers' \subseteq Workers \cup {j}
      BY <2>4
    <3>2. /\ IsFiniteSet(Workers \cup {j})
          /\ Cardinality(Workers \cup {j}) = IF j \in Workers THEN Cardinality(Workers)
                                             ELSE Cardinality(Workers) + 1
      BY <2>1, FS_AddElement
    <3>3. Cardinality(Workers') <= Cardinality(Workers \cup {j}) /\ IsFiniteSet(Workers')
      BY <3>1, <3>2, FS_Subset
    <3>4. Cardinality(Workers') \in Nat
      BY <3>3, FS_CardinalityType
    <3>5. Cardinality(Running) < Slots
      BY <2>4 DEF HasSlot
    <3> QED
      BY <2>1, <2>2, <3>2, <3>3, <3>4, <3>5
  <2> QED
    BY <2>3, <2>4, WorkersStep
<1> QED
  BY <1>1, <1>2, InvHolds, PTL DEF Spec
=============================================================================
