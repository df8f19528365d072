------------------------- MODULE RunReconcilerProofs -------------------------
(***************************************************************************)
(* Theorems about RunReconciler, for every set of Runs, tasks, jobs and    *)
(* JobRuns, every combination of hazards and every MaxLag.                 *)
(***************************************************************************)
EXTENDS RunProperties, TLAPS

USE NamesAssumption, ShapesAssumption

-----------------------------------------------------------------------------
(***************************************************************************)
(* The operators on a status keep it a status.                             *)
(***************************************************************************)
LEMMA MarkType ==
  ASSUME NEW st \in Statuses, NEW reason \in Reasons
  PROVE  Mark(st, reason) \in Statuses
BY DEF Mark, Statuses

LEMMA InitializeRunType ==
  ASSUME NEW st \in Statuses
  PROVE  initializeRun(st) \in Statuses
BY MarkType DEF initializeRun, Reasons

LEMMA StoreSpecType ==
  ASSUME NEW st \in Statuses, NEW job \in JobNames
  PROVE  /\ storeCodeEngineTaskSpec(st, job) \in Statuses
         /\ storeCodeEngineTaskSpec(st, job).taskSpec \in JobNames
         /\ storeCodeEngineTaskSpec(st, job).jobRunName = st.jobRunName
         /\ storeCodeEngineTaskSpec(st, job).reason = st.reason
BY DEF storeCodeEngineTaskSpec, Statuses

LEMMA GetTaskType ==
  ASSUME CacheType, NEW shape \in Shapes, verifyCodeEngineSpec(shape)
  PROVE  getCodeEngineTask(shape) \in JobNames \cup {NoValue, "malformed"}
BY DEF CacheType, getCodeEngineTask, verifyCodeEngineSpec, RefValues, SpecValues

LEMMA IdleType == Idle \in Calls /\ Idle.pc = "idle"
BY DEF Idle, EmptyStatus, Calls, Statuses, Reasons

-----------------------------------------------------------------------------
(***************************************************************************)
(* Type correctness. First what the parts of an action do to the types.    *)
(***************************************************************************)
LEMMA InitType == Init => TypeOK
<1> SUFFICES ASSUME Init PROVE TypeOK
  OBVIOUS
<1>1. StoreType
  <2>1. NoJobRun \in JobRunRecords
    BY DEF NoJobRun, JobRunRecords
  <2> QED
    BY <2>1 DEF Init, StoreType
<1>2. CacheType
  BY DEF Init, CacheType, JobRunStates
<1>3. ProcessType /\ CallsInOrder
  BY IdleType DEF Init, ProcessType, CallsInOrder
<1> QED
  BY <1>1, <1>2, <1>3 DEF TypeOK

LEMMA StoreRunType ==
  ASSUME TypeOK, NEW r \in Runs, NEW o \in RunObjects \cup {NoValue}, StoreRun(r, o)
  PROVE  /\ runs' \in [Runs -> RunObjects \cup {NoValue}]
         /\ watch' \in [Runs -> Seq(RunObjects \cup {NoValue})]
BY DEF TypeOK, StoreType, CacheType, StoreRun

LEMMA GoOnType ==
  ASSUME TypeOK, NEW r \in Runs, NEW pc \in {"create", "check"},
         NEW orig \in Statuses, NEW w \in Statuses, GoOn(r, pc, orig, w),
         pc = "create" => w.taskSpec \in JobNames /\ w.jobRunName = NoValue,
         pc = "check" => w.jobRunName \in JobRunIds
  PROVE  /\ proc' \in [Runs -> Calls]
         /\ events' \in [Runs -> SUBSET {"Succeeded", "Failed"}]
         /\ CallsInOrder'
<1> DEFINE call == [pc |-> pc, orig |-> orig, work |-> w, result |-> "ok"]
<1>1. call \in Calls
  BY DEF Calls
<1>2. proc' = [proc EXCEPT ![r] = call] /\ UNCHANGED events
  BY DEF GoOn
<1> HIDE DEF call
<1>3. call.pc = pc /\ call.work = w
  BY DEF call
<1> QED
  BY <1>1, <1>2, <1>3 DEF TypeOK, ProcessType, CallsInOrder

LEMMA ReturnType ==
  ASSUME TypeOK, NEW r \in Runs, NEW orig \in Statuses, NEW w \in Statuses,
         NEW result \in {"ok", "err", "requeue"}, Return(r, orig, w, result)
  PROVE  /\ proc' \in [Runs -> Calls]
         /\ events' \in [Runs -> SUBSET {"Succeeded", "Failed"}]
         /\ CallsInOrder'
<1> DEFINE work == IF result = "ok" THEN w ELSE Mark(orig, w.reason)
           call == [pc |-> "put", orig |-> orig, work |-> work, result |-> result]
<1>1. call \in Calls /\ call.pc = "put"
  BY MarkType DEF Calls, Statuses
<1>2. proc' = [proc EXCEPT ![r] = call]
  BY DEF Return
<1>3. Announced(orig, w) \subseteq {"Succeeded", "Failed"}
  BY DEF Announced, Verdict
<1>4. events' = [events EXCEPT ![r] = @ \cup Announced(orig, w)]
  BY DEF Return
<1> HIDE DEF call
<1>5. events' \in [Runs -> SUBSET {"Succeeded", "Failed"}]
  BY <1>3, <1>4 DEF TypeOK, ProcessType
<1> QED
  BY <1>1, <1>2, <1>5 DEF TypeOK, ProcessType, CallsInOrder

LEMMA DownType == TypeOK /\ Down => TypeOK'
<1> SUFFICES ASSUME TypeOK, Down PROVE TypeOK'
  OBVIOUS
<1>1. StoreType'
  BY DEF TypeOK, StoreType, Down, apiVars, ceVars
<1>2. CacheType'
  BY DEF Down, CacheType, JobRunStates
<1>3. ProcessType' /\ CallsInOrder'
  BY IdleType DEF TypeOK, ProcessType, CallsInOrder, Down
<1> QED
  BY <1>1, <1>2, <1>3 DEF TypeOK

\* The Run that a worker takes up, and the task it is found to refer to.
LEMMA TakesOpenType ==
  ASSUME TypeOK, NEW r \in Runs, TakesOpen(r, runCache[r])
  PROVE  /\ runCache[r] \in RunObjects
         /\ runCache[r].shape \in Shapes
         /\ runCache[r].status \in Statuses
         /\ verifyCodeEngineSpec(runCache[r].shape)
         /\ ~IsDone(runCache[r].status)
         /\ queue' \subseteq Runs
         /\ proc[r].pc = "idle"
BY DEF TypeOK, CacheType, ProcessType, TakesOpen, Takes, Ready, RunObjects

LEMMA EnvironmentType == TypeOK /\ Environment => TypeOK'
<1> SUFFICES ASSUME TypeOK, Environment PROVE TypeOK'
  OBVIOUS
<1> USE DEF apiVars, ceVars, listVars, cacheVars, procVars
<1>1. ASSUME NEW r \in Runs, NEW shape \in Shapes, CreateRun(r, shape)
      PROVE  TypeOK'
  <2>1. [shape |-> shape, status |-> EmptyStatus] \in RunObjects
    BY DEF RunObjects, EmptyStatus, Statuses, Reasons
  <2>2. /\ runs' \in [Runs -> RunObjects \cup {NoValue}]
        /\ watch' \in [Runs -> Seq(RunObjects \cup {NoValue})]
    BY <1>1, <2>1, StoreRunType DEF CreateRun
  <2> QED
    BY <1>1, <2>2 DEF CreateRun, TypeOK, StoreType, CacheType, ProcessType, CallsInOrder
<1>2. ASSUME NEW r \in Runs, DeleteRun(r)
      PROVE  TypeOK'
  <2>1. /\ runs' \in [Runs -> RunObjects \cup {NoValue}]
        /\ watch' \in [Runs -> Seq(RunObjects \cup {NoValue})]
    BY <1>2, StoreRunType DEF DeleteRun
  <2> QED
    BY <1>2, <2>1 DEF DeleteRun, TypeOK, StoreType, CacheType, ProcessType, CallsInOrder
<1>3. ASSUME NEW t \in Tasks, NEW job \in JobNames \cup {NoValue}, ChangeTask(t, job)
      PROVE  TypeOK'
  BY <1>3 DEF ChangeTask, TypeOK, StoreType, CacheType, ProcessType, CallsInOrder
<1>4. ASSUME NEW job \in JobNames, ChangeJobDef(job)
      PROVE  TypeOK'
  BY <1>4 DEF ChangeJobDef, TypeOK, StoreType, CacheType, ProcessType, CallsInOrder
<1>5. ASSUME NEW j \in JobRunIds, NEW outcome \in Outcomes, FinishJobRun(j, outcome)
      PROVE  TypeOK'
  <2>1. jobRuns' \in [JobRunIds -> JobRunRecords]
    BY <1>5 DEF FinishJobRun, TypeOK, StoreType, JobRunRecords
  <2> QED
    BY <1>5, <2>1 DEF FinishJobRun, TypeOK, StoreType, CacheType, ProcessType, CallsInOrder
<1>6. ASSUME NEW j \in JobRunIds, DropJobRun(j)
      PROVE  TypeOK'
  <2>1. jobRuns' \in [JobRunIds -> JobRunRecords]
    BY <1>6 DEF DropJobRun, TypeOK, StoreType, JobRunRecords
  <2> QED
    BY <1>6, <2>1 DEF DropJobRun, TypeOK, StoreType, CacheType, ProcessType, CallsInOrder
<1>7. ASSUME NEW j \in JobRunIds, NEW job \in JobNames, SubmitJobRun(j, job)
      PROVE  TypeOK'
  <2>1. jobRuns' \in [JobRunIds -> JobRunRecords]
    BY <1>7 DEF SubmitJobRun, AddJobRun, TypeOK, StoreType, JobRunRecords
  <2> QED
    BY <1>7, <2>1 DEF SubmitJobRun, TypeOK, StoreType, CacheType, ProcessType, CallsInOrder
<1> QED
  BY <1>1, <1>2, <1>3, <1>4, <1>5, <1>6, <1>7 DEF Environment

LEMMA InformersType == TypeOK /\ Informers => TypeOK'
<1> SUFFICES ASSUME TypeOK, Informers PROVE TypeOK'
  OBVIOUS
<1> USE DEF apiVars, ceVars, listVars, cacheVars, procVars
<1>1. ASSUME NEW j \in JobRunIds PROVE Listed(j) \in JobRunStates
  BY DEF Listed, TypeOK, StoreType, JobRunRecords, JobRunStates
<1>2. ASSUME NEW j \in JobRunIds, jobRunEnqueueFunc(j) PROVE queue' \subseteq Runs
  BY <1>2 DEF jobRunEnqueueFunc, filterJobRunRef, Enqueue,
              TypeOK, StoreType, ProcessType, JobRunRecords
<1>3. ASSUME NEW r \in Runs, SyncRun(r) PROVE TypeOK'
  <2>1. Head(watch[r]) \in RunObjects \cup {NoValue}
        /\ Tail(watch[r]) \in Seq(RunObjects \cup {NoValue})
    BY <1>3 DEF SyncRun, TypeOK, CacheType
  <2> QED
    BY <1>3, <2>1 DEF SyncRun, Enqueue, TypeOK, StoreType, CacheType, ProcessType, CallsInOrder
<1>4. ASSUME NEW j \in JobRunIds, SyncJobRun(j) PROVE TypeOK'
  BY <1>1, <1>2, <1>4
     DEF SyncJobRun, Enqueue, TypeOK, StoreType, CacheType, ProcessType, CallsInOrder
<1>5. ASSUME NEW t \in Tasks, SyncTask(t) PROVE TypeOK'
  BY <1>5 DEF SyncTask, TypeOK, StoreType, CacheType, ProcessType, CallsInOrder
<1>6. ASSUME SyncJobDefs PROVE TypeOK'
  BY <1>6 DEF SyncJobDefs, TypeOK, StoreType, CacheType, ProcessType, CallsInOrder
<1>7. ASSUME NEW r \in Runs, ResyncRun(r) PROVE TypeOK'
  BY <1>7 DEF ResyncRun, Enqueue, TypeOK, StoreType, CacheType, ProcessType, CallsInOrder
<1>8. ASSUME NEW j \in JobRunIds, ResyncJobRun(j) PROVE TypeOK'
  BY <1>2, <1>8
     DEF ResyncJobRun, TypeOK, StoreType, CacheType, ProcessType, CallsInOrder
<1> QED
  BY <1>3, <1>4, <1>5, <1>6, <1>7, <1>8 DEF Informers

LEMMA ReconcileType ==
  ASSUME TypeOK, NEW r \in Runs, Reconcile(r)
  PROVE  TypeOK'
<1> USE DEF apiVars, ceVars, listVars, cacheVars
<1>0. proc[r].orig \in Statuses /\ proc[r].work \in Statuses
  BY DEF TypeOK, ProcessType, Calls
<1>1. CASE SkipRun(r, runCache[r])
  BY <1>1 DEF SkipRun, Takes, TypeOK, StoreType, CacheType, ProcessType, CallsInOrder
<1>2. CASE PanicOnRun(r)
  BY <1>2, DownType DEF PanicOnRun
<1>3. CASE FailOnTask(r, runCache[r])
  <2> DEFINE o == runCache[r]
             w == IF getCodeEngineTask(o.shape) = NoValue
                  THEN Mark(initializeRun(o.status), "CouldntGetCodeEngineTask")
                  ELSE initializeRun(o.status)
  <2>1. TakesOpen(r, o) /\ Return(r, o.status, w, "err")
    BY <1>3 DEF FailOnTask
  <2>2. w \in Statuses /\ o.status \in Statuses /\ queue' \subseteq Runs
    BY <2>1, TakesOpenType, InitializeRunType, MarkType DEF Reasons, FailureReasons
  <2> HIDE DEF w
  <2>3. /\ proc' \in [Runs -> Calls]
        /\ events' \in [Runs -> SUBSET {"Succeeded", "Failed"}]
        /\ CallsInOrder'
    BY <2>1, <2>2, ReturnType
  <2> QED
    BY <1>3, <2>2, <2>3 DEF FailOnTask, TypeOK, StoreType, CacheType, ProcessType
<1>4. CASE ReconcileRun(r, runCache[r])
  <2> DEFINE o == runCache[r]
             w == storeCodeEngineTaskSpec(initializeRun(o.status),
                                          getCodeEngineTask(o.shape))
  <2>1. /\ TakesOpen(r, o)
        /\ getCodeEngineTask(o.shape) \notin {NoValue, "malformed"}
        /\ runCodeEngineJob(r, o.status, w)
    BY <1>4 DEF ReconcileRun
  <2>2. o.status \in Statuses /\ queue' \subseteq Runs
    BY <2>1, TakesOpenType
  <2>3. getCodeEngineTask(o.shape) \in JobNames
    BY <2>1, TakesOpenType, GetTaskType DEF TypeOK
  <2>4. w \in Statuses /\ w.taskSpec \in JobNames
    BY <2>2, <2>3, InitializeRunType, StoreSpecType
  <2>5. w.jobRunName # NoValue => w.jobRunName \in JobRunIds
    BY <2>4 DEF Statuses
  <2>6. Mark(w, "FailedToStartJobRun") \in Statuses
    BY <2>4, MarkType DEF Reasons, FailureReasons
  <2> HIDE DEF w
  <2>7. \/ Return(r, o.status, w, "requeue")
        \/ Return(r, o.status, Mark(w, "FailedToStartJobRun"), "err")
        \/ GoOn(r, "create", o.status, w) /\ w.jobRunName = NoValue
        \/ GoOn(r, "check", o.status, w) /\ w.jobRunName \in JobRunIds
    BY <2>1, <2>5 DEF runCodeEngineJob
  <2>8. /\ proc' \in [Runs -> Calls]
        /\ events' \in [Runs -> SUBSET {"Succeeded", "Failed"}]
        /\ CallsInOrder'
    BY <2>2, <2>4, <2>6, <2>7, ReturnType, GoOnType
  <2> QED
    BY <1>4, <2>2, <2>8 DEF ReconcileRun, TypeOK, StoreType, CacheType, ProcessType
<1>5. ASSUME NEW j \in JobRunIds, CreateJobRun(r, j) PROVE TypeOK'
  <2> DEFINE w == [proc[r].work EXCEPT !.jobRunName = j, !.reason = "Running"]
  <2>1. w \in Statuses /\ w.jobRunName = j
    BY <1>0 DEF Statuses, Reasons
  <2>2. GoOn(r, "check", proc[r].orig, w)
    BY <1>5 DEF CreateJobRun
  <2> HIDE DEF w
  <2>3. /\ proc' \in [Runs -> Calls]
        /\ events' \in [Runs -> SUBSET {"Succeeded", "Failed"}]
        /\ CallsInOrder'
    BY <1>0, <2>1, <2>2, GoOnType
  <2>4. proc[r].work.taskSpec \in JobNames
    BY <1>5 DEF CreateJobRun, TypeOK, CallsInOrder
  <2>5. jobRuns' \in [JobRunIds -> JobRunRecords]
    BY <1>5, <2>4 DEF CreateJobRun, AddJobRun, TypeOK, StoreType, JobRunRecords
  <2> QED
    BY <1>5, <2>3, <2>5 DEF CreateJobRun, TypeOK, StoreType, CacheType, ProcessType
<1>6. CASE CreateJobRunFails(r)
  <2>1. Mark(proc[r].work, "FailedToStartJobRun") \in Statuses
    BY <1>0, MarkType DEF Reasons, FailureReasons
  <2>2. /\ proc' \in [Runs -> Calls]
        /\ events' \in [Runs -> SUBSET {"Succeeded", "Failed"}]
        /\ CallsInOrder'
    BY <1>0, <1>6, <2>1, ReturnType DEF CreateJobRunFails
  <2>3. proc[r].work.taskSpec \in JobNames
    BY <1>6 DEF CreateJobRunFails, TypeOK, CallsInOrder
  <2>4. jobRuns' \in [JobRunIds -> JobRunRecords]
    <3>1. CASE UNCHANGED jobRuns
      BY <3>1 DEF TypeOK, StoreType
    <3>2. ASSUME NEW j \in JobRunIds, AddJobRun(j, r, proc[r].work.taskSpec)
          PROVE  jobRuns' \in [JobRunIds -> JobRunRecords]
      BY <2>3, <3>2 DEF AddJobRun, TypeOK, StoreType, JobRunRecords
    <3> QED
      BY <1>6, <3>1, <3>2 DEF CreateJobRunFails
  <2> QED
    BY <1>6, <2>2, <2>4 DEF CreateJobRunFails, TypeOK, StoreType, CacheType, ProcessType
<1>7. CASE CheckJobRun(r)
  <2>1. checkCodeEngineJobRunStatus(proc[r].work) \in Statuses
    BY <1>0, MarkType DEF checkCodeEngineJobRunStatus, Reasons, FailureReasons
  <2>2. /\ proc' \in [Runs -> Calls]
        /\ events' \in [Runs -> SUBSET {"Succeeded", "Failed"}]
        /\ CallsInOrder'
    BY <1>0, <1>7, <2>1, ReturnType DEF CheckJobRun
  <2> QED
    BY <1>7, <2>2 DEF CheckJobRun, TypeOK, StoreType, CacheType, ProcessType
<1>8. CASE CheckJobRunFails(r)
  <2>1. Mark(proc[r].work, "FailedToGetJobRunStatus") \in Statuses
    BY <1>0, MarkType DEF Reasons, FailureReasons
  <2>2. /\ proc' \in [Runs -> Calls]
        /\ events' \in [Runs -> SUBSET {"Succeeded", "Failed"}]
        /\ CallsInOrder'
    BY <1>0, <1>8, <2>1, ReturnType DEF CheckJobRunFails
  <2> QED
    BY <1>8, <2>2 DEF CheckJobRunFails, TypeOK, StoreType, CacheType, ProcessType
<1>9. ASSUME NEW ok \in BOOLEAN, Finish(r, ok)
      PROVE  proc' \in [Runs -> Calls] /\ queue' \subseteq Runs /\ CallsInOrder'
  BY <1>9, IdleType DEF Finish, Enqueue, TypeOK, ProcessType, CallsInOrder
<1>10. CASE KeepStatus(r)
  BY <1>9, <1>10 DEF KeepStatus, TypeOK, StoreType, CacheType, ProcessType
<1>11. CASE PutStatus(r)
  <2>1. [runs[r] EXCEPT !.status = proc[r].work] \in RunObjects
    BY <1>0, <1>11 DEF PutStatus, TypeOK, StoreType, RunObjects
  <2>2. /\ runs' \in [Runs -> RunObjects \cup {NoValue}]
        /\ watch' \in [Runs -> Seq(RunObjects \cup {NoValue})]
    BY <1>11, <2>1, StoreRunType DEF PutStatus
  <2> QED
    BY <1>9, <1>11, <2>2 DEF PutStatus, TypeOK, StoreType, CacheType, ProcessType
<1>12. CASE PutStatusFails(r)
  BY <1>9, <1>12 DEF PutStatusFails, TypeOK, StoreType, CacheType, ProcessType
<1> QED
  BY <1>1, <1>2, <1>3, <1>4, <1>5, <1>6, <1>7, <1>8, <1>10, <1>11, <1>12 DEF Reconcile

LEMMA RestartType == TypeOK /\ Restart => TypeOK'
<1> SUFFICES ASSUME TypeOK, Restart PROVE TypeOK'
  OBVIOUS
<1>1. StoreType'
  BY DEF Restart, TypeOK, StoreType, apiVars, ceVars
<1>2. \A j \in JobRunIds : Listed(j) \in JobRunStates
  BY DEF Listed, TypeOK, StoreType, JobRunRecords, JobRunStates
<1>3. CacheType'
  BY <1>2 DEF Restart, TypeOK, StoreType, CacheType
<1>4. \A j \in JobRunIds : filterJobRunRef(j) => jobRuns[j].owner \in Runs
  BY DEF filterJobRunRef, TypeOK, StoreType, JobRunRecords
<1>5. ProcessType' /\ CallsInOrder'
  BY <1>4 DEF Restart, TypeOK, ProcessType, CallsInOrder
<1> QED
  BY <1>1, <1>3, <1>5 DEF TypeOK

LEMMA NextType == TypeOK /\ [Next]_vars => TypeOK'
<1> SUFFICES ASSUME TypeOK, [Next]_vars PROVE TypeOK'
  OBVIOUS
<1>1. CASE UNCHANGED vars
  BY <1>1 DEF vars, apiVars, ceVars, listVars, cacheVars, procVars,
              TypeOK, StoreType, CacheType, ProcessType, CallsInOrder
<1> QED
  BY <1>1, EnvironmentType, InformersType, ReconcileType, DownType, RestartType
     DEF Next, Crash

\* Type correctness, and the order of a call's steps: it never creates a JobRun
\* when it knows one, nor checks one it does not know (codeenginetask.go:235, 286).
THEOREM TypeCorrect == Spec => []TypeOK
BY InitType, NextType, PTL DEF Spec

-----------------------------------------------------------------------------
(***************************************************************************)
(* What a status says of a JobRun stays true: Code Engine never gives a    *)
(* used name to another JobRun, and an outcome is final.                   *)
(***************************************************************************)
UnusedIsBlank == \A j \in JobRunIds : Unused(j) => jobRuns[j] = NoJobRun

JobRunsKept(jrs, new) ==
  \A j \in JobRunIds :
    /\ jrs[j].job # NoValue => new[j].owner = jrs[j].owner /\ new[j].job = jrs[j].job
    /\ jrs[j].outcome \in Outcomes => new[j].outcome = jrs[j].outcome

LEMMA KeptIsTrue ==
  ASSUME NEW jrs, NEW new, JobRunsKept(jrs, new),
         NEW r \in Runs, NEW st \in Statuses, IsTrue(jrs, r, st)
  PROVE  IsTrue(new, r, st)
<1>1. st.jobRunName \in JobRunIds \cup {NoValue}
  BY DEF Statuses
<1> QED
  BY <1>1 DEF IsTrue, RecordMatches, VerdictMatches, JobRunsKept, Outcomes

LEMMA KeptIsTrueOfObject ==
  ASSUME NEW jrs, NEW new, JobRunsKept(jrs, new), NEW r \in Runs,
         NEW o \in RunObjects \cup {NoValue}, IsTrueOfObject(jrs, r, o)
  PROVE  IsTrueOfObject(new, r, o)
BY KeptIsTrue DEF IsTrueOfObject, RunObjects

LEMMA AddKeeps ==
  ASSUME TypeOK, UnusedIsBlank, NEW j \in JobRunIds, NEW owner \in Runs \cup {NoValue},
         NEW job \in JobNames, AddJobRun(j, owner, job)
  PROVE  JobRunsKept(jobRuns, jobRuns') /\ UnusedIsBlank'
<1>1. jobRuns[j] = NoJobRun /\ jobRuns[j].job = NoValue
  BY DEF AddJobRun, UnusedIsBlank, Unused
<1>2. jobRuns[j].outcome \notin Outcomes
  BY <1>1 DEF NoJobRun, Outcomes
<1> QED
  BY <1>1, <1>2 DEF AddJobRun, TypeOK, StoreType, JobRunsKept, UnusedIsBlank, Unused

LEMMA SameKeeps ==
  ASSUME UNCHANGED jobRuns, UnusedIsBlank
  PROVE  JobRunsKept(jobRuns, jobRuns') /\ UnusedIsBlank'
BY DEF JobRunsKept, UnusedIsBlank, Unused

LEMMA NextKeeps ==
  ASSUME TypeOK, UnusedIsBlank, [Next]_vars
  PROVE  JobRunsKept(jobRuns, jobRuns') /\ UnusedIsBlank'
<1>1. ASSUME NEW j \in JobRunIds, NEW outcome \in Outcomes, FinishJobRun(j, outcome)
      PROVE  JobRunsKept(jobRuns, jobRuns') /\ UnusedIsBlank'
  <2>1. jobRuns[j].job # NoValue /\ jobRuns[j].outcome \notin Outcomes
    BY <1>1 DEF FinishJobRun, UnusedIsBlank, Unused, NoJobRun, Outcomes
  <2> QED
    BY <1>1, <2>1 DEF FinishJobRun, TypeOK, StoreType, JobRunRecords, JobRunsKept,
                      UnusedIsBlank, Unused
<1>2. ASSUME NEW j \in JobRunIds, DropJobRun(j)
      PROVE  JobRunsKept(jobRuns, jobRuns') /\ UnusedIsBlank'
  <2>1. jobRuns[j].job # NoValue
    BY <1>2 DEF DropJobRun, UnusedIsBlank, Unused, NoJobRun
  <2> QED
    BY <1>2, <2>1 DEF DropJobRun, TypeOK, StoreType, JobRunRecords, JobRunsKept,
                      UnusedIsBlank, Unused
<1>3. ASSUME NEW j \in JobRunIds, NEW job \in JobNames, SubmitJobRun(j, job)
      PROVE  JobRunsKept(jobRuns, jobRuns') /\ UnusedIsBlank'
  BY <1>3, AddKeeps DEF SubmitJobRun
<1>4. ASSUME NEW r \in Runs, NEW j \in JobRunIds, CreateJobRun(r, j)
      PROVE  JobRunsKept(jobRuns, jobRuns') /\ UnusedIsBlank'
  BY <1>4, AddKeeps DEF CreateJobRun, TypeOK, CallsInOrder
<1>5. ASSUME NEW r \in Runs, CreateJobRunFails(r)
      PROVE  JobRunsKept(jobRuns, jobRuns') /\ UnusedIsBlank'
  BY <1>5, AddKeeps, SameKeeps DEF CreateJobRunFails, TypeOK, CallsInOrder
<1> DEFINE Changed ==
      \/ \E j \in JobRunIds, outcome \in Outcomes : FinishJobRun(j, outcome)
      \/ \E j \in JobRunIds : DropJobRun(j)
      \/ \E j \in JobRunIds, job \in JobNames : SubmitJobRun(j, job)
      \/ \E r \in Runs, j \in JobRunIds : CreateJobRun(r, j)
      \/ \E r \in Runs : CreateJobRunFails(r)
<1>6. UNCHANGED jobRuns \/ Changed
  <2> USE DEF ceVars
  <2>1. CASE UNCHANGED vars
    BY <2>1 DEF vars
  <2>2. CASE Environment
    BY <2>2 DEF Environment, CreateRun, DeleteRun, ChangeTask, ChangeJobDef
  <2>3. CASE Informers
    BY <2>3 DEF Informers, SyncRun, ResyncRun, SyncJobRun, ResyncJobRun, SyncTask, SyncJobDefs
  <2>4. ASSUME NEW r \in Runs, Reconcile(r)
        PROVE  UNCHANGED jobRuns \/ Changed
    <3>1. \/ UNCHANGED jobRuns
          \/ \E j \in JobRunIds : CreateJobRun(r, j)
          \/ CreateJobRunFails(r)
      BY <2>4 DEF Reconcile, SkipRun, PanicOnRun, Down, FailOnTask, ReconcileRun,
                  CheckJobRun, CheckJobRunFails, KeepStatus, PutStatus, PutStatusFails
    <3> QED
      BY <3>1
  <2>5. CASE Crash \/ Restart
    BY <2>5 DEF Crash, Down, Restart
  <2> HIDE DEF Changed
  <2> QED
    BY <2>1, <2>2, <2>3, <2>4, <2>5 DEF Next
<1> QED
  BY <1>1, <1>2, <1>3, <1>4, <1>5, <1>6, SameKeeps

-----------------------------------------------------------------------------
(***************************************************************************)
(* What the operators on a status do to its truth.                         *)
(***************************************************************************)
LEMMA EmptyIsTrue ==
  ASSUME NEW jrs, NEW r \in Runs
  PROVE  IsTrue(jrs, r, EmptyStatus)
BY DEF IsTrue, RecordMatches, VerdictMatches, EmptyStatus

LEMMA MarkIsTrue ==
  ASSUME NEW jrs, NEW r \in Runs, NEW st \in Statuses, IsTrue(jrs, r, st),
         NEW reason \in Reasons, reason \notin {"Succeeded", "Failed"}
  PROVE  IsTrue(jrs, r, Mark(st, reason))
BY DEF IsTrue, RecordMatches, VerdictMatches, Mark, Statuses

LEMMA WorkIsTrue ==
  ASSUME NEW jrs, NEW r \in Runs, NEW st \in Statuses, IsTrue(jrs, r, st), ~IsDone(st),
         NEW job \in JobNames
  PROVE  /\ IsTrue(jrs, r, initializeRun(st))
         /\ IsTrue(jrs, r, storeCodeEngineTaskSpec(initializeRun(st), job))
         /\ ~IsDone(initializeRun(st))
         /\ ~IsDone(storeCodeEngineTaskSpec(initializeRun(st), job))
<1>1. initializeRun(st) \in Statuses
  BY InitializeRunType
<1>2. IsTrue(jrs, r, initializeRun(st)) /\ ~IsDone(initializeRun(st))
  BY MarkIsTrue DEF initializeRun, Reasons, IsDone, FailureReasons, Mark, Statuses
<1>3. IsTrue(jrs, r, storeCodeEngineTaskSpec(initializeRun(st), job))
  BY <1>1, <1>2 DEF IsTrue, RecordMatches, VerdictMatches, storeCodeEngineTaskSpec, Statuses
<1> QED
  BY <1>1, <1>2, <1>3, StoreSpecType DEF IsDone

LEMMA CheckedIsTrue ==
  ASSUME JobRunCacheIsTrue, NEW r \in Runs, NEW st \in Statuses, IsTrue(jobRuns, r, st),
         st.jobRunName \in JobRunIds
  PROVE  IsTrue(jobRuns, r, checkCodeEngineJobRunStatus(st))
BY DEF JobRunCacheIsTrue, IsTrue, RecordMatches, VerdictMatches,
       checkCodeEngineJobRunStatus, Mark, Statuses, Outcomes

LEMMA NotDoneReason ==
  ASSUME NEW st, ~IsDone(st)
  PROVE  st.reason \notin {"Succeeded", "Failed"}
BY DEF IsDone, FailureReasons

-----------------------------------------------------------------------------
(***************************************************************************)
(* CopiesAreTrue is inductive. First what the parts of an action do to it. *)
(***************************************************************************)
IInv == TypeOK /\ UnusedIsBlank /\ CopiesAreTrue

LEMMA InitCopies == Init => IInv
<1> SUFFICES ASSUME Init PROVE IInv
  OBVIOUS
<1>1. UnusedIsBlank
  BY DEF Init, UnusedIsBlank
<1>2. StoreIsTrue /\ CacheIsTrue /\ WatchIsTrue
  BY DEF Init, StoreIsTrue, CacheIsTrue, WatchIsTrue, IsTrueOfObject
<1>3. CallsAreTrue
  BY EmptyIsTrue DEF Init, CallsAreTrue, Idle
<1>4. JobRunCacheIsTrue
  BY DEF Init, JobRunCacheIsTrue, Outcomes
<1> QED
  BY <1>1, <1>2, <1>3, <1>4, InitType DEF IInv, CopiesAreTrue

LEMMA KeptCopies ==
  ASSUME TypeOK, CopiesAreTrue, JobRunsKept(jobRuns, jobRuns')
  PROVE  /\ UNCHANGED runs => StoreIsTrue'
         /\ UNCHANGED watch => WatchIsTrue'
         /\ UNCHANGED runCache => CacheIsTrue'
         /\ UNCHANGED proc => CallsAreTrue'
         /\ UNCHANGED jobRunCache => JobRunCacheIsTrue'
<1>1. UNCHANGED runs => StoreIsTrue'
  BY KeptIsTrueOfObject DEF TypeOK, StoreType, CopiesAreTrue, StoreIsTrue
<1>2. ASSUME UNCHANGED watch PROVE WatchIsTrue'
  <2> SUFFICES ASSUME NEW r \in Runs, NEW i \in DOMAIN watch[r]
               PROVE  IsTrueOfObject(jobRuns', r, watch[r][i])
    BY <1>2 DEF WatchIsTrue
  <2>1. watch[r][i] \in RunObjects \cup {NoValue}
    BY DEF TypeOK, CacheType
  <2> QED
    BY <2>1, KeptIsTrueOfObject DEF CopiesAreTrue, WatchIsTrue
<1>3. UNCHANGED runCache => CacheIsTrue'
  BY KeptIsTrueOfObject DEF TypeOK, CacheType, CopiesAreTrue, CacheIsTrue
<1>4. ASSUME UNCHANGED proc PROVE CallsAreTrue'
  <2>1. \A r \in Runs : proc[r].orig \in Statuses /\ proc[r].work \in Statuses
    BY DEF TypeOK, ProcessType, Calls
  <2> QED
    BY <1>4, <2>1, KeptIsTrue DEF CopiesAreTrue, CallsAreTrue
<1>5. UNCHANGED jobRunCache => JobRunCacheIsTrue'
  BY DEF CopiesAreTrue, JobRunCacheIsTrue, JobRunsKept
<1> QED
  BY <1>1, <1>2, <1>3, <1>4, <1>5

LEMMA StoreRunIsTrue ==
  ASSUME TypeOK, CopiesAreTrue, UNCHANGED jobRuns,
         NEW r \in Runs, NEW o \in RunObjects \cup {NoValue},
         StoreRun(r, o), IsTrueOfObject(jobRuns, r, o)
  PROVE  StoreIsTrue' /\ WatchIsTrue'
<1>1. StoreIsTrue'
  BY DEF TypeOK, StoreType, CopiesAreTrue, StoreIsTrue, StoreRun
<1>2. WatchIsTrue'
  <2>1. CASE watch' = watch
    BY <2>1 DEF CopiesAreTrue, WatchIsTrue
  <2>2. CASE watch' = [watch EXCEPT ![r] = Append(@, o)]
    BY <2>2 DEF TypeOK, CacheType, CopiesAreTrue, WatchIsTrue
  <2> QED
    BY <2>1, <2>2 DEF StoreRun
<1> QED
  BY <1>1, <1>2

LEMMA CallIsTrue ==
  ASSUME TypeOK, CopiesAreTrue, JobRunsKept(jobRuns, jobRuns'), NEW r \in Runs, NEW call,
         proc' = [proc EXCEPT ![r] = call],
         IsTrue(jobRuns', r, call.orig), IsTrue(jobRuns', r, call.work)
  PROVE  CallsAreTrue'
<1> SUFFICES ASSUME NEW k \in Runs
             PROVE  IsTrue(jobRuns', k, proc'[k].orig) /\ IsTrue(jobRuns', k, proc'[k].work)
  BY DEF CallsAreTrue
<1>1. CASE k = r
  BY <1>1 DEF TypeOK, ProcessType
<1>2. CASE k # r
  <2>1. proc'[k] = proc[k] /\ proc[k].orig \in Statuses /\ proc[k].work \in Statuses
    BY <1>2 DEF TypeOK, ProcessType, Calls
  <2> QED
    BY <2>1, KeptIsTrue DEF CopiesAreTrue, CallsAreTrue
<1> QED
  BY <1>1, <1>2

LEMMA GoOnIsTrue ==
  ASSUME TypeOK, CopiesAreTrue, JobRunsKept(jobRuns, jobRuns'), NEW r \in Runs, NEW pc,
         NEW orig, NEW w, GoOn(r, pc, orig, w),
         IsTrue(jobRuns', r, orig), IsTrue(jobRuns', r, w)
  PROVE  CallsAreTrue'
<1> DEFINE call == [pc |-> pc, orig |-> orig, work |-> w, result |-> "ok"]
<1>1. proc' = [proc EXCEPT ![r] = call] /\ call.orig = orig /\ call.work = w
  BY DEF GoOn
<1> HIDE DEF call
<1> QED
  BY <1>1, CallIsTrue

\* The verdict a call returns with is true of the status it encodes; without
\* encoding, it is none.
LEMMA ReturnIsTrue ==
  ASSUME TypeOK, CopiesAreTrue, JobRunsKept(jobRuns, jobRuns'), NEW r \in Runs,
         NEW orig \in Statuses, NEW w \in Statuses, NEW result, Return(r, orig, w, result),
         IsTrue(jobRuns', r, orig), IsTrue(jobRuns', r, w),
         result = "ok" \/ w.reason \notin {"Succeeded", "Failed"}
  PROVE  CallsAreTrue'
<1> DEFINE work == IF result = "ok" THEN w ELSE Mark(orig, w.reason)
           call == [pc |-> "put", orig |-> orig, work |-> work, result |-> result]
<1>1. IsTrue(jobRuns', r, work)
  BY MarkIsTrue DEF Statuses
<1>2. proc' = [proc EXCEPT ![r] = call] /\ call.orig = orig /\ call.work = work
  BY DEF Return
<1> HIDE DEF call
<1> QED
  BY <1>1, <1>2, CallIsTrue

LEMMA EnvironmentCopies ==
  ASSUME TypeOK, CopiesAreTrue, JobRunsKept(jobRuns, jobRuns'), Environment
  PROVE  CopiesAreTrue'
<1> USE DEF apiVars, ceVars, listVars, cacheVars, procVars
<1>1. ASSUME NEW r \in Runs, NEW shape \in Shapes, CreateRun(r, shape)
      PROVE  CopiesAreTrue'
  <2> DEFINE o == [shape |-> shape, status |-> EmptyStatus]
  <2>1. o \in RunObjects /\ IsTrueOfObject(jobRuns, r, o)
    BY EmptyIsTrue DEF IsTrueOfObject, RunObjects, EmptyStatus, Statuses, Reasons
  <2> HIDE DEF o
  <2>2. StoreRun(r, o) /\ UNCHANGED <<jobRuns, runCache, proc, jobRunCache>>
    BY <1>1 DEF CreateRun, o
  <2>3. StoreIsTrue' /\ WatchIsTrue'
    BY <2>1, <2>2, StoreRunIsTrue
  <2> QED
    BY <2>2, <2>3, KeptCopies DEF CopiesAreTrue
<1>2. ASSUME NEW r \in Runs, DeleteRun(r)
      PROVE  CopiesAreTrue'
  <2>1. StoreRun(r, NoValue) /\ UNCHANGED <<jobRuns, runCache, proc, jobRunCache>>
    BY <1>2 DEF DeleteRun
  <2>2. StoreIsTrue' /\ WatchIsTrue'
    BY <2>1, StoreRunIsTrue DEF IsTrueOfObject
  <2> QED
    BY <2>1, <2>2, KeptCopies DEF CopiesAreTrue
<1>3. CASE UNCHANGED <<runs, watch, runCache, proc, jobRunCache>>
  BY <1>3, KeptCopies DEF CopiesAreTrue
<1>4. \/ \E r \in Runs, shape \in Shapes : CreateRun(r, shape)
      \/ \E r \in Runs : DeleteRun(r)
      \/ UNCHANGED <<runs, watch, runCache, proc, jobRunCache>>
  BY DEF Environment, ChangeTask, ChangeJobDef, FinishJobRun, DropJobRun, SubmitJobRun
<1> QED
  BY <1>1, <1>2, <1>3, <1>4

LEMMA InformersCopies ==
  ASSUME IInv, JobRunsKept(jobRuns, jobRuns'), Informers
  PROVE  CopiesAreTrue'
<1> USE DEF IInv
<1> USE DEF apiVars, ceVars, listVars, cacheVars, procVars
<1>1. ASSUME NEW r \in Runs, SyncRun(r) PROVE CopiesAreTrue'
  <2>1. /\ watch[r] # <<>>
        /\ watch' = [watch EXCEPT ![r] = Tail(@)]
        /\ runCache' = [runCache EXCEPT ![r] = Head(watch[r])]
        /\ UNCHANGED <<runs, jobRuns, proc, jobRunCache>>
    BY <1>1 DEF SyncRun
  <2>2. watch[r] \in Seq(RunObjects \cup {NoValue}) /\ 1 \in DOMAIN watch[r]
    BY <2>1 DEF TypeOK, CacheType
  <2>3. CacheIsTrue'
    BY <2>1, <2>2 DEF TypeOK, CacheType, CopiesAreTrue, CacheIsTrue, WatchIsTrue
  <2>4. WatchIsTrue'
    BY <2>1, <2>2 DEF TypeOK, CacheType, CopiesAreTrue, WatchIsTrue
  <2> QED
    BY <2>1, <2>3, <2>4, KeptCopies DEF CopiesAreTrue
<1>2. ASSUME NEW j \in JobRunIds, SyncJobRun(j) PROVE CopiesAreTrue'
  <2>1. /\ jobRunCache' = [jobRunCache EXCEPT ![j] = Listed(j)]
        /\ UNCHANGED <<runs, jobRuns, watch, runCache, proc>>
    BY <1>2 DEF SyncJobRun
  <2>2. JobRunCacheIsTrue'
    BY <2>1 DEF TypeOK, CacheType, CopiesAreTrue, JobRunCacheIsTrue, Listed, Outcomes
  <2> QED
    BY <2>1, <2>2, KeptCopies DEF CopiesAreTrue
<1>3. CASE UNCHANGED <<runs, watch, runCache, proc, jobRunCache>>
  BY <1>3, KeptCopies DEF CopiesAreTrue
<1>4. \/ \E r \in Runs : SyncRun(r)
      \/ \E j \in JobRunIds : SyncJobRun(j)
      \/ UNCHANGED <<runs, watch, runCache, proc, jobRunCache>>
  BY DEF Informers, ResyncRun, ResyncJobRun, SyncTask, SyncJobDefs
<1> QED
  BY <1>1, <1>2, <1>3, <1>4

LEMMA DownCopies ==
  ASSUME TypeOK, CopiesAreTrue, JobRunsKept(jobRuns, jobRuns'), Down
  PROVE  CopiesAreTrue'
<1>1. StoreIsTrue'
  BY KeptCopies DEF Down, apiVars
<1>2. WatchIsTrue' /\ CacheIsTrue'
  BY DEF Down, WatchIsTrue, CacheIsTrue, IsTrueOfObject
<1>3. CallsAreTrue'
  BY EmptyIsTrue DEF Down, CallsAreTrue, Idle
<1>4. JobRunCacheIsTrue'
  BY DEF Down, JobRunCacheIsTrue, Outcomes
<1> QED
  BY <1>1, <1>2, <1>3, <1>4 DEF CopiesAreTrue

LEMMA RestartCopies ==
  ASSUME TypeOK, CopiesAreTrue, JobRunsKept(jobRuns, jobRuns'), Restart
  PROVE  CopiesAreTrue'
<1>1. StoreIsTrue' /\ WatchIsTrue' /\ CallsAreTrue'
  BY KeptCopies DEF Restart, apiVars
<1>2. CacheIsTrue'
  BY <1>1 DEF Restart, StoreIsTrue, CacheIsTrue, apiVars
<1>3. JobRunCacheIsTrue'
  BY DEF Restart, JobRunCacheIsTrue, Listed, Outcomes, ceVars
<1> QED
  BY <1>1, <1>2, <1>3 DEF CopiesAreTrue

\* A step of a call that does not write a status goes on, returns, skips the Run
\* or takes the process down; what it works with is true, and of an open Run.
StaysLocal == UNCHANGED <<runs, watch, runCache, jobRunCache>>

GoesOn(r) ==
  \E pc \in {"create", "check"}, orig \in Statuses, w \in Statuses :
    /\ GoOn(r, pc, orig, w)
    /\ IsTrue(jobRuns', r, orig) /\ IsTrue(jobRuns', r, w)
    /\ CallsAnnounceFirst => ~IsDone(orig) /\ ~IsDone(w)

Returns(r) ==
  \E orig \in Statuses, w \in Statuses, result \in {"ok", "err", "requeue"} :
    /\ Return(r, orig, w, result)
    /\ IsTrue(jobRuns', r, orig) /\ IsTrue(jobRuns', r, w)
    /\ result = "ok" \/ w.reason \notin {"Succeeded", "Failed"}
    /\ CallsAnnounceFirst => ~IsDone(orig)

LEMMA CallSteps ==
  ASSUME TypeOK, CopiesAreTrue, JobRunsKept(jobRuns, jobRuns'), NEW r \in Runs, Reconcile(r)
  PROVE  \/ StaysLocal /\ UNCHANGED <<proc, events>>
         \/ Down
         \/ StaysLocal /\ GoesOn(r)
         \/ StaysLocal /\ Returns(r)
         \/ KeepStatus(r) \/ PutStatus(r) \/ PutStatusFails(r)
<1> USE DEF apiVars, ceVars, listVars, cacheVars, StaysLocal
<1>0. /\ proc[r].orig \in Statuses /\ proc[r].work \in Statuses
      /\ IsTrue(jobRuns, r, proc[r].work)
      /\ IsTrue(jobRuns', r, proc[r].orig) /\ IsTrue(jobRuns', r, proc[r].work)
  <2>1. proc[r].orig \in Statuses /\ proc[r].work \in Statuses
    BY DEF TypeOK, ProcessType, Calls
  <2> QED
    BY <2>1, KeptIsTrue DEF CopiesAreTrue, CallsAreTrue
<1>a. ASSUME CallsAnnounceFirst, proc[r].pc \in {"create", "check"}
      PROVE  ~IsDone(proc[r].orig) /\ ~IsDone(proc[r].work)
  BY <1>a DEF CallsAnnounceFirst
<1>b. ASSUME TakesOpen(r, runCache[r])
      PROVE  /\ runCache[r].status \in Statuses
             /\ IsTrue(jobRuns, r, runCache[r].status)
             /\ ~IsDone(runCache[r].status)
  BY <1>b, TakesOpenType DEF TakesOpen, CopiesAreTrue, CacheIsTrue, IsTrueOfObject
<1>1. CASE SkipRun(r, runCache[r])
  BY <1>1 DEF SkipRun
<1>2. CASE PanicOnRun(r)
  BY <1>2 DEF PanicOnRun
<1>3. CASE FailOnTask(r, runCache[r])
  <2> DEFINE st == runCache[r].status
             v == initializeRun(st)
             w == IF getCodeEngineTask(runCache[r].shape) = NoValue
                  THEN Mark(v, "CouldntGetCodeEngineTask") ELSE v
  <2>1. /\ TakesOpen(r, runCache[r]) /\ Return(r, st, w, "err")
        /\ StaysLocal /\ UNCHANGED jobRuns
    BY <1>3 DEF FailOnTask
  <2>2. st \in Statuses /\ IsTrue(jobRuns, r, st) /\ ~IsDone(st)
    BY <1>b, <2>1
  <2>3. v \in Statuses /\ IsTrue(jobRuns, r, v) /\ v.reason \notin {"Succeeded", "Failed"}
    BY <2>2, InitializeRunType, MarkIsTrue
       DEF initializeRun, Reasons, IsDone, FailureReasons, Mark, Statuses
  <2>4. "CouldntGetCodeEngineTask" \in Reasons
    BY DEF Reasons, FailureReasons
  <2>5. Mark(v, "CouldntGetCodeEngineTask").reason = "CouldntGetCodeEngineTask"
    BY <2>3 DEF Mark, Statuses
  <2> HIDE DEF v
  <2>6. w \in Statuses /\ IsTrue(jobRuns, r, w) /\ w.reason \notin {"Succeeded", "Failed"}
    BY <2>3, <2>4, <2>5, MarkType, MarkIsTrue
  <2> HIDE DEF w
  <2> QED
    BY <2>1, <2>2, <2>6 DEF Returns
<1>4. CASE ReconcileRun(r, runCache[r])
  <2> DEFINE st == runCache[r].status
             job == getCodeEngineTask(runCache[r].shape)
             w == storeCodeEngineTaskSpec(initializeRun(st), job)
             failed == Mark(w, "FailedToStartJobRun")
  <2>1. /\ TakesOpen(r, runCache[r]) /\ job \notin {NoValue, "malformed"}
        /\ runCodeEngineJob(r, st, w)
        /\ StaysLocal /\ UNCHANGED jobRuns
    BY <1>4 DEF ReconcileRun
  <2>2. st \in Statuses /\ IsTrue(jobRuns, r, st) /\ ~IsDone(st) /\ job \in JobNames
    BY <1>b, <2>1, TakesOpenType, GetTaskType DEF TypeOK
  <2>3. /\ w \in Statuses /\ IsTrue(jobRuns, r, w) /\ ~IsDone(w)
        /\ w.reason \notin {"Succeeded", "Failed"}
    BY <2>2, InitializeRunType, StoreSpecType, WorkIsTrue, NotDoneReason
  <2> HIDE DEF w
  <2>4. "FailedToStartJobRun" \in Reasons /\ failed.reason = "FailedToStartJobRun"
    BY <2>3 DEF Mark, Statuses, Reasons, FailureReasons
  <2>5. failed \in Statuses /\ IsTrue(jobRuns, r, failed)
    BY <2>3, <2>4, MarkType, MarkIsTrue
  <2>6. \/ Return(r, st, w, "requeue")
        \/ Return(r, st, failed, "err")
        \/ GoOn(r, "create", st, w)
        \/ GoOn(r, "check", st, w)
    BY <2>1 DEF runCodeEngineJob
  <2> HIDE DEF failed
  <2>7. CASE Return(r, st, w, "requeue")
    BY <2>1, <2>2, <2>3, <2>7 DEF Returns
  <2>8. CASE Return(r, st, failed, "err")
    BY <2>1, <2>2, <2>4, <2>5, <2>8 DEF Returns
  <2>9. CASE GoOn(r, "create", st, w) \/ GoOn(r, "check", st, w)
    BY <2>1, <2>2, <2>3, <2>9 DEF GoesOn
  <2> QED
    BY <2>6, <2>7, <2>8, <2>9
<1>5. ASSUME NEW j \in JobRunIds, CreateJobRun(r, j) PROVE StaysLocal /\ GoesOn(r)
  <2> DEFINE w == [proc[r].work EXCEPT !.jobRunName = j, !.reason = "Running"]
  <2>1. /\ AddJobRun(j, r, proc[r].work.taskSpec) /\ GoOn(r, "check", proc[r].orig, w)
        /\ StaysLocal /\ proc[r].pc = "create"
    BY <1>5 DEF CreateJobRun
  <2>2. proc[r].work.taskSpec \in JobNames
    BY <2>1 DEF TypeOK, CallsInOrder
  <2>3. /\ w \in Statuses /\ ~IsDone(w) /\ w.reason = "Running"
        /\ w.taskSpec = proc[r].work.taskSpec /\ w.jobRunName = j
    BY <1>0 DEF Statuses, Reasons, IsDone, FailureReasons
  <2>4. jobRuns'[j].owner = r /\ jobRuns'[j].job = proc[r].work.taskSpec
    BY <2>1 DEF AddJobRun, TypeOK, StoreType
  <2>5. IsTrue(jobRuns', r, w)
    BY <2>2, <2>3, <2>4 DEF IsTrue, RecordMatches, VerdictMatches
  <2> HIDE DEF w
  <2> QED
    BY <1>0, <1>a, <2>1, <2>3, <2>5 DEF GoesOn
<1>6. CASE CreateJobRunFails(r)
  <2> DEFINE w == Mark(proc[r].work, "FailedToStartJobRun")
  <2>1. "FailedToStartJobRun" \in Reasons /\ w.reason = "FailedToStartJobRun"
    BY <1>0 DEF Mark, Statuses, Reasons, FailureReasons
  <2>2. w \in Statuses /\ IsTrue(jobRuns', r, w)
    BY <1>0, <2>1, MarkType, MarkIsTrue
  <2>3. Return(r, proc[r].orig, w, "err") /\ StaysLocal /\ proc[r].pc = "create"
    BY <1>6 DEF CreateJobRunFails
  <2> HIDE DEF w
  <2> QED
    BY <1>0, <1>a, <2>1, <2>2, <2>3 DEF Returns
<1>7. CASE CheckJobRun(r)
  <2> DEFINE w == checkCodeEngineJobRunStatus(proc[r].work)
  <2>1. w \in Statuses
    BY <1>0, MarkType DEF checkCodeEngineJobRunStatus, Reasons, FailureReasons
  <2>2. proc[r].work.jobRunName \in JobRunIds
    BY <1>7 DEF CheckJobRun, TypeOK, CallsInOrder
  <2>3. IsTrue(jobRuns, r, w)
    BY <1>0, <2>2, CheckedIsTrue DEF CopiesAreTrue
  <2>4. /\ Return(r, proc[r].orig, w, "ok")
        /\ StaysLocal /\ UNCHANGED jobRuns /\ proc[r].pc = "check"
    BY <1>7 DEF CheckJobRun
  <2> HIDE DEF w
  <2> QED
    BY <1>0, <1>a, <2>1, <2>3, <2>4 DEF Returns
<1>8. CASE CheckJobRunFails(r)
  <2> DEFINE w == Mark(proc[r].work, "FailedToGetJobRunStatus")
  <2>1. "FailedToGetJobRunStatus" \in Reasons /\ w.reason = "FailedToGetJobRunStatus"
    BY <1>0 DEF Mark, Statuses, Reasons
  <2>2. w \in Statuses /\ IsTrue(jobRuns', r, w)
    BY <1>0, <2>1, MarkType, MarkIsTrue
  <2>3. Return(r, proc[r].orig, w, "err") /\ StaysLocal /\ proc[r].pc = "check"
    BY <1>8 DEF CheckJobRunFails
  <2> HIDE DEF w
  <2> QED
    BY <1>0, <1>a, <2>1, <2>2, <2>3 DEF Returns
<1> QED
  BY <1>1, <1>2, <1>3, <1>4, <1>5, <1>6, <1>7, <1>8 DEF Reconcile

LEMMA ReconcileCopies ==
  ASSUME TypeOK, CopiesAreTrue, JobRunsKept(jobRuns, jobRuns'), NEW r \in Runs, Reconcile(r)
  PROVE  CopiesAreTrue'
<1> USE DEF apiVars, ceVars, listVars, cacheVars, StaysLocal
<1>1. CASE StaysLocal /\ UNCHANGED <<proc, events>>
  BY <1>1, KeptCopies DEF CopiesAreTrue
<1>2. CASE Down
  BY <1>2, DownCopies
<1>3. CASE StaysLocal /\ GoesOn(r)
  <2>1. CallsAreTrue'
    BY <1>3, GoOnIsTrue DEF GoesOn
  <2> QED
    BY <1>3, <2>1, KeptCopies DEF CopiesAreTrue
<1>4. CASE StaysLocal /\ Returns(r)
  <2>1. CallsAreTrue'
    BY <1>4, ReturnIsTrue DEF Returns
  <2> QED
    BY <1>4, <2>1, KeptCopies DEF CopiesAreTrue
<1>5. ASSUME NEW ok, Finish(r, ok) PROVE CallsAreTrue'
  <2>1. proc' = [proc EXCEPT ![r] = Idle] /\ Idle.orig = EmptyStatus /\ Idle.work = EmptyStatus
    BY <1>5 DEF Finish, Idle
  <2>2. IsTrue(jobRuns', r, Idle.orig) /\ IsTrue(jobRuns', r, Idle.work)
    BY <2>1, EmptyIsTrue
  <2> QED
    BY <2>1, <2>2, CallIsTrue
<1>6. CASE KeepStatus(r) \/ PutStatusFails(r)
  <2>1. StaysLocal /\ CallsAreTrue'
    BY <1>5, <1>6 DEF KeepStatus, PutStatusFails
  <2> QED
    BY <2>1, KeptCopies DEF CopiesAreTrue
<1>7. CASE PutStatus(r)
  <2> DEFINE o == [runs[r] EXCEPT !.status = proc[r].work]
  <2>1. /\ StoreRun(r, o) /\ CallsAreTrue' /\ runs[r] \in RunObjects
        /\ UNCHANGED <<jobRuns, runCache, jobRunCache>>
    BY <1>5, <1>7 DEF PutStatus, TypeOK, StoreType
  <2>2. proc[r].work \in Statuses /\ IsTrue(jobRuns, r, proc[r].work)
    BY DEF TypeOK, ProcessType, Calls, CopiesAreTrue, CallsAreTrue
  <2>3. o \in RunObjects /\ o.status = proc[r].work
    BY <2>1, <2>2 DEF RunObjects
  <2>4. IsTrueOfObject(jobRuns, r, o)
    BY <2>2, <2>3 DEF IsTrueOfObject
  <2> HIDE DEF o
  <2>5. StoreIsTrue' /\ WatchIsTrue'
    BY <2>1, <2>3, <2>4, StoreRunIsTrue
  <2> QED
    BY <2>1, <2>5, KeptCopies DEF CopiesAreTrue
<1> QED
  BY <1>1, <1>2, <1>3, <1>4, <1>6, <1>7, CallSteps

LEMMA NextCopies == IInv /\ [Next]_vars => IInv'
<1> SUFFICES ASSUME IInv, [Next]_vars PROVE IInv'
  OBVIOUS
<1>1. TypeOK'
  BY NextType DEF IInv
<1>2. JobRunsKept(jobRuns, jobRuns') /\ UnusedIsBlank'
  BY NextKeeps DEF IInv
<1>3. CopiesAreTrue'
  <2>1. CASE UNCHANGED vars
    BY <1>2, <2>1, KeptCopies
       DEF IInv, CopiesAreTrue, vars, apiVars, ceVars, listVars, cacheVars, procVars
  <2>2. CASE Next
    BY <1>2, <2>2, EnvironmentCopies, InformersCopies, ReconcileCopies, DownCopies,
       RestartCopies DEF IInv, Next, Crash
  <2> QED
    BY <2>1, <2>2
<1> QED
  BY <1>1, <1>2, <1>3 DEF IInv

\* Every copy of a status tells the truth about the JobRuns, through stale caches,
\* failed calls, lost writes and restarts (codeenginetask.go:252-312).
THEOREM CopiesAlwaysTrue == Spec => []CopiesAreTrue
<1>1. IInv => CopiesAreTrue
  BY DEF IInv
<1> QED
  BY <1>1, InitCopies, NextCopies, PTL DEF Spec

\* The JobRun a Run names is its own and runs the job of the recorded spec
\* (codeenginetask.go:252-272).
THEOREM RecordsAlwaysMatch == Spec => []RecordedJobRunMatches
<1>1. CopiesAreTrue => RecordedJobRunMatches
  BY DEF CopiesAreTrue, StoreIsTrue, IsTrueOfObject, IsTrue, RecordedJobRunMatches
<1> QED
  BY <1>1, CopiesAlwaysTrue, PTL

\* A reported verdict is what the named JobRun came to (codeenginetask.go:304-312).
THEOREM OutcomesAlwaysTrue == Spec => []OutcomeIsTrue
<1>1. CopiesAreTrue => OutcomeIsTrue
  BY DEF CopiesAreTrue, StoreIsTrue, IsTrueOfObject, IsTrue, OutcomeIsTrue
<1> QED
  BY <1>1, CopiesAlwaysTrue, PTL

-----------------------------------------------------------------------------
(***************************************************************************)
(* Verdicts are announced before they can be read.                         *)
(***************************************************************************)
AInv == IInv /\ CallsAnnounceFirst /\ VerdictIsAnnounced

Completed(jrs, r) ==
  \E j \in JobRunIds : jrs[j].owner = r /\ jrs[j].outcome = "Complete"

LEMMA KeptCompleted ==
  ASSUME TypeOK, UnusedIsBlank, JobRunsKept(jobRuns, jobRuns'), NEW r \in Runs,
         Completed(jobRuns, r)
  PROVE  Completed(jobRuns', r)
<1>1. PICK j \in JobRunIds : jobRuns[j].owner = r /\ jobRuns[j].outcome = "Complete"
  BY DEF Completed
<1>2. jobRuns[j].job # NoValue
  BY <1>1 DEF UnusedIsBlank, Unused, NoJobRun
<1> QED
  BY <1>1, <1>2 DEF JobRunsKept, Completed, Outcomes

\* A verdict that has been announced stays so.
LEMMA KeptAnnounced ==
  ASSUME AInv, JobRunsKept(jobRuns, jobRuns'), UNCHANGED events
  PROVE  /\ UNCHANGED runs => VerdictIsAnnounced'
         /\ UNCHANGED proc => CallsAnnounceFirst'
         /\ \A r \in Runs : "Succeeded" \in events'[r] => Completed(jobRuns', r)
<1>1. \A r \in Runs : "Succeeded" \in events'[r] => Completed(jobRuns', r)
  BY KeptCompleted DEF AInv, IInv, VerdictIsAnnounced, Completed
<1>2. UNCHANGED runs => VerdictIsAnnounced'
  BY <1>1 DEF AInv, VerdictIsAnnounced, Completed
<1>3. UNCHANGED proc => CallsAnnounceFirst'
  BY DEF AInv, CallsAnnounceFirst
<1> QED
  BY <1>1, <1>2, <1>3

LEMMA GoOnAnnounces ==
  ASSUME AInv, JobRunsKept(jobRuns, jobRuns'), UNCHANGED runs,
         NEW r \in Runs, NEW pc \in {"create", "check"},
         NEW orig, NEW w, GoOn(r, pc, orig, w), ~IsDone(orig), ~IsDone(w)
  PROVE  CallsAnnounceFirst' /\ VerdictIsAnnounced'
<1> DEFINE call == [pc |-> pc, orig |-> orig, work |-> w, result |-> "ok"]
<1>1. /\ proc' = [proc EXCEPT ![r] = call] /\ UNCHANGED events
      /\ call.pc = pc /\ call.orig = orig /\ call.work = w
  BY DEF GoOn
<1> HIDE DEF call
<1>2. CallsAnnounceFirst'
  BY <1>1 DEF AInv, IInv, TypeOK, ProcessType, CallsAnnounceFirst
<1> QED
  BY <1>1, <1>2, KeptAnnounced

LEMMA ReturnAnnounces ==
  ASSUME AInv, JobRunsKept(jobRuns, jobRuns'), UNCHANGED runs, NEW r \in Runs,
         NEW orig \in Statuses, NEW w \in Statuses, NEW result, Return(r, orig, w, result),
         ~IsDone(orig), IsTrue(jobRuns', r, w)
  PROVE  CallsAnnounceFirst' /\ VerdictIsAnnounced'
<1> DEFINE work == IF result = "ok" THEN w ELSE Mark(orig, w.reason)
           call == [pc |-> "put", orig |-> orig, work |-> work, result |-> result]
<1>1. work.reason = w.reason
  BY DEF Mark, Statuses
<1>2. /\ proc' = [proc EXCEPT ![r] = call]
      /\ call.pc = "put" /\ call.orig = orig /\ call.work = work
  BY DEF Return
<1>3. events' = [events EXCEPT ![r] = @ \cup Announced(orig, w)]
  BY DEF Return
<1> HIDE DEF work, call
<1>4. \A k \in Runs : events[k] \subseteq events'[k]
  BY <1>3 DEF AInv, IInv, TypeOK, ProcessType
<1>5. IsDone(w) => Verdict(w.reason) \in events'[r]
  <2>1. IsDone(w) => Verdict(w.reason) \in Announced(orig, w)
    BY DEF Announced, IsDone
  <2> QED
    BY <1>3, <2>1 DEF AInv, IInv, TypeOK, ProcessType
<1>6. IsDone(work) => Verdict(work.reason) \in events'[r]
  BY <1>1, <1>5 DEF IsDone
<1>7. CallsAnnounceFirst'
  BY <1>2, <1>4, <1>6 DEF AInv, IInv, TypeOK, ProcessType, CallsAnnounceFirst
<1>8. ASSUME NEW k \in Runs, "Succeeded" \in events'[k]
      PROVE  Completed(jobRuns', k)
  <2>1. CASE "Succeeded" \in events[k]
    BY <2>1, KeptCompleted DEF AInv, IInv, VerdictIsAnnounced, Completed
  <2>2. CASE "Succeeded" \notin events[k]
    <3>1. k = r /\ "Succeeded" \in Announced(orig, w)
      BY <1>3, <1>8, <2>2 DEF AInv, IInv, TypeOK, ProcessType
    <3>2. w.reason = "Succeeded"
      BY <3>1 DEF Announced, Verdict
    <3>3. /\ w.jobRunName \in JobRunIds /\ jobRuns'[w.jobRunName].owner = r
          /\ jobRuns'[w.jobRunName].outcome = "Complete"
      BY <3>2 DEF IsTrue, RecordMatches, VerdictMatches, Statuses
    <3> QED
      BY <3>1, <3>3 DEF Completed
  <2> QED
    BY <2>1, <2>2
<1>9. VerdictIsAnnounced'
  BY <1>4, <1>8 DEF AInv, VerdictIsAnnounced, Completed
<1> QED
  BY <1>7, <1>9

LEMMA ReconcileAnnounces ==
  ASSUME AInv, JobRunsKept(jobRuns, jobRuns'), NEW r \in Runs, Reconcile(r)
  PROVE  CallsAnnounceFirst' /\ VerdictIsAnnounced'
<1> USE DEF StaysLocal
<1>1. CASE StaysLocal /\ UNCHANGED <<proc, events>>
  BY <1>1, KeptAnnounced
<1>2. CASE Down
  <2>1. CallsAnnounceFirst'
    BY <1>2, IdleType DEF Down, CallsAnnounceFirst
  <2> QED
    BY <1>2, <2>1, KeptAnnounced DEF Down, apiVars
<1>3. CASE StaysLocal /\ GoesOn(r)
  BY <1>3, GoOnAnnounces DEF GoesOn, AInv
<1>4. CASE StaysLocal /\ Returns(r)
  BY <1>4, ReturnAnnounces DEF Returns, AInv
<1>5. ASSUME NEW ok, Finish(r, ok), UNCHANGED events PROVE CallsAnnounceFirst'
  BY <1>5, IdleType DEF Finish, AInv, IInv, TypeOK, ProcessType, CallsAnnounceFirst
<1>6. CASE KeepStatus(r) \/ PutStatusFails(r)
  <2>1. UNCHANGED <<runs, events>> /\ CallsAnnounceFirst'
    BY <1>5, <1>6 DEF KeepStatus, PutStatusFails, apiVars
  <2> QED
    BY <2>1, KeptAnnounced
<1>7. CASE PutStatus(r)
  <2> DEFINE o == [runs[r] EXCEPT !.status = proc[r].work]
  <2>1. /\ runs' = [runs EXCEPT ![r] = o] /\ UNCHANGED events
        /\ proc[r].pc = "put" /\ CallsAnnounceFirst'
    BY <1>5, <1>7 DEF PutStatus, StoreRun
  <2>2. runs[r] \in RunObjects
    BY <1>7 DEF PutStatus, AInv, IInv, TypeOK, StoreType
  <2>3. o.status = proc[r].work
    BY <2>2 DEF RunObjects
  <2> HIDE DEF o
  <2>4. IsDone(o.status) => Verdict(o.status.reason) \in events[r]
    BY <2>1, <2>3 DEF AInv, CallsAnnounceFirst
  <2>5. \A k \in Runs : "Succeeded" \in events'[k] => Completed(jobRuns', k)
    BY <2>1, KeptAnnounced
  <2> QED
    BY <2>1, <2>4, <2>5
       DEF AInv, IInv, TypeOK, StoreType, VerdictIsAnnounced, Completed
<1> QED
  BY <1>1, <1>2, <1>3, <1>4, <1>6, <1>7, CallSteps DEF AInv, IInv

LEMMA NextAnnounces == AInv /\ [Next]_vars => AInv'
<1> SUFFICES ASSUME AInv, [Next]_vars PROVE AInv'
  OBVIOUS
<1>1. IInv' /\ JobRunsKept(jobRuns, jobRuns')
  BY NextCopies, NextKeeps DEF AInv, IInv
<1>2. CallsAnnounceFirst' /\ VerdictIsAnnounced'
  <2>1. CASE UNCHANGED vars
    BY <1>1, <2>1, KeptAnnounced DEF vars, apiVars, procVars
  <2>2. CASE Environment
    <3>1. UNCHANGED events /\ CallsAnnounceFirst'
      BY <2>2 DEF Environment, CreateRun, DeleteRun, ChangeTask, ChangeJobDef, FinishJobRun,
                  DropJobRun, SubmitJobRun, procVars, AInv, CallsAnnounceFirst
    <3>2. \A k \in Runs : \/ runs'[k] = runs[k] \/ runs'[k] = NoValue
                          \/ ~IsDone(runs'[k].status)
      <4>1. ASSUME NEW r \in Runs, NEW shape \in Shapes, CreateRun(r, shape)
            PROVE  \A k \in Runs : runs'[k] = runs[k] \/ ~IsDone(runs'[k].status)
        BY <4>1 DEF CreateRun, StoreRun, AInv, IInv, TypeOK, StoreType,
                    IsDone, FailureReasons, EmptyStatus
      <4>2. ASSUME NEW r \in Runs, DeleteRun(r)
            PROVE  \A k \in Runs : runs'[k] = runs[k] \/ runs'[k] = NoValue
        BY <4>2 DEF DeleteRun, StoreRun, AInv, IInv, TypeOK, StoreType
      <4>3. \/ \E r \in Runs, shape \in Shapes : CreateRun(r, shape)
            \/ \E r \in Runs : DeleteRun(r)
            \/ UNCHANGED runs
        BY <2>2 DEF Environment, ChangeTask, ChangeJobDef, FinishJobRun, DropJobRun,
                    SubmitJobRun, apiVars
      <4> QED
        BY <4>1, <4>2, <4>3
    <3>3. \A k \in Runs : "Succeeded" \in events'[k] => Completed(jobRuns', k)
      BY <1>1, <3>1, KeptAnnounced
    <3> QED
      BY <3>1, <3>2, <3>3 DEF AInv, VerdictIsAnnounced, Completed
  <2>3. CASE Informers
    <3>1. UNCHANGED <<runs, proc, events>>
      BY <2>3 DEF Informers, SyncRun, ResyncRun, SyncJobRun, ResyncJobRun, SyncTask,
                  SyncJobDefs, apiVars, procVars
    <3> QED
      BY <1>1, <3>1, KeptAnnounced
  <2>4. CASE Crash
    <3>1. CallsAnnounceFirst'
      BY <2>4, IdleType DEF Crash, Down, CallsAnnounceFirst
    <3> QED
      BY <1>1, <2>4, <3>1, KeptAnnounced DEF Crash, Down, apiVars
  <2>5. CASE Restart
    BY <1>1, <2>5, KeptAnnounced DEF Restart, apiVars
  <2> QED
    BY <1>1, <2>1, <2>2, <2>3, <2>4, <2>5, ReconcileAnnounces DEF Next
<1> QED
  BY <1>1, <1>2 DEF AInv

LEMMA InitAnnounces == Init => AInv
<1> SUFFICES ASSUME Init PROVE AInv
  OBVIOUS
<1>1. CallsAnnounceFirst /\ VerdictIsAnnounced
  BY IdleType DEF Init, CallsAnnounceFirst, VerdictIsAnnounced
<1> QED
  BY <1>1, InitCopies DEF AInv

\* A verdict is announced before it can be read, and success is announced only
\* when a JobRun of that Run has completed (codeenginetask.go:77-80).
THEOREM VerdictsAlwaysAnnounced == Spec => []VerdictIsAnnounced
<1>1. AInv => VerdictIsAnnounced
  BY DEF AInv
<1> QED
  BY <1>1, InitAnnounces, NextAnnounces, PTL DEF Spec

\* A call works on an open Run until it has announced what it is about to write
\* (codeenginetask.go:77-94).
THEOREM CallsAlwaysAnnounceFirst == Spec => []CallsAnnounceFirst
<1>1. AInv => CallsAnnounceFirst
  BY DEF AInv
<1> QED
  BY <1>1, InitAnnounces, NextAnnounces, PTL DEF Spec

=============================================================================
