--------------------------- MODULE FreshCacheProofs ---------------------------
(***************************************************************************)
(* What is on record is never overwritten as long as no key is reconciled  *)
(* from a stale cache: a call then works on the status that is stored, or  *)
(* on that of a Run which has been replaced by a new one meanwhile.        *)
(***************************************************************************)
EXTENDS NoForgottenRunProofs

CallIsCurrent(r) ==
  proc[r].pc # "idle" /\ runs[r] # NoValue =>
    runs[r].status \in {proc[r].orig, EmptyStatus}

\* A call keeps the spec and the JobRun it has read, and creates only when it has
\* read none.
CallKeepsRecord(r) ==
  /\ proc[r].pc # "idle" /\ proc[r].orig.taskSpec # NoValue =>
       proc[r].work.taskSpec = proc[r].orig.taskSpec
  /\ proc[r].pc # "idle" /\ proc[r].orig.jobRunName # NoValue =>
       proc[r].work.jobRunName = proc[r].orig.jobRunName
  /\ proc[r].pc = "create" => proc[r].orig.jobRunName = NoValue

Current(r) == CallIsCurrent(r) /\ CallKeepsRecord(r)

GInv == FInv /\ AInv /\ \A r \in Runs : Current(r)

USE NamesAssumption, ShapesAssumption

-----------------------------------------------------------------------------
(***************************************************************************)
(* Who writes a Run, and who creates a JobRun for it.                      *)
(***************************************************************************)
LEMMA WritersOfRun ==
  ASSUME IInv, [Next]_vars, NEW r \in Runs, runs'[r] # runs[r]
  PROVE  \/ \E shape \in Shapes : CreateRun(r, shape)
         \/ DeleteRun(r)
         \/ PutStatus(r)
<1> USE DEF apiVars
<1>1. ASSUME NEW k \in Runs, NEW o, StoreRun(k, o) PROVE k = r
  BY <1>1 DEF StoreRun, IInv, TypeOK, StoreType
<1>2. CASE UNCHANGED runs
  BY <1>2
<1>3. CASE Environment
  BY <1>1, <1>3 DEF Environment, CreateRun, DeleteRun, ChangeTask, ChangeJobDef,
                    FinishJobRun, DropJobRun, SubmitJobRun
<1>4. CASE Informers
  BY <1>4 DEF Informers, SyncRun, ResyncRun, SyncJobRun, ResyncJobRun, SyncTask, SyncJobDefs
<1>5. ASSUME NEW k \in Runs, Reconcile(k) PROVE PutStatus(r)
  <2>1. CASE PutStatus(k)
    BY <1>1, <2>1 DEF PutStatus
  <2>2. CASE ~PutStatus(k)
    BY <1>5, <2>2 DEF Reconcile, SkipRun, PanicOnRun, Down, FailOnTask, ReconcileRun,
                      CreateJobRun, CreateJobRunFails, CheckJobRun, CheckJobRunFails,
                      KeepStatus, PutStatusFails
  <2> QED
    BY <2>1, <2>2
<1>6. CASE Crash \/ Restart
  BY <1>6 DEF Crash, Down, Restart
<1> QED
  BY <1>2, <1>3, <1>4, <1>5, <1>6 DEF Next, vars

LEMMA CreatorsOfJobRun ==
  ASSUME IInv, [Next]_vars, NEW r \in Runs, NEW j \in JobRunIds,
         Unused(j), jobRuns'[j].owner = r
  PROVE  /\ proc[r].pc = "create"
         /\ \/ CreateJobRun(r, j)
            \/ /\ CreateJobRunFails(r)
               /\ "createLost" \in Hazards
<1> USE DEF ceVars
<1>0. jobRuns[j].owner = NoValue /\ ~jobRuns[j].exists
  BY DEF IInv, UnusedIsBlank, NoJobRun
<1>1. ASSUME NEW i \in JobRunIds, NEW owner, NEW job, AddJobRun(i, owner, job)
      PROVE  owner = r /\ i = j
  BY <1>0, <1>1 DEF AddJobRun, IInv, TypeOK, StoreType
<1>2. jobRuns' # jobRuns
  BY <1>0
<1>3. CASE Environment
  <2>1. ASSUME NEW i \in JobRunIds, NEW outcome \in Outcomes, FinishJobRun(i, outcome)
        PROVE  FALSE
    BY <1>0, <2>1 DEF FinishJobRun, IInv, TypeOK, StoreType, JobRunRecords
  <2>2. ASSUME NEW i \in JobRunIds, DropJobRun(i) PROVE FALSE
    BY <1>0, <2>2 DEF DropJobRun, IInv, TypeOK, StoreType, JobRunRecords
  <2>3. ASSUME NEW i \in JobRunIds, NEW job \in JobNames, SubmitJobRun(i, job) PROVE FALSE
    BY <1>1, <2>3 DEF SubmitJobRun
  <2> QED
    BY <1>2, <1>3, <2>1, <2>2, <2>3 DEF Environment, CreateRun, DeleteRun, ChangeTask,
                                        ChangeJobDef
<1>4. CASE Informers
  BY <1>2, <1>4 DEF Informers, SyncRun, ResyncRun, SyncJobRun, ResyncJobRun, SyncTask,
                    SyncJobDefs
<1>5. ASSUME NEW k \in Runs, Reconcile(k)
      PROVE  \/ CreateJobRun(r, j)
             \/ /\ CreateJobRunFails(r)
                /\ "createLost" \in Hazards
  <2>1. ASSUME NEW i \in JobRunIds, CreateJobRun(k, i) PROVE CreateJobRun(r, j)
    <3>1. k = r /\ i = j
      BY <1>1, <2>1 DEF CreateJobRun
    <3> QED
      BY <2>1, <3>1
  <2>2. CASE CreateJobRunFails(k)
    <3>1. /\ "createLost" \in Hazards
          /\ \E i \in JobRunIds : AddJobRun(i, k, proc[k].work.taskSpec)
      BY <1>2, <2>2 DEF CreateJobRunFails
    <3>2. k = r
      BY <1>1, <3>1
    <3> QED
      BY <2>2, <3>1, <3>2
  <2> QED
    BY <1>2, <1>5, <2>1, <2>2
       DEF Reconcile, SkipRun, PanicOnRun, Down, FailOnTask, ReconcileRun,
           CheckJobRun, CheckJobRunFails, KeepStatus, PutStatus, PutStatusFails
<1>6. CASE Crash \/ Restart
  BY <1>2, <1>6 DEF Crash, Down, Restart
<1>7. CreateJobRun(r, j) \/ CreateJobRunFails(r) => proc[r].pc = "create"
  BY DEF CreateJobRun, CreateJobRunFails
<1> QED
  BY <1>2, <1>3, <1>4, <1>5, <1>6, <1>7 DEF Next, vars

-----------------------------------------------------------------------------
(***************************************************************************)
(* Current is kept by every step.                                          *)
(***************************************************************************)
LEMMA IdleIsCurrent ==
  ASSUME NEW r \in Runs, proc'[r].pc = "idle"
  PROVE  Current(r)'
BY DEF Current, CallIsCurrent, CallKeepsRecord

LEMMA StartedIsCurrent ==
  ASSUME FInv, "staleRun" \notin Hazards, NEW r \in Runs,
         FailOnTask(r, runCache[r]) \/ ReconcileRun(r, runCache[r])
  PROVE  Current(r)'
<1> DEFINE st == runCache[r].status
           job == getCodeEngineTask(runCache[r].shape)
           v == initializeRun(st)
           w == storeCodeEngineTaskSpec(v, job)
<1>1. /\ TakesOpen(r, runCache[r]) /\ up /\ watch[r] = <<>> /\ UNCHANGED runs
  BY DEF FailOnTask, ReconcileRun, TakesOpen, Takes, Ready, apiVars
<1>2. runs[r] = runCache[r] /\ st \in Statuses
  BY <1>1, TakesOpenType DEF FInv, IInv, Tended, CacheCatchesUp, LastSeen
<1>3. v \in Statuses /\ v.taskSpec = st.taskSpec /\ v.jobRunName = st.jobRunName
  BY <1>2, InitializeRunType DEF initializeRun, Mark, Statuses
<1>4. /\ w.jobRunName = st.jobRunName
      /\ st.taskSpec # NoValue => w.taskSpec = st.taskSpec
  BY <1>3 DEF storeCodeEngineTaskSpec, Statuses
<1>5. \/ \E x, result : Return(r, st, x, result) /\ result \in {"err", "requeue"}
                       /\ (result = "requeue" => x = w)
      \/ GoOn(r, "check", st, w)
      \/ GoOn(r, "create", st, w) /\ w.jobRunName = NoValue
  BY DEF FailOnTask, ReconcileRun, runCodeEngineJob
<1> HIDE DEF st, v, w
<1>6. ASSUME NEW x, NEW result, Return(r, st, x, result), result \in {"err", "requeue"}
      PROVE  /\ proc'[r].pc = "put" /\ proc'[r].orig = st
             /\ proc'[r].work.taskSpec = st.taskSpec
             /\ proc'[r].work.jobRunName = st.jobRunName
  <2>1. proc'[r] = [pc |-> "put", orig |-> st, work |-> Mark(st, x.reason), result |-> result]
    BY <1>6 DEF Return, FInv, IInv, TypeOK, ProcessType
  <2> QED
    BY <1>2, <2>1 DEF Mark, Statuses
<1>7. ASSUME NEW pc, GoOn(r, pc, st, w)
      PROVE  proc'[r].pc = pc /\ proc'[r].orig = st /\ proc'[r].work = w
  BY <1>7 DEF GoOn, FInv, IInv, TypeOK, ProcessType
<1>8. proc'[r].orig = st
  BY <1>5, <1>6, <1>7
<1>9. CallKeepsRecord(r)'
  BY <1>4, <1>5, <1>6, <1>7 DEF CallKeepsRecord
<1> QED
  BY <1>1, <1>2, <1>8, <1>9 DEF Current, CallIsCurrent, st

LEMMA ContinuedIsCurrent ==
  ASSUME IInv, NEW r \in Runs, Current(r),
         \/ \E j \in JobRunIds : CreateJobRun(r, j)
         \/ CreateJobRunFails(r) \/ CheckJobRun(r) \/ CheckJobRunFails(r)
  PROVE  Current(r)'
<1> DEFINE orig == proc[r].orig
           work == proc[r].work
           Same(x, st) == x.taskSpec = st.taskSpec /\ x.jobRunName = st.jobRunName
<1>1. /\ UNCHANGED runs /\ proc[r].pc # "idle"
      /\ orig \in Statuses /\ work \in Statuses
  BY DEF CreateJobRun, CreateJobRunFails, CheckJobRun, CheckJobRunFails, apiVars,
         IInv, TypeOK, ProcessType, Calls
<1>2. CASE \E j \in JobRunIds : CreateJobRun(r, j)
  <2>1. /\ proc[r].pc = "create"
        /\ proc'[r].pc = "check" /\ proc'[r].orig = orig
        /\ proc'[r].work.taskSpec = work.taskSpec
    <3>1. PICK j \in JobRunIds : CreateJobRun(r, j)
      BY <1>2
    <3> QED
      BY <1>1, <3>1 DEF CreateJobRun, GoOn, Statuses, IInv, TypeOK, ProcessType
  <2>2. orig.jobRunName = NoValue
    BY <2>1 DEF Current, CallKeepsRecord
  <2> QED
    BY <1>1, <2>1, <2>2 DEF Current, CallIsCurrent, CallKeepsRecord
<1>3. CASE CreateJobRunFails(r) \/ CheckJobRun(r) \/ CheckJobRunFails(r)
  <2>1. \A reason \in Reasons :
          Mark(work, reason) \in Statuses /\ Same(Mark(work, reason), work)
    BY <1>1 DEF Mark, Statuses
  <2>2. /\ checkCodeEngineJobRunStatus(work) \in Statuses
        /\ Same(checkCodeEngineJobRunStatus(work), work)
    BY <1>1, <2>1 DEF checkCodeEngineJobRunStatus, Reasons, FailureReasons
  <2>3. {"FailedToStartJobRun", "FailedToGetJobRunStatus"} \subseteq Reasons
    BY DEF Reasons, FailureReasons
  <2>4. PICK w \in Statuses : Same(w, work) /\ \E result : Return(r, orig, w, result)
    BY <1>3, <2>1, <2>2, <2>3 DEF CreateJobRunFails, CheckJobRun, CheckJobRunFails
  <2>5. PICK result : Return(r, orig, w, result)
    BY <2>4
  <2>6. proc'[r] = [pc |-> "put", orig |-> orig,
                    work |-> IF result = "ok" THEN w ELSE Mark(orig, w.reason),
                    result |-> result]
    BY <2>5 DEF Return, IInv, TypeOK, ProcessType
  <2>7. Same(proc'[r].work, work) \/ Same(proc'[r].work, orig)
    BY <1>1, <2>4, <2>6 DEF Mark, Statuses
  <2> QED
    BY <1>1, <2>6, <2>7 DEF Current, CallIsCurrent, CallKeepsRecord
<1> QED
  BY <1>2, <1>3

LEMMA ReconcileCurrent ==
  ASSUME FInv, "staleRun" \notin Hazards, NEW r \in Runs, NEW k \in Runs, Current(k),
         Reconcile(r)
  PROVE  Current(k)'
<1>1. CASE Down
  BY <1>1, IdleType, IdleIsCurrent DEF Down
<1>2. CASE k # r /\ ~Down
  BY <1>2, OthersOfCall
     DEF FInv, Bystander, Current, CallIsCurrent, CallKeepsRecord
<1>3. CASE k = r /\ ~Down
  <2>1. CASE SkipRun(r, runCache[r])
    BY <1>3, <2>1, IdleIsCurrent DEF SkipRun, Takes, Ready
  <2>2. CASE KeepStatus(r) \/ PutStatus(r) \/ PutStatusFails(r)
    BY <1>3, <2>2, IdleType, IdleIsCurrent
       DEF KeepStatus, PutStatus, PutStatusFails, Finish, FInv, IInv, TypeOK, ProcessType
  <2> QED
    BY <1>3, <2>1, <2>2, StartedIsCurrent, ContinuedIsCurrent
       DEF Reconcile, PanicOnRun, FInv
<1> QED
  BY <1>1, <1>2, <1>3

LEMMA EnvironmentCurrent ==
  ASSUME FInv, Environment, [Next]_vars, NEW k \in Runs, Current(k)
  PROVE  Current(k)'
<1>1. UNCHANGED proc
  BY DEF Environment, CreateRun, DeleteRun, ChangeTask, ChangeJobDef, FinishJobRun,
         DropJobRun, SubmitJobRun, procVars
<1>2. runs'[k] = runs[k] \/ runs'[k] = NoValue \/ runs'[k].status = EmptyStatus
  <2>1. ASSUME NEW r \in Runs, NEW o, StoreRun(r, o), o = NoValue \/ o.status = EmptyStatus
        PROVE  runs'[k] = runs[k] \/ runs'[k] = NoValue \/ runs'[k].status = EmptyStatus
    BY <2>1 DEF StoreRun, FInv, IInv, TypeOK, StoreType
  <2> QED
    BY <2>1 DEF Environment, CreateRun, DeleteRun, ChangeTask, ChangeJobDef, FinishJobRun,
                DropJobRun, SubmitJobRun, apiVars
<1> QED
  BY <1>1, <1>2 DEF Current, CallIsCurrent, CallKeepsRecord

LEMMA InitCurrent == Init => GInv
<1>1. Init => \A r \in Runs : Current(r)
  BY IdleType DEF Init, Current, CallIsCurrent, CallKeepsRecord
<1> QED
  BY <1>1, InitTends, InitAnnounces DEF GInv

LEMMA NextCurrent == "staleRun" \notin Hazards /\ GInv /\ [Next]_vars => GInv'
<1> SUFFICES ASSUME "staleRun" \notin Hazards, GInv, [Next]_vars PROVE GInv'
  OBVIOUS
<1>1. FInv' /\ AInv'
  BY NextTends, NextAnnounces DEF GInv
<1>2. ASSUME NEW k \in Runs PROVE Current(k)'
  <2>1. Current(k)
    BY DEF GInv
  <2>2. CASE Environment
    BY <2>1, <2>2, EnvironmentCurrent DEF GInv
  <2>3. ASSUME NEW r \in Runs, Reconcile(r) PROVE Current(k)'
    BY <2>1, <2>3, ReconcileCurrent DEF GInv
  <2>4. CASE Crash
    BY <2>4, IdleType, IdleIsCurrent DEF Crash, Down
  <2>5. CASE UNCHANGED vars \/ Informers \/ Restart
    <3>1. UNCHANGED <<runs, proc>>
      BY <2>5 DEF vars, Informers, SyncRun, ResyncRun, SyncJobRun, ResyncJobRun, SyncTask,
                  SyncJobDefs, Restart, apiVars, procVars
    <3> QED
      BY <2>1, <3>1 DEF Current, CallIsCurrent, CallKeepsRecord
  <2> QED
    BY <2>2, <2>3, <2>4, <2>5 DEF Next
<1> QED
  BY <1>1, <1>2 DEF GInv

-----------------------------------------------------------------------------
(***************************************************************************)
(* The theorems.                                                           *)
(***************************************************************************)
\* A write meets the status that its call has read, or that of a new Run.
LEMMA WriteMeetsWhatWasRead ==
  ASSUME GInv, [Next]_vars, NEW r \in Runs, Survives(r), runs'[r] # runs[r]
  PROVE  /\ runs'[r].status = proc[r].work
         /\ runs[r].status \in {proc[r].orig, EmptyStatus}
         /\ ~IsDone(proc[r].orig)
         /\ proc[r].pc = "put"
<1>1. PutStatus(r)
  BY WritersOfRun
     DEF GInv, FInv, Survives, CreateRun, DeleteRun, StoreRun, IInv, TypeOK, StoreType
<1>2. runs'[r].status = proc[r].work
  BY <1>1 DEF PutStatus, StoreRun, GInv, FInv, IInv, TypeOK, StoreType, RunObjects
<1>3. runs[r].status \in {proc[r].orig, EmptyStatus}
  BY <1>1 DEF PutStatus, GInv, Current, CallIsCurrent
<1>4. ~IsDone(proc[r].orig)
  BY <1>1 DEF PutStatus, GInv, AInv, CallsAnnounceFirst
<1> QED
  BY <1>1, <1>2, <1>3, <1>4 DEF PutStatus

\* With a fresh Run cache a verdict is final (codeenginetask.go:86).
THEOREM VerdictsAreFinal == "staleRun" \notin Hazards => (Spec => TerminalIsFinal)
<1> SUFFICES ASSUME "staleRun" \notin Hazards PROVE Spec => TerminalIsFinal
  OBVIOUS
<1>1. GInv /\ [Next]_vars =>
        [\A r \in Runs : Survives(r) /\ IsDone(runs[r].status) =>
           runs'[r].status = runs[r].status]_vars
  <2> SUFFICES ASSUME GInv, [Next]_vars, NEW r \in Runs, Survives(r), IsDone(runs[r].status)
               PROVE  runs'[r].status = runs[r].status
    OBVIOUS
  <2>1. ~IsDone(EmptyStatus)
    BY DEF IsDone, EmptyStatus, FailureReasons
  <2> QED
    BY <2>1, WriteMeetsWhatWasRead
<1> QED
  BY <1>1, InitCurrent, NextCurrent, PTL DEF Spec, TerminalIsFinal

\* With a fresh Run cache the stored spec is the first one
\* (codeenginetask.go:222).
THEOREM SpecsAreStoredOnce == "staleRun" \notin Hazards => (Spec => SpecStoredOnce)
<1> SUFFICES ASSUME "staleRun" \notin Hazards PROVE Spec => SpecStoredOnce
  OBVIOUS
<1>1. GInv /\ [Next]_vars =>
        [\A r \in Runs : Survives(r) /\ runs[r].status.taskSpec # NoValue =>
           runs'[r].status.taskSpec = runs[r].status.taskSpec]_vars
  <2> SUFFICES ASSUME GInv, [Next]_vars, NEW r \in Runs, Survives(r),
                      runs[r].status.taskSpec # NoValue
               PROVE  runs'[r].status.taskSpec = runs[r].status.taskSpec
    OBVIOUS
  <2>1. CASE runs'[r] = runs[r]
    BY <2>1
  <2>2. CASE runs'[r] # runs[r]
    <3>1. EmptyStatus.taskSpec = NoValue
      BY DEF EmptyStatus
    <3>2. runs'[r].status = proc[r].work /\ runs[r].status = proc[r].orig /\ proc[r].pc = "put"
      BY <2>2, <3>1, WriteMeetsWhatWasRead
    <3> QED
      BY <3>2 DEF GInv, Current, CallKeepsRecord
  <2> QED
    BY <2>1, <2>2
<1> QED
  BY <1>1, InitCurrent, NextCurrent, PTL DEF Spec, SpecStoredOnce

\* With a fresh Run cache a recorded JobRun is never lost from the Run, not even by
\* the call that fails the Run because its task is gone (codeenginetask.go:162).
THEOREM JobRunsStayOnRecord == "staleRun" \notin Hazards => (Spec => JobRunStaysOnRecord)
<1> SUFFICES ASSUME "staleRun" \notin Hazards PROVE Spec => JobRunStaysOnRecord
  OBVIOUS
<1>1. GInv /\ [Next]_vars =>
        [\A r \in Runs : Survives(r) /\ runs[r].status.jobRunName # NoValue =>
           runs'[r].status.jobRunName = runs[r].status.jobRunName]_vars
  <2> SUFFICES ASSUME GInv, [Next]_vars, NEW r \in Runs, Survives(r),
                      runs[r].status.jobRunName # NoValue
               PROVE  runs'[r].status.jobRunName = runs[r].status.jobRunName
    OBVIOUS
  <2>1. CASE runs'[r] = runs[r]
    BY <2>1
  <2>2. CASE runs'[r] # runs[r]
    <3>1. EmptyStatus.jobRunName = NoValue
      BY DEF EmptyStatus
    <3>2. runs'[r].status = proc[r].work /\ runs[r].status = proc[r].orig /\ proc[r].pc = "put"
      BY <2>2, <3>1, WriteMeetsWhatWasRead
    <3> QED
      BY <3>2 DEF GInv, Current, CallKeepsRecord
  <2> QED
    BY <2>1, <2>2
<1> QED
  BY <1>1, InitCurrent, NextCurrent, PTL DEF Spec, JobRunStaysOnRecord

\* With a fresh Run cache no JobRun is created beside a recorded one
\* (codeenginetask.go:235).
THEOREM CreatesOnlyWhenUnrecorded ==
  "staleRun" \notin Hazards => (Spec => CreateOnlyWhenUnrecorded)
<1> SUFFICES ASSUME "staleRun" \notin Hazards PROVE Spec => CreateOnlyWhenUnrecorded
  OBVIOUS
<1>1. GInv /\ [Next]_vars =>
        [\A r \in Runs, j \in JobRunIds :
           Unused(j) /\ jobRuns'[j].owner = r /\ runs[r] # NoValue =>
             runs[r].status.jobRunName = NoValue]_vars
  <2> SUFFICES ASSUME GInv, [Next]_vars, NEW r \in Runs, NEW j \in JobRunIds,
                      Unused(j), jobRuns'[j].owner = r, runs[r] # NoValue
               PROVE  runs[r].status.jobRunName = NoValue
    OBVIOUS
  <2>1. proc[r].pc = "create"
    BY CreatorsOfJobRun DEF GInv, FInv
  <2>2. EmptyStatus.jobRunName = NoValue
    BY DEF EmptyStatus
  <2> QED
    BY <2>1, <2>2 DEF GInv, Current, CallIsCurrent, CallKeepsRecord
<1> QED
  BY <1>1, InitCurrent, NextCurrent, PTL DEF Spec, CreateOnlyWhenUnrecorded

=============================================================================
