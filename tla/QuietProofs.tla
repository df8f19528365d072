----------------------------- MODULE QuietProofs -----------------------------
(***************************************************************************)
(* What holds in a quieter environment, for all constants of RunReconciler.*)
(* Every theorem names the hazards it excludes, and no more than it needs: *)
(* first that no Run is deleted, then that no task is deleted either, then *)
(* that no write of a status is lost, last that no record of a JobRun is.  *)
(***************************************************************************)
EXTENDS FreshCacheProofs

USE NamesAssumption, ShapesAssumption

-----------------------------------------------------------------------------
(***************************************************************************)
(* The versions of a Run that a call may still come to read.               *)
(***************************************************************************)
Seen(r) == {runCache[r]} \cup {watch[r][i] : i \in DOMAIN watch[r]}

LEMMA AppendAdds ==
  ASSUME NEW S, NEW s \in Seq(S), NEW o \in S, NEW i \in DOMAIN Append(s, o)
  PROVE  Append(s, o)[i] = o \/ \E n \in DOMAIN s : Append(s, o)[i] = s[n]
OBVIOUS

LEMMA TailAddsNothing ==
  ASSUME NEW S, NEW s \in Seq(S), s # <<>>
  PROVE  /\ \E n \in DOMAIN s : Head(s) = s[n]
         /\ \A i \in DOMAIN Tail(s) : \E n \in DOMAIN s : Tail(s)[i] = s[n]
OBVIOUS

LEMMA StoreRunShows ==
  ASSUME TypeOK, NEW k \in Runs, NEW o \in RunObjects \cup {NoValue}, StoreRun(k, o),
         UNCHANGED runCache, NEW r \in Runs
  PROVE  Seen(r)' \subseteq Seen(r) \cup {runs'[r]}
<1>1. watch[k] \in Seq(RunObjects \cup {NoValue}) /\ runs'[k] = o
  BY DEF StoreRun, TypeOK, StoreType, CacheType
<1>2. CASE watch'[r] = watch[r]
  BY <1>2 DEF Seen
<1>3. CASE watch'[r] # watch[r]
  <2>1. k = r /\ watch'[r] = Append(watch[r], o)
    BY <1>3 DEF StoreRun, TypeOK, CacheType
  <2> QED
    BY <1>1, <2>1, AppendAdds DEF Seen
<1> QED
  BY <1>2, <1>3

LEMMA SyncRunShows ==
  ASSUME TypeOK, NEW k \in Runs, SyncRun(k), NEW r \in Runs
  PROVE  Seen(r)' \subseteq Seen(r)
<1>1. /\ watch[k] \in Seq(RunObjects \cup {NoValue}) /\ watch[k] # <<>>
      /\ watch' = [watch EXCEPT ![k] = Tail(watch[k])]
      /\ runCache' = [runCache EXCEPT ![k] = Head(watch[k])]
  BY DEF SyncRun, TypeOK, CacheType
<1>2. CASE k = r
  <2>1. watch'[r] = Tail(watch[r]) /\ runCache'[r] = Head(watch[r])
    BY <1>1, <1>2 DEF TypeOK, CacheType
  <2> QED
    BY <1>1, <1>2, <2>1, TailAddsNothing DEF Seen
<1>3. CASE k # r
  <2>1. watch'[r] = watch[r] /\ runCache'[r] = runCache[r]
    BY <1>1, <1>3 DEF TypeOK, CacheType
  <2> QED
    BY <2>1 DEF Seen
<1> QED
  BY <1>2, <1>3

\* Whatever can be read of a Run has been stored.
LEMMA SeenWasStored ==
  ASSUME TypeOK, [Next]_vars, NEW r \in Runs
  PROVE  Seen(r)' \subseteq Seen(r) \cup {runs'[r], NoValue}
<1> USE DEF apiVars, cacheVars, listVars, procVars
<1>1. CASE UNCHANGED <<watch, runCache>>
  BY <1>1 DEF Seen
<1>2. ASSUME NEW k \in Runs, NEW shape \in Shapes, CreateRun(k, shape)
      PROVE  Seen(r)' \subseteq Seen(r) \cup {runs'[r]}
  <2>1. [shape |-> shape, status |-> EmptyStatus] \in RunObjects
    BY DEF RunObjects, EmptyStatus, Statuses, Reasons
  <2> QED
    BY <1>2, <2>1, StoreRunShows DEF CreateRun
<1>3. ASSUME NEW k \in Runs, DeleteRun(k)
      PROVE  Seen(r)' \subseteq Seen(r) \cup {runs'[r]}
  BY <1>3, StoreRunShows DEF DeleteRun
<1>4. ASSUME NEW k \in Runs, PutStatus(k)
      PROVE  Seen(r)' \subseteq Seen(r) \cup {runs'[r]}
  <2>1. [runs[k] EXCEPT !.status = proc[k].work] \in RunObjects
    BY <1>4 DEF PutStatus, TypeOK, StoreType, ProcessType, Calls, RunObjects
  <2> QED
    BY <1>4, <2>1, StoreRunShows DEF PutStatus
<1>5. CASE Down
  BY <1>5 DEF Down, Seen
<1>6. CASE Restart
  BY <1>6 DEF Restart, Seen
<1>7. CASE Environment
  BY <1>1, <1>2, <1>3, <1>7
     DEF Environment, ChangeTask, ChangeJobDef, FinishJobRun, DropJobRun, SubmitJobRun
<1>8. CASE Informers
  <2>1. CASE \E k \in Runs : SyncRun(k)
    BY <2>1, SyncRunShows
  <2>2. CASE ~\E k \in Runs : SyncRun(k)
    BY <1>1, <1>8, <2>2
       DEF Informers, ResyncRun, SyncJobRun, ResyncJobRun, SyncTask, SyncJobDefs
  <2> QED
    BY <2>1, <2>2
<1>9. ASSUME NEW k \in Runs, Reconcile(k)
      PROVE  Seen(r)' \subseteq Seen(r) \cup {runs'[r], NoValue}
  <2>1. CASE PutStatus(k)
    BY <1>4, <2>1
  <2>2. CASE Down
    BY <1>5, <2>2
  <2>3. CASE ~PutStatus(k) /\ ~Down
    BY <1>1, <1>9, <2>3
       DEF Reconcile, SkipRun, PanicOnRun, FailOnTask, ReconcileRun, CreateJobRun,
           CreateJobRunFails, CheckJobRun, CheckJobRunFails, KeepStatus, PutStatusFails
  <2> QED
    BY <2>1, <2>2, <2>3
<1> QED
  BY <1>1, <1>5, <1>6, <1>7, <1>8, <1>9 DEF Next, Crash, vars

-----------------------------------------------------------------------------
(***************************************************************************)
(* What a step does to one Run, and what a call has come to.               *)
(***************************************************************************)
LEMMA StepsOfRun ==
  ASSUME IInv, [Next]_vars, NEW r \in Runs
  PROVE  \/ UNCHANGED <<runs[r], proc[r], events[r]>>
         \/ \E shape \in Shapes : CreateRun(r, shape)
         \/ DeleteRun(r)
         \/ Reconcile(r)
         \/ Down
<1> USE DEF apiVars, cacheVars, procVars
<1>1. CASE Environment
  <2>1. UNCHANGED <<proc, events>>
    BY <1>1 DEF Environment, CreateRun, DeleteRun, ChangeTask, ChangeJobDef, FinishJobRun,
                DropJobRun, SubmitJobRun
  <2>2. CASE runs'[r] = runs[r]
    BY <2>1, <2>2
  <2>3. CASE runs'[r] # runs[r]
    BY <2>3, WritersOfRun DEF Reconcile
  <2> QED
    BY <2>2, <2>3
<1>2. CASE Informers \/ Restart \/ UNCHANGED vars
  BY <1>2 DEF Informers, SyncRun, ResyncRun, SyncJobRun, ResyncJobRun, SyncTask,
              SyncJobDefs, Restart, vars
<1>3. ASSUME NEW k \in Runs, k # r, Reconcile(k), ~Down
      PROVE  UNCHANGED <<runs[r], proc[r], events[r]>>
  <2>1. UNCHANGED <<runs[r], proc[r]>>
    BY <1>3, OthersOfCall DEF Bystander
  <2>2. ASSUME NEW orig, NEW w, NEW result, Return(k, orig, w, result)
        PROVE  UNCHANGED events[r]
    BY <1>3, <2>2 DEF Return, IInv, TypeOK, ProcessType
  <2>3. UNCHANGED events[r]
    BY <1>3, <2>2
       DEF Reconcile, SkipRun, PanicOnRun, FailOnTask, ReconcileRun, runCodeEngineJob, GoOn,
           CreateJobRun, CreateJobRunFails, CheckJobRun, CheckJobRunFails, KeepStatus,
           PutStatus, PutStatusFails
  <2> QED
    BY <2>1, <2>3
<1> QED
  BY <1>1, <1>2, <1>3 DEF Next, Crash

\* The events of a step are those of the status that the call returns with.
Announces(r) ==
  events'[r] = events[r] \cup
    (IF proc'[r].pc = "put" THEN Announced(proc'[r].orig, proc'[r].work) ELSE {})

LEMMA AfterGoOn ==
  ASSUME TypeOK, NEW r \in Runs, NEW pc, NEW orig, NEW w, GoOn(r, pc, orig, w)
  PROVE  /\ proc'[r].pc = pc /\ proc'[r].orig = orig /\ proc'[r].work = w
         /\ pc # "put" => Announces(r)
BY DEF GoOn, Announces, TypeOK, ProcessType

LEMMA AfterReturn ==
  ASSUME TypeOK, NEW r \in Runs, NEW orig \in Statuses, NEW w \in Statuses, NEW result,
         Return(r, orig, w, result)
  PROVE  /\ proc'[r].pc = "put" /\ proc'[r].orig = orig
         /\ proc'[r].work = IF result = "ok" THEN w ELSE Mark(orig, w.reason)
         /\ proc'[r].work.reason = w.reason
         /\ proc'[r].work.jobRunName = IF result = "ok" THEN w.jobRunName ELSE orig.jobRunName
         /\ Announces(r)
<1>1. /\ proc'[r].pc = "put" /\ proc'[r].orig = orig
      /\ proc'[r].work = IF result = "ok" THEN w ELSE Mark(orig, w.reason)
  BY DEF Return, TypeOK, ProcessType
<1>2. /\ proc'[r].work.reason = w.reason
      /\ proc'[r].work.jobRunName = IF result = "ok" THEN w.jobRunName ELSE orig.jobRunName
  BY <1>1 DEF Mark, Statuses
<1>3. events'[r] = events[r] \cup Announced(orig, w)
  BY DEF Return, TypeOK, ProcessType
<1>4. Announced(orig, w) = Announced(orig, proc'[r].work)
  BY <1>2 DEF Announced, IsDone
<1> QED
  BY <1>1, <1>2, <1>3, <1>4 DEF Announces

\* A call takes up an open Run of this controller. It fails the Run for want of
\* its task or, with no JobRun on record, for want of its JobDefinition.
Begins(r) == FailOnTask(r, runCache[r]) \/ ReconcileRun(r, runCache[r])

LEMMA BegunCall ==
  ASSUME TypeOK, NEW r \in Runs, Begins(r)
  PROVE  /\ up /\ proc[r].pc = "idle" /\ ("staleRun" \notin Hazards => watch[r] = <<>>)
         /\ runCache[r] # NoValue /\ verifyCodeEngineSpec(runCache[r].shape)
         /\ ~IsDone(runCache[r].status)
         /\ proc'[r].orig = runCache[r].status
         /\ proc'[r].work.jobRunName = runCache[r].status.jobRunName
         /\ proc'[r].pc \in {"create", "check", "put"}
         /\ proc'[r].pc = "create" => runCache[r].status.jobRunName = NoValue
         /\ proc'[r].pc \in {"create", "check"} =>
              ~IsDone(proc'[r].work) /\ getCodeEngineTask(runCache[r].shape) # NoValue
         /\ IsDone(proc'[r].work) =>
              \/ proc'[r].work.jobRunName = NoValue
              \/ getCodeEngineTask(runCache[r].shape) = NoValue
         /\ Announces(r)
<1> DEFINE shape == runCache[r].shape
           st == runCache[r].status
           job == getCodeEngineTask(shape)
           v == initializeRun(st)
           w == storeCodeEngineTaskSpec(v, job)
<1>1. /\ TakesOpen(r, runCache[r]) /\ up /\ proc[r].pc = "idle"
      /\ "staleRun" \notin Hazards => watch[r] = <<>>
      /\ runCache[r] # NoValue /\ verifyCodeEngineSpec(shape) /\ ~IsDone(st)
  BY DEF Begins, FailOnTask, ReconcileRun, TakesOpen, Takes, Ready
<1>2. st \in Statuses /\ shape \in Shapes
  BY <1>1, TakesOpenType
<1>3. v \in Statuses /\ v.jobRunName = st.jobRunName /\ ~IsDone(v)
  BY <1>1, <1>2, InitializeRunType DEF initializeRun, Mark, Statuses, IsDone, FailureReasons
<1>4. CASE FailOnTask(r, runCache[r])
  <2> DEFINE x == IF job = NoValue THEN Mark(v, "CouldntGetCodeEngineTask") ELSE v
  <2>1. Return(r, st, x, "err")
    BY <1>4 DEF FailOnTask
  <2>2. x \in Statuses /\ (IsDone(x) => job = NoValue)
    BY <1>3, MarkType DEF Reasons, FailureReasons
  <2> HIDE DEF x, v, st, job, shape
  <2>3. /\ proc'[r].pc = "put" /\ proc'[r].orig = st
        /\ proc'[r].work.reason = x.reason
        /\ proc'[r].work.jobRunName = st.jobRunName
        /\ Announces(r)
    BY <1>2, <2>1, <2>2, AfterReturn
  <2>4. IsDone(proc'[r].work) => job = NoValue
    BY <2>2, <2>3 DEF IsDone
  <2> QED
    BY <1>1, <2>3, <2>4 DEF st, job, shape
<1>5. CASE ReconcileRun(r, runCache[r])
  <2> DEFINE failed == Mark(w, "FailedToStartJobRun")
  <2>1. job \notin {NoValue, "malformed"} /\ runCodeEngineJob(r, st, w)
    BY <1>5 DEF ReconcileRun
  <2>2. job \in JobNames
    BY <1>1, <1>2, <2>1, GetTaskType DEF TypeOK
  <2>3. w \in Statuses /\ w.jobRunName = st.jobRunName /\ w.reason = v.reason
    BY <1>3, <2>2, StoreSpecType
  <2>4. ~IsDone(w)
    BY <1>3, <2>3 DEF IsDone
  <2>5. failed \in Statuses /\ failed.jobRunName = st.jobRunName
    BY <2>3, MarkType DEF Mark, Statuses, Reasons, FailureReasons
  <2> HIDE DEF w, v, st, job, shape
  <2>6. \/ Return(r, st, w, "requeue")
        \/ Return(r, st, failed, "err") /\ w.jobRunName = NoValue
        \/ GoOn(r, "create", st, w) /\ w.jobRunName = NoValue
        \/ GoOn(r, "check", st, w)
    BY <2>1 DEF runCodeEngineJob
  <2> HIDE DEF failed
  <2>7. CASE Return(r, st, w, "requeue")
    <3>1. /\ proc'[r].pc = "put" /\ proc'[r].orig = st
          /\ proc'[r].work.reason = w.reason
          /\ proc'[r].work.jobRunName = st.jobRunName
          /\ Announces(r)
      BY <1>2, <2>3, <2>7, AfterReturn
    <3>2. ~IsDone(proc'[r].work)
      BY <2>4, <3>1 DEF IsDone
    <3> QED
      BY <1>1, <3>1, <3>2 DEF st, job, shape
  <2>8. CASE Return(r, st, failed, "err") /\ w.jobRunName = NoValue
    <3>1. /\ proc'[r].pc = "put" /\ proc'[r].orig = st
          /\ proc'[r].work.jobRunName = st.jobRunName
          /\ Announces(r)
      BY <1>2, <2>5, <2>8, AfterReturn
    <3> QED
      BY <1>1, <2>3, <2>8, <3>1 DEF st, job, shape
  <2>9. ASSUME NEW pc \in {"create", "check"}, GoOn(r, pc, st, w),
               pc = "create" => w.jobRunName = NoValue
        PROVE  /\ proc'[r].pc = pc /\ proc'[r].orig = st /\ proc'[r].work = w
               /\ Announces(r)
    BY <2>9, AfterGoOn
  <2>10. CASE \/ GoOn(r, "create", st, w) /\ w.jobRunName = NoValue
              \/ GoOn(r, "check", st, w)
    BY <1>1, <2>1, <2>3, <2>4, <2>9, <2>10 DEF st, job, shape
  <2> QED
    BY <2>6, <2>7, <2>8, <2>10
<1> QED
  BY <1>4, <1>5 DEF Begins

\* A call goes on. A create that succeeds is on record in the call; everything
\* else returns, and fails the Run only with no JobRun on record.
Continues(r) == CreateJobRunFails(r) \/ CheckJobRun(r) \/ CheckJobRunFails(r)

LEMMA CreatedCall ==
  ASSUME TypeOK, NEW r \in Runs, NEW j \in JobRunIds, CreateJobRun(r, j)
  PROVE  /\ proc[r].pc = "create" /\ proc'[r].pc = "check"
         /\ proc'[r].orig = proc[r].orig
         /\ proc'[r].work.jobRunName = j /\ ~IsDone(proc'[r].work)
         /\ Announces(r)
         /\ Unused(j)
         /\ jobRuns' = [jobRuns EXCEPT ![j] = [owner |-> r, job |-> proc[r].work.taskSpec,
                                               outcome |-> "Active", exists |-> TRUE]]
         /\ UNCHANGED <<runs, jobRunCache>>
<1> DEFINE w == [proc[r].work EXCEPT !.jobRunName = j, !.reason = "Running"]
<1>1. /\ proc[r].pc = "create" /\ GoOn(r, "check", proc[r].orig, w)
      /\ AddJobRun(j, r, proc[r].work.taskSpec)
      /\ UNCHANGED <<runs, jobRunCache>>
  BY DEF CreateJobRun, apiVars, cacheVars, listVars
<1>2. w.jobRunName = j /\ w.reason = "Running"
  BY DEF TypeOK, ProcessType, Calls, Statuses
<1> HIDE DEF w
<1>3. proc'[r].pc = "check" /\ proc'[r].orig = proc[r].orig /\ proc'[r].work = w /\ Announces(r)
  BY <1>1, AfterGoOn
<1> QED
  BY <1>1, <1>2, <1>3 DEF AddJobRun, IsDone, FailureReasons

LEMMA ContinuedCall ==
  ASSUME TypeOK, NEW r \in Runs, Continues(r)
  PROVE  /\ proc[r].pc \in {"create", "check"} /\ proc'[r].pc = "put"
         /\ proc'[r].orig = proc[r].orig
         /\ proc'[r].work.jobRunName =
              IF CheckJobRun(r) THEN proc[r].work.jobRunName ELSE proc[r].orig.jobRunName
         /\ IsDone(proc'[r].work) =>
              \/ proc[r].pc = "create" /\ ~CheckJobRun(r)
              \/ proc'[r].work.reason \in {"Succeeded", "Failed"}
              \/ proc[r].pc = "check" /\ IsDone(proc[r].work)
         /\ Announces(r)
         /\ UNCHANGED <<runs, jobRunCache>>
<1> DEFINE orig == proc[r].orig
           work == proc[r].work
<1>1. orig \in Statuses /\ work \in Statuses
  BY DEF TypeOK, ProcessType, Calls
<1>2. proc[r].pc \in {"create", "check"} /\ UNCHANGED <<runs, jobRunCache>>
  BY DEF Continues, CreateJobRunFails, CheckJobRun, CheckJobRunFails,
         apiVars, cacheVars, listVars
<1>3. ASSUME NEW reason \in {"FailedToStartJobRun", "FailedToGetJobRunStatus",
                             "Succeeded", "Failed"}
      PROVE  /\ Mark(work, reason) \in Statuses /\ Mark(work, reason).reason = reason
             /\ Mark(work, reason).jobRunName = work.jobRunName
  BY <1>1, MarkType DEF Mark, Statuses, Reasons, FailureReasons
<1>4. CASE CreateJobRunFails(r)
  <2>1. proc[r].pc = "create" /\ Return(r, orig, Mark(work, "FailedToStartJobRun"), "err")
        /\ ~CheckJobRun(r)
    BY <1>4 DEF CreateJobRunFails, CheckJobRun
  <2> HIDE DEF orig, work
  <2>2. /\ proc'[r].pc = "put" /\ proc'[r].orig = orig
        /\ proc'[r].work.jobRunName = orig.jobRunName /\ Announces(r)
    BY <1>1, <1>3, <2>1, AfterReturn
  <2> QED
    BY <1>2, <2>1, <2>2 DEF orig
<1>5. CASE CheckJobRun(r)
  <2> DEFINE w == checkCodeEngineJobRunStatus(work)
  <2>1. proc[r].pc = "check" /\ Return(r, orig, w, "ok")
    BY <1>5 DEF CheckJobRun
  <2>2. /\ w \in Statuses /\ w.jobRunName = work.jobRunName
        /\ w = work \/ w.reason \in {"Succeeded", "Failed"}
    BY <1>1, <1>3 DEF checkCodeEngineJobRunStatus
  <2> HIDE DEF w, orig, work
  <2>3. /\ proc'[r].pc = "put" /\ proc'[r].orig = orig /\ proc'[r].work = w
        /\ Announces(r)
    BY <1>1, <2>1, <2>2, AfterReturn
  <2> QED
    BY <1>2, <1>5, <2>1, <2>2, <2>3 DEF orig, work
<1>6. CASE CheckJobRunFails(r) /\ ~CheckJobRun(r)
  <2> DEFINE w == Mark(work, "FailedToGetJobRunStatus")
  <2>1. Return(r, orig, w, "err")
    BY <1>6 DEF CheckJobRunFails
  <2>2. w \in Statuses /\ w.reason = "FailedToGetJobRunStatus"
    BY <1>3
  <2> HIDE DEF w, orig, work
  <2>3. /\ proc'[r].pc = "put" /\ proc'[r].orig = orig
        /\ proc'[r].work.reason = "FailedToGetJobRunStatus"
        /\ proc'[r].work.jobRunName = orig.jobRunName /\ Announces(r)
    BY <1>1, <2>1, <2>2, AfterReturn
  <2>4. ~IsDone(proc'[r].work)
    BY <2>3 DEF IsDone, FailureReasons
  <2> QED
    BY <1>2, <1>6, <2>3, <2>4 DEF orig
<1> QED
  BY <1>4, <1>5, <1>6 DEF Continues

\* A call ends and leaves nothing behind but what it writes.
Ends(r) == KeepStatus(r) \/ PutStatus(r) \/ PutStatusFails(r)

LEMMA EndedCall ==
  ASSUME TypeOK, NEW r \in Runs, Ends(r)
  PROVE  /\ proc[r].pc = "put" /\ proc'[r] = Idle /\ proc'[r].pc = "idle"
         /\ UNCHANGED <<jobRuns, events, jobRunCache>>
         /\ IF PutStatus(r)
            THEN /\ runs[r] # NoValue /\ runs'[r] # NoValue
                 /\ runs'[r].shape = runs[r].shape /\ runs'[r].status = proc[r].work
            ELSE UNCHANGED runs
<1>1. /\ proc[r].pc = "put" /\ proc'[r] = Idle
      /\ UNCHANGED <<jobRuns, events, jobRunCache>>
  BY DEF Ends, KeepStatus, PutStatus, PutStatusFails, Finish, TypeOK, ProcessType,
         apiVars, ceVars, cacheVars, listVars
<1>2. ASSUME PutStatus(r)
      PROVE  /\ runs[r] # NoValue /\ runs'[r] # NoValue
             /\ runs'[r].shape = runs[r].shape /\ runs'[r].status = proc[r].work
  <2>1. runs[r] \in RunObjects /\ proc[r].work \in Statuses
    BY <1>2 DEF PutStatus, TypeOK, StoreType, ProcessType, Calls
  <2>2. runs'[r] = [runs[r] EXCEPT !.status = proc[r].work]
    BY <1>2 DEF PutStatus, StoreRun, TypeOK, StoreType
  <2>3. runs'[r] \in RunObjects /\ runs'[r].shape = runs[r].shape /\ runs'[r].status = proc[r].work
    BY <2>1, <2>2 DEF RunObjects
  <2> QED
    BY <1>2, <2>3, ObjectsAssumption DEF PutStatus
<1>3. ~PutStatus(r) => UNCHANGED runs
  BY DEF Ends, KeepStatus, PutStatusFails, apiVars
<1> QED
  BY <1>1, <1>2, <1>3, IdleType

LEMMA StepsOfCall ==
  ASSUME NEW r \in Runs, Reconcile(r)
  PROVE  \/ UNCHANGED <<runs, proc, events>>
         \/ Begins(r) /\ UNCHANGED <<runs, jobRuns, jobRunCache>>
         \/ \E j \in JobRunIds : CreateJobRun(r, j)
         \/ Continues(r)
         \/ Ends(r)
         \/ PanicOnRun(r) /\ Down
BY DEF Reconcile, SkipRun, PanicOnRun, FailOnTask, ReconcileRun, Begins, Continues, Ends,
       apiVars, ceVars, cacheVars, listVars

-----------------------------------------------------------------------------
(***************************************************************************)
(* No Run is deleted. Every version of a Run that can be read then has the *)
(* spec of the stored one, and every call is for a Run of this controller. *)
(***************************************************************************)
OneRun(r) ==
  /\ \A o \in Seen(r) : o # NoValue => runs[r] # NoValue /\ o.shape = runs[r].shape
  /\ proc[r].pc # "idle" => runs[r] # NoValue /\ verifyCodeEngineSpec(runs[r].shape)

LEMMA RunsStay ==
  ASSUME "deleteRun" \notin Hazards, IInv, [Next]_vars, NEW r \in Runs, runs[r] # NoValue
  PROVE  runs'[r] # NoValue /\ runs'[r].shape = runs[r].shape
<1>1. CASE runs'[r] = runs[r]
  BY <1>1
<1>2. CASE runs'[r] # runs[r]
  <2>1. PutStatus(r)
    BY <1>2, WritersOfRun DEF CreateRun, DeleteRun
  <2> QED
    BY <2>1, EndedCall DEF Ends, IInv
<1> QED
  BY <1>1, <1>2

LEMMA NextOneRun ==
  ASSUME "deleteRun" \notin Hazards, IInv, [Next]_vars, NEW r \in Runs, OneRun(r)
  PROVE  OneRun(r)'
<1>1. \A o \in Seen(r)' : o # NoValue => runs'[r] # NoValue /\ o.shape = runs'[r].shape
  BY SeenWasStored, RunsStay DEF IInv, OneRun
<1>2. proc'[r].pc # "idle" => runs'[r] # NoValue /\ verifyCodeEngineSpec(runs'[r].shape)
  <2>1. ASSUME proc[r].pc # "idle"
        PROVE  runs'[r] # NoValue /\ verifyCodeEngineSpec(runs'[r].shape)
    BY <2>1, RunsStay DEF OneRun
  <2>2. CASE UNCHANGED proc[r] \/ Down \/ Ends(r)
    BY <2>1, <2>2, IdleType, EndedCall DEF Down, IInv
  <2>3. CASE Begins(r) /\ UNCHANGED runs
    BY <2>3, BegunCall DEF OneRun, Seen, IInv
  <2>4. CASE (\E j \in JobRunIds : CreateJobRun(r, j)) \/ Continues(r)
    BY <2>1, <2>4, CreatedCall, ContinuedCall DEF IInv
  <2>5. CASE \E shape \in Shapes : CreateRun(r, shape)
    BY <2>2, <2>5 DEF CreateRun, procVars
  <2> QED
    BY <2>2, <2>3, <2>4, <2>5, StepsOfRun, StepsOfCall DEF DeleteRun
<1> QED
  BY <1>1, <1>2 DEF OneRun

\* As long as no Run is deleted, the Run of another controller keeps the status it
\* has and gets no JobRun, through stale caches, crashes and panics: every version
\* of it that a call can read has its spec (codeenginetask.go:70-73).
THEOREM OthersAlwaysUntouched == "deleteRun" \notin Hazards => (Spec => OthersUntouched)
<1> SUFFICES ASSUME "deleteRun" \notin Hazards PROVE Spec => OthersUntouched
  OBVIOUS
<1> DEFINE Inv == IInv /\ \A r \in Runs : OneRun(r)
<1>1. Init => Inv
  <2> SUFFICES ASSUME Init PROVE \A r \in Runs : OneRun(r)
    BY InitCopies
  <2> QED
    BY IdleType DEF Init, OneRun, Seen
<1>2. Inv /\ [Next]_vars => Inv'
  BY NextCopies, NextOneRun
<1>3. Inv /\ [Next]_vars =>
        [\A r \in Runs :
           Survives(r) /\ "foreign" \in {runs[r].shape.ref, runs[r].shape.spec} =>
           /\ runs'[r] = runs[r]
           /\ \A j \in JobRunIds : Unused(j) => jobRuns'[j].owner # r]_vars
  <2> SUFFICES ASSUME Inv, [Next]_vars, NEW r \in Runs, Survives(r),
                      "foreign" \in {runs[r].shape.ref, runs[r].shape.spec}
               PROVE  /\ runs'[r] = runs[r]
                      /\ \A j \in JobRunIds : Unused(j) => jobRuns'[j].owner # r
    OBVIOUS
  <2>1. proc[r].pc = "idle"
    BY DEF OneRun, verifyCodeEngineSpec
  <2>2. runs'[r] = runs[r]
    BY <2>1, WritersOfRun DEF Survives, CreateRun, DeleteRun, PutStatus
  <2>3. \A j \in JobRunIds : Unused(j) => jobRuns'[j].owner # r
    BY <2>1, CreatorsOfJobRun
  <2> QED
    BY <2>2, <2>3
<1> HIDE DEF Inv
<1> QED
  BY <1>1, <1>2, <1>3, PTL DEF Spec, OthersUntouched

-----------------------------------------------------------------------------
(***************************************************************************)
(* No Run and no task is deleted. The task of a Run that has a JobRun on   *)
(* record anywhere is then found in every later call, so that none fails   *)
(* the Run for want of it.                                                 *)
(***************************************************************************)
NothingDeleted == {"deleteRun", "dropTask"} \cap Hazards = {}

\* The task of a Run is embedded, or stored and shown by the lister of a process
\* that is up.
Known(shape) ==
  \/ shape.spec # NoValue
  \/ /\ shape.ref \in Tasks
     /\ tasks[shape.ref] # NoValue
     /\ up => taskCache[shape.ref] # NoValue

ShownAreStored == \A t \in Tasks : taskCache[t] # NoValue => tasks[t] # NoValue

TaskIsKnown(r) == Known(runs[r].shape)

EndsByJobRun(st) ==
  IsDone(st) /\ st.jobRunName # NoValue => st.reason \in {"Succeeded", "Failed"}

\* What a status of r says of its end is right, and a JobRun is on record in it only
\* when the task is known.
Follows(r, st) == EndsByJobRun(st) /\ (st.jobRunName # NoValue => TaskIsKnown(r))

CallFollows(r) ==
  /\ proc[r].pc # "idle" => Follows(r, proc[r].orig) /\ Follows(r, proc[r].work)
  /\ proc[r].pc = "create" => proc[r].orig.jobRunName = NoValue /\ TaskIsKnown(r)
VersionsFollow(r) ==
  \A o \in Seen(r) \cup {runs[r]} : o # NoValue => Follows(r, o.status)

Launched(r) == VersionsFollow(r) /\ CallFollows(r)

LInv == AInv /\ ShownAreStored /\ \A r \in Runs : OneRun(r) /\ Launched(r)

LEMMA StepsOfTasks ==
  ASSUME [Next]_vars
  PROVE  \/ UNCHANGED <<tasks, taskCache, up>>
         \/ /\ \E t \in Tasks, job \in JobNames \cup {NoValue} : ChangeTask(t, job)
            /\ UNCHANGED <<taskCache, up>>
         \/ (\E t \in Tasks : SyncTask(t)) /\ UNCHANGED <<tasks, up>>
         \/ Down
         \/ Restart
<1> USE DEF apiVars, cacheVars, listVars, procVars
<1>1. CASE Environment
  BY <1>1 DEF Environment, CreateRun, DeleteRun, ChangeTask, ChangeJobDef, FinishJobRun,
              DropJobRun, SubmitJobRun
<1>2. CASE Informers
  BY <1>2 DEF Informers, SyncRun, ResyncRun, SyncJobRun, ResyncJobRun, SyncTask, SyncJobDefs
<1>3. ASSUME NEW r \in Runs, Reconcile(r), ~Down
      PROVE  UNCHANGED <<tasks, taskCache, up>>
  BY <1>3 DEF Reconcile, SkipRun, PanicOnRun, FailOnTask, ReconcileRun, CreateJobRun,
              CreateJobRunFails, CheckJobRun, CheckJobRunFails, KeepStatus, PutStatus,
              PutStatusFails
<1> QED
  BY <1>1, <1>2, <1>3 DEF Next, Crash, vars

LEMMA TasksStay ==
  ASSUME NothingDeleted, TypeOK, ShownAreStored, [Next]_vars
  PROVE  /\ ShownAreStored'
         /\ \A shape \in Shapes : Known(shape) => Known(shape)'
<1>1. CASE UNCHANGED <<tasks, taskCache, up>>
  BY <1>1 DEF ShownAreStored, Known
<1>2. ASSUME NEW t \in Tasks, NEW job \in JobNames \cup {NoValue}, ChangeTask(t, job),
             UNCHANGED <<taskCache, up>>
      PROVE  /\ ShownAreStored'
             /\ \A shape \in Shapes : Known(shape) => Known(shape)'
  <2>1. tasks' = [tasks EXCEPT ![t] = job] /\ (tasks[t] # NoValue => job # NoValue)
    BY <1>2 DEF ChangeTask, NothingDeleted
  <2> QED
    BY <1>2, <2>1 DEF ShownAreStored, Known, TypeOK, StoreType
<1>3. ASSUME NEW t \in Tasks, SyncTask(t), UNCHANGED <<tasks, up>>
      PROVE  /\ ShownAreStored'
             /\ \A shape \in Shapes : Known(shape) => Known(shape)'
  BY <1>3 DEF SyncTask, ShownAreStored, Known, TypeOK, CacheType
<1>4. CASE Down
  BY <1>4 DEF Down, ShownAreStored, Known, apiVars
<1>5. CASE Restart
  BY <1>5 DEF Restart, ShownAreStored, Known, apiVars
<1> QED
  BY <1>1, <1>2, <1>3, <1>4, <1>5, StepsOfTasks

LEMMA KnownIsFound ==
  ASSUME ShownAreStored, up, NEW shape
  PROVE  Known(shape) <=> getCodeEngineTask(shape) # NoValue
BY DEF ShownAreStored, Known, getCodeEngineTask

LEMMA KnownTaskStays ==
  ASSUME NothingDeleted, IInv, ShownAreStored, [Next]_vars,
         NEW r \in Runs, runs[r] # NoValue, TaskIsKnown(r)
  PROVE  TaskIsKnown(r)'
<1>1. runs'[r].shape = runs[r].shape /\ runs[r].shape \in Shapes
  BY RunsStay DEF NothingDeleted, IInv, TypeOK, StoreType, RunObjects
<1>2. Known(runs[r].shape)'
  <2>1. \A shape \in Shapes : Known(shape) => Known(shape)'
    BY TasksStay DEF IInv
  <2> QED
    BY <1>1, <2>1 DEF TaskIsKnown, Known
<1> QED
  BY <1>1, <1>2 DEF TaskIsKnown, Known
\* What the steps of the call of r leave in the call.
LEMMA CallStepFollows ==
  ASSUME NothingDeleted, LInv, [Next]_vars, NEW r \in Runs, Reconcile(r)
  PROVE  CallFollows(r)'
<1>0. /\ TypeOK /\ IInv /\ ShownAreStored
      /\ OneRun(r) /\ VersionsFollow(r) /\ CallFollows(r)
  BY DEF LInv, AInv, IInv, Launched
<1>1. runs[r] # NoValue /\ TaskIsKnown(r) => TaskIsKnown(r)'
  BY <1>0, KnownTaskStays
<1>2. CASE UNCHANGED proc
  BY <1>0, <1>1, <1>2 DEF CallFollows, Follows, OneRun
<1>3. CASE Begins(r)
  <2>1. /\ up /\ runCache[r] # NoValue
        /\ proc'[r].orig = runCache[r].status
        /\ proc'[r].work.jobRunName = runCache[r].status.jobRunName
        /\ proc'[r].pc = "create" => runCache[r].status.jobRunName = NoValue
    BY <1>0, <1>3, BegunCall
  <2>2. /\ runs[r] # NoValue /\ runCache[r].shape = runs[r].shape
        /\ Follows(r, runCache[r].status)
    BY <1>0, <2>1 DEF OneRun, VersionsFollow, Seen
  <2>3. TaskIsKnown(r) <=> getCodeEngineTask(runCache[r].shape) # NoValue
    BY <1>0, <2>1, <2>2, KnownIsFound DEF TaskIsKnown
  <2>4. /\ IsDone(proc'[r].work) => proc'[r].work.jobRunName = NoValue \/ ~TaskIsKnown(r)
        /\ proc'[r].pc = "create" => TaskIsKnown(r)
    BY <1>0, <1>3, <2>3, BegunCall
  <2>5. EndsByJobRun(proc'[r].work)
    BY <2>1, <2>2, <2>4 DEF EndsByJobRun, Follows
  <2> QED
    BY <1>1, <2>1, <2>2, <2>4, <2>5 DEF CallFollows, Follows
<1>4. ASSUME proc[r].pc \in {"create", "check"}
      PROVE  /\ runs[r] # NoValue /\ Follows(r, proc[r].orig) /\ Follows(r, proc[r].work)
             /\ proc[r].pc = "check" => ~IsDone(proc[r].work)
             /\ proc[r].pc = "create" => proc[r].orig.jobRunName = NoValue /\ TaskIsKnown(r)
  BY <1>0, <1>4 DEF OneRun, CallFollows, LInv, AInv, CallsAnnounceFirst
<1>5. ASSUME NEW j \in JobRunIds, CreateJobRun(r, j)
      PROVE  CallFollows(r)'
  <2>1. /\ proc[r].pc = "create" /\ proc'[r].pc = "check"
        /\ proc'[r].orig = proc[r].orig /\ ~IsDone(proc'[r].work)
    BY <1>0, <1>5, CreatedCall
  <2> QED
    BY <1>1, <1>4, <2>1 DEF CallFollows, Follows, EndsByJobRun
<1>6. CASE Continues(r)
  <2>1. /\ proc[r].pc \in {"create", "check"} /\ proc'[r].pc = "put"
        /\ proc'[r].orig = proc[r].orig
        /\ proc'[r].work.jobRunName =
             IF CheckJobRun(r) THEN proc[r].work.jobRunName ELSE proc[r].orig.jobRunName
    BY <1>0, <1>6, ContinuedCall
  <2>2. IsDone(proc'[r].work) => \/ proc[r].pc = "create" /\ ~CheckJobRun(r)
                                 \/ proc'[r].work.reason \in {"Succeeded", "Failed"}
    BY <1>0, <1>4, <1>6, <2>1, ContinuedCall
  <2>3. EndsByJobRun(proc'[r].work)
    BY <1>4, <2>1, <2>2 DEF EndsByJobRun
  <2> QED
    BY <1>1, <1>4, <2>1, <2>3 DEF CallFollows, Follows
<1>7. CASE Ends(r) \/ Down
  BY <1>0, <1>7, EndedCall, IdleType DEF Down, CallFollows
<1> QED
  BY <1>2, <1>3, <1>5, <1>6, <1>7, StepsOfCall

LEMMA NextLaunched ==
  ASSUME NothingDeleted, LInv, [Next]_vars, NEW r \in Runs
  PROVE  Launched(r)'
<1>0. /\ TypeOK /\ IInv /\ ShownAreStored
      /\ OneRun(r) /\ VersionsFollow(r) /\ CallFollows(r)
  BY DEF LInv, AInv, IInv, Launched
<1>1. runs[r] # NoValue /\ TaskIsKnown(r) => TaskIsKnown(r)'
  BY <1>0, KnownTaskStays
<1>2. VersionsFollow(r)'
  <2>1. ASSUME NEW o \in Seen(r) \cup {runs[r]}, o # NoValue
        PROVE  EndsByJobRun(o.status) /\ (o.status.jobRunName # NoValue => TaskIsKnown(r)')
    BY <1>0, <1>1, <2>1 DEF OneRun, VersionsFollow, Follows
  <2>2. ASSUME runs'[r] # NoValue
        PROVE  /\ EndsByJobRun(runs'[r].status)
               /\ runs'[r].status.jobRunName # NoValue => TaskIsKnown(r)'
    <3>1. CASE runs'[r] = runs[r]
      BY <2>1, <2>2, <3>1
    <3>2. ASSUME NEW shape \in Shapes, CreateRun(r, shape)
          PROVE  runs'[r].status.jobRunName = NoValue
      BY <1>0, <3>2 DEF CreateRun, StoreRun, EmptyStatus, TypeOK, StoreType
    <3>3. CASE PutStatus(r)
      <4>1. proc[r].pc = "put" /\ runs[r] # NoValue /\ runs'[r].status = proc[r].work
        BY <1>0, <3>3, EndedCall DEF Ends
      <4> QED
        BY <1>0, <1>1, <4>1 DEF CallFollows, Follows
    <3> QED
      BY <1>0, <3>1, <3>2, <3>3, WritersOfRun DEF DeleteRun, NothingDeleted, EndsByJobRun
  <2>3. Seen(r)' \subseteq Seen(r) \cup {runs'[r], NoValue}
    BY <1>0, SeenWasStored
  <2> QED
    BY <2>1, <2>2, <2>3 DEF VersionsFollow, Follows
<1>3. CallFollows(r)'
  <2>1. CASE Reconcile(r)
    BY <2>1, CallStepFollows
  <2>2. CASE Down
    BY <2>2, IdleType DEF Down, CallFollows
  <2>3. CASE UNCHANGED proc[r]
    BY <1>0, <1>1, <2>3 DEF CallFollows, Follows, OneRun
  <2> QED
    BY <1>0, <2>1, <2>2, <2>3, StepsOfRun DEF CreateRun, DeleteRun, procVars
<1> QED
  BY <1>2, <1>3 DEF Launched

LEMMA InitLaunched == Init => LInv
<1> SUFFICES ASSUME Init PROVE LInv
  OBVIOUS
<1>1. \A r \in Runs : OneRun(r) /\ Launched(r)
  BY IdleType DEF Init, OneRun, Launched, VersionsFollow, CallFollows, Seen
<1>2. ShownAreStored
  BY DEF Init, ShownAreStored
<1> QED
  BY <1>1, <1>2, InitAnnounces DEF LInv

LEMMA NextLInv == NothingDeleted /\ LInv /\ [Next]_vars => LInv'
<1> SUFFICES ASSUME NothingDeleted, LInv, [Next]_vars PROVE LInv'
  OBVIOUS
<1>1. AInv' /\ ShownAreStored'
  BY NextAnnounces, TasksStay DEF LInv, AInv, IInv
<1>2. \A r \in Runs : OneRun(r)'
  BY NextOneRun DEF LInv, AInv, NothingDeleted
<1>3. \A r \in Runs : Launched(r)'
  BY NextLaunched
<1> QED
  BY <1>1, <1>2, <1>3 DEF LInv

\* As long as no Run and no task is deleted, a Run with a JobRun on record ends as
\* the JobRun ended, through stale caches, crashes, lost answers and lost writes
\* (codeenginetask.go:162-177, 234-250).
THEOREM LaunchedAlwaysEndsWithItsJobRun ==
  NothingDeleted => (Spec => []LaunchedEndsWithItsJobRun)
<1> SUFFICES ASSUME NothingDeleted PROVE Spec => []LaunchedEndsWithItsJobRun
  OBVIOUS
<1>1. LInv => LaunchedEndsWithItsJobRun
  BY DEF LInv, Launched, VersionsFollow, Follows, EndsByJobRun, LaunchedEndsWithItsJobRun
<1> QED
  BY <1>1, InitLaunched, NextLInv, PTL DEF Spec

-----------------------------------------------------------------------------
(***************************************************************************)
(* No write of a status is lost, and none meets another status than its    *)
(* call has read: the Run cache is fresh, no Run is deleted, writes        *)
(* succeed, and the process does not die, of a panic or otherwise.         *)
(***************************************************************************)
NoWriteLost ==
  /\ {"staleRun", "deleteRun", "putErr", "crash"} \cap Hazards = {}
  /\ \A shape \in Shapes : ~Panics(shape)

ReadTheStored(r) == proc[r].pc # "idle" => runs[r] # NoValue /\ proc[r].orig = runs[r].status

\* The last status of r: the one about to be written once the call has returned.
Last(r) == IF proc[r].pc = "put" THEN proc[r].work ELSE runs[r].status

AnnouncedTheLast(r) ==
  \A verdict \in events[r] :
    runs[r] # NoValue /\ IsDone(Last(r)) /\ verdict = Verdict(Last(r).reason)

QInv == GInv /\ \A r \in Runs : ReadTheStored(r) /\ AnnouncedTheLast(r)

\* The process stays up, so that every call is carried through.
LEMMA StopsOnlyIdle ==
  ASSUME NoWriteLost, FInv, [Next]_vars, Down, NEW r \in Runs
  PROVE  /\ proc[r].pc = "idle" /\ proc'[r].pc = "idle"
         /\ UNCHANGED <<runs, jobRuns, events>>
<1>1. ASSUME NEW k \in Runs PROVE ~PanicOnRun(k)
  BY DEF NoWriteLost, PanicOnRun, FInv, IInv, TypeOK, CacheType, RunObjects
<1>2. ~Crash
  BY DEF NoWriteLost, Crash
<1>3. up => up'
  <2> USE DEF procVars
  <2>1. CASE Environment
    BY <2>1 DEF Environment, CreateRun, DeleteRun, ChangeTask, ChangeJobDef, FinishJobRun,
                DropJobRun, SubmitJobRun
  <2>2. CASE Informers \/ Restart \/ UNCHANGED vars
    BY <2>2 DEF Informers, SyncRun, ResyncRun, SyncJobRun, ResyncJobRun, SyncTask,
                SyncJobDefs, Restart, vars
  <2>3. ASSUME NEW k \in Runs, Reconcile(k), ~PanicOnRun(k) PROVE UNCHANGED up
    BY <2>3 DEF Reconcile, SkipRun, FailOnTask, ReconcileRun, CreateJobRun,
                CreateJobRunFails, CheckJobRun, CheckJobRunFails, KeepStatus, PutStatus,
                PutStatusFails
  <2> QED
    BY <1>1, <1>2, <2>1, <2>2, <2>3 DEF Next
<1>4. ~up
  BY <1>3 DEF Down
<1> QED
  BY <1>4, IdleType DEF FInv, Tended, StoppedIsIdle, Down, apiVars, ceVars

LEMMA QuietSteps ==
  ASSUME NoWriteLost, FInv, [Next]_vars, NEW r \in Runs
  PROVE  \/ UNCHANGED <<runs[r], proc[r], events[r]>>
         \/ UNCHANGED <<runs[r], events[r]>> /\ proc[r].pc = "idle" /\ proc'[r].pc = "idle"
         \/ \E shape \in Shapes : CreateRun(r, shape)
         \/ Begins(r) /\ UNCHANGED runs
         \/ \E j \in JobRunIds : CreateJobRun(r, j)
         \/ Continues(r)
         \/ Ends(r)
<1>1. IInv /\ ~DeleteRun(r)
  BY DEF FInv, NoWriteLost, DeleteRun
<1> QED
  BY <1>1, StepsOfRun, StepsOfCall, StopsOnlyIdle

\* A call that begins has read the stored Run.
LEMMA BegunFresh ==
  ASSUME "staleRun" \notin Hazards, FInv, NEW r \in Runs, Begins(r)
  PROVE  runs[r] = runCache[r] /\ runs[r] # NoValue
<1>1. up /\ watch[r] = <<>> /\ runCache[r] # NoValue
  BY BegunCall DEF FInv, IInv
<1> QED
  BY <1>1 DEF FInv, Tended, CacheCatchesUp, LastSeen

\* A call that ends leaves its status in the store.
LEMMA EndedIsStored ==
  ASSUME NoWriteLost, QInv, NEW r \in Runs, Ends(r)
  PROVE  runs'[r] # NoValue /\ runs'[r].status = proc[r].work
<1>1. proc[r].pc = "put" /\ runs[r] # NoValue /\ proc[r].orig = runs[r].status
  BY EndedCall DEF QInv, GInv, FInv, IInv, ReadTheStored
<1>2. CASE PutStatus(r)
  BY <1>2, EndedCall DEF QInv, GInv, FInv, IInv
<1>3. CASE KeepStatus(r)
  BY <1>1, <1>3 DEF KeepStatus, apiVars
<1>4. ~PutStatusFails(r)
  BY <1>1 DEF PutStatusFails, NoWriteLost
<1> QED
  BY <1>2, <1>3, <1>4 DEF Ends

LEMMA NextReadTheStored ==
  ASSUME NoWriteLost, QInv, [Next]_vars, NEW r \in Runs
  PROVE  ReadTheStored(r)'
<1>0. TypeOK /\ FInv /\ ReadTheStored(r) /\ "staleRun" \notin Hazards
  BY DEF QInv, GInv, FInv, IInv, NoWriteLost
<1>1. CASE Begins(r) /\ UNCHANGED runs
  BY <1>0, <1>1, BegunFresh, BegunCall DEF ReadTheStored
<1>2. ASSUME NEW j \in JobRunIds, CreateJobRun(r, j) PROVE ReadTheStored(r)'
  BY <1>0, <1>2, CreatedCall DEF ReadTheStored
<1>3. CASE Continues(r)
  BY <1>0, <1>3, ContinuedCall DEF ReadTheStored
<1>4. CASE Ends(r)
  BY <1>0, <1>4, EndedCall DEF ReadTheStored
<1>5. ASSUME NEW shape \in Shapes, CreateRun(r, shape) PROVE ReadTheStored(r)'
  BY <1>0, <1>5 DEF CreateRun, ReadTheStored, procVars
<1>6. CASE \/ UNCHANGED <<runs[r], proc[r], events[r]>>
           \/ UNCHANGED <<runs[r], events[r]>> /\ proc[r].pc = "idle" /\ proc'[r].pc = "idle"
  BY <1>0, <1>6 DEF ReadTheStored
<1> QED
  BY <1>0, <1>1, <1>2, <1>3, <1>4, <1>5, <1>6, QuietSteps

LEMMA NextAnnouncedTheLast ==
  ASSUME NoWriteLost, QInv, [Next]_vars, NEW r \in Runs
  PROVE  AnnouncedTheLast(r)'
<1>0. /\ TypeOK /\ FInv /\ ReadTheStored(r) /\ AnnouncedTheLast(r)
      /\ CallsAnnounceFirst /\ "staleRun" \notin Hazards
  BY DEF QInv, GInv, FInv, IInv, AInv, NoWriteLost
\* An open Run has no verdict, and gets that of the status its call returns with.
<1>1. ASSUME ~IsDone(runs[r].status), proc[r].pc # "put", runs[r] # NoValue, UNCHANGED runs,
             Announces(r)
      PROVE  AnnouncedTheLast(r)'
  <2>1. events[r] = {}
    BY <1>0, <1>1 DEF AnnouncedTheLast, Last
  <2>2. CASE proc'[r].pc = "put"
    BY <1>1, <2>1, <2>2 DEF AnnouncedTheLast, Last, Announces, Announced
  <2>3. CASE proc'[r].pc # "put"
    BY <1>1, <2>1, <2>3 DEF AnnouncedTheLast, Announces
  <2> QED
    BY <2>2, <2>3
<1>2. CASE Begins(r) /\ UNCHANGED runs
  BY <1>0, <1>1, <1>2, BegunFresh, BegunCall
<1>3. ASSUME proc[r].pc \in {"create", "check"}
      PROVE  ~IsDone(runs[r].status) /\ runs[r] # NoValue
  BY <1>0, <1>3 DEF ReadTheStored, CallsAnnounceFirst
<1>4. ASSUME NEW j \in JobRunIds, CreateJobRun(r, j) PROVE AnnouncedTheLast(r)'
  BY <1>0, <1>1, <1>3, <1>4, CreatedCall
<1>5. CASE Continues(r)
  BY <1>0, <1>1, <1>3, <1>5, ContinuedCall
<1>6. CASE Ends(r)
  <2>1. /\ proc[r].pc = "put" /\ proc'[r].pc = "idle" /\ UNCHANGED events
        /\ runs'[r] # NoValue /\ runs'[r].status = proc[r].work
    BY <1>0, <1>6, EndedCall, EndedIsStored
  <2> QED
    BY <1>0, <2>1 DEF AnnouncedTheLast, Last
<1>7. ASSUME NEW shape \in Shapes, CreateRun(r, shape) PROVE AnnouncedTheLast(r)'
  BY <1>0, <1>7 DEF CreateRun, AnnouncedTheLast
<1>8. CASE \/ UNCHANGED <<runs[r], proc[r], events[r]>>
           \/ UNCHANGED <<runs[r], events[r]>> /\ proc[r].pc = "idle" /\ proc'[r].pc = "idle"
  BY <1>0, <1>8 DEF AnnouncedTheLast, Last
<1> QED
  BY <1>0, <1>2, <1>4, <1>5, <1>6, <1>7, <1>8, QuietSteps

LEMMA InitQuiet == Init => QInv
<1> SUFFICES ASSUME Init PROVE QInv
  OBVIOUS
<1>1. \A r \in Runs : ReadTheStored(r) /\ AnnouncedTheLast(r)
  BY IdleType DEF Init, ReadTheStored, AnnouncedTheLast
<1> QED
  BY <1>1, InitCurrent DEF QInv

LEMMA NextQuiet == NoWriteLost /\ QInv /\ [Next]_vars => QInv'
<1> SUFFICES ASSUME NoWriteLost, QInv, [Next]_vars PROVE QInv'
  OBVIOUS
<1>1. GInv'
  BY NextCurrent DEF QInv, NoWriteLost
<1> QED
  BY <1>1, NextReadTheStored, NextAnnouncedTheLast DEF QInv

\* As long as no status write is lost, a Run gets one verdict: while a call is under
\* way the Run is as it was read, so that nothing is announced for it before its
\* last announcement has been stored (codeenginetask.go:77-94).
THEOREM VerdictsAreAnnouncedOnce == NoWriteLost => (Spec => []VerdictAnnouncedOnce)
<1> SUFFICES ASSUME NoWriteLost PROVE Spec => []VerdictAnnouncedOnce
  OBVIOUS
<1>1. QInv => VerdictAnnouncedOnce
  BY DEF QInv, AnnouncedTheLast, VerdictAnnouncedOnce
<1> QED
  BY <1>1, InitQuiet, NextQuiet, PTL DEF Spec

-----------------------------------------------------------------------------
(***************************************************************************)
(* Nor is a JobRun that has been recorded in a call lost on the way to the *)
(* store, which is what an error in reading it would come to. A JobRun is  *)
(* then on record from the step that creates it, in the call that has      *)
(* created it and later in the Run. A create whose answer is lost leaves   *)
(* no record, but it fails the Run, which is not reconciled again.         *)
(***************************************************************************)
NoRecordLost == NoWriteLost /\ "getErr" \notin Hazards

\* The JobRun of r, as the rest of its call and every later call will know it.
OnRecord(r) ==
  IF proc[r].pc \in {"check", "put"} THEN proc[r].work.jobRunName
  ELSE runs[r].status.jobRunName

LostCreate(r) == "createLost" \in Hazards /\ IsDone(Last(r))

JobRunIsOnRecord(r) ==
  \A j \in JobRunIds :
    jobRuns[j].owner = r => /\ runs[r] # NoValue
                            /\ OnRecord(r) = j \/ LostCreate(r)

RInv == QInv /\ AtMostOneJobRun /\ \A r \in Runs : JobRunIsOnRecord(r)

LEMMA OwnersOfJobRun ==
  ASSUME IInv, [Next]_vars, NEW r \in Runs, NEW j \in JobRunIds, jobRuns'[j].owner = r
  PROVE  \/ jobRuns[j].owner = r
         \/ /\ proc[r].pc = "create"
            /\ \/ CreateJobRun(r, j)
               \/ /\ CreateJobRunFails(r)
                  /\ "createLost" \in Hazards
<1>1. CASE Unused(j)
  BY <1>1, CreatorsOfJobRun
<1>2. CASE ~Unused(j)
  BY <1>2, NextKeeps DEF IInv, Unused, JobRunsKept
<1> QED
  BY <1>1, <1>2

\* A step changes the JobRuns of at most one name.
LEMMA CreatesOne ==
  ASSUME IInv, NEW r \in Runs, CreateJobRunFails(r) \/ \E j \in JobRunIds : CreateJobRun(r, j),
         NEW i \in JobRunIds, NEW j \in JobRunIds,
         jobRuns'[i].owner = r, jobRuns'[j].owner = r,
         jobRuns[i].owner # r, jobRuns[j].owner # r
  PROVE  i = j
<1>1. jobRuns' # jobRuns
  OBVIOUS
<1>2. PICK k \in JobRunIds : AddJobRun(k, r, proc[r].work.taskSpec)
  BY <1>1 DEF CreateJobRun, CreateJobRunFails
<1> QED
  BY <1>2 DEF AddJobRun, IInv, TypeOK, StoreType

\* A call creates only for an open Run that has no JobRun.
LEMMA CreatesTheFirst ==
  ASSUME RInv, NEW r \in Runs, proc[r].pc = "create"
  PROVE  /\ runs[r] # NoValue /\ ~IsDone(runs[r].status)
         /\ \A i \in JobRunIds : jobRuns[i].owner # r
<1>1. /\ ReadTheStored(r) /\ CallKeepsRecord(r) /\ JobRunIsOnRecord(r) /\ CallsAnnounceFirst
  BY DEF RInv, QInv, GInv, AInv, Current
<1>2. /\ runs[r] # NoValue /\ ~IsDone(runs[r].status)
      /\ OnRecord(r) = NoValue /\ ~LostCreate(r)
  BY <1>1 DEF ReadTheStored, CallKeepsRecord, CallsAnnounceFirst, OnRecord, LostCreate, Last
<1> QED
  BY <1>1, <1>2 DEF JobRunIsOnRecord

\* The record of a Run's JobRun stays; only CreateJobRun makes one.
LEMMA RecordStays ==
  ASSUME NoRecordLost, QInv, [Next]_vars, NEW r \in Runs,
         ~\E j \in JobRunIds : CreateJobRun(r, j), runs[r] # NoValue
  PROVE  /\ runs'[r] # NoValue /\ OnRecord(r)' = OnRecord(r)
         /\ LostCreate(r) => LostCreate(r)'
<1>0. /\ NoWriteLost /\ TypeOK /\ FInv /\ ReadTheStored(r) /\ CallsAnnounceFirst
      /\ {"staleRun", "getErr"} \cap Hazards = {}
  BY DEF NoRecordLost, NoWriteLost, QInv, GInv, FInv, IInv, AInv
<1>1. CASE Begins(r) /\ UNCHANGED runs
  <2>1. runs[r] = runCache[r]
    BY <1>0, <1>1, BegunFresh
  <2>2. /\ proc[r].pc = "idle" /\ proc'[r].pc \in {"create", "check", "put"}
        /\ proc'[r].work.jobRunName = runs[r].status.jobRunName
        /\ ~IsDone(runs[r].status)
    BY <1>0, <1>1, <2>1, BegunCall
  <2> QED
    BY <1>1, <2>2 DEF OnRecord, LostCreate, Last
<1>2. CASE Continues(r)
  <2>1. /\ proc[r].pc \in {"create", "check"} /\ proc'[r].pc = "put" /\ UNCHANGED runs
        /\ proc'[r].work.jobRunName =
             IF CheckJobRun(r) THEN proc[r].work.jobRunName ELSE proc[r].orig.jobRunName
    BY <1>0, <1>2, ContinuedCall
  <2>2. CheckJobRun(r) <=> proc[r].pc = "check"
    BY <1>0, <1>2 DEF Continues, CreateJobRunFails, CheckJobRun, CheckJobRunFails
  <2>3. ~LostCreate(r)
    BY <1>0, <2>1 DEF LostCreate, Last, ReadTheStored, CallsAnnounceFirst
  <2> QED
    BY <1>0, <2>1, <2>2, <2>3 DEF OnRecord, ReadTheStored
<1>3. CASE Ends(r)
  BY <1>0, <1>3, EndedCall, EndedIsStored DEF OnRecord, LostCreate, Last
<1>4. CASE \/ UNCHANGED <<runs[r], proc[r], events[r]>>
           \/ /\ UNCHANGED <<runs[r], events[r]>>
              /\ proc[r].pc = "idle" /\ proc'[r].pc = "idle"
  BY <1>4 DEF OnRecord, LostCreate, Last
<1> QED
  BY <1>0, <1>1, <1>2, <1>3, <1>4, QuietSteps DEF CreateRun

\* A create is on record in its call, or it has failed the Run.
LEMMA CreatedIsOnRecord ==
  ASSUME RInv, NEW r \in Runs, NEW j \in JobRunIds,
         \/ CreateJobRun(r, j)
         \/ /\ CreateJobRunFails(r)
            /\ "createLost" \in Hazards
  PROVE  runs'[r] # NoValue /\ (OnRecord(r)' = j \/ LostCreate(r)')
<1>1. TypeOK /\ (proc[r].pc = "create" => runs[r] # NoValue)
  BY CreatesTheFirst DEF RInv, QInv, GInv, FInv, IInv
<1>2. CASE CreateJobRun(r, j)
  BY <1>1, <1>2, CreatedCall DEF OnRecord
<1>3. CASE CreateJobRunFails(r) /\ "createLost" \in Hazards
  <2> DEFINE orig == proc[r].orig
             w == Mark(proc[r].work, "FailedToStartJobRun")
  <2>1. proc[r].pc = "create" /\ UNCHANGED runs /\ Return(r, orig, w, "err")
    BY <1>3 DEF CreateJobRunFails, apiVars
  <2>2. orig \in Statuses /\ w \in Statuses /\ IsDone(w)
    <3>1. orig \in Statuses /\ proc[r].work \in Statuses
      BY <1>1 DEF TypeOK, ProcessType, Calls
    <3>2. w \in Statuses
      BY <3>1, MarkType DEF Reasons, FailureReasons
    <3>3. w.reason = "FailedToStartJobRun"
      BY <3>1 DEF Mark, Statuses
    <3> QED
      BY <3>1, <3>2, <3>3 DEF IsDone, FailureReasons
  <2> HIDE DEF orig, w
  <2>3. proc'[r].pc = "put" /\ IsDone(proc'[r].work)
    BY <1>1, <2>1, <2>2, AfterReturn DEF IsDone
  <2> QED
    BY <1>1, <1>3, <2>1, <2>3 DEF LostCreate, Last
<1> QED
  BY <1>2, <1>3

LEMMA NextOnRecord ==
  ASSUME NoRecordLost, RInv, [Next]_vars, NEW r \in Runs
  PROVE  JobRunIsOnRecord(r)'
<1> SUFFICES ASSUME NEW j \in JobRunIds, jobRuns'[j].owner = r
             PROVE  runs'[r] # NoValue /\ (OnRecord(r)' = j \/ LostCreate(r)')
  BY DEF JobRunIsOnRecord
<1>1. IInv /\ QInv /\ JobRunIsOnRecord(r)
  BY DEF RInv, QInv, GInv, FInv
<1>2. CASE \/ CreateJobRun(r, j)
           \/ /\ CreateJobRunFails(r)
              /\ "createLost" \in Hazards
  BY <1>2, CreatedIsOnRecord
<1>3. CASE jobRuns[j].owner = r
  <2>1. ~\E i \in JobRunIds : CreateJobRun(r, i)
    BY <1>3, CreatesTheFirst DEF CreateJobRun
  <2>2. runs[r] # NoValue /\ (OnRecord(r) = j \/ LostCreate(r))
    BY <1>1, <1>3 DEF JobRunIsOnRecord
  <2> QED
    BY <1>1, <2>1, <2>2, RecordStays
<1> QED
  BY <1>1, <1>2, <1>3, OwnersOfJobRun

LEMMA NextAtMostOne ==
  ASSUME RInv, [Next]_vars
  PROVE  AtMostOneJobRun'
<1> SUFFICES ASSUME NEW i \in JobRunIds, NEW j \in JobRunIds,
                    jobRuns'[i].owner # NoValue, jobRuns'[i].owner = jobRuns'[j].owner
             PROVE  i = j
  BY DEF AtMostOneJobRun
<1>1. IInv /\ AtMostOneJobRun
  BY DEF RInv, QInv, GInv, FInv
<1>2. PICK r \in Runs : jobRuns'[i].owner = r
  BY <1>1, NextCopies DEF IInv, TypeOK, StoreType, JobRunRecords
<1>3. CASE jobRuns[i].owner = r /\ jobRuns[j].owner = r
  BY <1>1, <1>3 DEF AtMostOneJobRun
<1>4. CASE jobRuns[i].owner # r \/ jobRuns[j].owner # r
  <2>1. /\ proc[r].pc = "create"
        /\ CreateJobRunFails(r) \/ \E k \in JobRunIds : CreateJobRun(r, k)
    BY <1>1, <1>2, <1>4, OwnersOfJobRun
  <2>2. jobRuns[i].owner # r /\ jobRuns[j].owner # r
    BY <2>1, CreatesTheFirst
  <2> QED
    BY <1>1, <1>2, <2>1, <2>2, CreatesOne
<1> QED
  BY <1>3, <1>4

LEMMA InitRecords == Init => RInv
BY InitQuiet DEF RInv, Init, JobRunIsOnRecord, AtMostOneJobRun, NoJobRun

LEMMA NextRecords == NoRecordLost /\ RInv /\ [Next]_vars => RInv'
BY NextQuiet, NextOnRecord, NextAtMostOne DEF RInv, NoRecordLost

\* As long as no record is lost, a Run starts at most one JobRun, through creates
\* that fail or whose answer is lost, JobRuns and JobDefinitions that are deleted
\* and tasks that are edited or deleted (codeenginetask.go:235-240).
THEOREM StartsAtMostOneJobRun == NoRecordLost => (Spec => []AtMostOneJobRun)
<1> SUFFICES ASSUME NoRecordLost PROVE Spec => []AtMostOneJobRun
  OBVIOUS
<1>1. RInv => AtMostOneJobRun
  BY DEF RInv
<1> QED
  BY <1>1, InitRecords, NextRecords, PTL DEF Spec

=============================================================================
