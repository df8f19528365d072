------------------------- MODULE NoForgottenRunProofs -------------------------
(***************************************************************************)
(* The controller always has a reason to look at an open Run again, for    *)
(* all constants of RunReconciler. The argument is made for one Run at a   *)
(* time: Tended is what has to hold of it, and it is kept by every step,   *)
(* of this Run's call, of the informers, or of anybody else.               *)
(***************************************************************************)
EXTENDS RunReconcilerProofs, SequenceTheorems

\* The version of Run r that the cache will have come to when the watch has
\* delivered everything.
LastSeen(r) == IF watch[r] = <<>> THEN runCache[r] ELSE watch[r][Len(watch[r])]

\* Something makes the controller look at r again.
Expected(r) == r \in queue \/ watch[r] # <<>>

WaitsForJobRun(st) ==
  /\ st.jobRunName # NoValue
  /\ jobRunCache[st.jobRunName] \notin Outcomes

StoppedIsIdle(r)  == ~up => watch[r] = <<>> /\ proc[r].pc = "idle"
CacheCatchesUp(r) == up => LastSeen(r) = runs[r]
CallReadTheLast(r) ==
  proc[r].pc # "idle" /\ ~Expected(r) /\ Open(r) => proc[r].orig = runs[r].status
CallEndsWaiting(r) ==
  /\ proc[r].pc = "put" /\ proc[r].result = "ok" /\ ~IsDone(proc[r].work)
  /\ r \notin queue
  => WaitsForJobRun(proc[r].work)
NotForgotten(r) == Quiet(r) /\ Open(r) => WaitsForJobRun(runs[r].status)

Tended(r) ==
  /\ StoppedIsIdle(r)
  /\ CacheCatchesUp(r)
  /\ CallReadTheLast(r)
  /\ CallEndsWaiting(r)
  /\ NotForgotten(r)

FInv == IInv /\ \A r \in Runs : Tended(r)

USE NamesAssumption, ShapesAssumption

-----------------------------------------------------------------------------
(***************************************************************************)
(* Steps that are none of this Run's business.                             *)
(***************************************************************************)
\* The Run and its call stay as they are; its key may be added.
Bystander(r) ==
  /\ UNCHANGED <<up, runs[r], watch[r], runCache[r], proc[r]>>
  /\ r \in queue => r \in queue'

\* The end of a JobRun of this Run is not shown without its key being added.
Informed(r) ==
  \A j \in JobRunIds :
    jobRuns[j].owner = r /\ jobRunCache'[j] \in Outcomes =>
      jobRunCache[j] \in Outcomes \/ r \in queue'

LEMMA OwnedByItsRun ==
  ASSUME IInv, NEW r \in Runs
  PROVE  /\ runs[r] # NoValue /\ runs[r].status.jobRunName # NoValue =>
              /\ runs[r].status.jobRunName \in JobRunIds
              /\ jobRuns[runs[r].status.jobRunName].owner = r
         /\ proc[r].work.jobRunName # NoValue =>
              /\ proc[r].work.jobRunName \in JobRunIds
              /\ jobRuns[proc[r].work.jobRunName].owner = r
<1>1. runs[r] # NoValue => runs[r].status.jobRunName \in JobRunIds \cup {NoValue}
  BY DEF IInv, TypeOK, StoreType, RunObjects, Statuses
<1>2. proc[r].work.jobRunName \in JobRunIds \cup {NoValue}
  BY DEF IInv, TypeOK, ProcessType, Calls, Statuses
<1>3. runs[r] # NoValue => RecordMatches(jobRuns, r, runs[r].status)
  BY DEF IInv, CopiesAreTrue, StoreIsTrue, IsTrueOfObject, IsTrue
<1>4. RecordMatches(jobRuns, r, proc[r].work)
  BY DEF IInv, CopiesAreTrue, CallsAreTrue, IsTrue
<1> QED
  BY <1>1, <1>2, <1>3, <1>4 DEF RecordMatches

LEMMA BystanderIsTended ==
  ASSUME IInv, NEW r \in Runs, Tended(r), Bystander(r), Informed(r)
  PROVE  Tended(r)'
<1>1. UNCHANGED Open(r) /\ (Expected(r) => Expected(r)')
  BY DEF Bystander, Open, Expected
<1>2. (StoppedIsIdle(r) /\ CacheCatchesUp(r) /\ CallReadTheLast(r))'
  BY <1>1 DEF Tended, Bystander, StoppedIsIdle, CacheCatchesUp, LastSeen, CallReadTheLast
<1>3. CallEndsWaiting(r)'
  BY OwnedByItsRun
     DEF Tended, Bystander, Informed, CallEndsWaiting, WaitsForJobRun
<1>4. NotForgotten(r)'
  BY <1>1, OwnedByItsRun
     DEF Tended, Bystander, Informed, NotForgotten, Quiet, Open, WaitsForJobRun
<1> QED
  BY <1>2, <1>3, <1>4 DEF Tended

LEMMA SameCacheInforms ==
  ASSUME UNCHANGED jobRunCache, NEW r \in Runs
  PROVE  Informed(r)
BY DEF Informed

-----------------------------------------------------------------------------
(***************************************************************************)
(* Writes of the Run, by users or by its call.                             *)
(***************************************************************************)
LEMMA WrittenIsTended ==
  ASSUME IInv, NEW r \in Runs, Tended(r),
         NEW o \in RunObjects \cup {NoValue}, StoreRun(r, o),
         UNCHANGED <<up, runCache, jobRunCache>>,
         (UNCHANGED <<proc, queue>>) \/ (up /\ proc'[r] = Idle)
  PROVE  Tended(r)'
<1>1. runs'[r] = o
  BY DEF StoreRun, IInv, TypeOK, StoreType
<1>2. CASE up
  <2>1. watch'[r] = Append(watch[r], o) /\ watch[r] \in Seq(RunObjects \cup {NoValue})
    BY <1>2 DEF StoreRun, IInv, TypeOK, CacheType
  <2>2. watch'[r] # <<>> /\ watch'[r][Len(watch'[r])] = o
    BY <2>1
  <2>3. (StoppedIsIdle(r) /\ CacheCatchesUp(r) /\ CallReadTheLast(r) /\ NotForgotten(r))'
    BY <1>1, <1>2, <2>2 DEF StoppedIsIdle, CacheCatchesUp, LastSeen, CallReadTheLast,
                            Expected, NotForgotten, Quiet
  <2>4. CallEndsWaiting(r)'
    BY IdleType DEF Tended, CallEndsWaiting, WaitsForJobRun
  <2> QED
    BY <2>3, <2>4 DEF Tended
<1>3. CASE ~up
  <2>1. watch' = watch /\ proc' = proc /\ watch[r] = <<>> /\ proc[r].pc = "idle"
    BY <1>3 DEF StoreRun, Tended, StoppedIsIdle
  <2> QED
    BY <1>3, <2>1 DEF Tended, StoppedIsIdle, CacheCatchesUp, CallReadTheLast,
                      CallEndsWaiting, NotForgotten, Quiet
<1> QED
  BY <1>2, <1>3

LEMMA OthersOfStoreRun ==
  ASSUME IInv, NEW r \in Runs, NEW o, StoreRun(r, o), NEW k \in Runs, k # r
  PROVE  UNCHANGED <<runs[k], watch[k]>>
BY DEF StoreRun, IInv, TypeOK, StoreType, CacheType

LEMMA EnvironmentTends == FInv /\ Environment => \A k \in Runs : Tended(k)'
<1> SUFFICES ASSUME FInv, Environment, NEW k \in Runs PROVE Tended(k)'
  OBVIOUS
<1> USE DEF apiVars, ceVars, listVars, cacheVars, procVars
<1>1. ASSUME NEW r \in Runs, NEW o \in RunObjects \cup {NoValue}, StoreRun(r, o),
             UNCHANGED <<up, queue, proc, runCache, jobRunCache>>
      PROVE  Tended(k)'
  <2>1. CASE k = r
    BY <1>1, <2>1, WrittenIsTended DEF FInv
  <2>2. CASE k # r
    BY <1>1, <2>2, OthersOfStoreRun, SameCacheInforms, BystanderIsTended
       DEF FInv, Bystander
  <2> QED
    BY <2>1, <2>2
<1>2. ASSUME NEW r \in Runs, NEW shape \in Shapes, CreateRun(r, shape) PROVE Tended(k)'
  <2>1. [shape |-> shape, status |-> EmptyStatus] \in RunObjects
    BY DEF RunObjects, EmptyStatus, Statuses, Reasons
  <2> QED
    BY <1>1, <1>2, <2>1 DEF CreateRun
<1>3. ASSUME NEW r \in Runs, DeleteRun(r) PROVE Tended(k)'
  BY <1>1, <1>3 DEF DeleteRun
<1>4. CASE UNCHANGED <<runs, cacheVars, procVars>>
  BY <1>4, SameCacheInforms, BystanderIsTended DEF FInv, Bystander
<1>5. \/ \E r \in Runs, shape \in Shapes : CreateRun(r, shape)
      \/ \E r \in Runs : DeleteRun(r)
      \/ UNCHANGED <<runs, cacheVars, procVars>>
  BY DEF Environment, ChangeTask, ChangeJobDef, FinishJobRun, DropJobRun, SubmitJobRun
<1> QED
  BY <1>2, <1>3, <1>4, <1>5

-----------------------------------------------------------------------------
(***************************************************************************)
(* The informers.                                                          *)
(***************************************************************************)
\* The event filter lets through whatever ReconcileKind would work on.
LEMMA VerifiedIsFiltered ==
  ASSUME NEW o, o # NoValue, verifyCodeEngineSpec(o.shape)
  PROVE  FilterRunRef(o)
BY DEF verifyCodeEngineSpec, FilterRunRef

LEMMA SyncedIsTended ==
  ASSUME IInv, NEW r \in Runs, Tended(r), SyncRun(r)
  PROVE  Tended(r)'
<1>1. /\ up /\ watch[r] # <<>> /\ watch[r] \in Seq(RunObjects \cup {NoValue})
      /\ watch'[r] = Tail(watch[r]) /\ runCache'[r] = Head(watch[r])
      /\ UNCHANGED <<runs, up, proc, jobRunCache>>
      /\ queue' = queue \cup {k \in {r} : FilterRunRef(Head(watch[k])) \/ FilterRunRef(runCache[k])}
  BY DEF SyncRun, Enqueue, IInv, TypeOK, CacheType, apiVars, listVars
<1>2. LastSeen(r)' = LastSeen(r)
  <2>1. CASE Tail(watch[r]) = <<>>
    <3>1. Len(watch[r]) \in Nat /\ Len(watch[r]) # 0
      BY <1>1
    <3>2. Len(Tail(watch[r])) = Len(watch[r]) - 1
      BY <1>1, HeadTailProperties
    <3>3. Len(watch[r]) = 1
      <4>1. Len(Tail(watch[r])) = 0
        BY <2>1, EmptySeq
      <4> QED
        BY <3>1, <3>2, <4>1
    <3> QED
      BY <1>1, <2>1, <3>3 DEF LastSeen
  <2>2. CASE Tail(watch[r]) # <<>>
    <3>1. Tail(watch[r])[Len(Tail(watch[r]))] = watch[r][Len(watch[r])]
      BY <1>1, <2>2
    <3> QED
      BY <1>1, <2>2, <3>1 DEF LastSeen
  <2> QED
    BY <2>1, <2>2
<1>3. watch'[r] = <<>> /\ Open(r)' => r \in queue'
  <2> SUFFICES ASSUME watch'[r] = <<>>, Open(r)' PROVE r \in queue'
    OBVIOUS
  <2>1. Head(watch[r]) = runs[r]
    BY <1>1, <1>2 DEF LastSeen, Tended, CacheCatchesUp
  <2>2. FilterRunRef(Head(watch[r]))
    BY <1>1, <2>1, VerifiedIsFiltered DEF Open
  <2> QED
    BY <1>1, <2>2
<1>4. (StoppedIsIdle(r) /\ CacheCatchesUp(r))'
  BY <1>1, <1>2 DEF Tended, StoppedIsIdle, CacheCatchesUp
<1>5. (CallReadTheLast(r) /\ NotForgotten(r))'
  BY <1>1, <1>3 DEF CallReadTheLast, Expected, NotForgotten, Quiet
<1>6. CallEndsWaiting(r)'
  BY <1>1 DEF Tended, CallEndsWaiting, WaitsForJobRun
<1> QED
  BY <1>4, <1>5, <1>6 DEF Tended

LEMMA InformersTend == FInv /\ Informers => \A k \in Runs : Tended(k)'
<1> SUFFICES ASSUME FInv, Informers, NEW k \in Runs PROVE Tended(k)'
  OBVIOUS
<1> USE DEF apiVars, ceVars, listVars, cacheVars, procVars
<1>1. ASSUME NEW r \in Runs, SyncRun(r) PROVE Tended(k)'
  <2>1. CASE k = r
    BY <1>1, <2>1, SyncedIsTended DEF FInv
  <2>2. CASE k # r
    <3>1. Bystander(k) /\ UNCHANGED jobRunCache
      BY <1>1, <2>2 DEF SyncRun, Enqueue, Bystander, FInv, IInv, TypeOK, CacheType
    <3> QED
      BY <3>1, SameCacheInforms, BystanderIsTended DEF FInv
  <2> QED
    BY <2>1, <2>2
<1>2. ASSUME NEW j \in JobRunIds, SyncJobRun(j) PROVE Tended(k)'
  <2>1. Bystander(k)
    BY <1>2 DEF SyncJobRun, jobRunEnqueueFunc, Enqueue, Bystander
  <2>2. \A i \in JobRunIds : i # j => jobRunCache'[i] = jobRunCache[i]
    BY <1>2 DEF SyncJobRun, FInv, IInv, TypeOK, CacheType
  <2>3. jobRunCache'[j] \in Outcomes /\ jobRuns[j].owner = k => k \in queue'
    BY <1>2 DEF SyncJobRun, jobRunEnqueueFunc, filterJobRunRef, Enqueue, Outcomes, FInv,
                IInv, TypeOK, CacheType
  <2>4. Informed(k)
    BY <2>2, <2>3 DEF Informed
  <2> QED
    BY <2>1, <2>4, BystanderIsTended DEF FInv
<1>3. CASE /\ UNCHANGED <<runs, up, watch, runCache, proc, jobRunCache>>
           /\ queue \subseteq queue'
  BY <1>3, SameCacheInforms, BystanderIsTended DEF FInv, Bystander
<1>4. \/ \E r \in Runs : SyncRun(r)
      \/ \E j \in JobRunIds : SyncJobRun(j)
      \/ /\ UNCHANGED <<runs, up, watch, runCache, proc, jobRunCache>>
         /\ queue \subseteq queue'
  BY DEF Informers, ResyncRun, ResyncJobRun, jobRunEnqueueFunc, Enqueue, SyncTask, SyncJobDefs
<1> QED
  BY <1>1, <1>2, <1>3, <1>4

-----------------------------------------------------------------------------
(***************************************************************************)
(* The call of the Run itself.                                             *)
(***************************************************************************)
\* A call is under way after the step: it has just read the Run, or goes on.
LEMMA UnderWayIsTended ==
  ASSUME IInv, NEW r \in Runs, Tended(r), up,
         UNCHANGED <<runs, up, watch, runCache, jobRunCache>>,
         proc'[r].pc # "idle",
         \/ proc[r].pc # "idle" /\ proc'[r].orig = proc[r].orig /\ UNCHANGED queue
         \/ proc'[r].orig = runCache[r].status,
         proc'[r].pc = "put" /\ proc'[r].result = "ok" /\ ~IsDone(proc'[r].work) =>
           WaitsForJobRun(proc'[r].work)
  PROVE  Tended(r)'
<1>1. (StoppedIsIdle(r) /\ CacheCatchesUp(r) /\ NotForgotten(r))'
  BY DEF Tended, StoppedIsIdle, CacheCatchesUp, LastSeen, NotForgotten, Quiet
<1>2. CallEndsWaiting(r)'
  BY DEF CallEndsWaiting, WaitsForJobRun
<1>3. CallReadTheLast(r)'
  BY DEF Tended, CallReadTheLast, CacheCatchesUp, LastSeen, Expected, Open
<1> QED
  BY <1>1, <1>2, <1>3 DEF Tended

LEMMA StartedIsTended ==
  ASSUME IInv, NEW r \in Runs, Tended(r),
         FailOnTask(r, runCache[r]) \/ ReconcileRun(r, runCache[r])
  PROVE  Tended(r)'
<1> DEFINE st == runCache[r].status
<1>1. /\ up /\ UNCHANGED <<runs, up, watch, runCache, jobRunCache>>
  BY DEF FailOnTask, ReconcileRun, TakesOpen, Takes, Ready, apiVars, cacheVars, listVars
<1>2. \E w : \/ Return(r, st, w, "err") \/ Return(r, st, w, "requeue")
             \/ GoOn(r, "create", st, w) \/ GoOn(r, "check", st, w)
  BY DEF FailOnTask, ReconcileRun, runCodeEngineJob
<1>3. /\ proc'[r].pc # "idle" /\ proc'[r].orig = st
      /\ ~(proc'[r].pc = "put" /\ proc'[r].result = "ok")
  BY <1>2 DEF Return, GoOn, IInv, TypeOK, ProcessType
<1> QED
  BY <1>1, <1>3, UnderWayIsTended

LEMMA ContinuedIsTended ==
  ASSUME IInv, NEW r \in Runs, Tended(r),
         \/ \E j \in JobRunIds : CreateJobRun(r, j)
         \/ CreateJobRunFails(r) \/ CheckJobRun(r) \/ CheckJobRunFails(r)
  PROVE  Tended(r)'
<1> USE DEF apiVars, ceVars, listVars, cacheVars
<1>1. /\ proc[r].pc # "idle"
      /\ UNCHANGED <<runs, up, queue, watch, runCache, jobRunCache>>
  BY DEF CreateJobRun, CreateJobRunFails, CheckJobRun, CheckJobRunFails
<1>2. up
  BY <1>1 DEF Tended, StoppedIsIdle
<1>3. CASE CheckJobRun(r)
  <2> DEFINE w == checkCodeEngineJobRunStatus(proc[r].work)
  <2>1. proc[r].pc = "check" /\ Return(r, proc[r].orig, w, "ok")
    BY <1>3 DEF CheckJobRun
  <2>2. /\ proc'[r].pc = "put" /\ proc'[r].orig = proc[r].orig
        /\ proc'[r].work = w
    BY <2>1 DEF Return, IInv, TypeOK, ProcessType
  <2>3. ~IsDone(w) => WaitsForJobRun(w)
    <3>1. proc[r].work.jobRunName \in JobRunIds /\ proc[r].work \in Statuses
      BY <2>1 DEF IInv, TypeOK, ProcessType, CallsInOrder, Calls
    <3>2. CASE jobRunCache[proc[r].work.jobRunName] \in Outcomes
      BY <3>1, <3>2 DEF checkCodeEngineJobRunStatus, Outcomes, Mark, Statuses, IsDone,
                        FailureReasons
    <3>3. CASE jobRunCache[proc[r].work.jobRunName] \notin Outcomes
      BY <3>1, <3>3 DEF checkCodeEngineJobRunStatus, Outcomes, WaitsForJobRun
    <3> QED
      BY <3>2, <3>3
  <2> QED
    BY <1>1, <1>2, <2>2, <2>3, UnderWayIsTended
<1>4. CASE ~CheckJobRun(r)
  <2>1. \E w : Return(r, proc[r].orig, w, "err") \/ GoOn(r, "check", proc[r].orig, w)
    BY <1>4 DEF CreateJobRun, CreateJobRunFails, CheckJobRunFails
  <2>2. /\ proc'[r].pc # "idle" /\ proc'[r].orig = proc[r].orig
        /\ ~(proc'[r].pc = "put" /\ proc'[r].result = "ok")
    BY <2>1 DEF Return, GoOn, IInv, TypeOK, ProcessType
  <2> QED
    BY <1>1, <1>2, <2>2, UnderWayIsTended
<1> QED
  BY <1>3, <1>4

LEMMA SkippedIsTended ==
  ASSUME IInv, NEW r \in Runs, Tended(r), SkipRun(r, runCache[r])
  PROVE  Tended(r)'
<1>1. /\ up /\ proc[r].pc = "idle"
      /\ UNCHANGED <<runs, up, watch, runCache, proc>>
  BY DEF SkipRun, Takes, Ready, apiVars, cacheVars
<1>2. runCache[r] = NoValue \/ ~verifyCodeEngineSpec(runCache[r].shape)
        \/ IsDone(runCache[r].status)
  BY DEF SkipRun
<1>3. watch[r] = <<>> => ~Open(r)'
  BY <1>1, <1>2 DEF Tended, CacheCatchesUp, LastSeen, Open
<1>4. (StoppedIsIdle(r) /\ CacheCatchesUp(r) /\ CallReadTheLast(r) /\ CallEndsWaiting(r))'
  BY <1>1 DEF Tended, StoppedIsIdle, CacheCatchesUp, LastSeen, CallReadTheLast,
              CallEndsWaiting
<1>5. NotForgotten(r)'
  BY <1>1, <1>3 DEF NotForgotten, Quiet
<1> QED
  BY <1>4, <1>5 DEF Tended

\* The call ends without a write: its key is added again, or the Run waits.
LEMMA EndedIsTended ==
  ASSUME IInv, NEW r \in Runs, Tended(r), KeepStatus(r) \/ PutStatusFails(r)
  PROVE  Tended(r)'
<1>1. /\ proc[r].pc = "put" /\ proc'[r] = Idle /\ proc'[r].pc = "idle"
      /\ UNCHANGED <<runs, up, watch, runCache, jobRunCache>>
      /\ queue \subseteq queue'
  BY IdleType DEF KeepStatus, PutStatusFails, Finish, Enqueue, IInv, TypeOK, ProcessType,
                  apiVars, cacheVars, listVars
<1>2. up
  BY <1>1 DEF Tended, StoppedIsIdle
<1>3. (StoppedIsIdle(r) /\ CacheCatchesUp(r) /\ CallReadTheLast(r) /\ CallEndsWaiting(r))'
  BY <1>1, <1>2 DEF Tended, StoppedIsIdle, CacheCatchesUp, LastSeen, CallReadTheLast,
                    CallEndsWaiting
<1>4. NotForgotten(r)'
  <2> SUFFICES ASSUME r \notin queue', watch[r] = <<>>, Open(r)
               PROVE  WaitsForJobRun(runs[r].status)
    BY <1>1 DEF NotForgotten, Quiet, Open, WaitsForJobRun
  <2>1. KeepStatus(r) /\ proc[r].result = "ok"
    BY DEF KeepStatus, PutStatusFails, Finish, Enqueue
  <2>2. ~Expected(r) /\ r \notin queue
    BY <1>1 DEF Expected
  <2>3. proc[r].orig = runs[r].status
    BY <1>1, <2>2 DEF Tended, CallReadTheLast
  <2>4. proc[r].work = runs[r].status
    BY <2>1, <2>3 DEF KeepStatus
  <2> QED
    BY <1>1, <2>1, <2>2, <2>4 DEF Tended, CallEndsWaiting, Open
<1> QED
  BY <1>3, <1>4 DEF Tended

LEMMA OwnCallTends ==
  ASSUME IInv, NEW r \in Runs, Tended(r), Reconcile(r), ~Down
  PROVE  Tended(r)'
<1>1. CASE PutStatus(r)
  <2> DEFINE o == [runs[r] EXCEPT !.status = proc[r].work]
  <2>1. /\ StoreRun(r, o) /\ UNCHANGED <<up, runCache, jobRunCache>>
        /\ proc[r].pc = "put" /\ proc'[r] = Idle
    BY <1>1 DEF PutStatus, Finish, IInv, TypeOK, ProcessType, listVars
  <2>2. o \in RunObjects
    BY <1>1 DEF PutStatus, IInv, TypeOK, StoreType, ProcessType, Calls, RunObjects
  <2>3. up
    BY <2>1 DEF Tended, StoppedIsIdle
  <2> HIDE DEF o
  <2> QED
    BY <2>1, <2>2, <2>3, WrittenIsTended
<1> QED
  BY <1>1, StartedIsTended, ContinuedIsTended, SkippedIsTended, EndedIsTended
     DEF Reconcile, PanicOnRun

\* The call of one Run is none of another Run's business.
LEMMA OthersOfCall ==
  ASSUME IInv, NEW r \in Runs, NEW k \in Runs, k # r, Reconcile(r), ~Down
  PROVE  Bystander(k) /\ UNCHANGED jobRunCache
<1> USE DEF apiVars, ceVars, listVars, cacheVars
<1>1. /\ UNCHANGED <<up, runCache, jobRunCache>> /\ UNCHANGED proc[k]
      /\ k \in queue => k \in queue'
  <2>1. ASSUME NEW orig, NEW w, NEW result, Return(r, orig, w, result)
        PROVE  UNCHANGED proc[k]
    BY <2>1 DEF Return, IInv, TypeOK, ProcessType
  <2>2. ASSUME NEW pc, NEW orig, NEW w, GoOn(r, pc, orig, w) PROVE UNCHANGED proc[k]
    BY <2>2 DEF GoOn, IInv, TypeOK, ProcessType
  <2>3. CASE SkipRun(r, runCache[r])
    BY <2>3 DEF SkipRun, Takes
  <2>4. CASE FailOnTask(r, runCache[r])
    BY <2>1, <2>4 DEF FailOnTask, TakesOpen, Takes
  <2>5. CASE ReconcileRun(r, runCache[r])
    BY <2>1, <2>2, <2>5 DEF ReconcileRun, runCodeEngineJob, TakesOpen, Takes
  <2>6. CASE (\E j \in JobRunIds : CreateJobRun(r, j)) \/ CreateJobRunFails(r)
    BY <2>1, <2>2, <2>6 DEF CreateJobRun, CreateJobRunFails
  <2>7. CASE CheckJobRun(r) \/ CheckJobRunFails(r)
    BY <2>1, <2>7 DEF CheckJobRun, CheckJobRunFails
  <2>8. CASE KeepStatus(r) \/ PutStatus(r) \/ PutStatusFails(r)
    BY <2>8 DEF KeepStatus, PutStatus, PutStatusFails, Finish, Enqueue,
                IInv, TypeOK, ProcessType
  <2> QED
    BY <2>3, <2>4, <2>5, <2>6, <2>7, <2>8 DEF Reconcile, PanicOnRun
<1>2. UNCHANGED <<runs[k], watch[k]>>
  <2>1. CASE PutStatus(r)
    BY <2>1, OthersOfStoreRun DEF PutStatus
  <2>2. CASE ~PutStatus(r)
    BY <2>2 DEF Reconcile, SkipRun, PanicOnRun, FailOnTask, ReconcileRun, CreateJobRun,
                CreateJobRunFails, CheckJobRun, CheckJobRunFails, KeepStatus, PutStatusFails
  <2> QED
    BY <2>1, <2>2
<1> QED
  BY <1>1, <1>2 DEF Bystander

LEMMA OtherCallTends ==
  ASSUME FInv, NEW r \in Runs, NEW k \in Runs, k # r, Reconcile(r), ~Down
  PROVE  Tended(k)'
BY OthersOfCall, SameCacheInforms, BystanderIsTended DEF FInv

-----------------------------------------------------------------------------
(***************************************************************************)
(* The process, and the theorem.                                           *)
(***************************************************************************)
LEMMA DownTends == Down => \A k \in Runs : Tended(k)'
BY IdleType DEF Down, Tended, StoppedIsIdle, CacheCatchesUp, CallReadTheLast,
                CallEndsWaiting, NotForgotten, Quiet

LEMMA RestartTends == FInv /\ Restart => \A k \in Runs : Tended(k)'
<1> SUFFICES ASSUME FInv, Restart, NEW k \in Runs PROVE Tended(k)'
  OBVIOUS
<1>1. /\ watch'[k] = <<>> /\ proc'[k].pc = "idle" /\ UNCHANGED runs
      /\ up' /\ runCache' = runs
      /\ runs[k] # NoValue => k \in queue'
  BY DEF Restart, FInv, Tended, StoppedIsIdle, apiVars
<1> QED
  BY <1>1 DEF Tended, StoppedIsIdle, CacheCatchesUp, LastSeen, CallReadTheLast,
              CallEndsWaiting, NotForgotten, Quiet, Open

LEMMA InitTends == Init => FInv
<1> SUFFICES ASSUME Init PROVE FInv
  OBVIOUS
<1>1. \A r \in Runs : Tended(r)
  BY IdleType DEF Init, Tended, StoppedIsIdle, CacheCatchesUp, CallReadTheLast,
                  CallEndsWaiting, NotForgotten, Quiet
<1> QED
  BY <1>1, InitCopies DEF FInv

LEMMA NextTends == FInv /\ [Next]_vars => FInv'
<1> SUFFICES ASSUME FInv, [Next]_vars PROVE FInv'
  OBVIOUS
<1>1. IInv'
  BY NextCopies DEF FInv
<1>2. ASSUME NEW k \in Runs PROVE Tended(k)'
  <2>1. CASE UNCHANGED vars
    BY <2>1, SameCacheInforms, BystanderIsTended
       DEF FInv, Bystander, vars, apiVars, cacheVars, listVars, procVars
  <2>2. CASE Environment
    BY <2>2, EnvironmentTends
  <2>3. CASE Informers
    BY <2>3, InformersTend
  <2>4. CASE Down
    BY <2>4, DownTends
  <2>5. ASSUME NEW r \in Runs, Reconcile(r), ~Down PROVE Tended(k)'
    BY <2>5, OwnCallTends, OtherCallTends DEF FInv
  <2>6. CASE Restart
    BY <2>6, RestartTends
  <2> QED
    BY <2>1, <2>2, <2>3, <2>4, <2>5, <2>6 DEF Next, Crash
<1> QED
  BY <1>1, <1>2 DEF FInv

\* When nothing is left that makes the controller look at an open Run, a JobRun is
\* on record for it whose end the informer has not shown
\* (codeenginetask.go:96-98, 291-294, controller.go:104-113).
THEOREM NoRunIsForgotten == Spec => []NoForgottenRun
<1>1. FInv => NoForgottenRun
  BY DEF FInv, Tended, NotForgotten, NoForgottenRun, WaitsForJobRun
<1> QED
  BY <1>1, InitTends, NextTends, PTL DEF Spec

=============================================================================
