--------------------------- MODULE RunReconciler ---------------------------
(***************************************************************************)
(* The Code Engine custom-task controller: Reconciler.ReconcileKind of     *)
(* pkg/reconciler/codeenginetask, together with what it runs between: the  *)
(* Kubernetes API server that stores Tekton Runs and CodeEngineTasks, the  *)
(* Code Engine project that stores JobDefinitions and JobRuns, the         *)
(* informer caches that lag behind both, and the work queue.               *)
(*                                                                         *)
(* One ReconcileKind call is cut where another actor can act in between:   *)
(*   - it starts: the Run, its task and its JobDefinition are read from    *)
(*     the caches;                                                         *)
(*   - "create": jobRunsClient.Create is in flight;                        *)
(*   - "check":  jobRunLister.Get is about to be called;                   *)
(*   - "put":    ReconcileKind has returned, the caller is about to write  *)
(*     the status and to requeue the key.                                  *)
(* The work queue never hands a key to two workers, so a call is           *)
(* identified by the Run it is for.                                        *)
(***************************************************************************)
EXTENDS Naturals, Sequences, FiniteSets

CONSTANTS
  Runs,       \* keys (namespace/name) of Tekton Runs
  Tasks,      \* names of CodeEngineTask resources
  JobNames,   \* names a JobDefinition may have, defined in the project or not
  JobRunIds,  \* names Code Engine can generate for JobRuns; bounds their number
  Shapes,     \* the spec.ref / spec.spec combinations that users submit
  Hazards,    \* the disturbances of the environment that are switched on
  MaxLag,     \* bound: watch events of one Run that are not yet delivered
  NoValue     \* nil, the empty string, a missing object

HazardNames ==
  { "staleRun",      \* a key is reconciled before its own last write was seen
    "crash",         \* the controller process dies and is started again
    "createErr",     \* JobRuns.Create fails, nothing was created
    "createLost",    \* JobRuns.Create fails, but the JobRun was created
    "getErr",        \* jobRunLister.Get fails with another error than NotFound
    "putErr",        \* writing the status fails
    "deleteRun",     \* a Run is deleted (and its name may be used again)
    "editTask",      \* a CodeEngineTask is changed to name another job
    "dropTask",      \* a CodeEngineTask is deleted
    "dropJobDef",    \* a JobDefinition is deleted
    "dropJobRun",    \* a JobRun is deleted from the project
    "manualJobRun" } \* somebody submits a JobRun by hand, without owner labels

\* spec.ref is nil, names a CodeEngineTask, has an empty name or another kind.
RefValues  == Tasks \cup {NoValue, "unnamed", "foreign"}
\* spec.spec is nil, embeds a job name, is not decodable or of another kind.
SpecValues == JobNames \cup {NoValue, "malformed", "foreign"}

ASSUME ShapesAssumption  == Shapes \subseteq [ref : RefValues, spec : SpecValues]
ASSUME HazardsAssumption == Hazards \subseteq HazardNames
ASSUME MaxLagAssumption  == MaxLag \in Nat \ {0}
ASSUME NamesAssumption ==
  /\ NoValue \notin Runs \cup Tasks \cup JobNames \cup JobRunIds
  /\ NoValue \notin {"malformed", "foreign", "unnamed"}
  /\ {"malformed", "foreign"} \cap JobNames = {}
  /\ {"unnamed", "foreign"} \cap Tasks = {}

VARIABLES
  \* Kubernetes API server
  runs,           \* the Run stored under each key, or NoValue
  tasks,          \* the jobName of each CodeEngineTask, or NoValue
  \* Code Engine project
  jobDefs,        \* the JobDefinitions that exist
  jobRuns,        \* the JobRun of each name: owner label, job, outcome, existence
  \* informers of the controller
  watch,          \* Run watch events that are not yet delivered, per key
  runCache,       \* what runLister returns
  taskCache,      \* what taskLister returns
  jobDefCache,    \* what jobDefinitionLister returns
  jobRunCache,    \* the state jobRunLister shows, "absent" when it has none
  \* controller process
  up,             \* the process is running
  queue,          \* keys waiting in the work queue
  proc,           \* the ReconcileKind call in progress for each key
  createdJobRuns, \* Reconciler.createdJobRuns
  \* event recorder
  events          \* the verdicts ever announced for each Run

apiVars   == <<runs, tasks>>
ceVars    == <<jobDefs, jobRuns>>
listVars  == <<taskCache, jobDefCache, jobRunCache>>
cacheVars == <<watch, runCache, listVars>>
procVars  == <<up, queue, proc, createdJobRuns>>
vars      == <<apiVars, ceVars, cacheVars, procVars, events>>

-----------------------------------------------------------------------------
(***************************************************************************)
(* Run.Status. The Succeeded condition is determined by its reason: True   *)
(* for Succeeded, False for the failures, Unknown for the others. StartTime*)
(* and condition are set together, so "none" is a Run that has not started.*)
(* taskSpec and jobRunName are CodeEngineTaskStatus, kept in ExtraFields.  *)
(***************************************************************************)
FailureReasons ==
  {"Failed", "CouldntGetCodeEngineTask", "FailedToStartJobRun"}
Reasons ==
  FailureReasons \cup
  {"none", "Started", "Running", "FailedToGetJobRunStatus", "Succeeded"}

Statuses == [reason     : Reasons,
             taskSpec   : JobNames \cup {NoValue},
             jobRunName : JobRunIds \cup {NoValue}]
RunObjects == [shape : Shapes, status : Statuses]

\* A missing object can be told from every other.
ASSUME ObjectsAssumption == NoValue \notin RunObjects

EmptyStatus ==
  [reason |-> "none", taskSpec |-> NoValue, jobRunName |-> NoValue]

IsDone(st)       == st.reason \in FailureReasons \cup {"Succeeded"}
HasStarted(st)   == st.reason # "none"
Mark(st, reason) == [st EXCEPT !.reason = reason]

initializeRun(st) == IF HasStarted(st) THEN st ELSE Mark(st, "Started")

\* Mutant: a verdict of the very first call is not announced.
Announced_notAtOnce(before, after) ==
  IF IsDone(after) /\ HasStarted(before) /\ before.reason # after.reason
  THEN {IF after.reason = "Succeeded" THEN "Succeeded" ELSE "Failed"} ELSE {}

\* The deferred call announces a condition that has changed since ReconcileKind
\* was entered; the events that announce no verdict are left out.
Verdict(reason) == IF reason = "Succeeded" THEN "Succeeded" ELSE "Failed"
Announced(before, after) ==
  IF IsDone(after) /\ before.reason # after.reason
  THEN {Verdict(after.reason)} ELSE {}

-----------------------------------------------------------------------------
(***************************************************************************)
(* Which Runs are this controller's.                                       *)
(***************************************************************************)
\* The event filter of the Run informer looks at spec.ref first.
FilterRunRef(o) ==
  /\ o # NoValue
  /\ IF o.shape.ref # NoValue
     THEN o.shape.ref # "foreign"
     ELSE o.shape.spec \notin {NoValue, "foreign"}

\* Mutant: the kind of an embedded spec is looked at only without a reference.
verifyCodeEngineSpec_refFirst(shape) ==
  /\ ~(shape.ref = NoValue /\ shape.spec = NoValue)
  /\ shape.ref # "foreign"
  /\ shape.ref = NoValue => shape.spec # "foreign"

verifyCodeEngineSpec(shape) ==
  /\ ~(shape.ref = NoValue /\ shape.spec = NoValue)
  /\ shape.ref # "foreign"
  /\ shape.spec # "foreign"

\* Reporting an embedded spec of another kind reads run.Spec.Ref, which is nil.
Panics(shape) == shape.spec = "foreign" /\ shape.ref = NoValue

\* The job name of the task a Run refers to: the embedded spec when there is
\* one, else the CodeEngineTask that the lister shows.
getCodeEngineTask(shape) ==
  IF shape.spec # NoValue THEN shape.spec
  ELSE IF shape.ref \in Tasks THEN taskCache[shape.ref]
  ELSE NoValue

\* Mutant: the spec is stored again in every call.
storeCodeEngineTaskSpec_always(st, job) == [st EXCEPT !.taskSpec = job]

storeCodeEngineTaskSpec(st, job) ==
  IF st.taskSpec = NoValue THEN [st EXCEPT !.taskSpec = job] ELSE st

\* What Code Engine shows of JobRun j.
Listed(j) == IF jobRuns[j].exists THEN jobRuns[j].outcome ELSE "absent"

NoJobRun == [owner |-> NoValue, job |-> NoValue,
             outcome |-> "Active", exists |-> FALSE]
Unused(j) == jobRuns[j].job = NoValue
Outcomes == {"Complete", "Failed"}

filterJobRunRef(j) == jobRuns[j].owner # NoValue

-----------------------------------------------------------------------------
Idle == [pc |-> "idle", orig |-> EmptyStatus, work |-> EmptyStatus,
         result |-> "ok"]

Init ==
  /\ runs  = [r \in Runs |-> NoValue]
  /\ tasks = [t \in Tasks |-> NoValue]
  /\ jobDefs = {}
  /\ jobRuns = [j \in JobRunIds |-> NoJobRun]
  /\ watch = [r \in Runs |-> <<>>]
  /\ runCache  = [r \in Runs |-> NoValue]
  /\ taskCache = [t \in Tasks |-> NoValue]
  /\ jobDefCache = {}
  /\ jobRunCache = [j \in JobRunIds |-> "absent"]
  /\ up = FALSE
  /\ queue = {}
  /\ proc = [r \in Runs |-> Idle]
  /\ createdJobRuns = {}
  /\ events = [r \in Runs |-> {}]

-----------------------------------------------------------------------------
(***************************************************************************)
(* Users, Tekton and Code Engine.                                          *)
(***************************************************************************)
\* Store o under r and let the running controller's watch see it.
StoreRun(r, o) ==
  /\ Len(watch[r]) < MaxLag
  /\ runs'  = [runs EXCEPT ![r] = o]
  /\ watch' = IF up THEN [watch EXCEPT ![r] = Append(@, o)] ELSE watch

CreateRun(r, shape) ==
  /\ runs[r] = NoValue
  /\ StoreRun(r, [shape |-> shape, status |-> EmptyStatus])
  /\ UNCHANGED <<tasks, ceVars, runCache, listVars, procVars, events>>

DeleteRun(r) ==
  /\ "deleteRun" \in Hazards
  /\ runs[r] # NoValue
  /\ StoreRun(r, NoValue)
  /\ UNCHANGED <<tasks, ceVars, runCache, listVars, procVars, events>>

\* A CodeEngineTask is applied (job # NoValue) or deleted.
ChangeTask(t, job) ==
  /\ job # tasks[t]
  /\ \/ tasks[t] = NoValue
     \/ job = NoValue /\ "dropTask" \in Hazards
     \/ job # NoValue /\ "editTask" \in Hazards
  /\ tasks' = [tasks EXCEPT ![t] = job]
  /\ UNCHANGED <<runs, ceVars, cacheVars, procVars, events>>

ChangeJobDef(job) ==
  /\ \/ job \notin jobDefs /\ jobDefs' = jobDefs \cup {job}
     \/ /\ job \in jobDefs /\ "dropJobDef" \in Hazards
        /\ jobDefs' = jobDefs \ {job}
  /\ UNCHANGED <<apiVars, jobRuns, cacheVars, procVars, events>>

FinishJobRun(j, outcome) ==
  /\ jobRuns[j].exists
  /\ jobRuns[j].outcome = "Active"
  /\ jobRuns' = [jobRuns EXCEPT ![j].outcome = outcome]
  /\ UNCHANGED <<apiVars, jobDefs, cacheVars, procVars, events>>

DropJobRun(j) ==
  /\ "dropJobRun" \in Hazards
  /\ jobRuns[j].exists
  /\ jobRuns' = [jobRuns EXCEPT ![j].exists = FALSE]
  /\ UNCHANGED <<apiVars, jobDefs, cacheVars, procVars, events>>

\* Code Engine stores a JobRun under a name it has not used before.
AddJobRun(j, owner, job) ==
  /\ Unused(j)
  /\ jobRuns' = [jobRuns EXCEPT ![j] = [owner |-> owner, job |-> job,
                                        outcome |-> "Active", exists |-> TRUE]]

SubmitJobRun(j, job) ==
  /\ "manualJobRun" \in Hazards
  /\ AddJobRun(j, NoValue, job)
  /\ UNCHANGED <<apiVars, jobDefs, cacheVars, procVars, events>>

-----------------------------------------------------------------------------
(***************************************************************************)
(* Informers. Each delivers in the order of its watch; a handler enqueues  *)
(* the key of the Run concerned. Adding a queued key has no effect, and a  *)
(* key added while it is being reconciled is handed out again afterwards.  *)
(***************************************************************************)
Enqueue(keys) == queue' = queue \cup keys

\* An event whose old or new object passes the filter enqueues the Run.
SyncRun(r) ==
  /\ up
  /\ watch[r] # <<>>
  /\ runCache' = [runCache EXCEPT ![r] = Head(watch[r])]
  /\ watch'    = [watch EXCEPT ![r] = Tail(@)]
  /\ Enqueue({k \in {r} : FilterRunRef(Head(watch[k])) \/ FilterRunRef(runCache[k])})
  /\ UNCHANGED <<apiVars, ceVars, listVars, up, proc, createdJobRuns, events>>

\* Mutant: events of JobRuns enqueue nothing.
jobRunEnqueueFunc_never(j) == Enqueue({})

\* The Run that the labels of JobRun j name.
jobRunEnqueueFunc(j) == Enqueue(IF filterJobRunRef(j) THEN {jobRuns[j].owner} ELSE {})

\* Of a deletion that the watch has missed the handler gets a tombstone, which is no
\* JobRun to filterJobRunRef.
SyncJobRun(j) ==
  /\ up
  /\ jobRunCache[j] # Listed(j)
  /\ jobRunCache' = [jobRunCache EXCEPT ![j] = Listed(j)]
  /\ \/ jobRunEnqueueFunc(j)
     \/ Listed(j) = "absent" /\ Enqueue({})
  /\ UNCHANGED <<apiVars, ceVars, watch, runCache, taskCache, jobDefCache,
                 up, proc, createdJobRuns, events>>

SyncTask(t) ==
  /\ up
  /\ taskCache[t] # tasks[t]
  /\ taskCache' = [taskCache EXCEPT ![t] = tasks[t]]
  /\ UNCHANGED <<apiVars, ceVars, watch, runCache, jobDefCache, jobRunCache,
                 procVars, events>>

SyncJobDefs ==
  /\ up
  /\ jobDefCache # jobDefs
  /\ jobDefCache' = jobDefs
  /\ UNCHANGED <<apiVars, ceVars, watch, runCache, taskCache, jobRunCache,
                 procVars, events>>

\* The periodic resync replays what the cache holds.
ResyncRun(r) ==
  /\ up
  /\ FilterRunRef(runCache[r])
  /\ Enqueue({r})
  /\ UNCHANGED <<apiVars, ceVars, cacheVars, up, proc, createdJobRuns, events>>

ResyncJobRun(j) ==
  /\ up
  /\ jobRunCache[j] # "absent"
  /\ jobRunEnqueueFunc(j)
  /\ UNCHANGED <<apiVars, ceVars, cacheVars, up, proc, createdJobRuns, events>>

-----------------------------------------------------------------------------
(***************************************************************************)
(* ReconcileKind.                                                          *)
(***************************************************************************)
\* Key r can be handed to a worker; without stale caches, not before the watch
\* has delivered what was written to the Run.
Ready(r) ==
  /\ up
  /\ r \in queue
  /\ proc[r].pc = "idle"
  /\ "staleRun" \in Hazards \/ watch[r] = <<>>

\* A worker is handed key r and the lister shows o.
Takes(r, o) ==
  /\ Ready(r)
  /\ o = runCache[r]
  /\ queue' = queue \ {r}

\* Go on at pc with the working copy w of the status.
GoOn(r, pc, orig, w) ==
  /\ proc' = [proc EXCEPT ![r] = [pc |-> pc, orig |-> orig, work |-> w,
                                 result |-> "ok"]]
  /\ UNCHANGED events

\* Mutant: the decoded status is never encoded back.
Return_notEncoded(r, orig, w, result) ==
  /\ proc' = [proc EXCEPT ![r] = [pc |-> "put", orig |-> orig,
                                 work |-> Mark(orig, w.reason), result |-> result]]
  /\ events' = [events EXCEPT ![r] = @ \cup Announced(orig, w)]

\* Mutant: after an error the Run is left with the condition alone.
Return_dropsRecord(r, orig, w, result) ==
  /\ proc' = [proc EXCEPT ![r] =
                [pc     |-> "put",
                 orig   |-> orig,
                 work   |-> IF result = "ok" THEN w ELSE Mark(EmptyStatus, w.reason),
                 result |-> result]]
  /\ events' = [events EXCEPT ![r] = @ \cup Announced(orig, w)]

\* Return: the decoded status is encoded back into the Run only without an
\* error, the condition is in the Run either way; the deferred call emits.
Return(r, orig, w, result) ==
  /\ proc' = [proc EXCEPT ![r] =
                [pc     |-> "put",
                 orig   |-> orig,
                 work   |-> IF result = "ok" THEN w ELSE Mark(orig, w.reason),
                 result |-> result]]
  /\ events' = [events EXCEPT ![r] = @ \cup Announced(orig, w)]

\* The Run is gone, is another controller's, or is done.
SkipRun(r, o) ==
  /\ Takes(r, o)
  /\ \/ o = NoValue
     \/ /\ o # NoValue
        /\ ~verifyCodeEngineSpec(o.shape)
        /\ ~Panics(o.shape)
     \/ o # NoValue /\ verifyCodeEngineSpec(o.shape) /\ IsDone(o.status)
  /\ UNCHANGED <<apiVars, ceVars, cacheVars, up, proc, createdJobRuns, events>>

\* Everything the process holds in memory is lost.
Down ==
  /\ up' = FALSE
  /\ queue' = {}
  /\ proc' = [r \in Runs |-> Idle]
  /\ createdJobRuns' = {}
  /\ watch' = [r \in Runs |-> <<>>]
  /\ runCache'  = [r \in Runs |-> NoValue]
  /\ taskCache' = [t \in Tasks |-> NoValue]
  /\ jobDefCache' = {}
  /\ jobRunCache' = [j \in JobRunIds |-> "absent"]
  /\ UNCHANGED <<apiVars, ceVars, events>>

PanicOnRun(r) ==
  /\ Ready(r)
  /\ runCache[r] # NoValue
  /\ Panics(runCache[r].shape)
  /\ Down

\* Mutant: a Run that is done is reconciled like any other.
TakesOpen_doneToo(r, o) ==
  Takes(r, o) /\ o # NoValue /\ verifyCodeEngineSpec(o.shape)

\* A Run to work on: it is this controller's and it is not done.
TakesOpen(r, o) ==
  /\ Takes(r, o)
  /\ o # NoValue
  /\ verifyCodeEngineSpec(o.shape)
  /\ ~IsDone(o.status)

\* An embedded spec that cannot be decoded is an error and nothing else; a
\* task that cannot be found fails the Run.
FailOnTask(r, o) ==
  /\ TakesOpen(r, o)
  /\ getCodeEngineTask(o.shape) \in {NoValue, "malformed"}
  /\ LET w == initializeRun(o.status) IN
       Return(r, o.status,
              IF getCodeEngineTask(o.shape) = NoValue
              THEN Mark(w, "CouldntGetCodeEngineTask") ELSE w,
              "err")
  /\ UNCHANGED <<apiVars, ceVars, cacheVars, up, createdJobRuns>>

\* Mutant: a recorded JobRun does not keep the next call from starting one.
runCodeEngineJob_unguarded(r, orig, w) ==
  IF w.taskSpec \in jobDefCache THEN GoOn(r, "create", orig, w)
  ELSE Return(r, orig, Mark(w, "FailedToStartJobRun"), "err")

\* Mutant: the JobDefinition is looked up although the JobRun is on record.
runCodeEngineJob_definitionFirst(r, orig, w) ==
  IF w.taskSpec \notin jobDefCache
  THEN Return(r, orig, Mark(w, "FailedToStartJobRun"), "err")
  ELSE GoOn(r, IF w.jobRunName = NoValue THEN "create" ELSE "check", orig, w)

\* runCodeEngineJob up to the call of Create: it is for a Run that has no JobRun
\* on record, waits when the local cache knows one for this key, and fails the
\* Run when the JobDefinition is not known.
runCodeEngineJob(r, orig, w) ==
  CASE w.jobRunName # NoValue -> GoOn(r, "check", orig, w)
    [] w.jobRunName = NoValue /\ r \in createdJobRuns ->
         Return(r, orig, w, "requeue")
    [] w.jobRunName = NoValue /\ r \notin createdJobRuns /\ w.taskSpec \notin jobDefCache ->
         Return(r, orig, Mark(w, "FailedToStartJobRun"), "err")
    [] OTHER -> GoOn(r, "create", orig, w)

ReconcileRun(r, o) ==
  /\ TakesOpen(r, o)
  /\ getCodeEngineTask(o.shape) \notin {NoValue, "malformed"}
  /\ runCodeEngineJob(r, o.status, storeCodeEngineTaskSpec(initializeRun(o.status),
                                                          getCodeEngineTask(o.shape)))
  /\ UNCHANGED <<apiVars, ceVars, cacheVars, up, createdJobRuns>>

\* Mutant: a JobRun of the same job that the cache shows is taken over.
CreateJobRun_adopts(r, j) ==
  /\ proc[r].pc = "create"
  /\ IF jobRunCache[j] = "Active" /\ jobRuns[j].job = proc[r].work.taskSpec
     THEN UNCHANGED jobRuns
     ELSE AddJobRun(j, r, proc[r].work.taskSpec)
  /\ GoOn(r, "check", proc[r].orig,
          [proc[r].work EXCEPT !.jobRunName = j, !.reason = "Running"])
  /\ UNCHANGED <<apiVars, jobDefs, cacheVars, up, queue, createdJobRuns>>

CreateJobRun(r, j) ==
  /\ proc[r].pc = "create"
  /\ AddJobRun(j, r, proc[r].work.taskSpec)
  /\ GoOn(r, "check", proc[r].orig,
          [proc[r].work EXCEPT !.jobRunName = j, !.reason = "Running"])
  /\ UNCHANGED <<apiVars, jobDefs, cacheVars, up, queue, createdJobRuns>>

\* Create returns an error, with or without having created the JobRun.
CreateJobRunFails(r) ==
  /\ proc[r].pc = "create"
  /\ \/ "createErr" \in Hazards /\ UNCHANGED jobRuns
     \/ /\ "createLost" \in Hazards
        /\ \E j \in JobRunIds : AddJobRun(j, r, proc[r].work.taskSpec)
  /\ Return(r, proc[r].orig, Mark(proc[r].work, "FailedToStartJobRun"), "err")
  /\ UNCHANGED <<apiVars, jobDefs, cacheVars, up, queue, createdJobRuns>>

\* Mutant: a JobRun the lister does not show has completed.
checkCodeEngineJobRunStatus_goneIsComplete(w) ==
  CASE jobRunCache[w.jobRunName] \in {"Complete", "absent"} -> Mark(w, "Succeeded")
    [] jobRunCache[w.jobRunName] = "Failed" -> Mark(w, "Failed")
    [] OTHER -> w

\* Mutant: a JobRun that has ended has completed.
checkCodeEngineJobRunStatus_endedIsComplete(w) ==
  IF jobRunCache[w.jobRunName] \in Outcomes THEN Mark(w, "Succeeded") ELSE w

\* A JobRun the lister does not show is one to wait for.
checkCodeEngineJobRunStatus(w) ==
  CASE jobRunCache[w.jobRunName] = "Complete" -> Mark(w, "Succeeded")
    [] jobRunCache[w.jobRunName] = "Failed"   -> Mark(w, "Failed")
    [] OTHER -> w

CheckJobRun(r) ==
  /\ proc[r].pc = "check"
  /\ Return(r, proc[r].orig, checkCodeEngineJobRunStatus(proc[r].work), "ok")
  /\ UNCHANGED <<apiVars, ceVars, cacheVars, up, queue, createdJobRuns>>

\* Mutant: a JobRun that cannot be read is waited for like one that is not there.
CheckJobRunFails_waits(r) ==
  /\ proc[r].pc = "check"
  /\ "getErr" \in Hazards
  /\ Return(r, proc[r].orig, Mark(proc[r].work, "FailedToGetJobRunStatus"), "ok")
  /\ UNCHANGED <<apiVars, ceVars, cacheVars, up, queue, createdJobRuns>>

CheckJobRunFails(r) ==
  /\ proc[r].pc = "check"
  /\ "getErr" \in Hazards
  /\ Return(r, proc[r].orig, Mark(proc[r].work, "FailedToGetJobRunStatus"), "err")
  /\ UNCHANGED <<apiVars, ceVars, cacheVars, up, queue, createdJobRuns>>

-----------------------------------------------------------------------------
(***************************************************************************)
(* The caller of ReconcileKind: write the status back when it differs from *)
(* the one that was read, and add the key again after an error. The write  *)
(* replaces the whole status; a version conflict makes it read the Run     *)
(* again and repeat, so it never depends on what the Run has become.       *)
(***************************************************************************)
Finish(r, ok) ==
  /\ proc' = [proc EXCEPT ![r] = Idle]
  /\ Enqueue(IF ok THEN {} ELSE {r})

\* No write is needed.
KeepStatus(r) ==
  /\ proc[r].pc = "put"
  /\ \/ proc[r].work = proc[r].orig
     \/ runs[r] # NoValue /\ proc[r].work = runs[r].status
  /\ Finish(r, proc[r].result = "ok")
  /\ UNCHANGED <<apiVars, ceVars, cacheVars, up, createdJobRuns, events>>

PutStatus(r) ==
  /\ proc[r].pc = "put"
  /\ proc[r].work # proc[r].orig
  /\ runs[r] # NoValue
  /\ proc[r].work # runs[r].status
  /\ StoreRun(r, [runs[r] EXCEPT !.status = proc[r].work])
  /\ Finish(r, proc[r].result = "ok")
  /\ UNCHANGED <<tasks, ceVars, runCache, listVars, up, createdJobRuns, events>>

PutStatusFails(r) ==
  /\ proc[r].pc = "put"
  /\ proc[r].work # proc[r].orig
  /\ runs[r] = NoValue \/ "putErr" \in Hazards
  /\ Finish(r, FALSE)
  /\ UNCHANGED <<apiVars, ceVars, cacheVars, up, createdJobRuns, events>>

-----------------------------------------------------------------------------
(***************************************************************************)
(* The process.                                                            *)
(***************************************************************************)
Crash == up /\ "crash" \in Hazards /\ Down

\* The informers list everything before the handlers run; becoming the leader
\* enqueues every Run that exists, and the handlers replay every JobRun.
Restart ==
  /\ ~up
  /\ up' = TRUE
  /\ runCache'    = runs
  /\ taskCache'   = tasks
  /\ jobDefCache' = jobDefs
  /\ jobRunCache' = [j \in JobRunIds |-> Listed(j)]
  /\ queue' = {r \in Runs : runs[r] # NoValue}
              \cup {jobRuns[j].owner : j \in {i \in JobRunIds :
                       jobRuns[i].exists /\ filterJobRunRef(i)}}
  /\ UNCHANGED <<apiVars, ceVars, watch, proc, createdJobRuns, events>>

-----------------------------------------------------------------------------
Environment ==
  \/ \E r \in Runs : DeleteRun(r) \/ \E shape \in Shapes : CreateRun(r, shape)
  \/ \E t \in Tasks, job \in JobNames \cup {NoValue} : ChangeTask(t, job)
  \/ \E job \in JobNames : ChangeJobDef(job)
  \/ \E j \in JobRunIds :
       \/ \E outcome \in Outcomes : FinishJobRun(j, outcome)
       \/ DropJobRun(j)
       \/ \E job \in JobNames : SubmitJobRun(j, job)

Informers ==
  \/ \E r \in Runs : SyncRun(r) \/ ResyncRun(r)
  \/ \E j \in JobRunIds : SyncJobRun(j) \/ ResyncJobRun(j)
  \/ \E t \in Tasks : SyncTask(t)
  \/ SyncJobDefs

Reconcile(r) ==
  \/ SkipRun(r, runCache[r])
  \/ PanicOnRun(r)
  \/ FailOnTask(r, runCache[r])
  \/ ReconcileRun(r, runCache[r])
  \/ \E j \in JobRunIds : CreateJobRun(r, j)
  \/ CreateJobRunFails(r)
  \/ CheckJobRun(r)
  \/ CheckJobRunFails(r)
  \/ KeepStatus(r)
  \/ PutStatus(r)
  \/ PutStatusFails(r)

Next ==
  \/ Environment
  \/ Informers
  \/ \E r \in Runs : Reconcile(r)
  \/ Crash
  \/ Restart

Spec == Init /\ [][Next]_vars

\* The workers, the watches and the Deployment that restarts the container go
\* on, and Code Engine ends what it runs. Nothing is assumed of the users, of
\* the failures, of the periodic resync, or of crashes.
Fairness ==
  /\ \A r \in Runs : WF_vars(Reconcile(r)) /\ WF_vars(SyncRun(r))
  /\ \A j \in JobRunIds :
       /\ WF_vars(SyncJobRun(j))
       /\ WF_vars(\E outcome \in Outcomes : FinishJobRun(j, outcome))
  /\ \A t \in Tasks : WF_vars(SyncTask(t))
  /\ WF_vars(SyncJobDefs)
  /\ WF_vars(Restart)

FairSpec == Spec /\ Fairness

-----------------------------------------------------------------------------
JobRunRecords == [owner   : Runs \cup {NoValue},
                  job     : JobNames \cup {NoValue},
                  outcome : Outcomes \cup {"Active"},
                  exists  : BOOLEAN]
JobRunStates == Outcomes \cup {"Active", "absent"}
Calls == [pc     : {"idle", "create", "check", "put"},
          orig   : Statuses,
          work   : Statuses,
          result : {"ok", "err", "requeue"}]

StoreType ==
  /\ runs \in [Runs -> RunObjects \cup {NoValue}]
  /\ tasks \in [Tasks -> JobNames \cup {NoValue}]
  /\ jobDefs \subseteq JobNames
  /\ jobRuns \in [JobRunIds -> JobRunRecords]
CacheType ==
  /\ watch \in [Runs -> Seq(RunObjects \cup {NoValue})]
  /\ runCache \in [Runs -> RunObjects \cup {NoValue}]
  /\ taskCache \in [Tasks -> JobNames \cup {NoValue}]
  /\ jobDefCache \subseteq JobNames
  /\ jobRunCache \in [JobRunIds -> JobRunStates]
ProcessType ==
  /\ up \in BOOLEAN
  /\ queue \subseteq Runs
  /\ proc \in [Runs -> Calls]
  /\ createdJobRuns \subseteq Runs
  /\ events \in [Runs -> SUBSET {"Succeeded", "Failed"}]
CallsInOrder ==
  \A r \in Runs :
    /\ proc[r].pc = "create" => /\ proc[r].work.taskSpec \in JobNames
                               /\ proc[r].work.jobRunName = NoValue
    /\ proc[r].pc = "check"  => proc[r].work.jobRunName \in JobRunIds

\* Every variable has its type; a call creates a JobRun only for a known spec
\* and without having recorded one, and checks only one that it has recorded
\* (codeenginetask.go:235, 286).
TypeOK == StoreType /\ CacheType /\ ProcessType /\ CallsInOrder
=============================================================================
