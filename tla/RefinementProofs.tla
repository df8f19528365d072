--------------------------- MODULE RefinementProofs ---------------------------
(***************************************************************************)
(* RunReconciler implements CodeEngineRun, for all constants, as long as   *)
(* no result of a call is lost and no Run and no task is deleted.          *)
(***************************************************************************)
EXTENDS QuietProofs, RunPromise

USE NamesAssumption

\* Neither a record of a JobRun nor the answer of a create is lost.
NoResultLost == NoRecordLost /\ "createLost" \notin Hazards

PInv == RInv /\ LInv

-----------------------------------------------------------------------------
(***************************************************************************)
(* The steps that change what the promise speaks of.                       *)
(***************************************************************************)
LEMMA StepsOfStores ==
  ASSUME {"deleteRun", "createLost"} \cap Hazards = {}, [Next]_vars
  PROVE  \/ UNCHANGED <<runs, jobRuns>>
         \/ \E r \in Runs, shape \in Shapes : CreateRun(r, shape)
         \/ \E r \in Runs : PutStatus(r)
         \/ \E r \in Runs, j \in JobRunIds : CreateJobRun(r, j)
         \/ \E j \in JobRunIds, outcome \in Outcomes : FinishJobRun(j, outcome)
         \/ \E j \in JobRunIds : DropJobRun(j)
         \/ \E j \in JobRunIds, job \in JobNames : SubmitJobRun(j, job)
<1> USE DEF apiVars, ceVars
<1>1. CASE Environment
  BY <1>1 DEF Environment, DeleteRun, ChangeTask, ChangeJobDef
<1>2. CASE Informers \/ Crash \/ Restart \/ UNCHANGED vars
  BY <1>2 DEF Informers, SyncRun, ResyncRun, SyncJobRun, ResyncJobRun, SyncTask,
              SyncJobDefs, Crash, Down, Restart, vars
<1>3. ASSUME NEW r \in Runs, Reconcile(r), ~PutStatus(r),
             ~\E j \in JobRunIds : CreateJobRun(r, j)
      PROVE  UNCHANGED <<runs, jobRuns>>
  BY <1>3 DEF Reconcile, SkipRun, PanicOnRun, Down, FailOnTask, ReconcileRun,
              CreateJobRunFails, CheckJobRun, CheckJobRunFails, KeepStatus, PutStatusFails
<1> QED
  BY <1>1, <1>2, <1>3 DEF Next

-----------------------------------------------------------------------------
(***************************************************************************)
(* What the promise shows of a Run and of a JobRun.                        *)
(***************************************************************************)
LEMMA LaunchedIsOwned ==
  ASSUME "createLost" \notin Hazards, NEW r \in Runs, JobRunIsOnRecord(r)
  PROVE  /\ \A j \in JobRunIds : jobRuns[j].owner = r => LaunchedBy(r) = j
         /\ OnRecord(r) = NoValue => LaunchedBy(r) = NoValue
<1>1. ASSUME NEW j \in JobRunIds, jobRuns[j].owner = r PROVE LaunchedBy(r) = j
  <2>1. OwnedBy(r) = {j}
    BY <1>1 DEF OwnedBy, JobRunIsOnRecord, LostCreate
  <2> QED
    BY <2>1 DEF LaunchedBy, OneOf
<1>2. ASSUME OnRecord(r) = NoValue PROVE LaunchedBy(r) = NoValue
  <2>1. OwnedBy(r) = {}
    BY <1>2 DEF OwnedBy, JobRunIsOnRecord, LostCreate
  <2> QED
    BY <2>1 DEF LaunchedBy, OneOf
<1> QED
  BY <1>1, <1>2

\* Seen through the promise, a step leaves the Runs or the JobRuns alone.
SameRuns    == \A r \in Runs : PhaseOf(r)' = PhaseOf(r)
SameJobRuns == /\ \A r \in Runs : LaunchedBy(r)' = LaunchedBy(r)
               /\ \A j \in JobRunIds : OutcomeOf(j)' = OutcomeOf(j)

LEMMA UnchangedRuns ==
  ASSUME UNCHANGED runs
  PROVE  SameRuns
BY DEF SameRuns, PhaseOf

LEMMA UnchangedJobRuns ==
  ASSUME \A j \in JobRunIds : /\ jobRuns'[j].owner = jobRuns[j].owner
                              /\ OutcomeOf(j)' = OutcomeOf(j)
  PROVE  SameJobRuns
<1>1. \A r \in Runs : OwnedBy(r)' = OwnedBy(r)
  BY DEF OwnedBy
<1>2. ASSUME NEW r \in Runs PROVE LaunchedBy(r)' = LaunchedBy(r)
  BY <1>1 DEF LaunchedBy
<1> QED
  BY <1>2 DEF SameJobRuns

LEMMA Stutters ==
  ASSUME SameRuns, SameJobRuns
  PROVE  UNCHANGED Promised!vars
BY DEF SameRuns, SameJobRuns, Promised!vars

-----------------------------------------------------------------------------
(***************************************************************************)
(* Every step is one of the promise or changes nothing in it.              *)
(***************************************************************************)
LEMMA CreateRunSubmits ==
  ASSUME TypeOK, NEW r \in Runs, NEW shape \in Shapes, CreateRun(r, shape)
  PROVE  Promised!Submit(r)
<1> DEFINE o == [shape |-> shape, status |-> EmptyStatus]
<1>1. runs[r] = NoValue /\ runs' = [runs EXCEPT ![r] = o] /\ UNCHANGED jobRuns
  BY DEF CreateRun, StoreRun, ceVars
<1>2. o # NoValue /\ ~IsDone(o.status)
  <2>1. o \in RunObjects
    BY DEF RunObjects, EmptyStatus, Statuses, Reasons
  <2> QED
    BY <2>1, ObjectsAssumption DEF IsDone, EmptyStatus, FailureReasons
<1> HIDE DEF o
<1>3. PhaseOf(r) = "absent" /\ PhaseOf(r)' = "open"
  BY <1>1, <1>2 DEF PhaseOf, TypeOK, StoreType
<1>4. \A k \in Runs : k # r => PhaseOf(k)' = PhaseOf(k)
  BY <1>1 DEF PhaseOf, TypeOK, StoreType
<1>5. SameJobRuns
  BY <1>1, UnchangedJobRuns DEF OutcomeOf, filterJobRunRef
<1> QED
  BY <1>3, <1>4, <1>5 DEF SameJobRuns, Promised!Submit

LEMMA CreateJobRunLaunches ==
  ASSUME PInv, NEW r \in Runs, NEW j \in JobRunIds, CreateJobRun(r, j)
  PROVE  Promised!Launch(r, j)
<1>0. /\ TypeOK /\ IInv /\ ReadTheStored(r) /\ CallsAnnounceFirst
  BY DEF PInv, RInv, QInv, GInv, FInv, IInv, AInv
<1>1. /\ proc[r].pc = "create" /\ Unused(j) /\ UNCHANGED runs
      /\ jobRuns' = [jobRuns EXCEPT ![j] = [owner |-> r, job |-> proc[r].work.taskSpec,
                                            outcome |-> "Active", exists |-> TRUE]]
  BY <1>0, CreatedCall
<1>2. PhaseOf(r) = "open" /\ SameRuns
  BY <1>0, <1>1, UnchangedRuns DEF ReadTheStored, CallsAnnounceFirst, PhaseOf
<1>3. jobRuns[j].owner = NoValue
  BY <1>0, <1>1 DEF IInv, UnusedIsBlank, NoJobRun
<1>4. /\ jobRuns'[j].owner = r /\ jobRuns'[j].outcome = "Active"
      /\ \A i \in JobRunIds : i # j => jobRuns'[i] = jobRuns[i]
  BY <1>0, <1>1 DEF TypeOK, StoreType
<1>5. LaunchedBy(r) = NoValue /\ LaunchedBy(r)' = j
  <2>1. OwnedBy(r) = {}
    BY <1>1, CreatesTheFirst DEF PInv, OwnedBy
  <2>2. OwnedBy(r)' = {j}
    BY <1>4, <2>1 DEF OwnedBy
  <2> QED
    BY <2>1, <2>2 DEF LaunchedBy, OneOf
<1>6. \A k \in Runs : k # r => LaunchedBy(k)' = LaunchedBy(k)
  <2>1. \A k \in Runs : k # r => OwnedBy(k)' = OwnedBy(k)
    BY <1>3, <1>4 DEF OwnedBy
  <2> QED
    BY <2>1 DEF LaunchedBy
<1>7. /\ OutcomeOf(j) = "none" /\ OutcomeOf(j)' = "Active"
      /\ \A i \in JobRunIds : i # j => OutcomeOf(i)' = OutcomeOf(i)
  BY <1>3, <1>4 DEF OutcomeOf, filterJobRunRef
<1> QED
  BY <1>2, <1>5, <1>6, <1>7 DEF SameRuns, Promised!Launch

LEMMA FinishJobRunEnds ==
  ASSUME TypeOK, NEW j \in JobRunIds, NEW o \in Outcomes, FinishJobRun(j, o)
  PROVE  Promised!End(j, o) \/ UNCHANGED Promised!vars
<1>1. /\ jobRuns[j].outcome = "Active" /\ UNCHANGED runs
      /\ jobRuns' = [jobRuns EXCEPT ![j].outcome = o]
  BY DEF FinishJobRun, apiVars
<1>2. /\ jobRuns'[j].owner = jobRuns[j].owner /\ jobRuns'[j].outcome = o
      /\ \A i \in JobRunIds : i # j => jobRuns'[i] = jobRuns[i]
  BY <1>1 DEF TypeOK, StoreType, JobRunRecords
<1>3. SameRuns
  BY <1>1, UnchangedRuns
<1>4. \A k \in Runs : LaunchedBy(k)' = LaunchedBy(k)
  <2>1. \A k \in Runs : OwnedBy(k)' = OwnedBy(k)
    BY <1>2 DEF OwnedBy
  <2> QED
    BY <2>1 DEF LaunchedBy
<1>5. \A i \in JobRunIds : i # j => OutcomeOf(i)' = OutcomeOf(i)
  BY <1>2 DEF OutcomeOf, filterJobRunRef
<1>6. CASE filterJobRunRef(j)
  <2>1. OutcomeOf(j) = "Active" /\ OutcomeOf(j)' = o
    BY <1>1, <1>2, <1>6 DEF OutcomeOf, filterJobRunRef
  <2> QED
    BY <1>3, <1>4, <1>5, <2>1 DEF SameRuns, Promised!End
<1>7. CASE ~filterJobRunRef(j)
  <2>1. OutcomeOf(j)' = OutcomeOf(j)
    BY <1>2, <1>7 DEF OutcomeOf, filterJobRunRef
  <2> QED
    BY <1>3, <1>4, <1>5, <2>1, Stutters DEF SameJobRuns
<1> QED
  BY <1>6, <1>7

\* What is done to a JobRun by hand is not seen, but for its end.
LEMMA ByHandStutters ==
  ASSUME IInv, NEW j \in JobRunIds,
         DropJobRun(j) \/ \E job \in JobNames : SubmitJobRun(j, job)
  PROVE  UNCHANGED Promised!vars
<1>1. UNCHANGED runs
  BY DEF DropJobRun, SubmitJobRun, apiVars
<1>2. \A i \in JobRunIds : /\ jobRuns'[i].owner = jobRuns[i].owner
                           /\ OutcomeOf(i)' = OutcomeOf(i)
  <2>1. CASE DropJobRun(j)
    BY <2>1 DEF DropJobRun, OutcomeOf, filterJobRunRef, IInv, TypeOK, StoreType,
                JobRunRecords
  <2>2. ASSUME NEW job \in JobNames, SubmitJobRun(j, job)
        PROVE  \A i \in JobRunIds : /\ jobRuns'[i].owner = jobRuns[i].owner
                                    /\ OutcomeOf(i)' = OutcomeOf(i)
    <3>1. jobRuns[j].owner = NoValue
      BY <2>2 DEF SubmitJobRun, AddJobRun, IInv, UnusedIsBlank, NoJobRun
    <3> QED
      BY <2>2, <3>1 DEF SubmitJobRun, AddJobRun, OutcomeOf, filterJobRunRef, IInv, TypeOK,
                        StoreType
  <2> QED
    BY <2>1, <2>2
<1> QED
  BY <1>1, <1>2, UnchangedRuns, UnchangedJobRuns, Stutters


\* A write ends a Run as its JobRun has ended, or rejects one that has none.
LEMMA PutStatusReports ==
  ASSUME "createLost" \notin Hazards, PInv, NEW r \in Runs, PutStatus(r)
  PROVE  Promised!Report(r) \/ Promised!Reject(r) \/ UNCHANGED Promised!vars
<1> DEFINE w == proc[r].work
<1>0. /\ TypeOK /\ ReadTheStored(r) /\ CallsAnnounceFirst /\ JobRunIsOnRecord(r)
      /\ IsTrue(jobRuns, r, w) /\ CallFollows(r)
  BY DEF PInv, RInv, QInv, GInv, FInv, IInv, AInv, CopiesAreTrue, CallsAreTrue, LInv, Launched
<1>1. /\ proc[r].pc = "put" /\ UNCHANGED jobRuns
      /\ runs[r] # NoValue /\ runs'[r] # NoValue /\ runs'[r].status = w
  BY <1>0, EndedCall DEF Ends, PutStatus, ceVars
<1>2. PhaseOf(r) = "open"
  BY <1>0, <1>1 DEF ReadTheStored, CallsAnnounceFirst, PhaseOf
<1>3. \A k \in Runs : k # r => PhaseOf(k)' = PhaseOf(k)
  BY <1>0 DEF PutStatus, StoreRun, PhaseOf, TypeOK, StoreType
<1>4. SameJobRuns
  BY <1>1, UnchangedJobRuns DEF OutcomeOf, filterJobRunRef
<1>5. PhaseOf(r)' = IF ~IsDone(w) THEN "open"
                    ELSE IF w.reason = "Succeeded" THEN "succeeded" ELSE "failed"
  BY <1>1 DEF PhaseOf
<1>6. OnRecord(r) = w.jobRunName /\ w.jobRunName \in JobRunIds \cup {NoValue}
  BY <1>0, <1>1 DEF OnRecord, TypeOK, ProcessType, Calls, Statuses
<1> HIDE DEF w
<1>7. CASE ~IsDone(w)
  BY <1>2, <1>3, <1>4, <1>5, <1>7, Stutters DEF SameRuns
<1>8. CASE w.reason \in {"Succeeded", "Failed"}
  <2>1. /\ w.jobRunName \in JobRunIds
        /\ jobRuns[w.jobRunName].owner = r
        /\ jobRuns[w.jobRunName].outcome =
             IF w.reason = "Succeeded" THEN "Complete" ELSE "Failed"
    BY <1>0, <1>6, <1>8 DEF IsTrue, RecordMatches, VerdictMatches
  <2>2. LaunchedBy(r) = w.jobRunName /\ LaunchedBy(r) # NoValue
    BY <1>0, <2>1, LaunchedIsOwned
  <2>3. OutcomeOf(LaunchedBy(r)) = IF w.reason = "Succeeded" THEN "Complete" ELSE "Failed"
    BY <2>1, <2>2 DEF OutcomeOf, filterJobRunRef
  <2>4. PhaseOf(r)' = IF OutcomeOf(LaunchedBy(r)) = "Complete" THEN "succeeded" ELSE "failed"
    BY <1>5, <1>8, <2>3 DEF IsDone, FailureReasons
  <2>5. Promised!Report(r)
    BY <1>2, <1>3, <1>4, <2>1, <2>2, <2>3, <2>4
       DEF SameJobRuns, Promised!Report, Promised!Outcomes
  <2> QED
    BY <2>5
<1>9. CASE IsDone(w) /\ w.reason \notin {"Succeeded", "Failed"}
  <2>1. LaunchedBy(r) = NoValue
    BY <1>0, <1>1, <1>6, <1>9, LaunchedIsOwned DEF CallFollows, Follows, EndsByJobRun, w
  <2>2. Promised!Reject(r)
    BY <1>2, <1>3, <1>4, <1>5, <1>9, <2>1 DEF SameJobRuns, Promised!Reject
  <2> QED
    BY <2>2
<1> QED
  BY <1>7, <1>8, <1>9

LEMMA InitImplements == Init => Promised!Init
<1> SUFFICES ASSUME Init PROVE Promised!Init
  OBVIOUS
<1>1. \A r \in Runs : PhaseOf(r) = "absent"
  BY DEF Init, PhaseOf
<1>2. \A r \in Runs : LaunchedBy(r) = NoValue
  <2>1. \A r \in Runs : OwnedBy(r) = {}
    BY DEF Init, OwnedBy, NoJobRun
  <2> QED
    BY <2>1 DEF LaunchedBy, OneOf
<1>3. \A j \in JobRunIds : OutcomeOf(j) = "none"
  BY DEF Init, OutcomeOf, filterJobRunRef, NoJobRun
<1> QED
  BY <1>1, <1>2, <1>3 DEF Promised!Init

LEMMA NextImplements ==
  NoResultLost /\ PInv /\ [Next]_vars => [Promised!Next]_(Promised!vars)
<1> SUFFICES ASSUME NoResultLost, PInv, [Next]_vars
             PROVE  Promised!Next \/ UNCHANGED Promised!vars
  OBVIOUS
<1>0. IInv /\ TypeOK /\ {"deleteRun", "createLost"} \cap Hazards = {}
  BY DEF PInv, RInv, QInv, GInv, FInv, IInv, NoResultLost, NoRecordLost, NoWriteLost
<1>1. CASE UNCHANGED <<runs, jobRuns>>
  BY <1>1, UnchangedRuns, UnchangedJobRuns, Stutters DEF OutcomeOf, filterJobRunRef
<1>2. ASSUME NEW r \in Runs, NEW shape \in Shapes, CreateRun(r, shape)
      PROVE  Promised!Next
  BY <1>0, <1>2, CreateRunSubmits DEF Promised!Next
<1>3. ASSUME NEW r \in Runs, PutStatus(r)
      PROVE  Promised!Next \/ UNCHANGED Promised!vars
  BY <1>0, <1>3, PutStatusReports DEF Promised!Next
<1>4. ASSUME NEW r \in Runs, NEW j \in JobRunIds, CreateJobRun(r, j)
      PROVE  Promised!Next
  BY <1>4, CreateJobRunLaunches DEF Promised!Next
<1>5. ASSUME NEW j \in JobRunIds, NEW o \in Outcomes, FinishJobRun(j, o)
      PROVE  Promised!Next \/ UNCHANGED Promised!vars
  <2>1. o \in Promised!Outcomes
    BY DEF Outcomes, Promised!Outcomes
  <2> QED
    BY <1>0, <1>5, <2>1, FinishJobRunEnds DEF Promised!Next
<1> QED
  BY <1>0, <1>1, <1>2, <1>3, <1>4, <1>5, StepsOfStores, ByHandStutters

\* With no result of a call lost and nothing deleted but JobDefinitions and JobRuns,
\* every behaviour of the controller is one of the promise: calls, caches, queues
\* and watches, edited tasks and failing creates included (codeenginetask.go:66-315).
THEOREM RefinesCodeEngineRun ==
  NoResultLost /\ NothingDeleted => (Spec => ImplementsCodeEngineRun)
<1> SUFFICES ASSUME NoResultLost, NothingDeleted PROVE Spec => ImplementsCodeEngineRun
  OBVIOUS
<1>1. Init => PInv /\ Promised!Init
  BY InitRecords, InitLaunched, InitImplements DEF PInv
<1>2. PInv /\ [Next]_vars => PInv'
  BY NextRecords, NextLInv DEF PInv, NoResultLost
<1>3. PInv /\ [Next]_vars => [Promised!Next]_(Promised!vars)
  BY NextImplements
<1> QED
  BY <1>1, <1>2, <1>3, PTL DEF Spec, ImplementsCodeEngineRun, Promised!Spec


=============================================================================
