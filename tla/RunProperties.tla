---------------------------- MODULE RunProperties ----------------------------
(***************************************************************************)
(* What RunReconciler should guarantee: first whatever goes wrong, then as *)
(* long as no key is reconciled from a stale cache, then in a quieter      *)
(* environment, and last what comments of the code claim and some          *)
(* behaviours refute. Line numbers are those of                            *)
(* pkg/reconciler/codeenginetask unless a comment says otherwise.          *)
(***************************************************************************)
EXTENDS RunReconciler

-----------------------------------------------------------------------------
(***************************************************************************)
(* Whatever goes wrong.                                                    *)
(***************************************************************************)
\* What a status st of Run r says of the JobRuns jrs.
RecordMatches(jrs, r, st) ==
  LET j == st.jobRunName IN
    j # NoValue => /\ st.taskSpec # NoValue
                   /\ jrs[j].owner = r
                   /\ jrs[j].job = st.taskSpec
VerdictMatches(jrs, st) ==
  /\ st.reason = "Succeeded" => /\ st.jobRunName # NoValue
                                /\ jrs[st.jobRunName].outcome = "Complete"
  /\ st.reason = "Failed"    => /\ st.jobRunName # NoValue
                                /\ jrs[st.jobRunName].outcome = "Failed"

\* The JobRun named in a Run is labelled with that Run and runs the job of the
\* spec recorded beside it, whatever the CodeEngineTask has become and
\* whichever earlier call created it (codeenginetask.go:252-272, 286-288).
RecordedJobRunMatches ==
  \A r \in Runs : runs[r] # NoValue => RecordMatches(jobRuns, r, runs[r].status)

\* A Run that is reported as Succeeded, or as Failed by its job, names a JobRun
\* that ended that way, through stale caches, lost writes and restarts
\* (codeenginetask.go:304-312).
OutcomeIsTrue ==
  \A r \in Runs : runs[r] # NoValue => VerdictMatches(jobRuns, runs[r].status)

\* Where a status or the end of a JobRun can be read.
IsTrue(jrs, r, st)        == RecordMatches(jrs, r, st) /\ VerdictMatches(jrs, st)
IsTrueOfObject(jrs, r, o) == o # NoValue => IsTrue(jrs, r, o.status)

StoreIsTrue == \A r \in Runs : IsTrueOfObject(jobRuns, r, runs[r])
WatchIsTrue == \A r \in Runs : \A i \in DOMAIN watch[r] :
                 IsTrueOfObject(jobRuns, r, watch[r][i])
CacheIsTrue == \A r \in Runs : IsTrueOfObject(jobRuns, r, runCache[r])
CallsAreTrue == \A r \in Runs : /\ IsTrue(jobRuns, r, proc[r].orig)
                                /\ IsTrue(jobRuns, r, proc[r].work)
JobRunCacheIsTrue ==
  \A j \in JobRunIds :
    jobRunCache[j] \in Outcomes => jobRuns[j].outcome = jobRunCache[j]

\* What the two invariants above rest on: the same holds of every copy of a
\* status that a call has, or that the cache or the watch will hand to one, and
\* the JobRun cache never shows an end that was not (codeenginetask.go:288-312).
CopiesAreTrue ==
  StoreIsTrue /\ WatchIsTrue /\ CacheIsTrue /\ CallsAreTrue /\ JobRunCacheIsTrue

\* A verdict is announced before it can be read in the status, and success is
\* never announced without a JobRun of that Run that completed; a status write
\* that fails does not change that (codeenginetask.go:77-80).
VerdictIsAnnounced ==
  \A r \in Runs :
    /\ runs[r] # NoValue /\ IsDone(runs[r].status) =>
         Verdict(runs[r].status.reason) \in events[r]
    /\ "Succeeded" \in events[r] =>
         \E j \in JobRunIds :
           jobRuns[j].owner = r /\ jobRuns[j].outcome = "Complete"

\* A call works on an open Run until it has announced the verdict it is about to
\* write (codeenginetask.go:77-94).
CallsAnnounceFirst ==
  \A r \in Runs :
    /\ proc[r].pc # "idle" => ~IsDone(proc[r].orig)
    /\ proc[r].pc \in {"create", "check"} => ~IsDone(proc[r].work)
    /\ proc[r].pc = "put" /\ IsDone(proc[r].work) =>
         Verdict(proc[r].work.reason) \in events[r]

\* No Run is forgotten: when nothing is left that would make the controller
\* look at an open Run again, it is because a JobRun is recorded for it and
\* the informer has not yet shown that JobRun ending
\* (codeenginetask.go:96-98, 291-294, controller.go:104-113).
Quiet(r) == up /\ r \notin queue /\ proc[r].pc = "idle" /\ watch[r] = <<>>
Open(r)  == /\ runs[r] # NoValue
            /\ verifyCodeEngineSpec(runs[r].shape)
            /\ ~IsDone(runs[r].status)
NoForgottenRun ==
  \A r \in Runs : Quiet(r) /\ Open(r) =>
    /\ runs[r].status.jobRunName # NoValue
    /\ jobRunCache[runs[r].status.jobRunName] \notin Outcomes

-----------------------------------------------------------------------------
(***************************************************************************)
(* Properties that hold as long as a key is never reconciled from a stale  *)
(* cache.                                                                  *)
(***************************************************************************)
\* The status of a Run that is there before and after a step.
Survives(r) == runs[r] # NoValue /\ runs'[r] # NoValue

\* "Only store the CodeEngineTaskSpec once, if it has never been set before"
\* (codeenginetask.go:222): the recorded spec survives every later call, those
\* that fail included.
SpecStoredOnce ==
  [][\A r \in Runs : Survives(r) /\ runs[r].status.taskSpec # NoValue =>
       runs'[r].status.taskSpec = runs[r].status.taskSpec]_vars

\* A Run names the JobRun that it has recorded for good, whatever later calls come
\* to: when the CodeEngineTask, which codeenginetask.go:162 reads in every call, is
\* deleted while the job runs, the Run fails and leaves the JobRun to itself, but
\* still says which it is.
JobRunStaysOnRecord ==
  [][\A r \in Runs : Survives(r) /\ runs[r].status.jobRunName # NoValue =>
       runs'[r].status.jobRunName = runs[r].status.jobRunName]_vars

\* A Run that has ended keeps its verdict and its JobRun (codeenginetask.go:86).
TerminalIsFinal ==
  [][\A r \in Runs : Survives(r) /\ IsDone(runs[r].status) =>
       runs'[r].status = runs[r].status]_vars

\* No JobRun is created for a Run that already has one on record
\* (codeenginetask.go:235).
CreateOnlyWhenUnrecorded ==
  [][\A r \in Runs, j \in JobRunIds :
       Unused(j) /\ jobRuns'[j].owner = r /\ runs[r] # NoValue =>
         runs[r].status.jobRunName = NoValue]_vars

-----------------------------------------------------------------------------
(***************************************************************************)
(* Properties of a quieter environment; the run says which hazards it has. *)
(***************************************************************************)
\* One Run starts at most one JobRun (codeenginetask.go:235-240). It needs a fresh
\* cache, that the Run is not deleted, and that the record of the JobRun reaches
\* the store: no status write fails, the process does not die, and no JobRun
\* fails to be read, after which codeenginetask.go:96 encodes nothing. A create
\* whose answer is lost starts no second one, since it fails the Run.
AtMostOneJobRun ==
  \A i, j \in JobRunIds :
    jobRuns[i].owner # NoValue /\ jobRuns[i].owner = jobRuns[j].owner => i = j

\* A Run whose JobRun is on record ends the way the JobRun ends, not because
\* its JobDefinition is gone or a create failed (codeenginetask.go:169-177),
\* through stale caches, crashes and lost writes. It needs that neither the
\* CodeEngineTask, which codeenginetask.go:162 reads in every call, nor the Run
\* is deleted.
LaunchedEndsWithItsJobRun ==
  \A r \in Runs :
    runs[r] # NoValue /\ IsDone(runs[r].status) /\ runs[r].status.jobRunName # NoValue
      => runs[r].status.reason \in {"Succeeded", "Failed"}

\* A Run is not announced to have both succeeded and failed. It needs that no
\* status write is lost between two calls (codeenginetask.go:79).
VerdictAnnouncedOnce ==
  \A r \in Runs : ~({"Succeeded", "Failed"} \subseteq events[r])

\* Every Run of this controller that can be decoded ends or is deleted.
EventuallyDone ==
  \A r \in Runs :
    (Open(r) /\ runs[r].shape.spec # "malformed")
      ~> (runs[r] = NoValue \/ IsDone(runs[r].status))

\* A Run that is not for this controller keeps the status it has, and no JobRun
\* is started for it (codeenginetask.go:70-73). It needs that no Run is deleted:
\* a Run created again under the same name receives the status of a call that
\* was under way for its predecessor.
OthersUntouched ==
  [][\A r \in Runs :
       Survives(r) /\ "foreign" \in {runs[r].shape.ref, runs[r].shape.spec} =>
       /\ runs'[r] = runs[r]
       /\ \A j \in JobRunIds : Unused(j) => jobRuns'[j].owner # r]_vars

-----------------------------------------------------------------------------
(***************************************************************************)
(* What the comments of the code say, and some behaviours refute.          *)
(***************************************************************************)
\* "Make sure CodeEngine resource is being reconciled. Ignore others."
\* (codeenginetask.go:70): a Run of another controller never ends the process.
OthersAreIgnored == [][up => up']_vars

\* FailedToGetJobRunStatus "indicates that Code Engine job run status can not
\* be gathered" (code_engine_task_types.go:86): a Run whose JobRun is gone for
\* good is marked so, or ends.
VanishedJobRunIsReported ==
  \A r \in Runs, j \in JobRunIds :
    (Open(r) /\ runs[r].status.jobRunName = j /\ ~jobRuns[j].exists)
      ~> ~Open(r) \/ runs[r].status.reason = "FailedToGetJobRunStatus"
=============================================================================
