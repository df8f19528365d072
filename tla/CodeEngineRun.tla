---------------------------- MODULE CodeEngineRun ----------------------------
(***************************************************************************)
(* What the controller promises for the Runs of Code Engine tasks, without *)
(* caches, queues, calls or messages: a Run starts at most one JobRun, no  *)
(* two Runs share one, and a Run reports what its JobRun came to.          *)
(* RunReconciler implements it as long as the results of its calls are not *)
(* lost; RunPromise says how.                                              *)
(***************************************************************************)
CONSTANTS
  Runs,       \* the Runs of this controller
  JobRunIds,  \* the JobRuns that Code Engine can start for them
  NoValue     \* no JobRun

VARIABLES
  phase,    \* what can be read from the Run
  launched, \* the JobRun that was started for the Run
  outcome   \* what has become of a JobRun

vars == <<phase, launched, outcome>>

Phases   == {"absent", "open", "succeeded", "failed"}
Outcomes == {"Complete", "Failed"}

Init ==
  /\ phase    = [r \in Runs |-> "absent"]
  /\ launched = [r \in Runs |-> NoValue]
  /\ outcome  = [j \in JobRunIds |-> "none"]

Submit(r) ==
  /\ phase[r] = "absent"
  /\ phase' = [phase EXCEPT ![r] = "open"]
  /\ UNCHANGED <<launched, outcome>>

\* A Run whose task or JobDefinition is not there, or whose JobRun cannot be
\* created, fails without a JobRun.
Reject(r) ==
  /\ phase[r] = "open"
  /\ launched[r] = NoValue
  /\ phase' = [phase EXCEPT ![r] = "failed"]
  /\ UNCHANGED <<launched, outcome>>

Launch(r, j) ==
  /\ phase[r] = "open"
  /\ launched[r] = NoValue
  /\ outcome[j] = "none"
  /\ launched' = [launched EXCEPT ![r] = j]
  /\ outcome'  = [outcome EXCEPT ![j] = "Active"]
  /\ UNCHANGED phase

\* Code Engine ends a JobRun.
End(j, o) ==
  /\ outcome[j] = "Active"
  /\ outcome' = [outcome EXCEPT ![j] = o]
  /\ UNCHANGED <<phase, launched>>

Report(r) ==
  /\ phase[r] = "open"
  /\ launched[r] # NoValue
  /\ outcome[launched[r]] \in Outcomes
  /\ phase' = [phase EXCEPT ![r] =
                 IF outcome[launched[r]] = "Complete" THEN "succeeded" ELSE "failed"]
  /\ UNCHANGED <<launched, outcome>>

Next ==
  \/ \E r \in Runs : Submit(r) \/ Reject(r) \/ Report(r)
  \/ \E r \in Runs, j \in JobRunIds : Launch(r, j)
  \/ \E j \in JobRunIds, o \in Outcomes : End(j, o)

Spec == Init /\ [][Next]_vars

-----------------------------------------------------------------------------
TypeOK ==
  /\ phase \in [Runs -> Phases]
  /\ launched \in [Runs -> JobRunIds \cup {NoValue}]
  /\ outcome \in [JobRunIds -> Outcomes \cup {"none", "Active"}]

\* No two Runs share a JobRun, so that none is reported twice: the labels of a
\* JobRun name one Run (codeenginetask.go:255-258).
NotShared ==
  \A r, s \in Runs : launched[r] # NoValue /\ launched[r] = launched[s] => r = s

\* A Run that was given a JobRun ends as the JobRun ended, and succeeds in no
\* other way (codeenginetask.go:234-312).
EndsAsItsJobRun ==
  \A r \in Runs :
    /\ phase[r] = "succeeded" =>
         launched[r] # NoValue /\ outcome[launched[r]] = "Complete"
    /\ phase[r] = "failed" /\ launched[r] # NoValue =>
         outcome[launched[r]] = "Failed"
=============================================================================
