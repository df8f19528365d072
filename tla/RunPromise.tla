----------------------------- MODULE RunPromise -----------------------------
(***************************************************************************)
(* The controller implements CodeEngineRun: a Run's phase is what its      *)
(* stored status says, its JobRun the one that is labelled with it.        *)
(* JobRuns that were submitted by hand do not count.                       *)
(***************************************************************************)
EXTENDS RunProperties

PhaseOf(r) ==
  IF runs[r] = NoValue THEN "absent"
  ELSE IF ~IsDone(runs[r].status) THEN "open"
  ELSE IF runs[r].status.reason = "Succeeded" THEN "succeeded" ELSE "failed"

OneOf(S)      == IF S = {} THEN NoValue ELSE CHOOSE j \in S : TRUE
OwnedBy(r)    == {j \in JobRunIds : jobRuns[j].owner = r}
LaunchedBy(r) == OneOf(OwnedBy(r))
OutcomeOf(j)  == IF filterJobRunRef(j) THEN jobRuns[j].outcome ELSE "none"

Promised == INSTANCE CodeEngineRun WITH
  phase    <- [r \in Runs |-> PhaseOf(r)],
  launched <- [r \in Runs |-> LaunchedBy(r)],
  outcome  <- [j \in JobRunIds |-> OutcomeOf(j)]

\* Every step of the controller and of its surroundings is a step of the promise
\* or invisible in it: one JobRun per Run, created only while the Run is open,
\* never shared, and reported for what it came to (codeenginetask.go:66-315).
\* It needs that no result of a call is lost and that no Run and no task is
\* deleted.
ImplementsCodeEngineRun == Promised!Spec
=============================================================================
