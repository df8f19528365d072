------------------------- MODULE CodeEngineRunProofs -------------------------
(***************************************************************************)
(* The promise of CodeEngineRun keeps its invariants, for every set of     *)
(* Runs and JobRuns.                                                       *)
(***************************************************************************)
EXTENDS CodeEngineRun, TLAPS

USE DEF Phases, Outcomes

\* A JobRun that was started has an outcome, if only that it is active: Launch
\* cannot start it again.
LaunchedExists ==
  \A r \in Runs : launched[r] # NoValue => outcome[launched[r]] # "none"

Inv == TypeOK /\ LaunchedExists /\ NotShared /\ EndsAsItsJobRun

LEMMA InitInv == Init => Inv
BY DEF Init, Inv, TypeOK, LaunchedExists, NotShared, EndsAsItsJobRun

LEMMA NextInv == Inv /\ [Next]_vars => Inv'
<1> SUFFICES ASSUME Inv, [Next]_vars PROVE Inv'
  OBVIOUS
<1> USE DEF Inv, TypeOK, LaunchedExists, NotShared, EndsAsItsJobRun
<1>1. ASSUME NEW r \in Runs, Submit(r) PROVE Inv'
  BY <1>1 DEF Submit
<1>2. ASSUME NEW r \in Runs, Reject(r) PROVE Inv'
  BY <1>2 DEF Reject
<1>3. ASSUME NEW r \in Runs, Report(r) PROVE Inv'
  BY <1>3 DEF Report
<1>4. ASSUME NEW r \in Runs, NEW j \in JobRunIds, Launch(r, j) PROVE Inv'
  <2>1. TypeOK'
    BY <1>4 DEF Launch
  <2>2. j # NoValue => \A s \in Runs : launched[s] # j
    BY <1>4 DEF Launch
  <2>3. LaunchedExists' /\ NotShared' /\ EndsAsItsJobRun'
    BY <1>4, <2>2 DEF Launch
  <2> QED
    BY <2>1, <2>3
<1>5. ASSUME NEW j \in JobRunIds, NEW o \in Outcomes, End(j, o) PROVE Inv'
  BY <1>5 DEF End
<1>6. CASE UNCHANGED vars
  BY <1>6 DEF vars
<1> QED
  BY <1>1, <1>2, <1>3, <1>4, <1>5, <1>6 DEF Next

\* No two Runs share a JobRun (codeenginetask.go:255-258).
THEOREM NeverShared == Spec => []NotShared
<1>1. Inv => NotShared
  BY DEF Inv
<1> QED
  BY <1>1, InitInv, NextInv, PTL DEF Spec

\* A Run that was given a JobRun ends as the JobRun ended, and succeeds in no
\* other way (codeenginetask.go:234-312).
THEOREM AlwaysEndsAsItsJobRun == Spec => []EndsAsItsJobRun
<1>1. Inv => EndsAsItsJobRun
  BY DEF Inv
<1> QED
  BY <1>1, InitInv, NextInv, PTL DEF Spec
=============================================================================
