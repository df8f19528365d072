--------------------------- MODULE RunReconcilerMC ---------------------------
(***************************************************************************)
(* Small instances of RunReconciler for TLC.                               *)
(***************************************************************************)
EXTENDS RunPromise, TLC

CONSTANTS r1, r2, t1, a, b, j1, j2

\* What users submit.
ByRef     == [ref |-> t1, spec |-> NoValue]
Embedded  == [ref |-> NoValue, spec |-> a]
Malformed == [ref |-> NoValue, spec |-> "malformed"]
Unnamed   == [ref |-> "unnamed", spec |-> NoValue]
Foreign   == [ref |-> NoValue, spec |-> "foreign"]
Mixed     == [ref |-> t1, spec |-> "foreign"]

OnlyByRef     == {ByRef}
EveryKind     == {Embedded, Malformed, Unnamed, Foreign, Mixed}
OnlyEmbedded  == {Embedded}
OnlyForeign   == {Foreign}

JobRunSymmetry == Permutations(JobRunIds)
TwoRunSymmetry == Permutations(Runs) \cup Permutations(JobRunIds)

=============================================================================
