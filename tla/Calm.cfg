SPECIFICATION Spec
CONSTANTS
  r1 = r1
  r2 = r2
  t1 = t1
  a = a
  b = b
  j1 = j1
  j2 = j2
  NoValue = NoValue
  Runs = {r1}
  Tasks = {t1}
  JobNames = {a, b}
  JobRunIds = {j1, j2}
  Shapes <- OnlyByRef
  Hazards = {"createErr", "createLost", "editTask", "dropJobDef", "dropJobRun", "manualJobRun"}
  MaxLag = 1
SYMMETRY JobRunSymmetry
INVARIANTS
  AtMostOneJobRun
  LaunchedEndsWithItsJobRun
  VerdictAnnouncedOnce
