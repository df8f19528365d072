SPECIFICATION Spec
CONSTANTS
  r1 = r1
  r2 = r2
  t1 = t1
  a = a
  b = b
  j1 = j1
  j2 = j2
  NoValue = NoValue
  Runs = {r1}
  Tasks = {t1}
  JobNames = {a}
  JobRunIds = {j1}
  Shapes <- OnlyForeign
  Hazards = {}
  MaxLag = 1
PROPERTIES
  OthersAreIgnored
