SPECIFICATION Spec
CONSTANTS
  Tasks = {t1}
  Labels = {x, y}
  Callers = {c1, c2}
  ClientOf <- OneOfEach
  MaxRevision = 3
  NoValue = NoValue
  Everything = Everything
  x = x
  y = y
  c1 = c1
  c2 = c2
  a = a
  b = b
  Selectors <- OneFilter
  Threads = {a, b}
  Channels = {s1}
  s1 = s1
  s2 = s2
  SelectorOf <- OfTheFirst
SYMMETRY UserSymmetry
INVARIANTS
  TypeOK
  NoUpdateLost
  EveryoneSharesOneInformer
  ReadyListersAgree
CHECK_DEADLOCK FALSE
