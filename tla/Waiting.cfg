SPECIFICATION FairSpec
CONSTANTS
  Tasks = {t1}
  Labels = {x}
  Callers = {c1}
  ClientOf <- OneTyped
  MaxRevision = 1
  NoValue = NoValue
  Everything = Everything
  x = x
  y = y
  c1 = c1
  c2 = c2
  a = a
  b = b
  Selectors <- OneFilter
  Threads = {a, b}
  Channels = {s1, s2}
  s1 = s1
  s2 = s2
  SelectorOf <- OfTheFirst
PROPERTIES
  CallsReturn
CHECK_DEADLOCK FALSE
