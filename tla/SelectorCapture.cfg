SPECIFICATION Spec
CONSTANTS
  Tasks = {t1}
  Labels = {x, y}
  Callers = {c1}
  ClientOf <- OneTyped
  MaxRevision = 2
  NoValue = NoValue
  Everything = Everything
  x = x
  y = y
  c1 = c1
  c2 = c2
  a = a
  b = b
  Selectors <- TwoFilters
  Threads = {a, b}
  Channels = {s1}
  s1 = s1
  s2 = s2
  SelectorOf <- OfTheirOwn
INVARIANTS
  ListersAreFiltered
CHECK_DEADLOCK FALSE
