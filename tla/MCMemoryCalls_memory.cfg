CONSTANTS
  a1 = a1
  a2 = a2
  c1 = c1
  c2 = c2
  hole = hole
  v1 = v1
  s1 = s1
  t1 = t1
  Apps <- MCApps
  Cells <- MCCells
  Holes <- MCHoles
  Vas <- MCVas
  Syms <- MCSyms
  Behind <- MCBehind
  Values <- MCValues
  Size <- MCSize
  Digits <- MCDigits
  Tasks <- MCTasks
  InitTask = InitTask
  NoPage = NoPage
  Empty = Empty
  NoResult = NoResult
  Scrap = Scrap
  Asks <- MCAsks
  MaxCalls = 2
SPECIFICATION Spec
INVARIANTS
  TypeOK
  PausedView
PROPERTIES
  ImplementsMemory
CHECK_DEADLOCK FALSE
