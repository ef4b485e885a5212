SPECIFICATION Spec
CONSTANTS
  t1 = t1
  t2 = t2
  Calls = {"open", "stat", "socket", "clone", "exit"}
  Items = {"lib"}
  Blocks <- MCBlocks
  Files <- MCFiles
  Tracees = {t1, t2}
  First = t1
  Paths = {"ESTABLISHED", "lib/f"}
  Matched <- MCMatched
  JMax = 1
  MaxCalls = 4
PROPERTY
  OpensPass
CHECK_DEADLOCK FALSE
