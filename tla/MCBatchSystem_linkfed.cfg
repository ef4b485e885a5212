SPECIFICATION Spec
CONSTANTS
  n1 = n1
  n2 = n2
  Types <- AllTypes
  Repeated <- HasRepeated
  Linkable <- HasLink
  Linked <- FollowsLink
  Answered <- HasHandler
  RetFields <- Replies
  ArgFields <- Requests
  MaxTypes = 10
  Names = {n1, n2}
  MaxBatch = 2
  BatchOps = {"ADD"}
  BatchTypes <- AddedTypes
  Arrays <- MCArrays
INVARIANTS
  LinkHonoured
CHECK_DEADLOCK FALSE
