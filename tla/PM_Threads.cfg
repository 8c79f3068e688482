SPECIFICATION FairSpec
CONSTANTS
  t1 = t1
  t2 = t2
  Threads <- TwoThreads
  MaxPID = 4
  MaxActive = 3
  Ops = {"create", "terminate", "fork", "access", "reset"}
INVARIANTS
  VisibleHasTable
  TableHasOwner
  PIDsUnique
  ActiveCounts
  NeverUndercounts
PROPERTIES
  ForkSettles
  OperationsEnd
  LivesOnce
