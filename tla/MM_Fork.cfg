SPECIFICATION Spec
CONSTANTS
  p1 = p1
  p2 = p2
  Procs <- TwoProcs
  NoProc = NoProc
  NumFrames = 2
  MaxVirtual = 1
  MaxClusterSize = 0
  MaxCopies = 2
  CowBase = 0
  HugeBase = 1
  HugeIdx = {0}
  TLBSize = 2
  NodeOne = {}
  Threads = {t1}
  Algs = {"standard"}
  Toggles = {}
  Ops = {"fork","remove","pin","huge"}
INVARIANTS
  NothingLeftOfTheDead
  Isolation
  NoDanglingPage
  TLBCoherent
SYMMETRY Symmetric
CONSTRAINT UpToBreach
