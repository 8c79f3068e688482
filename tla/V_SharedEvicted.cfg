SPECIFICATION Spec
CONSTANTS
  p1 = p1
  p2 = p2
  Procs <- TwoProcs
  NoProc = NoProc
  NumFrames = 1
  MaxVirtual = 1
  MaxClusterSize = 0
  MaxCopies = 0
  CowBase = 1000000
  HugeBase = 2000000
  HugeIdx = {}
  TLBSize = 0
  NodeOne = {}
  Threads = {t1}
  Algs = {"standard"}
  Toggles = {}
  Ops = {"fork"}
SYMMETRY Symmetric
INVARIANT PresentMeansResident
