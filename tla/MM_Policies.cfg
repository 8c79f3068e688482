SPECIFICATION Spec
CONSTANTS
  p1 = p1
  p2 = p2
  Procs <- OneProc
  NoProc = NoProc
  NumFrames = 2
  MaxVirtual = 2
  MaxClusterSize = 3
  MaxCopies = 0
  CowBase = 1000000
  HugeBase = 5
  HugeIdx = {0, 1}
  TLBSize = 1
  NodeOne <- OneProc
  Threads = {t1}
  Algs = {"pff","wsclock","optimal"}
  Toggles = {"compression","numa","clustering"}
  Ops = {"huge","remove","reset","pin"}
INVARIANTS
  TablesAgree
PROPERTY CompressedKept
CONSTRAINT ApartUpToAlias
