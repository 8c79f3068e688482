SPECIFICATION Spec
CONSTANTS
  p1 = p1
  p2 = p2
  p3 = p3
  p4 = p4
  Procs <- FourProcs
  Roots <- TwoRoots
  Pages = {0, 1}
  NoProc = NoProc
SYMMETRY TwoFamilies
INVARIANTS
  CountsAgree
  SharersRegistered
PROPERTY OneKeepsOriginal
