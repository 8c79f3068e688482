SPECIFICATION Spec
CONSTANTS
  Pages = {a, b, c, d}
  NoPage = NoPage
  NumFrames = 2
  TraceLength = 7
INVARIANT Farthest
CHECK_DEADLOCK FALSE
