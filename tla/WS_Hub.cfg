SPECIFICATION FairSpec
CONSTANTS
  c1 = c1
  b1 = b1
  b2 = b2
  Clients <- OneClient
  Talkers <- OneClient
  SendCap = 2
  BroadcastCap = 1
  Callers = {b1, b2}
  Background = {b1}
INVARIANTS NoDoubleClose RegisteredOpen
PROPERTIES ClientEnds HubEnds OnlyTheCaughtPanic
CHECK_DEADLOCK FALSE
