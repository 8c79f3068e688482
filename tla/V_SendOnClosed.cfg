SPECIFICATION Spec
CONSTANTS
  c1 = c1
  b1 = b1
  b2 = b2
  Clients <- OneClient
  Talkers <- OneClient
  SendCap = 1
  BroadcastCap = 1
  Callers = {b1}
  Background = {}
INVARIANT NoSendOnClosed
CHECK_DEADLOCK FALSE
