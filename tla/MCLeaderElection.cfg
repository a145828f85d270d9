CONSTANTS
  p1 = p1
  p2 = p2
  p3 = p3
  none = none
  Pod <- MCPod
  NoPod = none
  LeaseTtl = 13
  Heartbeat = 6
  PollEvery = 3
  Latency = 1
  MaxFaults = 1
SPECIFICATION Spec
SYMMETRY MCSymmetry
CHECK_DEADLOCK FALSE
INVARIANTS TypeOK AtMostOneActive TakeoverInTime
