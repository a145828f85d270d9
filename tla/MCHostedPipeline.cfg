CONSTANTS
  Rows = {r1, r2}
  Machines = {v1, v2}
  MaxRetry = 1
  MaxPoll = 1
  MaxDeploy = 1
  MaxFault = 1
SPECIFICATION FairSpec
INVARIANTS
  TypeOK
  StampIsTrue
PROPERTIES
  LeavesProgress
  DeferredMachineIsDeleted
CHECK_DEADLOCK FALSE
