CONSTANTS
  s1 = s1
  r1 = r1
  k1 = k1
  k2 = k2
  none = none
  Settler <- MCSettler
  Reconciler <- MCReconciler
  Key <- MCKey
  NoKey = none
  Amount <- MCAmount
  MinAge = 1
  FailAge = 2
  BatchLimit = 1
  MaxFaults = 1
SPECIFICATION FairSpec
INVARIANTS TypeOK CommittedIsDebited DebitIsAnnounced
PROPERTIES ImplementsContract PendingIsResolved
CHECK_DEADLOCK FALSE
