CONSTANTS
  w1 = w1
  w2 = w2
  Worker <- MCWorker
  Deposit = 2
  Charge <- MCCharge
  MaxFaults = 1
SPECIFICATION FairSpec
INVARIANTS TypeOK RecordedRefundWasMade NoRefundWhileLive
PROPERTIES ImplementsContract DepositIsResolved EndedIsDrained
CHECK_DEADLOCK FALSE
