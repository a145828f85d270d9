SPECIFICATION Spec
CHECK_DEADLOCK FALSE
CONSTANTS
  Worker = {w1, w2}
  MaxRetry = 1
  MaxPolls = 2
  MaxFaults = 1
  MaxRows <- MCMaxRows
  MaxDseq <- MCMaxDseq
INVARIANTS TypeOK OneDeposit RetriesDoNotMultiply
SYMMETRY Sym
