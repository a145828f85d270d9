SPECIFICATION Spec
CHECK_DEADLOCK FALSE
CONSTANTS
  Worker = {w1}
  MaxRetry = 1
  MaxPolls = 2
  MaxFaults = 1
  MaxRows <- MCMaxRows
  MaxDseq <- MCMaxDseq
PROPERTIES EndedRowsRest AttemptsEnd ChainMatchesRows
