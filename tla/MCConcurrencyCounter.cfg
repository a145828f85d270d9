CONSTANTS
  d1 = d1
  d2 = d2
  d3 = d3
  c1 = c1
  c2 = c2
  NoOne = NoOne
  Deployment = {d1, d2}
  Closer <- MCCloser
  Cap = 1
  MaxFaults = 1
SPECIFICATION FairSpec
INVARIANT TypeOK
PROPERTIES ClaimsSerialize DriftIsRepaired
CHECK_DEADLOCK FALSE
