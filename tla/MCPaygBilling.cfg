CONSTANTS
  s1 = s1
  s2 = s2
  Settler = {s1, s2}
  TicksPerHour = 2
  Created = 0
  Floor = 2
  MaxTime = 4
  MaxIrregular = 1
SPECIFICATION FairSpec
INVARIANTS TypeOK BilledExactlyOnce NotBilledAhead
PROPERTY EndedIsCharged
CHECK_DEADLOCK FALSE
