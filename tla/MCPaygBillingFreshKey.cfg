CONSTANTS
  s1 = s1
  s2 = s2
  Settler = {}
  TicksPerHour = 2
  Created = 1
  Floor = 2
  MaxTime = 6
  MaxIrregular = 1
SPECIFICATION Spec
INVARIANT HoursChargedOnce
CHECK_DEADLOCK FALSE
