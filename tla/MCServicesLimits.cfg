CONSTANTS
  Parts = {"suspension"}
  Jobs = {1, 2}
  HourTicks = 2
  FloorTicks = 1
  StartedAt = 1
  MaxNow = 5
  MaxFault = 1
  Rows = {r1, r2}
  First = r1
  MaxOthers = 2
  MaxMissed = 0
  Probes = {probe}
  Others = {o1, o2}
  Pods = {1, 2}
  NoOne = NoOne
  TxRetries = 2
  LongSettle = FALSE
  MaxSlips = 1
  Providers = {p1, p2}
  NoProvider = NoProvider
  Threshold = 2
  MaxAttempts = 1
  MaxRetry = 1
  MaxRows = 4
  MaxUpset = 1
  Shas = {s1}
  Deliveries = {1, 2}
  MaxJobs = 2
  SlowBuilds = TRUE
  MaxMishap = 1
  Hour = 4
  Prices = {20, 21}
  Ppb = 20
  Deposits = {40, 120, 160}
  MinRefill = 80
  Fleet = 5
  MaxMiss = 2
  MaxHours = 5
SPECIFICATION Spec
PROPERTY LimitsAreEnforced
CHECK_DEADLOCK FALSE
