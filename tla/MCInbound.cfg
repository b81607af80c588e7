SPECIFICATION MCSpec
CONSTANTS
  d1 = d1
  d2 = d2
  d3 = d3
  i1 = i1
  i2 = i2
  r1 = r1
  s1 = s1
  s2 = s2
  s3 = s3
  None = None
  Device <- Device3
  Instance <- Instance2
  Salt <- Salt3
  Amount = {1, 2}
  DaysPerMonth = 2
  KeepDays = 0
  UsageFault = {"redis", "db", "answer", "crash"}
  Rv <- Rv1
  Home <- MCHome
  PairBandwidth = 2
  MaxFrame = 2
  FrameLen = {1, 2, 3}
  RvTtl = 2
  Fault = {"redis", "db", "lost"}
  Scenarios <- AllScenarios
INVARIANTS TypeOK WaitBounded BothKnow Conserved OneHashPerDay RowsExpire
PROPERTIES Throttled RefusalIsFresh
CHECK_DEADLOCK FALSE
