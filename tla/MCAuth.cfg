SPECIFICATION MCSpec
CONSTANTS
  x = x
  y = y
  px = px
  px6 = px6
  Bad = Bad
  Unreadable = Unreadable
  d1 = d1
  d2 = d2
  None = None
  Device <- Device2
  Request = {1, 2, 3, 4}
  Challenge = {c1, c2}
  Addr <- Addr4
  to_canonical <- MCCanonical
  ip_bucket <- MCCanonical
  Trusted <- MCTrusted
  Second = 2
  Minute = 2
  Hour = 2
  ChallengeTtl = 2
  AuthPerIp = 3
  ChallengesPerDevice = 2
  RegPerIp = 1
  RegGlobal = 2
  Fault = {"redis", "db"}
  Scenarios = {"addresses", "unsigned", "reuse", "more", "late", "registrations", "cap", "deletions"}
SYMMETRY Symmetry
INVARIANTS TypeOK SingleUse SlotsMatch RegistrationsCounted RetrySuffices ClientAddress
PROPERTIES NoLockout
CHECK_DEADLOCK FALSE
