SPECIFICATION Spec
CONSTANTS
  p1 = p1
  p2 = p2
  c0 = c0
  c1 = c1
  First = c0
  Alien = Alien
  Exposed = Exposed
  None = None
  Pods <- TwoPods
  Credentials <- TwoCredentials
  MaxRenewals = 1
  MaxCrashes = 1
INVARIANTS
  TypeOK
  HeldIsStored
  LiveIsKept
  NeverRetriesRefused
PROPERTY
  EnrollmentEnds
CHECK_DEADLOCK FALSE
