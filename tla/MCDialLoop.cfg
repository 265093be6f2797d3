SPECIFICATION Spec
CONSTANTS
  BackoffMin <- MCBackoffMin
  BackoffMax <- MCBackoffMax
  RungCap <- MCRungCap
INVARIANTS
  TypeOK
  OneForgetPerConnection
  BackoffLaw
PROPERTIES
  HandedConnectionRetired
  RefusalIsAnsweredFirst
  RefusalsEnd
  StopEnds
CHECK_DEADLOCK FALSE
