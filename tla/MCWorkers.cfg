SPECIFICATION WorkersSpec
CONSTANTS
  w1 = w1
  w2 = w2
  c1 = c1
  c2 = c2
  c3 = c3
  Threads <- TwoThreads
  Calls <- MCCalls
  Follows <- OneCall
  Healer = Healer
  Idle = Idle
INVARIANT
  WorkersTypeOK
PROPERTIES
  NoSampleAfterAbort
  StopEnds
  KeepsSampling
CHECK_DEADLOCK FALSE
