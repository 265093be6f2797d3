SPECIFICATION Spec
CONSTANTS
  child = child
  forked = forked
  Child = child
  Descendants <- OneForked
  PipeSize = 2
  Cap = 1
  StdinSizes <- FitsPipe
  MaxOutput = 2
INVARIANTS
  TypeOK
  OutputIsWhole
  TimeoutKillsGroup
PROPERTIES
  CapHolds
  EndingCommandReturns
CHECK_DEADLOCK FALSE
