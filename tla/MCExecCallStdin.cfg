SPECIFICATION Spec
CONSTANTS
  child = child
  forked = forked
  Child = child
  Descendants <- Alone
  PipeSize = 2
  Cap = 1
  StdinSizes <- ExceedsPipe
  MaxOutput = 2
PROPERTY
  HardCap
CHECK_DEADLOCK FALSE
