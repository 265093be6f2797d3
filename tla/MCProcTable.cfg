SPECIFICATION ScanSpec
CONSTANTS
  MaxPid = 3
  Comms <- MixedComms
  Watched <- nginx
INVARIANTS
  ScanTypeOK
  SteadyIsSeen
  SeenWasThere
