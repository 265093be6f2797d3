SPECIFICATION Spec
CONSTANTS
  Names <- TwoNames
  Depth = 2
  MaxLinks = 3
  Targets <- TheTargets
  Requests <- TheRequests
  FileRoots <- TheRoots
  Secrets <- NoSecrets
  CredentialDir <- TheCreds
INVARIANTS
  TypeOK
  StaysInside
  GateIsExact
