SPECIFICATION Spec
CONSTANTS
  first = first
  next = next
  Credentials <- MCCredentials
  First <- first
  Torn = torn
  Foreign = foreign
  Empty = empty
  Missing = missing
  Denied = denied
  Directory = directory
PROPERTIES MountIsPickedUp RevokedEnds
CHECK_DEADLOCK FALSE
