SPECIFICATION Spec
CONSTANTS
  web = web
  oldWeb = oldWeb
  pod = pod
  node = node
  Process = Process
  Cluster = Cluster
  Absent = Absent
  Names <- MCNames
  Within <- MCWithin
  MaxContainers = 2
  Containers <- OneName
  Pods <- OnePod
  Nodes <- OneNode
INVARIANTS
  SampleIsTrue
PROPERTY
  ActionIsSeen
