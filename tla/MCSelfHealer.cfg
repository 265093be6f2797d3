SPECIFICATION Spec
CONSTANTS
  nginx = nginx
  pod = pod
  node = node
  Cluster = Cluster
  Direct <- OneProcess
  KubePods <- OnePod
  KubeNodes <- OneNode
  WatchK8s = TRUE
  MaxOutages = 2
  MaxDrops = 1
INVARIANTS
  TypeOK
  OneSessionPerOutage
PROPERTIES
  ConnectedIncidentIsTold
