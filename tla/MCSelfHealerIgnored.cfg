SPECIFICATION Spec
CONSTANTS
  nginx = nginx
  pod = pod
  node = node
  Cluster = Cluster
  Direct <- OneProcess
  KubePods <- Nothing
  KubeNodes <- Nothing
  WatchK8s = FALSE
  MaxOutages = 1
  MaxDrops = 0
PROPERTY
  NothingIgnored
