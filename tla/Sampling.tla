-------------------------------- MODULE Sampling --------------------------------
(***************************************************************************)
(* One sample of the watcher, call by call: SelfHealer::sample of          *)
(* src/heal.rs over process_running, container_running (ContainerLookup),  *)
(* and pods and nodes of src/k8s.rs.                                       *)
(*                                                                         *)
(* The calls are made one after the other and each takes its time: what    *)
(* they ask about changes between them.  SelfHealer has a sample in one    *)
(* step; SampleIsTrue is what entitles it to that.                         *)
(*                                                                         *)
(* The walk of /proc is taken from ProcTable by what is proved of it: none *)
(* is found that never was there, and a process that was there all through *)
(* is found, or its entry could not be read.  The daemon, the cluster and  *)
(* its nodes are external.                                                 *)
(***************************************************************************)
EXTENDS ContainerLookup

CONSTANTS Process,    \* the watched process
          Containers, \* names in watch_containers
          Pods,       \* of the cluster
          Nodes,      \* of the cluster
          Cluster,    \* the incident "the pods cannot be read"
          Absent      \* what kubectl has no entry for

\* Things of two kinds are two things: an incident carries its kind.
ASSUME SamplingAssumption ==
  /\ Containers \subseteq Names
  /\ Process \notin Containers \union Pods \union Nodes
  /\ Cluster \notin {Process} \union Containers \union Pods \union Nodes
  /\ Containers \cap (Pods \union Nodes) = {} /\ Pods \cap Nodes = {}

VARIABLES running,   \* whether the watched process is there
          pods,      \* per pod, what kubectl says of it
          nodes,     \* per node likewise: its conditions, in order
          stage,     \* what sample asks for next: "processes", "containers",
                     \* "pods", "nodes", or "idle" between two samples
          left,      \* the watched containers it has not asked for yet
          incidents, \* the local "incidents"
          focus,     \* history: one thing that is followed through the sample,
          was,       \* all it was since the sample began: "up", "down", "mixed"
          unread     \* history: it could not be read in this sample, which the
                     \* sample does not say

world  == <<docker, running, pods, nodes>>
sample == <<stage, left, incidents>>
past   == <<focus, was, unread>>
vars   == <<world, sample, past>>

Things == {Process} \union Containers \union Pods \union Nodes

\* ("Pending" is "Failed" and "Unknown" as well.)
Phases == {"Pending", "Running", "Succeeded"}

\* What a node says of itself: nothing yet, or that it lacks no memory and then
\* whether it is ready ("Unknown", once its kubelet is not heard of, for "False").
Said(ready) == <<[type |-> "MemoryPressure", status |-> "False"],
                 [type |-> "Ready", status |-> ready]>>
Conditions == {<<>>} \union {Said(ready) : ready \in {"True", "Unknown"}}

-------------------------------------------------------------------------------
(***************************************************************************)
(* What kubectl prints, and what is made of it                             *)
(***************************************************************************)
\* pods: an entry for each item, its phase copied.
ListedPods == {p \in Pods : pods[p] # Absent}

\* The phases that are an incident.
PodIsDown(p) == pods[p] \notin {"Running", "Succeeded"}

\* nodes: ready if the first condition of the type Ready is "True".
NodeIsReady(n) ==
  \E i \in DOMAIN nodes[n] :
    /\ nodes[n][i] = [type |-> "Ready", status |-> "True"]
    /\ \A j \in 1..(i - 1) : nodes[n][j].type # "Ready"

ListedNodes == {n \in Nodes : nodes[n] # Absent}

-------------------------------------------------------------------------------
(***************************************************************************)
(* What is up, by the README's list: every watched process and container   *)
(* runs, every pod is Running or Succeeded, every node is Ready.  A pod or  *)
(* a node there is not is no incident.                                     *)
(*                                                                         *)
(* A watched name may be part of the names of other containers, and the    *)
(* newest of all of them answers for it.  It is up when each of them runs, *)
(* down when none does (or the daemon cannot be asked), and mixed when     *)
(* they differ.  For a name that is part of no other, and for those only,  *)
(* that is the README's list again.                                        *)
(***************************************************************************)
NamedLike(name) == {i \in DOMAIN containers : Matches(name, containers[i])}
Running(i)      == containers[i].state = "running"

IsUp(thing) ==
  /\ thing = Process => running
  /\ thing \in Containers =>
       reachable /\ NamedLike(thing) # {} /\ \A i \in NamedLike(thing) : Running(i)
  /\ thing \in Pods => pods[thing] \in {"Running", "Succeeded", Absent}
  /\ thing \in Nodes => nodes[thing] \in {Said("True"), Absent}

IsMixed(thing) ==
  /\ thing \in Containers /\ reachable
  /\ \E i, j \in NamedLike(thing) : Running(i) /\ ~Running(j)

Health(thing) == {IF IsUp(thing) THEN "up" ELSE IF IsMixed(thing) THEN "mixed" ELSE "down"}

Init ==
  /\ DockerInit
  /\ running \in BOOLEAN
  /\ pods \in [Pods -> {Absent, "Running"}]
  /\ nodes \in [Nodes -> {Absent, Said("True")}]
  /\ stage = "idle"
  /\ left = {}
  /\ incidents = {}
  /\ focus \in Things
  /\ was = {"up", "down"}
  /\ unread = FALSE

-------------------------------------------------------------------------------
(***************************************************************************)
(* SelfHealer::sample                                                      *)
(***************************************************************************)
Begin ==
  /\ stage = "idle"
  /\ stage' = "processes"
  /\ incidents' = {}
  /\ was' = Health(focus)
  /\ unread' = FALSE
  /\ left' = Containers
  /\ UNCHANGED <<world, focus>>

Found(things, next) ==
  /\ incidents' = incidents \union things
  /\ stage' = next
  /\ UNCHANGED <<world, focus, was>>

\* The walk of /proc ends: what it says was true at some moment of it; or the
\* entry could not be read, or /proc could not, and the process counts as absent.
SampleProcess ==
  /\ stage = "processes"
  /\ \/ /\ \E says \in IF focus = Process THEN was ELSE {"up", "down"} :
             Found(IF says = "down" THEN {Process} ELSE {}, "containers")
        /\ UNCHANGED unread
     \/ /\ Found({Process}, "containers")
        /\ unread' = (unread \/ focus = Process)
  /\ UNCHANGED left

\* One container after the other is asked for, and then the pods are.
SampleContainers ==
  /\ stage = "containers"
  /\ \/ \E name \in left :
          /\ left' = left \ {name}
          /\ Found(IF ContainerRunning(name) THEN {} ELSE {name}, "containers")
     \/ left = {} /\ Found({}, "pods") /\ UNCHANGED left
  /\ UNCHANGED unread

SamplePodsIgnoringErrors ==
  /\ stage = "pods"
  /\ Found({p \in ListedPods : PodIsDown(p)}, "nodes") \/ Found({}, "nodes")
  /\ UNCHANGED <<left, unread>>

\* kubectl may fail, and then the cluster is the incident.
SamplePods ==
  /\ stage = "pods"
  /\ Found({p \in ListedPods : PodIsDown(p)}, "nodes") \/ Found({Cluster}, "nodes")
  /\ UNCHANGED <<left, unread>>

\* Nothing is made of nodes that cannot be read.
SampleNodes ==
  /\ stage = "nodes"
  /\ \/ Found({n \in ListedNodes : ~NodeIsReady(n)}, "idle") /\ UNCHANGED unread
     \/ Found({}, "idle") /\ unread' = (unread \/ focus \in Nodes)
  /\ UNCHANGED left

-------------------------------------------------------------------------------
(***************************************************************************)
(* The world                                                               *)
(***************************************************************************)
Changes ==
  /\ UNCHANGED <<sample, focus, unread>>
  /\ was' = IF stage = "idle" THEN was ELSE was \union Health(focus)'

StartOrEnd == running' = ~running /\ UNCHANGED <<docker, pods, nodes>>

PodBecomes(p, phase) ==
  /\ pods[p] # phase
  /\ pods' = [pods EXCEPT ![p] = phase]
  /\ UNCHANGED <<docker, running, nodes>>

NodeBecomes(n, conditions) ==
  /\ nodes[n] # conditions
  /\ nodes' = [nodes EXCEPT ![n] = conditions]
  /\ UNCHANGED <<docker, running, pods>>

WorldStep ==
  \/ DockerStep /\ UNCHANGED <<running, pods, nodes>>
  \/ StartOrEnd
  \/ \E p \in Pods, phase \in Phases \union {Absent} : PodBecomes(p, phase)
  \/ \E n \in Nodes, conditions \in Conditions \union {Absent} : NodeBecomes(n, conditions)

Next ==
  \/ Begin \/ SampleProcess \/ SampleContainers \/ SamplePods \/ SampleNodes
  \/ WorldStep /\ Changes

Spec == Init /\ [][Next]_vars

-------------------------------------------------------------------------------
(***************************************************************************)
(* Properties                                                              *)
(***************************************************************************)
\* What was up all through a sample is no incident of it, and what was down all
\* through is one, whatever else changes while the calls are made, but for what
\* could not be read: a process in /proc is then said to be down, pods leave it to
\* the cluster to be the incident, and nodes are passed over.  A daemon that cannot
\* be asked is an incident, never silence.  Of a name that is part of others it
\* says this while all those containers run, or none does.
SampleIsTrue ==
  stage = "idle" =>
    /\ was = {"up"} => \/ focus \notin incidents
                       \/ focus = Process /\ unread
    /\ was = {"down"} => \/ focus \in incidents
                         \/ focus \in Pods /\ Cluster \in incidents
                         \/ focus \in Nodes /\ unread
===============================================================================
