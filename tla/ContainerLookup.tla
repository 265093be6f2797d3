---------------------------- MODULE ContainerLookup ----------------------------
(***************************************************************************)
(* How the watcher and the monitor capability ask for one container:       *)
(* container_info and container_running of src/docker.rs, and the docker   *)
(* actions of src/monitor.rs that an agent answers an incident with.       *)
(*                                                                         *)
(* A question goes to "docker ps --filter name=", which answers with every *)
(* container whose name has the selector in it, the newest first; an       *)
(* action goes to "docker start" and "docker restart", which take a whole  *)
(* name.  The daemon is external.                                          *)
(***************************************************************************)
EXTENDS Integers, Sequences, SequencesExt

CONSTANTS Names,        \* of containers
          Within,       \* <<n, m>>: the name m has n in it
          MaxContainers \* bound: containers at a time

ASSUME LookupAssumption ==
  /\ Within \subseteq Names \X Names
  /\ \A n \in Names : <<n, n>> \in Within
  /\ MaxContainers \in Nat

VARIABLES containers, \* the daemon's, the newest first: a name and a state ("exited"
                      \* is "created" and "dead" too, and where "restarting" ends)
          reachable   \* whether the daemon answers

docker == <<containers, reachable>>

DockerInit ==
  /\ containers = <<>>
  /\ reachable = TRUE

-------------------------------------------------------------------------------
(***************************************************************************)
(* The questions                                                           *)
(***************************************************************************)
Matches(selector, container) == <<selector, container.name>> \in Within

\* container_info: the first row that parses, by its place in the list.  No row,
\* and no answer from the daemon, is no container.
ContainerInfo(selector) ==
  {i \in DOMAIN containers :
     /\ reachable
     /\ Matches(selector, containers[i])
     /\ \A j \in 1..(i - 1) : ~Matches(selector, containers[j])}

\* container_running.
ContainerRunning(selector) ==
  \E i \in ContainerInfo(selector) : containers[i].state = "running"

-------------------------------------------------------------------------------
(***************************************************************************)
(* The daemon, what others do with it and what the agent asks of it        *)
(***************************************************************************)
Put(i, name, state) ==
  /\ containers' = [containers EXCEPT ![i] = [name |-> name, state |-> state]]
  /\ UNCHANGED reachable

Became(i, state) == Put(i, containers[i].name, state)

Free(name) == \A i \in DOMAIN containers : containers[i].name # name

Create(name) ==
  /\ Free(name)
  /\ Len(containers) < MaxContainers
  /\ containers' = <<[name |-> name, state |-> "exited"]>> \o containers
  /\ UNCHANGED reachable

Rename(i, name) == Free(name) /\ Put(i, name, containers[i].state)

Pause(i) == containers[i].state = "running" /\ Became(i, "paused")

Stop(i) == containers[i].state \in {"running", "paused"} /\ Became(i, "exited")

Delete(i) ==
  /\ containers[i].state = "exited"
  /\ containers' = RemoveAt(containers, i)
  /\ UNCHANGED reachable

\* The socket is not mounted, or the daemon restarts.
Lose == reachable /\ reachable' = FALSE /\ UNCHANGED containers
Find == ~reachable /\ reachable' = TRUE /\ UNCHANGED containers

\* docker_start: a container that is paused is not started.
DockerStart(i) ==
  /\ reachable
  /\ containers[i].state # "paused"
  /\ Became(i, "running")

DockerRestartUnawaited(i) ==
  /\ reachable
  /\ Became(i, "restarting")

\* docker_restart: stopped, whatever it was, and started.
DockerRestart(i) ==
  /\ reachable
  /\ Became(i, "running")

DockerStep ==
  \/ \E name \in Names : Create(name)
  \/ \E i \in DOMAIN containers :
       \/ \E name \in Names : Rename(i, name)
       \/ Pause(i) \/ Stop(i) \/ Delete(i)
       \/ DockerStart(i) \/ DockerRestart(i)
  \/ Lose \/ Find

-------------------------------------------------------------------------------
IsRunning(name) ==
  \E i \in DOMAIN containers : containers[i].name = name /\ containers[i].state = "running"

\* A name that is part of no other.
Alone(name) == \A other \in Names : <<name, other>> \in Within => other = name

\* An agent that starts or restarts a container by such a name, as the README
\* has it answer an incident, sees that container running when it asks again by
\* the same name: the question and the action mean one container.
ActionIsSeen ==
  [][\A i \in DOMAIN containers :
       Alone(containers[i].name) /\ (DockerStart(i) \/ DockerRestart(i)) =>
         ContainerRunning(containers[i].name)']_docker
===============================================================================
