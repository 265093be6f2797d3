------------------------------- MODULE SelfHealer -------------------------------
(***************************************************************************)
(* The self-healing watcher of src/heal.rs, with the connection slot that  *)
(* main.rs has the dial loop's hook fill.                                  *)
(*                                                                         *)
(* Every interval the watcher samples what it was told to watch, re-arms   *)
(* what is up again and reports what is newly down, each incident from a   *)
(* task of its own over the connection the slot holds at that moment.      *)
(* Things fall and recover, connections drop, and the tasks run, between   *)
(* any two of its steps.                                                   *)
(*                                                                         *)
(* Each thing is looked at once per sample and nothing compares two of     *)
(* them, so a sample is one step; Sampling has it call by call, and        *)
(* SampleIsTrue there is what this module relies on.  What kubectl says    *)
(* may be missing: the pods and the nodes are read by a command each, and  *)
(* either may fail.                                                        *)
(*                                                                         *)
(* The tasks that report a process or a container are followed; those that *)
(* report the cluster, a pod or a node run alike and are left out, since   *)
(* only their own sessions depend on them.                                 *)
(***************************************************************************)
EXTENDS Naturals

CONSTANTS Direct,     \* watched processes and containers
          KubePods,   \* pods of the watched cluster
          KubeNodes,  \* its nodes
          Cluster,    \* the incident "the pods cannot be read"
          WatchK8s,   \* Config::watch_k8s
          MaxOutages, \* bound: times each process or container falls
          MaxDrops    \* bound: times the connection drops

Things == Direct \union KubePods \union KubeNodes

ASSUME HealerAssumption ==
  /\ Cluster \notin Things
  /\ WatchK8s \in BOOLEAN
  /\ ~WatchK8s => KubePods \union KubeNodes = {}
  /\ MaxOutages \in Nat
  /\ MaxDrops \in Nat

Keys == Things \union {Cluster}

\* Connections are numbered in the order they are made; 0 is none.
Links == 1..(MaxDrops + 1)

VARIABLES down,     \* the things that are down
          outage,   \* how often each process or container has fallen
          link,     \* the latest connection
          linkUp,   \* whether it is up
          hooks,    \* connections whose on_connect task has not run yet
          slot,     \* ConnSlot
          reported, \* SelfHealer::reported
          todo,     \* the incidents of this tick still to be reported
          tasks,    \* the report_incident tasks
          opened,   \* history: sessions opened over the current outage of each
          told,     \* history: those whose current outage an agent was told of
          failed    \* history: those a call over a live connection failed for

watcher == <<reported, todo>>
world   == <<down, outage>>
net     == <<link, linkUp, hooks, slot>>
outcome == <<opened, told, failed>>
vars    == <<world, net, watcher, tasks, outcome>>

\* Bound: sessions are counted up to "many".
Many == 2
OneMore(n) == IF n = Many THEN Many ELSE n + 1

Tasks == [key : Direct, outage : 0..MaxOutages, link : Links,
          step : {"api", "session", "message"}]

TypeOK ==
  /\ down \subseteq Things
  /\ outage \in [Direct -> 0..MaxOutages]
  /\ link \in Links \union {0}
  /\ linkUp \in BOOLEAN
  /\ hooks \subseteq Links
  /\ slot \in Links \union {0}
  /\ reported \subseteq Keys
  /\ todo \subseteq Keys
  /\ tasks \subseteq Tasks
  /\ opened \in [Direct -> 0..Many]
  /\ told \subseteq Direct
  /\ failed \subseteq Direct

Init ==
  /\ down = {}
  /\ outage = [k \in Direct |-> 0]
  /\ link = 0
  /\ linkUp = FALSE
  /\ hooks = {}
  /\ slot = 0
  /\ reported = {}
  /\ todo = {}
  /\ tasks = {}
  /\ opened = [k \in Direct |-> 0]
  /\ told = {}
  /\ failed = {}

-------------------------------------------------------------------------------
(***************************************************************************)
(* The watcher                                                             *)
(***************************************************************************)
IncidentsOrCluster(podsRead, nodesRead) ==
  IF WatchK8s /\ ~podsRead THEN {Cluster}
  ELSE (Direct \union KubePods \union IF nodesRead THEN KubeNodes ELSE {}) \cap down

\* What a sample finds: without the pods there is the cluster incident in
\* their place, without the nodes there is nothing.
Incidents(podsRead, nodesRead) ==
  LET pods  == IF podsRead THEN KubePods \cap down ELSE {Cluster}
      nodes == IF nodesRead THEN KubeNodes \cap down ELSE {}
  IN  (Direct \cap down) \union (IF WatchK8s THEN pods \union nodes ELSE {})

\* A tick: forget what is up, and set out to report what is not reported yet.
Sample ==
  /\ todo = {}
  /\ \E podsRead, nodesRead \in BOOLEAN :
       LET incidents == Incidents(podsRead, nodesRead)
       IN  /\ reported' = reported \cap incidents
           /\ todo' = incidents \ reported'
  /\ UNCHANGED <<world, net, tasks, outcome>>

Task(k) == [key |-> k, outage |-> outage[k], link |-> slot, step |-> "api"]

ReportWithoutConnection(k) ==
  /\ k \in todo
  /\ todo' = todo \ {k}
  /\ reported' = reported \union {k}
  /\ tasks' = IF k \in Direct THEN tasks \union {Task(k)} ELSE tasks
  /\ UNCHANGED <<world, net, outcome>>

ReportSpawnsNothing(k) ==
  /\ k \in todo
  /\ todo' = todo \ {k}
  /\ reported' = reported \union {k}
  /\ UNCHANGED <<world, net, tasks, outcome>>

\* Mark the incident, then hand it to a task with the connection the slot
\* holds: whether or not there is one, and whether or not it still lives.
Report(k) ==
  /\ k \in todo
  /\ todo' = todo \ {k}
  /\ reported' = reported \union {k}
  /\ tasks' = IF slot = 0 \/ k \notin Direct THEN tasks ELSE tasks \union {Task(k)}
  /\ UNCHANGED <<world, net, outcome>>

-------------------------------------------------------------------------------
(***************************************************************************)
(* report_incident                                                         *)
(***************************************************************************)
Live(c) == linkUp /\ c = link

Advance(t, step) == tasks' = (tasks \ {t}) \union {[t EXCEPT !.step = step]}

Current(t) == t.outage = outage[t.key]

\* The capability is announced and the agent resolved.
FindApi(t) ==
  /\ t.step = "api" /\ Live(t.link)
  /\ Advance(t, "session")
  /\ UNCHANGED <<world, net, watcher, outcome>>

OpenSession(t) ==
  /\ t.step = "session" /\ Live(t.link)
  /\ Advance(t, "message")
  /\ opened' = IF Current(t) THEN [opened EXCEPT ![t.key] = OneMore(@)] ELSE opened
  /\ UNCHANGED <<world, net, watcher, told, failed>>

SendMessage(t) ==
  /\ t.step = "message" /\ Live(t.link)
  /\ tasks' = tasks \ {t}
  /\ told' = IF Current(t) THEN told \union {t.key} ELSE told
  /\ UNCHANGED <<world, net, watcher, opened, failed>>

\* Any of the calls fails; it is logged, and nobody tries again.
TaskFails(t) ==
  /\ tasks' = tasks \ {t}
  /\ failed' = IF Live(t.link) /\ Current(t) THEN failed \union {t.key} ELSE failed
  /\ UNCHANGED <<world, net, watcher, opened, told>>

-------------------------------------------------------------------------------
(***************************************************************************)
(* The dial loop and the world                                             *)
(***************************************************************************)
\* A new connection spawns the hook that will fill the slot.
Connect ==
  /\ ~linkUp
  /\ link' = link + 1
  /\ linkUp' = TRUE
  /\ hooks' = hooks \union {link'}
  /\ UNCHANGED <<slot, world, watcher, tasks, outcome>>

RunHook(c) ==
  /\ c \in hooks
  /\ slot' = c
  /\ hooks' = hooks \ {c}
  /\ UNCHANGED <<link, linkUp, world, watcher, tasks, outcome>>

\* The slot keeps what it holds.
Drop ==
  /\ linkUp
  /\ link <= MaxDrops
  /\ linkUp' = FALSE
  /\ UNCHANGED <<link, hooks, slot, world, watcher, tasks, outcome>>

Fall(k) ==
  /\ k \notin down
  /\ down' = down \union {k}
  /\ IF k \in Direct
     THEN /\ outage[k] < MaxOutages
          /\ outage' = [outage EXCEPT ![k] = @ + 1]
          /\ opened' = [opened EXCEPT ![k] = 0]
          /\ told' = told \ {k}
          /\ failed' = failed \ {k}
     ELSE UNCHANGED <<outage, outcome>>
  /\ UNCHANGED <<net, watcher, tasks>>

Recover(k) ==
  /\ k \in down
  /\ down' = down \ {k}
  /\ UNCHANGED <<outage, net, watcher, tasks, outcome>>

-------------------------------------------------------------------------------
TaskStep(t) == FindApi(t) \/ OpenSession(t) \/ SendMessage(t)

Next ==
  \/ Sample
  \/ \E k \in Keys : Report(k)
  \/ \E t \in tasks : TaskStep(t) \/ TaskFails(t)
  \/ Connect \/ Drop
  \/ \E c \in Links : RunHook(c)
  \/ \E k \in Things : Fall(k) \/ Recover(k)

\* The timer ticks and tasks run; the dial loop reconnects (DialLoop.tla) and
\* calls on a connection that is up are answered, or fail if they may.
Fairness ==
  /\ WF_vars(Sample)
  /\ \A k \in Keys : WF_vars(Report(k))
  /\ \A t \in Tasks : WF_vars(t \in tasks /\ (TaskStep(t) \/ TaskFails(t)))
  /\ WF_vars(Connect)
  /\ \A c \in Links : WF_vars(RunHook(c))

Spec == Init /\ [][Next]_vars /\ Fairness

-------------------------------------------------------------------------------
(***************************************************************************)
(* Properties                                                              *)
(***************************************************************************)

\* A process or container that stays down costs its owner one session,
\* however often it is sampled, however the connection comes and goes and
\* however late an older report is.
OneSessionPerOutage == \A k \in Direct : opened[k] <= 1

\* An incident found while the slot holds the connection in use, with no hook
\* still to run, reaches an agent, unless the thing comes back first, that
\* connection drops or Attacca refuses a call.
ConnectedIncidentIsTold ==
  \A k \in Direct :
    (k \in todo /\ Live(slot) /\ hooks = {})
      ~> (k \in told \union failed \/ k \notin down \/ ~linkUp)

\* What the README says of the watcher: it keeps sampling, so nothing is
\* silently ignored.  An outage that lasts is brought before an agent, or a call
\* over a live connection says why not.
NothingIgnored ==
  \A k \in Direct : (k \in down) ~> (k \in told \union failed \/ k \notin down)
===============================================================================
