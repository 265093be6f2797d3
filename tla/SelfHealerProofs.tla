---------------------------- MODULE SelfHealerProofs ----------------------------
(***************************************************************************)
(* Proofs about SelfHealer: it keeps its types, and an outage of a process *)
(* or a container costs one session, for any number of things, outages and *)
(* connections.                                                            *)
(* The second part is about Workers, the threads the watcher runs on: an   *)
(* abort of the watcher is final.                                          *)
(***************************************************************************)
EXTENDS SelfHealer, Workers, TLAPS

USE HealerAssumption

\* A connection that is down can still be followed by one.
NextLink == ~linkUp => link <= MaxDrops

\* No report is of an outage that has not begun.
TasksArePast == \A t \in tasks : t.outage <= outage[t.key]

\* Each outage has one report at most.
OneTask ==
  \A t, u \in tasks : t.key = u.key /\ Current(t) /\ Current(u) => t = u

\* The sessions of an outage that is being reported are those of its report.
SessionOfTask ==
  \A t \in tasks :
    Current(t) => opened[t.key] = IF t.step = "message" THEN 1 ELSE 0

\* The outage at hand has been taken up.
TakenUp(k) == opened[k] > 0 \/ \E t \in tasks : t.key = k /\ Current(t)

\* What is down and has been taken up stays marked: so no sample finds it new.
TakenUpIsMarked == \A k \in Direct : k \in down /\ TakenUp(k) => k \in reported

\* What a tick sets out to report has not been taken up.
TodoIsNew == \A k \in todo \cap Direct : ~TakenUp(k)

IInv ==
  /\ TypeOK
  /\ NextLink
  /\ TasksArePast
  /\ OneTask
  /\ SessionOfTask
  /\ TakenUpIsMarked
  /\ TodoIsNew
  /\ OneSessionPerOutage

-------------------------------------------------------------------------------
\* A process or a container is found by a sample exactly while it is down.
LEMMA DirectIsSampled ==
  ASSUME NEW podsRead \in BOOLEAN, NEW nodesRead \in BOOLEAN, NEW k \in Direct
  PROVE  k \in Incidents(podsRead, nodesRead) <=> k \in down
BY DEF Incidents, Things

\* What a sample finds can be reported.
LEMMA IncidentsAreKeys ==
  ASSUME NEW podsRead \in BOOLEAN, NEW nodesRead \in BOOLEAN
  PROVE  Incidents(podsRead, nodesRead) \subseteq Keys
BY DEF Incidents, Keys, Things

LEMMA InitInvariant == Init => IInv
<1> SUFFICES ASSUME Init PROVE IInv
  OBVIOUS
<1>1. TypeOK
  <2>1. opened = [k \in Direct |-> 0] /\ 0 \in 0..Many
    BY DEF Init, Many
  <2>2. outage = [k \in Direct |-> 0] /\ 0 \in 0..MaxOutages
    BY DEF Init
  <2> QED
    BY <2>1, <2>2 DEF Init, TypeOK
<1>2. NextLink
  BY DEF Init, NextLink
<1>3. TasksArePast /\ OneTask /\ SessionOfTask /\ TakenUpIsMarked /\ TodoIsNew
  BY DEF Init, TasksArePast, OneTask, SessionOfTask, TakenUpIsMarked, TodoIsNew
<1>4. OneSessionPerOutage
  <2>1. \A k \in Direct : opened[k] = 0
    BY DEF Init
  <2>2. 0 <= 1
    OBVIOUS
  <2> QED
    BY <2>1, <2>2, Zenon DEF OneSessionPerOutage
<1> QED
  BY <1>1, <1>2, <1>3, <1>4 DEF IInv

\* Re-arming keeps what is down and marked, and sets out for what is neither.
LEMMA SamplePreserves == ASSUME IInv, Sample PROVE IInv'
<1>1. PICK podsRead \in BOOLEAN, nodesRead \in BOOLEAN :
        /\ reported' = reported \cap Incidents(podsRead, nodesRead)
        /\ todo' = Incidents(podsRead, nodesRead) \ reported'
  BY DEF Sample
<1>2. UNCHANGED <<world, net, tasks, outcome>>
  BY DEF Sample
<1>3. TypeOK'
  BY <1>1, <1>2, IncidentsAreKeys DEF IInv, TypeOK, world, net, outcome, Tasks
<1>4. NextLink' /\ TasksArePast' /\ OneTask' /\ SessionOfTask' /\ OneSessionPerOutage'
  BY <1>2 DEF IInv, NextLink, TasksArePast, OneTask, SessionOfTask, OneSessionPerOutage,
              Current, world, net, outcome
<1>5. ASSUME NEW k \in Direct PROVE TakenUp(k)' <=> TakenUp(k)
  BY <1>2 DEF TakenUp, Current, world, outcome
<1>6. TakenUpIsMarked'
  BY <1>1, <1>2, <1>5, DirectIsSampled DEF IInv, TakenUpIsMarked, world
<1>7. TodoIsNew'
  BY <1>1, <1>2, <1>5, DirectIsSampled DEF IInv, TakenUpIsMarked, TodoIsNew, world
<1> QED
  BY <1>3, <1>4, <1>6, <1>7 DEF IInv

\* The report of an outage that has none is its only one, and marks it.
LEMMA ReportPreserves == ASSUME IInv, NEW k \in Keys, Report(k) PROVE IInv'
<1>1. /\ k \in todo
      /\ todo' = todo \ {k}
      /\ reported' = reported \union {k}
      /\ UNCHANGED <<world, net, outcome>>
  BY DEF Report
<1>2. CASE slot = 0 \/ k \notin Direct
  <2>1. tasks' = tasks
    BY <1>2 DEF Report
  <2>2. TypeOK'
    BY <1>1, <2>1 DEF IInv, TypeOK, world, net, outcome, Tasks
  <2>3. NextLink' /\ TasksArePast' /\ OneTask' /\ SessionOfTask' /\ OneSessionPerOutage'
    BY <1>1, <2>1 DEF IInv, NextLink, TasksArePast, OneTask, SessionOfTask,
                      OneSessionPerOutage, Current, world, net, outcome
  <2>4. TakenUpIsMarked' /\ TodoIsNew'
    BY <1>1, <2>1 DEF IInv, TakenUpIsMarked, TodoIsNew, TakenUp, Current, world, outcome
  <2> QED
    BY <2>2, <2>3, <2>4 DEF IInv
<1>3. CASE slot # 0 /\ k \in Direct
  <2>1. tasks' = tasks \union {Task(k)}
    BY <1>3 DEF Report
  <2>2. Task(k) \in Tasks /\ Task(k).key = k /\ Task(k).outage = outage[k]
        /\ Task(k).step = "api"
    BY <1>3 DEF Task, Tasks, IInv, TypeOK
  <2>3. opened[k] = 0 /\ \A t \in tasks : t.key = k => ~Current(t)
    BY <1>1, <1>3 DEF IInv, TodoIsNew, TakenUp, TypeOK, Many
  <2>4. TypeOK'
    BY <1>1, <2>1, <2>2 DEF IInv, TypeOK, world, net, outcome
  <2>5. NextLink' /\ TasksArePast' /\ OneSessionPerOutage'
    BY <1>1, <1>3, <2>1, <2>2 DEF IInv, TypeOK, NextLink, TasksArePast, OneSessionPerOutage,
                                  world, net, outcome
  <2>6. OneTask'
    BY <1>1, <2>1, <2>2, <2>3 DEF IInv, OneTask, Current, world
  <2>7. SessionOfTask'
    BY <1>1, <2>1, <2>2, <2>3 DEF IInv, SessionOfTask, Current, world, outcome
  <2>8. TakenUpIsMarked' /\ TodoIsNew'
    BY <1>1, <2>1, <2>2 DEF IInv, TakenUpIsMarked, TodoIsNew, TakenUp, Current, world, outcome
  <2> QED
    BY <2>4, <2>5, <2>6, <2>7, <2>8 DEF IInv
<1> QED
  BY <1>2, <1>3

\* What a report that goes on has left of the tasks.
LEMMA Advanced ==
  ASSUME IInv, NEW t \in tasks, NEW step \in {"api", "session", "message"},
         Advance(t, step), UNCHANGED outage
  PROVE  /\ tasks' \in SUBSET Tasks
         /\ \A u \in tasks' : \/ u \in tasks /\ u # t
                              \/ /\ u.key = t.key /\ u.outage = t.outage
                                 /\ u.step = step /\ u = [t EXCEPT !.step = step]
         /\ \A k \in Direct : (\E u \in tasks' : u.key = k /\ Current(u)')
                             <=> (\E u \in tasks : u.key = k /\ Current(u))
<1> DEFINE moved == [t EXCEPT !.step = step]
<1>1. t \in Tasks /\ tasks \subseteq Tasks
  BY DEF IInv, TypeOK
<1>2. moved \in Tasks /\ moved.key = t.key /\ moved.outage = t.outage /\ moved.step = step
  BY <1>1 DEF Tasks
<1>3. tasks' = (tasks \ {t}) \union {moved}
  BY DEF Advance
<1> HIDE DEF moved
<1>4. \A k \in Direct : (\E u \in tasks' : u.key = k /\ Current(u)')
                       <=> (\E u \in tasks : u.key = k /\ Current(u))
  BY <1>2, <1>3 DEF Current
<1>5. \A u \in tasks' : (u \in tasks /\ u # t) \/ u = moved
  BY <1>3
<1>6. tasks' \in SUBSET Tasks
  BY <1>1, <1>2, <1>3
<1> QED
  BY <1>2, <1>4, <1>5, <1>6 DEF moved

\* A report that gets its session is the only one of its outage, and the
\* session the first.
LEMMA TaskPreserves == ASSUME IInv, NEW t \in tasks, TaskStep(t) PROVE IInv'
<1>1. t \in Tasks /\ t.key \in Direct /\ UNCHANGED <<world, net, watcher>>
  BY DEF IInv, TypeOK, Tasks, TaskStep, FindApi, OpenSession, SendMessage
<1>2. CASE FindApi(t)
  <2>1. Advance(t, "session") /\ t.step = "api" /\ UNCHANGED <<world, outcome>>
    BY <1>2 DEF FindApi
  <2>2. /\ tasks' \in SUBSET Tasks
        /\ \A u \in tasks' : \/ u \in tasks /\ u # t
                             \/ /\ u.key = t.key /\ u.outage = t.outage
                                /\ u.step = "session" /\ u = [t EXCEPT !.step = "session"]
        /\ \A k \in Direct : (\E u \in tasks' : u.key = k /\ Current(u)')
                            <=> (\E u \in tasks : u.key = k /\ Current(u))
    BY <2>1, Advanced DEF world
  <2>3. TypeOK'
    BY <1>1, <2>1, <2>2 DEF IInv, TypeOK, world, net, watcher, outcome
  <2>4. NextLink' /\ TasksArePast' /\ OneSessionPerOutage'
    BY <1>1, <2>1, <2>2 DEF IInv, NextLink, TasksArePast, OneSessionPerOutage, world, net, outcome
  <2>5. OneTask'
    BY <1>1, <2>2 DEF IInv, OneTask, Current, world
  <2>6. SessionOfTask'
    BY <2>1, <2>2 DEF IInv, SessionOfTask, Current, world, outcome
  <2>7. ASSUME NEW k \in Direct PROVE TakenUp(k)' <=> TakenUp(k)
    BY <2>1, <2>2 DEF TakenUp, outcome
  <2>8. TakenUpIsMarked' /\ TodoIsNew'
    BY <1>1, <2>7 DEF IInv, TakenUpIsMarked, TodoIsNew, world, watcher
  <2> QED
    BY <2>3, <2>4, <2>5, <2>6, <2>8 DEF IInv
<1>3. CASE OpenSession(t)
  <2>1. /\ Advance(t, "message") /\ t.step = "session" /\ UNCHANGED <<world, told, failed>>
        /\ opened' = IF Current(t) THEN [opened EXCEPT ![t.key] = OneMore(@)] ELSE opened
    BY <1>3 DEF OpenSession
  <2>2. /\ tasks' \in SUBSET Tasks
        /\ \A u \in tasks' : \/ u \in tasks /\ u # t
                             \/ /\ u.key = t.key /\ u.outage = t.outage
                                /\ u.step = "message" /\ u = [t EXCEPT !.step = "message"]
        /\ \A k \in Direct : (\E u \in tasks' : u.key = k /\ Current(u)')
                            <=> (\E u \in tasks : u.key = k /\ Current(u))
    BY <2>1, Advanced DEF world
  <2>3. /\ opened' \in [Direct -> 0..Many]
        /\ \A k \in Direct : opened'[k] = IF Current(t) /\ k = t.key THEN 1 ELSE opened[k]
    BY <1>1, <2>1 DEF IInv, TypeOK, SessionOfTask, OneMore, Many
  <2>4. TypeOK'
    BY <1>1, <2>1, <2>2, <2>3 DEF IInv, TypeOK, world, net, watcher
  <2>5. NextLink' /\ TasksArePast' /\ OneSessionPerOutage'
    BY <1>1, <2>1, <2>2, <2>3 DEF IInv, NextLink, TasksArePast, OneSessionPerOutage, world, net
  <2>6. OneTask'
    BY <1>1, <2>2 DEF IInv, OneTask, Current, world
  <2>7. SessionOfTask'
    <3> SUFFICES ASSUME NEW u \in tasks', Current(u)'
                 PROVE  opened'[u.key] = IF u.step = "message" THEN 1 ELSE 0
      BY DEF SessionOfTask
    <3>1. u.key \in Direct
      BY <2>2 DEF Tasks
    <3>2. CASE u \in tasks /\ u # t
      <4>1. Current(u)
        BY <2>1 DEF Current, world
      <4>2. ~(Current(t) /\ u.key = t.key)
        BY <3>2, <4>1 DEF IInv, OneTask
      <4> QED
        BY <2>3, <3>1, <3>2, <4>1, <4>2 DEF IInv, SessionOfTask
    <3>3. CASE u.key = t.key /\ u.outage = t.outage /\ u.step = "message"
      <4>1. Current(t)
        BY <2>1, <3>3 DEF Current, world
      <4> QED
        BY <2>3, <3>1, <3>3, <4>1
    <3> QED
      BY <2>2, <3>2, <3>3
  <2>8. ASSUME NEW k \in Direct PROVE TakenUp(k)' <=> TakenUp(k)
    BY <2>1, <2>2, <2>3 DEF TakenUp
  <2>9. TakenUpIsMarked' /\ TodoIsNew'
    BY <1>1, <2>8 DEF IInv, TakenUpIsMarked, TodoIsNew, world, watcher
  <2> QED
    BY <2>4, <2>5, <2>6, <2>7, <2>9 DEF IInv
<1>4. CASE SendMessage(t)
  <2>1. /\ tasks' = tasks \ {t} /\ UNCHANGED <<world, opened, failed>>
        /\ told' \in SUBSET Direct
    BY <1>1, <1>4 DEF SendMessage, IInv, TypeOK
  <2>2. TypeOK'
    BY <1>1, <2>1 DEF IInv, TypeOK, world, net, watcher
  <2> QED
    BY <1>1, <2>1, <2>2 DEF IInv, NextLink, TasksArePast, OneTask, SessionOfTask,
       TakenUp, TakenUpIsMarked, TodoIsNew, OneSessionPerOutage, Current, world, net, watcher
<1> QED
  BY <1>2, <1>3, <1>4 DEF TaskStep

\* A report that fails leaves its outage marked.
LEMMA TaskFailsPreserves == ASSUME IInv, NEW t \in tasks, TaskFails(t) PROVE IInv'
<1>1. /\ tasks' = tasks \ {t} /\ UNCHANGED <<world, net, watcher, opened, told>>
      /\ failed' \in SUBSET Direct
  BY DEF TaskFails, IInv, TypeOK, Tasks
<1>2. TypeOK'
  BY <1>1 DEF IInv, TypeOK, world, net, watcher
<1> QED
  BY <1>1, <1>2 DEF IInv, NextLink, TasksArePast, OneTask, SessionOfTask,
     TakenUp, TakenUpIsMarked, TodoIsNew, OneSessionPerOutage, Current, world, net, watcher

\* Connections and their hooks change nothing of the reports.
LEMMA NetPreserves ==
  ASSUME IInv, Connect \/ Drop \/ \E c \in Links : RunHook(c)
  PROVE  IInv'
<1>1. UNCHANGED <<world, watcher, tasks, outcome>>
  BY DEF Connect, Drop, RunHook
<1>2. TypeOK' /\ NextLink'
  <2>1. /\ link' \in Links \union {0} /\ linkUp' \in BOOLEAN /\ hooks' \subseteq Links
        /\ slot' \in Links \union {0} /\ (~linkUp' => link' <= MaxDrops)
    <3>1. CASE Connect
      BY <3>1 DEF Connect, IInv, TypeOK, NextLink, Links
    <3>2. CASE Drop
      BY <3>2 DEF Drop, IInv, TypeOK
    <3>3. CASE \E c \in Links : RunHook(c)
      BY <3>3 DEF RunHook, IInv, TypeOK, NextLink
    <3> QED
      BY <3>1, <3>2, <3>3
  <2> QED
    BY <1>1, <2>1 DEF IInv, TypeOK, NextLink, world, watcher, outcome
<1> QED
  BY <1>1, <1>2 DEF IInv, TasksArePast, OneTask, SessionOfTask,
     TakenUp, TakenUpIsMarked, TodoIsNew, OneSessionPerOutage, Current, world, watcher, outcome

\* A new outage has no report yet: those there are belong to the ones before.
LEMMA FallPreserves == ASSUME IInv, NEW k \in Things, Fall(k) PROVE IInv'
<1>1. k \notin down /\ down' = down \union {k} /\ UNCHANGED <<net, watcher, tasks>>
  BY DEF Fall
<1>2. CASE k \in Direct
  <2>1. /\ outage[k] < MaxOutages
        /\ outage' = [outage EXCEPT ![k] = @ + 1]
        /\ opened' = [opened EXCEPT ![k] = 0]
        /\ told' = told \ {k} /\ failed' = failed \ {k}
    BY <1>2 DEF Fall
  <2>2. TypeOK'
    BY <1>1, <1>2, <2>1 DEF IInv, TypeOK, Things, net, watcher, Many
  <2>3. /\ opened'[k] = 0 /\ \A j \in Direct \ {k} : opened'[j] = opened[j]
        /\ outage'[k] = outage[k] + 1 /\ \A j \in Direct \ {k} : outage'[j] = outage[j]
        /\ \A t \in tasks : t.key \in Direct /\ t.outage \in Nat
        /\ \A j \in Direct : outage[j] \in Nat
    BY <1>2, <2>1 DEF IInv, TypeOK, Tasks
  <2>4. ASSUME NEW t \in tasks
        PROVE  /\ t.outage <= outage'[t.key]
               /\ Current(t)' <=> t.key # k /\ Current(t)
    BY <2>3 DEF IInv, TasksArePast, Current
  <2>5. NextLink' /\ TasksArePast' /\ OneTask' /\ OneSessionPerOutage'
    BY <1>1, <1>2, <2>3, <2>4 DEF IInv, NextLink, TasksArePast, OneTask, OneSessionPerOutage, net
  <2>6. SessionOfTask'
    BY <1>1, <2>3, <2>4 DEF IInv, SessionOfTask
  <2>7. ASSUME NEW j \in Direct PROVE TakenUp(j)' <=> j # k /\ TakenUp(j)
    BY <1>1, <2>3, <2>4 DEF TakenUp
  <2>8. TakenUpIsMarked' /\ TodoIsNew'
    BY <1>1, <2>7 DEF IInv, TakenUpIsMarked, TodoIsNew, watcher
  <2> QED
    BY <2>2, <2>5, <2>6, <2>8 DEF IInv
<1>3. CASE k \notin Direct
  <2>1. UNCHANGED <<outage, outcome>>
    BY <1>3 DEF Fall
  <2>2. TypeOK'
    BY <1>1, <2>1 DEF IInv, TypeOK, net, watcher, outcome
  <2> QED
    BY <1>1, <1>3, <2>1, <2>2 DEF IInv, NextLink, TasksArePast, OneTask, SessionOfTask,
       TakenUp, TakenUpIsMarked, TodoIsNew, OneSessionPerOutage, Current, net, watcher, outcome
<1> QED
  BY <1>2, <1>3

LEMMA RecoverPreserves == ASSUME IInv, NEW k \in Things, Recover(k) PROVE IInv'
<1>1. down' \subseteq down /\ UNCHANGED <<outage, net, watcher, tasks, outcome>>
  BY DEF Recover
<1>2. TypeOK'
  BY <1>1 DEF IInv, TypeOK, net, watcher, outcome
<1> QED
  BY <1>1, <1>2 DEF IInv, NextLink, TasksArePast, OneTask, SessionOfTask,
     TakenUp, TakenUpIsMarked, TodoIsNew, OneSessionPerOutage, Current, net, watcher, outcome

LEMMA NextInvariant == IInv /\ [Next]_vars => IInv'
<1> SUFFICES ASSUME IInv, [Next]_vars PROVE IInv'
  OBVIOUS
<1>1. CASE UNCHANGED vars
  <2>1. UNCHANGED <<down, outage, link, linkUp, hooks, slot, reported, todo, tasks,
                    opened, told, failed>>
    BY <1>1 DEF vars, world, net, watcher, outcome
  <2> QED
    BY <2>1 DEF IInv, TypeOK, NextLink, TasksArePast, OneTask, SessionOfTask,
       TakenUp, TakenUpIsMarked, TodoIsNew, OneSessionPerOutage, Current
<1>2. CASE Sample
  BY <1>2, SamplePreserves
<1>3. CASE \E k \in Keys : Report(k)
  BY <1>3, ReportPreserves
<1>4. CASE \E t \in tasks : TaskStep(t) \/ TaskFails(t)
  BY <1>4, TaskPreserves, TaskFailsPreserves
<1>5. CASE Connect \/ Drop \/ \E c \in Links : RunHook(c)
  BY <1>5, NetPreserves
<1>6. CASE \E k \in Things : Fall(k) \/ Recover(k)
  BY <1>6, FallPreserves, RecoverPreserves
<1> QED
  BY <1>1, <1>2, <1>3, <1>4, <1>5, <1>6 DEF Next

LEMMA Invariant == Spec => []IInv
BY InitInvariant, NextInvariant, PTL DEF Spec

-------------------------------------------------------------------------------
\* The watcher keeps its variables in their types, whatever it watches and
\* however often things fall and connections drop.
THEOREM TypeCorrect == Spec => []TypeOK
<1>1. IInv => TypeOK
  BY DEF IInv
<1> QED
  BY <1>1, Invariant, PTL

\* An outage of a process or a container costs one session, whatever is
\* watched, however often it falls and however often the connection drops.
THEOREM OneSession == Spec => []OneSessionPerOutage
<1>1. IInv => OneSessionPerOutage
  BY DEF IInv
<1> QED
  BY <1>1, Invariant, PTL

-------------------------------------------------------------------------------
(***************************************************************************)
(* The threads the watcher runs on (Workers), for every number of threads  *)
(* and calls.                                                              *)
(***************************************************************************)
\* Once aborted, the watcher is at most at the end of the sample it had begun.
AbortIsFinal ==
  main \in {"aborted", "dropping", "exited"} => task[Healer] \in {"running", "gone"}

\* The inductive invariant.
PoolInv == WorkersTypeOK /\ AbortIsFinal

\* It holds before anything runs.
LEMMA PoolInit == WorkersInit => PoolInv
<1> SUFFICES ASSUME WorkersInit
             PROVE  PoolInv
  OBVIOUS
<1> QED
  BY WorkersAssumption DEF WorkersInit, PoolInv, WorkersTypeOK, AllTasks, AbortIsFinal

\* Every step of the tasks, the threads and the stop keeps it.
LEMMA PoolStep == PoolInv /\ [WorkersNext]_workersVars => PoolInv'
<1> SUFFICES ASSUME PoolInv, [WorkersNext]_workersVars
             PROVE  PoolInv'
  OBVIOUS
<1> USE WorkersAssumption DEF PoolInv, WorkersTypeOK, AbortIsFinal, AllTasks
<1>1. ASSUME NEW c \in Calls, Arrive(c)
      PROVE  PoolInv'
  BY <1>1 DEF Arrive
<1>2. CASE Tick
  BY <1>2 DEF Tick, Alive
<1>3. ASSUME NEW w \in Threads, NEW t \in AllTasks, Run(w, t)
      PROVE  PoolInv'
  BY <1>3 DEF Run, Alive
<1>4. ASSUME NEW w \in Threads, Ends(w)
      PROVE  PoolInv'
  BY <1>4 DEF Ends, Rest, Alive
<1>5. CASE Raise \/ SeeStop \/ GraceEnds \/ GiveUp
  BY <1>5 DEF Raise, SeeStop, GraceEnds, GiveUp
<1>6. CASE AbortWatcher
  BY <1>6 DEF AbortWatcher
<1>7. CASE DropRuntime
  BY <1>7 DEF DropRuntime
<1>8. CASE Exit
  BY <1>8 DEF Exit
<1>9. CASE UNCHANGED workersVars
  BY <1>9 DEF workersVars
<1> QED
  BY <1>1, <1>2, <1>3, <1>4, <1>5, <1>6, <1>7, <1>8, <1>9 DEF WorkersNext

\* The invariant the theorems rest on holds in every reachable state.
THEOREM PoolInvariance == WorkersSpec => []PoolInv
BY PoolInit, PoolStep, PTL DEF WorkersSpec

\* The variables keep their types, a thread waits for a task exactly while the
\* task runs, and no task is on two threads.
THEOREM PoolTypeCorrect == WorkersSpec => []WorkersTypeOK
<1>1. PoolInv => WorkersTypeOK
  BY DEF PoolInv
<1> QED
  BY PoolInvariance, <1>1, PTL

\* After the abort no sample begins, however many threads there are.
THEOREM AbortStops == WorkersSpec => NoSampleAfterAbort
<1>1. PoolInv /\ [WorkersNext]_workersVars
        => [\A w \in Threads :
              Run(w, Healer) => main \notin {"aborted", "dropping", "exited"}]_workersVars
  BY DEF PoolInv, AbortIsFinal, Run
<1> QED
  BY PoolInvariance, <1>1, PTL DEF WorkersSpec, NoSampleAfterAbort
===============================================================================
