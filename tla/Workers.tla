-------------------------------- MODULE Workers --------------------------------
(***************************************************************************)
(* Who runs on what: run_runtime of src/main.rs, the watcher it spawns,    *)
(* the monitor handlers of src/monitor.rs and the stop of the node, on the *)
(* worker threads of the runtime.                                          *)
(*                                                                         *)
(* Every command of docker and kubectl is waited for where it is called    *)
(* (Command::output, no timeout), so a handler or a sample keeps its       *)
(* thread until the command ends.  Timers, signals and incoming calls      *)
(* reach the program through a thread that has nothing else to do.         *)
(*                                                                         *)
(* The runtime and the deployment are external: run on the thread of main  *)
(* is Runner::run, run on the workers is everything that was spawned, and  *)
(* a runtime that is dropped waits for its threads.                        *)
(*                                                                         *)
(* Names that SelfHealer has as well carry the module's, so that a module  *)
(* can hold theorems of the watcher and of the threads it runs on.         *)
(***************************************************************************)
EXTENDS Integers, FiniteSets

CONSTANTS Threads, \* the worker threads
          Calls,   \* bound: calls of a monitor tool in progress at a time
          Follows, \* of those, docker_logs with "follow" of a container that runs
          Healer,  \* the task of the watcher
          Idle     \* no task

ASSUME WorkersAssumption ==
  /\ IsFiniteSet(Threads) /\ Threads # {}
  /\ Follows \subseteq Calls
  /\ Healer \notin Calls /\ Idle \notin Calls \union {Healer}

VARIABLES task,   \* where each task is
          thread, \* the task whose command each thread waits for
          signal, \* SIGTERM
          main    \* where the thread of main is

workersVars == <<task, thread, signal, main>>

AllTasks == Calls \union {Healer}

\* A thread waits for a task exactly while the task runs, each on one thread.
WorkersTypeOK ==
  /\ task \in [AllTasks -> {"none", "asleep", "ready", "running", "gone"}]
  /\ thread \in [Threads -> AllTasks \union {Idle}]
  /\ signal \in {"none", "raised"}
  /\ main \in {"serving", "closing", "returned", "aborted", "dropping", "exited"}
  /\ \A t \in AllTasks : task[t] = "running" <=> \E w \in Threads : thread[w] = t
  /\ \A w1, w2 \in Threads : thread[w1] = thread[w2] /\ thread[w1] # Idle => w1 = w2

WorkersInit ==
  /\ task = [t \in AllTasks |-> IF t = Healer THEN "asleep" ELSE "none"]
  /\ thread = [w \in Threads |-> Idle]
  /\ signal = "none"
  /\ main = "serving"

-------------------------------------------------------------------------------
\* A thread that is parked lets in what comes from outside.
Polled == \E w \in Threads : thread[w] = Idle

Alive == main \notin {"dropping", "exited"}

\* A call arrives while the node is connected.
Arrive(c) ==
  /\ main = "serving" /\ Polled
  /\ task[c] = "none"
  /\ task' = [task EXCEPT ![c] = "ready"]
  /\ UNCHANGED <<thread, signal, main>>

Tick ==
  /\ Alive /\ Polled
  /\ task[Healer] = "asleep"
  /\ task' = [task EXCEPT ![Healer] = "ready"]
  /\ UNCHANGED <<thread, signal, main>>

\* A thread takes up a handler, or a sample, and waits for the command.
Run(w, t) ==
  /\ Alive
  /\ thread[w] = Idle /\ task[t] = "ready"
  /\ thread' = [thread EXCEPT ![w] = t]
  /\ task' = [task EXCEPT ![t] = "running"]
  /\ UNCHANGED <<signal, main>>

RestAfterOneSample(t) == IF ~Alive \/ t = Healer THEN "gone" ELSE "none"

\* What a task is when its command ended: a handler has answered, the watcher
\* sleeps to the next tick unless it was aborted, and a runtime that is being
\* dropped drops both.
Rest(t) ==
  IF ~Alive \/ (t = Healer /\ main = "aborted")
  THEN "gone"
  ELSE IF t = Healer THEN "asleep" ELSE "none"

EndsUnparked(w) ==
  /\ thread[w] \in AllTasks
  /\ task' = [task EXCEPT ![thread[w]] = Rest(thread[w])]
  /\ UNCHANGED <<thread, signal, main>>

\* The command ends; one that follows a log does when its container stops.
Ends(w) ==
  /\ thread[w] \in AllTasks
  /\ task' = [task EXCEPT ![thread[w]] = Rest(thread[w])]
  /\ thread' = [thread EXCEPT ![w] = Idle]
  /\ UNCHANGED <<signal, main>>

-------------------------------------------------------------------------------
(***************************************************************************)
(* The stop                                                                *)
(***************************************************************************)
Raise ==
  /\ signal = "none"
  /\ signal' = "raised"
  /\ UNCHANGED <<task, thread, main>>

\* stop_requested, and the closing frame if there is a connection.
SeeStop ==
  /\ main = "serving" /\ signal = "raised" /\ Polled
  /\ main' \in {"closing", "returned"}
  /\ UNCHANGED <<task, thread, signal>>

\* CLOSE_GRACE is over.
GraceEnds ==
  /\ main = "closing" /\ Polled
  /\ main' = "returned"
  /\ UNCHANGED <<task, thread, signal>>

\* The dial loop gives up by itself.
GiveUp ==
  /\ main = "serving"
  /\ main' = "returned"
  /\ UNCHANGED <<task, thread, signal>>

AwaitWatcher ==
  /\ main = "returned"
  /\ task[Healer] = "gone"
  /\ main' = "aborted"
  /\ UNCHANGED <<task, thread, signal>>

AbandonWatcher ==
  /\ main = "returned"
  /\ main' = "aborted"
  /\ UNCHANGED <<task, thread, signal>>

\* watcher.abort: a sample that has begun goes on to its end.
AbortWatcher ==
  /\ main = "returned"
  /\ task' = [task EXCEPT ![Healer] = IF @ = "running" THEN @ ELSE "gone"]
  /\ main' = "aborted"
  /\ UNCHANGED <<thread, signal>>

\* The runtime is dropped as run_runtime returns: what does not run is gone.
DropRuntime ==
  /\ main = "aborted"
  /\ task' = [t \in AllTasks |-> IF task[t] = "running" THEN "running" ELSE "gone"]
  /\ main' = "dropping"
  /\ UNCHANGED <<thread, signal>>

Exit ==
  /\ main = "dropping"
  /\ \A w \in Threads : thread[w] = Idle
  /\ main' = "exited"
  /\ UNCHANGED <<task, thread, signal>>

WorkersNext ==
  \/ \E c \in Calls : Arrive(c)
  \/ Tick
  \/ \E w \in Threads : (\E t \in AllTasks : Run(w, t)) \/ Ends(w)
  \/ Raise \/ SeeStop \/ GraceEnds \/ GiveUp \/ AbortWatcher \/ DropRuntime \/ Exit

\* The runtime serves its queue in turn and polls its driver in turn with it; a
\* command that does not follow a log ends.
WorkersFairness ==
  /\ SF_workersVars(Tick)
  /\ \A t \in AllTasks : SF_workersVars(\E w \in Threads : Run(w, t))
  /\ \A w \in Threads : WF_workersVars(Ends(w) /\ thread[w] \notin Follows)
  /\ SF_workersVars(SeeStop) /\ SF_workersVars(GraceEnds)
  /\ WF_workersVars(AbortWatcher) /\ WF_workersVars(DropRuntime) /\ WF_workersVars(Exit)

WorkersSpec == WorkersInit /\ [][WorkersNext]_workersVars /\ WorkersFairness

-------------------------------------------------------------------------------
(***************************************************************************)
(* Properties                                                              *)
(***************************************************************************)

\* After the abort no sample begins: the node that goes away opens no session
\* over what it sees on its way out.
NoSampleAfterAbort ==
  [][\A w \in Threads :
       Run(w, Healer) => main \notin {"aborted", "dropping", "exited"}]_workersVars

\* A stop ends the process, whatever the threads were waiting for when it came:
\* unless a log is followed for ever, since the runtime waits for that thread.
StopEnds ==
  (\A c \in Follows : []<>(task[c] # "running"))
    => ((signal = "raised") ~> (main = "exited"))

\* The watcher keeps sampling, whatever calls the node serves and though some
\* of them never end, as long as these are fewer than the threads.
KeepsSampling == []<>(task[Healer] = "running" \/ main # "serving")
===============================================================================
