-------------------------------- MODULE ExecCall --------------------------------
(***************************************************************************)
(* One call of exec, GatedTerminal::exec of src/terminal.rs, with the      *)
(* processes it starts.                                                    *)
(*                                                                         *)
(* The call, the command, whatever the command forks, and the timer run    *)
(* against each other through pipes of bounded size.  A process that       *)
(* writes to a full pipe or reads an empty one is stuck there until the    *)
(* other side moves or a signal ends it.  What a command does is unknown:  *)
(* it reads, writes, forks, leaves its group, redirects its output, ends,  *)
(* or does none of these, in any order.                                    *)
(*                                                                         *)
(* Pipes and outputs are counted in units: one write of the command.  The  *)
(* pipes, processes and signals are the kernel's: external.                *)
(***************************************************************************)
EXTENDS Integers

CONSTANTS Child,       \* the process exec spawns
          Descendants, \* bound: those the command may fork
          PipeSize,    \* what a pipe holds
          Cap,         \* max_output_bytes
          StdinSizes,  \* the sizes of stdin a caller may give
          MaxOutput    \* bound: no write to a stream starts after that many

ASSUME ExecAssumption ==
  /\ Child \notin Descendants
  /\ PipeSize \in Nat \ {0}
  /\ Cap \in Nat
  /\ StdinSizes \subseteq Nat
  /\ MaxOutput \in Nat

Procs == {Child} \union Descendants
Streams == {"stdout", "stderr"}

VARIABLES pc,       \* where the call is
          result,   \* how it returned
          toSend,   \* the part of stdin not written yet
          inPipe,   \* what the stdin pipe holds
          inOpen,   \* whether the call still has its write end
          kept,     \* "out" of read_capped, per stream
          capped,   \* "capped" of read_capped
          eof,      \* whether read_capped has returned
          pipe,     \* what each output pipe holds
          doing,    \* what each process is at
          group,    \* the processes in the child's process group
          open,     \* the processes that have the output pipes
          written   \* history: what was written to each stream

call    == <<pc, result, toSend, inOpen>>
readers == <<kept, capped, eof>>
procs   == <<doing, group, open>>
vars    == <<call, inPipe, readers, pipe, procs, written>>

\* "stdout" and "stderr": in a write to that stream; "reads": in a read.
Doings == {"unborn", "free", "reads", "exited", "killed"} \union Streams

Alive(p) == doing[p] \notin {"unborn", "exited", "killed"}

TypeOK ==
  /\ pc \in {"called", "stdin", "collect", "grace", "done"}
  /\ result \in {"none", "error", "ended", "timed_out"}
  /\ toSend \in Nat
  /\ inPipe \in 0..PipeSize
  /\ inOpen \in BOOLEAN
  /\ kept \in [Streams -> 0..Cap]
  /\ capped \in [Streams -> BOOLEAN]
  /\ eof \in [Streams -> BOOLEAN]
  /\ pipe \in [Streams -> 0..PipeSize]
  /\ doing \in [Procs -> Doings]
  /\ group \subseteq Procs
  /\ open \subseteq Procs
  /\ written \in [Streams -> Nat]

Init ==
  /\ pc = "called"
  /\ result = "none"
  /\ toSend = 0
  /\ inPipe = 0
  /\ inOpen = FALSE
  /\ kept = [s \in Streams |-> 0]
  /\ capped = [s \in Streams |-> FALSE]
  /\ eof = [s \in Streams |-> FALSE]
  /\ pipe = [s \in Streams |-> 0]
  /\ doing = [p \in Procs |-> "unborn"]
  /\ group = {}
  /\ open = {}
  /\ written = [s \in Streams |-> 0]

Return(how) == pc' = "done" /\ result' = how

Smaller(a, b) == IF a < b THEN a ELSE b

-------------------------------------------------------------------------------
(***************************************************************************)
(* The call                                                                *)
(***************************************************************************)
\* One of "command" and "argv", not blank and not empty, and a directory the
\* gate lets through.
Accepted(command, argv, cwd) ==
  /\ argv # "empty"
  /\ (command = "line") # (argv = "some")
  /\ cwd # "refused"

Start ==
  /\ pc = "called"
  /\ \E command \in {"none", "blank", "line"}, argv \in {"none", "empty", "some"},
        cwd \in {"none", "allowed", "refused"}, spawned \in BOOLEAN :
       IF Accepted(command, argv, cwd) /\ spawned
       THEN /\ \/ pc' = "collect" /\ UNCHANGED <<toSend, inOpen>>
               \/ pc' = "stdin" /\ inOpen' = TRUE /\ toSend' \in StdinSizes
            /\ doing' = [doing EXCEPT ![Child] = "free"]
            /\ group' = {Child}
            /\ open' = {Child}
            /\ UNCHANGED result
       ELSE Return("error") /\ UNCHANGED <<toSend, inOpen, procs>>
  /\ UNCHANGED <<inPipe, readers, pipe, written>>

\* write_all, as the pipe takes it.  The timer does not run yet and nobody
\* reads the output.
SendStdin ==
  /\ pc = "stdin"
  /\ toSend > 0
  /\ inPipe < PipeSize
  /\ inPipe' = inPipe + 1
  /\ toSend' = toSend - 1
  /\ UNCHANGED <<pc, result, inOpen, readers, pipe, procs, written>>

\* It is all written, or nobody is left to read it: the error is ignored.
CloseStdin ==
  /\ pc = "stdin"
  /\ toSend = 0 \/ \A p \in Procs : ~Alive(p)
  /\ inOpen' = FALSE
  /\ pc' = "collect"
  /\ UNCHANGED <<result, toSend, inPipe, readers, pipe, procs, written>>

DrainStopsAtCap(s) ==
  /\ pc = "collect"
  /\ kept[s] < Cap
  /\ \E n \in 1..pipe[s] :
       LET room == Cap - kept[s]
       IN  /\ kept' = [kept EXCEPT ![s] = @ + Smaller(n, room)]
           /\ capped' = [capped EXCEPT ![s] = @ \/ n > room]
           /\ pipe' = [pipe EXCEPT ![s] = @ - n]
  /\ UNCHANGED <<call, inPipe, eof, procs, written>>

DrainFlagsFull(s) ==
  /\ pc = "collect"
  /\ \E n \in 1..pipe[s] :
       LET room == Cap - kept[s]
       IN  /\ kept' = [kept EXCEPT ![s] = @ + Smaller(n, room)]
           /\ capped' = [capped EXCEPT ![s] = @ \/ n >= room]
           /\ pipe' = [pipe EXCEPT ![s] = @ - n]
  /\ UNCHANGED <<call, inPipe, eof, procs, written>>

DrainOverfills(s) ==
  /\ pc = "collect"
  /\ \E n \in 1..pipe[s] :
       /\ kept' = [kept EXCEPT ![s] = IF @ < Cap THEN @ + n ELSE @]
       /\ capped' = [capped EXCEPT ![s] = @ \/ kept[s] >= Cap]
       /\ pipe' = [pipe EXCEPT ![s] = @ - n]
  /\ UNCHANGED <<call, inPipe, eof, procs, written>>

\* A read of read_capped: keep what there is room for, and go on reading.
Drain(s) ==
  /\ pc = "collect"
  /\ \E n \in 1..pipe[s] :
       LET room == Cap - kept[s]
       IN  /\ kept' = [kept EXCEPT ![s] = @ + Smaller(n, room)]
           /\ capped' = [capped EXCEPT ![s] = @ \/ n > room]
           /\ pipe' = [pipe EXCEPT ![s] = @ - n]
  /\ UNCHANGED <<call, inPipe, eof, procs, written>>

\* A stream ends when no process has it any more.
ReadEof(s) ==
  /\ pc = "collect"
  /\ pipe[s] = 0
  /\ \A p \in open : ~Alive(p)
  /\ ~eof[s]
  /\ eof' = [eof EXCEPT ![s] = TRUE]
  /\ UNCHANGED <<call, inPipe, kept, capped, pipe, procs, written>>

\* child.wait() after both streams have ended.
Collected ==
  /\ pc = "collect"
  /\ \A s \in Streams : eof[s]
  /\ ~Alive(Child)
  /\ Return("ended")
  /\ UNCHANGED <<toSend, inOpen, inPipe, readers, pipe, procs, written>>

TimeOutOfChild ==
  /\ pc = "collect"
  /\ Alive(Child)
  /\ pc' = "grace"
  /\ \E deaf \in SUBSET group :
       doing' = [p \in Procs |-> IF p \in group \ deaf /\ Alive(p)
                                 THEN "killed" ELSE doing[p]]
  /\ UNCHANGED <<result, toSend, inOpen, inPipe, readers, pipe, group, open, written>>

\* The timeout: SIGTERM to the group, which a process may ignore.  The
\* readers are dropped.
TimeOut ==
  /\ pc = "collect"
  /\ pc' = "grace"
  /\ \E deaf \in SUBSET group :
       doing' = [p \in Procs |-> IF p \in group \ deaf /\ Alive(p)
                                 THEN "killed" ELSE doing[p]]
  /\ UNCHANGED <<result, toSend, inOpen, inPipe, readers, pipe, group, open, written>>

KillChild ==
  /\ pc = "grace"
  /\ doing' = [p \in Procs |-> IF p = Child /\ Alive(p) THEN "killed" ELSE doing[p]]
  /\ Return("timed_out")
  /\ UNCHANGED <<toSend, inOpen, inPipe, readers, pipe, group, open, written>>

\* After KILL_GRACE, SIGKILL to the group.
Kill ==
  /\ pc = "grace"
  /\ doing' = [p \in Procs |-> IF p \in group /\ Alive(p) THEN "killed" ELSE doing[p]]
  /\ Return("timed_out")
  /\ UNCHANGED <<toSend, inOpen, inPipe, readers, pipe, group, open, written>>

-------------------------------------------------------------------------------
(***************************************************************************)
(* The command and what it forks                                           *)
(***************************************************************************)
\* Once the call has returned, its ends of the pipes are closed and what is
\* left of the command is nobody's business.
Running == pc # "done"

Do(p, what) == doing' = [doing EXCEPT ![p] = what]

StartWrite(p, s) ==
  /\ Running
  /\ doing[p] = "free" /\ p \in open
  /\ written[s] < MaxOutput
  /\ Do(p, s)
  /\ UNCHANGED <<call, inPipe, readers, pipe, group, open, written>>

EndWrite(p, s) ==
  /\ Running
  /\ doing[p] = s
  /\ pipe[s] < PipeSize
  /\ pipe' = [pipe EXCEPT ![s] = @ + 1]
  /\ written' = [written EXCEPT ![s] = @ + 1]
  /\ Do(p, "free")
  /\ UNCHANGED <<call, inPipe, readers, group, open>>

StartRead(p) ==
  /\ Running
  /\ doing[p] = "free"
  /\ Do(p, "reads")
  /\ UNCHANGED <<call, inPipe, readers, pipe, group, open, written>>

\* A read ends with data, or with the end of stdin.
EndRead(p) ==
  /\ Running
  /\ doing[p] = "reads"
  /\ \/ inPipe > 0 /\ inPipe' = inPipe - 1
     \/ inPipe = 0 /\ ~inOpen /\ UNCHANGED inPipe
  /\ Do(p, "free")
  /\ UNCHANGED <<call, readers, pipe, group, open, written>>

\* The new process has what its parent has.
Fork(p, q) ==
  /\ Running
  /\ doing[p] = "free" /\ doing[q] = "unborn"
  /\ Do(q, "free")
  /\ group' = IF p \in group THEN group \union {q} ELSE group
  /\ open' = IF p \in open THEN open \union {q} ELSE open
  /\ UNCHANGED <<call, inPipe, readers, pipe, written>>

\* setsid, which a group leader cannot do.
LeaveGroup(p) ==
  /\ Running
  /\ doing[p] = "free" /\ p \in group \ {Child}
  /\ group' = group \ {p}
  /\ UNCHANGED <<call, inPipe, readers, pipe, doing, open, written>>

Redirect(p) ==
  /\ Running
  /\ doing[p] = "free" /\ p \in open
  /\ open' = open \ {p}
  /\ UNCHANGED <<call, inPipe, readers, pipe, doing, group, written>>

Exit(p) ==
  /\ Running
  /\ doing[p] = "free"
  /\ Do(p, "exited")
  /\ UNCHANGED <<call, inPipe, readers, pipe, group, open, written>>

-------------------------------------------------------------------------------
CallStep ==
  \/ Start \/ SendStdin \/ CloseStdin
  \/ \E s \in Streams : Drain(s) \/ ReadEof(s)
  \/ Collected \/ Kill

ProcStep(p) ==
  \/ \E s \in Streams : StartWrite(p, s) \/ EndWrite(p, s)
  \/ StartRead(p) \/ EndRead(p)
  \/ \E q \in Descendants : Fork(p, q)
  \/ LeaveGroup(p) \/ Redirect(p) \/ Exit(p)

Next == CallStep \/ TimeOut \/ \E p \in Procs : ProcStep(p)

\* The runtime polls what is ready.
CallFairness ==
  /\ WF_vars(Start) /\ WF_vars(SendStdin) /\ WF_vars(CloseStdin)
  /\ \A s \in Streams : WF_vars(Drain(s)) /\ WF_vars(ReadEof(s))
  /\ WF_vars(Collected) /\ WF_vars(Kill)

Spec == Init /\ [][Next]_vars /\ CallFairness

\* What a call may count on: the timer runs out, or else the command goes on
\* when it can and does not run for ever.
TimerRuns == WF_vars(TimeOut)

CommandEnds ==
  \A p \in Procs :
    /\ \A s \in Streams : WF_vars(EndWrite(p, s))
    /\ WF_vars(EndRead(p))
    /\ SF_vars(Exit(p))

-------------------------------------------------------------------------------
(***************************************************************************)
(* Properties                                                              *)
(***************************************************************************)

\* A call that returns output returns all that any process wrote up to the
\* cap, and says "truncated" exactly when there was more, however the reads
\* and writes interleave.
OutputIsWhole ==
  result = "ended" =>
    \A s \in Streams : /\ kept[s] = Smaller(written[s], Cap)
                       /\ capped[s] <=> written[s] > Cap

\* A call that timed out leaves no process of the command's group running:
\* not one that ignored SIGTERM, nor one forked during the grace.
TimeoutKillsGroup ==
  result = "timed_out" => \A p \in group : ~Alive(p)

\* A call whose stdin was taken by the pipe returns whatever the command does:
\* the timer ends it, through the group it signals.
CapHolds == TimerRuns => (pc = "collect" ~> pc = "done")

\* It does not need the timer for a command that ends: stdin is closed and the
\* output drained past the cap, so that neither side waits for the other.
EndingCommandReturns == CommandEnds => <>(pc = "done")

\* What the configuration says of the timeout: a hard cap on how long any call
\* runs.
HardCap == TimerRuns => <>(pc = "done")
===============================================================================
