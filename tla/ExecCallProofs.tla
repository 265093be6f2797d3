---------------------------- MODULE ExecCallProofs ----------------------------
(***************************************************************************)
(* Theorems of ExecCall, for every command, pipe size, cap and number of   *)
(* forked processes.                                                       *)
(***************************************************************************)
EXTENDS ExecCall, TLAPS

\* What was read of a stream so far.
Read(s) == written[s] - pipe[s]

\* read_capped keeps the first Cap units it reads and flags the rest.
KeepsPrefix ==
  \A s \in Streams :
    /\ pipe[s] <= written[s]
    /\ kept[s] = Smaller(Read(s), Cap)
    /\ capped[s] <=> Read(s) > Cap

\* Nothing runs before the call has started it, a process not born yet has no
\* pipe, and only one that has a pipe is in a write to it.
WritersHavePipe ==
  /\ pc = "called" => \A p \in Procs : doing[p] = "unborn"
  /\ \A p \in Procs : /\ doing[p] \in Streams => p \in open
                      /\ doing[p] = "unborn" => p \notin open

\* A stream that has ended stays ended.
EofIsFinal ==
  \A s \in Streams : eof[s] => /\ pc \notin {"called", "stdin"}
                               /\ pipe[s] = 0
                               /\ \A p \in open : ~Alive(p)

\* What the way it returned says of a call.
ResultIsTrue ==
  /\ result # "none" => pc = "done"
  /\ result = "ended" => \A s \in Streams : eof[s]
  /\ result = "timed_out" => \A p \in group : ~Alive(p)

IInv == TypeOK /\ KeepsPrefix /\ WritersHavePipe /\ EofIsFinal /\ ResultIsTrue

LEMMA InitIInv == Init => IInv
<1> SUFFICES ASSUME Init
             PROVE  IInv
  OBVIOUS
<1>1. TypeOK
  <2>1. /\ toSend \in Nat /\ inPipe \in 0..PipeSize
        /\ kept \in [Streams -> 0..Cap] /\ pipe \in [Streams -> 0..PipeSize]
        /\ written \in [Streams -> Nat]
    BY ExecAssumption DEF Init
  <2> QED
    BY <2>1 DEF Init, TypeOK, Doings
<1>2. KeepsPrefix
  BY ExecAssumption DEF Init, KeepsPrefix, Read, Smaller
<1>3. WritersHavePipe /\ EofIsFinal /\ ResultIsTrue
  BY DEF Init, WritersHavePipe, EofIsFinal, ResultIsTrue, Streams
<1> QED
  BY <1>1, <1>2, <1>3 DEF IInv

-------------------------------------------------------------------------------
(***************************************************************************)
(* The steps of the call                                                   *)
(***************************************************************************)
LEMMA StartKeeps == IInv /\ Start => IInv'
<1> SUFFICES ASSUME IInv, Start
             PROVE  IInv'
  OBVIOUS
<1> USE ExecAssumption DEF IInv
<1>1. /\ UNCHANGED <<inPipe, readers, pipe, written>>
      /\ pc = "called"
      /\ \/ /\ pc' \in {"collect", "stdin"}
            /\ toSend' \in Nat /\ inOpen' \in BOOLEAN
            /\ doing' = [doing EXCEPT ![Child] = "free"]
            /\ group' = {Child} /\ open' = {Child}
            /\ UNCHANGED result
         \/ /\ pc' = "done" /\ result' = "error"
            /\ UNCHANGED <<toSend, inOpen, procs>>
  BY DEF Start, Return, TypeOK
<1>2. TypeOK'
  BY <1>1 DEF TypeOK, readers, procs, Doings, Procs
<1>3. KeepsPrefix'
  BY <1>1 DEF KeepsPrefix, Read, readers
<1>4. WritersHavePipe'
  BY <1>1 DEF WritersHavePipe, TypeOK, procs, Streams
<1>5. EofIsFinal'
  BY <1>1 DEF EofIsFinal, readers
<1>6. ResultIsTrue'
  BY <1>1 DEF ResultIsTrue
<1> QED
  BY <1>2, <1>3, <1>4, <1>5, <1>6

LEMMA StdinKeeps == IInv /\ (SendStdin \/ CloseStdin) => IInv'
<1> SUFFICES ASSUME IInv, SendStdin \/ CloseStdin
             PROVE  IInv'
  OBVIOUS
<1> USE ExecAssumption DEF IInv
<1>1. /\ UNCHANGED <<result, readers, pipe, procs, written>>
      /\ pc = "stdin" /\ pc' \in {"stdin", "collect"}
      /\ toSend' \in Nat /\ inPipe' \in 0..PipeSize /\ inOpen' \in BOOLEAN
  <2>1. CASE SendStdin
    BY <2>1 DEF SendStdin, TypeOK
  <2>2. CASE CloseStdin
    BY <2>2, Zenon DEF CloseStdin, TypeOK
  <2> QED
    BY <2>1, <2>2
<1>2. TypeOK'
  BY <1>1 DEF TypeOK, readers, procs
<1>3. KeepsPrefix' /\ WritersHavePipe' /\ EofIsFinal' /\ ResultIsTrue'
  BY <1>1 DEF KeepsPrefix, Read, readers, WritersHavePipe, procs, EofIsFinal,
     ResultIsTrue, Alive
<1> QED
  BY <1>2, <1>3

\* One read: however much it takes, what is kept is still the prefix.
LEMMA DrainKeeps == ASSUME NEW s \in Streams PROVE IInv /\ Drain(s) => IInv'
<1> SUFFICES ASSUME IInv, Drain(s)
             PROVE  IInv'
  OBVIOUS
<1> USE ExecAssumption DEF IInv
<1>1. PICK n \in 1..pipe[s] :
        /\ kept' = [kept EXCEPT ![s] = @ + Smaller(n, Cap - kept[s])]
        /\ capped' = [capped EXCEPT ![s] = @ \/ n > Cap - kept[s]]
        /\ pipe' = [pipe EXCEPT ![s] = @ - n]
  BY DEF Drain
<1>2. UNCHANGED <<call, inPipe, eof, procs, written>> /\ pc = "collect"
  BY DEF Drain
<1>3. /\ n \in Nat \ {0} /\ n <= pipe[s]
      /\ kept[s] \in 0..Cap /\ pipe[s] \in 0..PipeSize /\ written[s] \in Nat
      /\ capped[s] \in BOOLEAN
  BY <1>1 DEF TypeOK
<1>4. TypeOK'
  <2>1. kept[s] + Smaller(n, Cap - kept[s]) \in 0..Cap /\ pipe[s] - n \in 0..PipeSize
    BY <1>3 DEF Smaller
  <2>2. kept' \in [Streams -> 0..Cap] /\ pipe' \in [Streams -> 0..PipeSize]
    BY <1>1, <2>1 DEF TypeOK
  <2>3. capped' \in [Streams -> BOOLEAN]
    BY <1>1 DEF TypeOK
  <2> QED
    BY <1>2, <2>2, <2>3 DEF TypeOK, call, procs
<1>5. KeepsPrefix'
  <2> SUFFICES ASSUME NEW t \in Streams
               PROVE  /\ pipe'[t] <= written'[t]
                      /\ kept'[t] = Smaller(written'[t] - pipe'[t], Cap)
                      /\ capped'[t] <=> written'[t] - pipe'[t] > Cap
    BY DEF KeepsPrefix, Read
  <2>1. CASE t # s
    BY <1>1, <1>2, <2>1 DEF KeepsPrefix, Read, TypeOK
  <2>2. CASE t = s
    <3>1. /\ pipe[s] <= written[s]
          /\ kept[s] = Smaller(written[s] - pipe[s], Cap)
          /\ capped[s] <=> written[s] - pipe[s] > Cap
      BY DEF KeepsPrefix, Read
    <3>2. /\ written'[s] = written[s]
          /\ pipe'[s] = pipe[s] - n
          /\ kept'[s] = kept[s] + Smaller(n, Cap - kept[s])
          /\ capped'[s] <=> capped[s] \/ n > Cap - kept[s]
      BY <1>1, <1>2 DEF TypeOK
    <3>3. pipe'[s] <= written'[s] /\ kept'[s] = Smaller(written'[s] - pipe'[s], Cap)
      BY <1>3, <3>1, <3>2 DEF Smaller
    <3>4. capped'[s] <=> written'[s] - pipe'[s] > Cap
      <4>1. (written[s] - pipe[s] > Cap \/ n > Cap - kept[s])
              <=> written[s] - (pipe[s] - n) > Cap
        BY <1>3, <3>1 DEF Smaller
      <4> QED
        BY <3>1, <3>2, <4>1
    <3> QED
      BY <2>2, <3>3, <3>4
  <2> QED
    BY <2>1, <2>2
<1>6. EofIsFinal'
  BY <1>1, <1>2, <1>3 DEF EofIsFinal, TypeOK, call, procs, Alive
<1>7. WritersHavePipe' /\ ResultIsTrue'
  BY <1>2 DEF WritersHavePipe, ResultIsTrue, call, procs, Alive
<1> QED
  BY <1>4, <1>5, <1>6, <1>7

LEMMA ReadEofKeeps == ASSUME NEW s \in Streams PROVE IInv /\ ReadEof(s) => IInv'
<1> SUFFICES ASSUME IInv, ReadEof(s)
             PROVE  IInv'
  OBVIOUS
<1> USE DEF IInv, ReadEof, call, procs
<1>1. TypeOK'
  BY DEF TypeOK
<1>2. EofIsFinal'
  BY DEF EofIsFinal, TypeOK, Alive
<1>3. KeepsPrefix' /\ WritersHavePipe' /\ ResultIsTrue'
  BY DEF KeepsPrefix, Read, WritersHavePipe, ResultIsTrue, Alive, TypeOK
<1> QED
  BY <1>1, <1>2, <1>3

LEMMA CollectedKeeps == IInv /\ Collected => IInv'
<1> SUFFICES ASSUME IInv, Collected
             PROVE  IInv'
  OBVIOUS
<1> USE DEF IInv, Collected, Return, readers, procs
<1>1. TypeOK'
  BY DEF TypeOK
<1>2. KeepsPrefix' /\ WritersHavePipe' /\ EofIsFinal' /\ ResultIsTrue'
  BY DEF KeepsPrefix, Read, WritersHavePipe, EofIsFinal, ResultIsTrue, Alive
<1> QED
  BY <1>1, <1>2

\* Signals end processes and nothing else.
LEMMA SignalKeeps == IInv /\ (TimeOut \/ Kill) => IInv'
<1> SUFFICES ASSUME IInv, TimeOut \/ Kill
             PROVE  IInv'
  OBVIOUS
<1> USE DEF IInv
<1>1. /\ UNCHANGED <<toSend, inOpen, inPipe, readers, pipe, group, open, written>>
      /\ pc \in {"collect", "grace"} /\ pc' \in {"grace", "done"}
      /\ \A p \in Procs : doing'[p] = doing[p] \/ doing'[p] = "killed"
      /\ doing' \in [Procs -> Doings]
  BY DEF TimeOut, Kill, Return, TypeOK, Doings
<1>2. TypeOK'
  BY <1>1 DEF TypeOK, TimeOut, Kill, Return, readers
<1>3. KeepsPrefix'
  BY <1>1 DEF KeepsPrefix, Read, readers
<1>4. WritersHavePipe'
  BY <1>1 DEF WritersHavePipe, Streams
<1>5. EofIsFinal'
  BY <1>1 DEF EofIsFinal, Alive, TypeOK, readers
<1>6. ResultIsTrue'
  <2>1. CASE TimeOut
    BY <2>1 DEF TimeOut, ResultIsTrue
  <2>2. CASE Kill
    <3>1. \A p \in group : doing'[p] \in {"unborn", "exited", "killed"}
      BY <2>2 DEF Kill, TypeOK, Alive
    <3> QED
      BY <2>2, <3>1 DEF Kill, Return, ResultIsTrue, Alive
  <2> QED
    BY <2>1, <2>2
<1> QED
  BY <1>2, <1>3, <1>4, <1>5, <1>6

-------------------------------------------------------------------------------
(***************************************************************************)
(* The steps of a process                                                  *)
(***************************************************************************)
\* A write needs a process that has the pipe, so no stream has ended.
LEMMA EndWriteKeeps ==
  ASSUME NEW p \in Procs, NEW s \in Streams
  PROVE  IInv /\ EndWrite(p, s) => IInv'
<1> SUFFICES ASSUME IInv, EndWrite(p, s)
             PROVE  IInv'
  OBVIOUS
<1> USE ExecAssumption DEF IInv
<1>1. /\ UNCHANGED <<call, inPipe, readers, group, open>>
      /\ pc # "done" /\ doing[p] = s /\ pipe[s] < PipeSize
      /\ pipe' = [pipe EXCEPT ![s] = @ + 1]
      /\ written' = [written EXCEPT ![s] = @ + 1]
      /\ doing' = [doing EXCEPT ![p] = "free"]
  BY DEF EndWrite, Do, Running
<1>2. Alive(p) /\ p \in open
  BY <1>1 DEF Alive, Streams, WritersHavePipe
<1>3. TypeOK'
  BY <1>1 DEF TypeOK, call, readers, Doings
<1>4. KeepsPrefix'
  BY <1>1 DEF KeepsPrefix, Read, readers, TypeOK
<1>5. WritersHavePipe'
  BY <1>1 DEF WritersHavePipe, call, TypeOK, Streams
<1>6. EofIsFinal'
  BY <1>1, <1>2 DEF EofIsFinal, readers
<1>7. ResultIsTrue'
  BY <1>1 DEF ResultIsTrue, call, TypeOK
<1> QED
  BY <1>3, <1>4, <1>5, <1>6, <1>7

\* Every other step changes what the process is at, or what it has.
LEMMA OtherStepKeeps ==
  ASSUME NEW p \in Procs,
         \/ \E s \in Streams : StartWrite(p, s)
         \/ StartRead(p) \/ EndRead(p) \/ LeaveGroup(p) \/ Redirect(p) \/ Exit(p)
  PROVE  IInv => IInv'
<1> SUFFICES ASSUME IInv
             PROVE  IInv'
  OBVIOUS
<1> USE DEF IInv
<1>1. /\ UNCHANGED <<call, readers, pipe, written>>
      /\ pc # "done" /\ Alive(p)
      /\ inPipe' \in 0..PipeSize
  BY ExecAssumption DEF StartWrite, StartRead, EndRead, LeaveGroup, Redirect, Exit,
     Running, Alive, TypeOK
<1>2. /\ group' \subseteq group
      /\ open' \subseteq open
      /\ \E d \in Doings : doing' = [doing EXCEPT ![p] = d]
      /\ doing'[p] \in Streams => p \in open'
      /\ doing'[p] # "unborn"
      /\ \A q \in Procs \ {p} : q \in open => q \in open'
  BY DEF StartWrite, StartRead, EndRead, LeaveGroup, Redirect, Exit, Do, TypeOK,
     Doings, Streams
<1>3. TypeOK'
  BY <1>1, <1>2 DEF TypeOK, call, readers
<1>4. KeepsPrefix'
  BY <1>1 DEF KeepsPrefix, Read, readers
<1>5. WritersHavePipe'
  BY <1>1, <1>2 DEF WritersHavePipe, call, TypeOK, Alive
<1>6. EofIsFinal'
  <2> SUFFICES ASSUME NEW s \in Streams, eof[s]
               PROVE  \A q \in open' : ~Alive(q)'
    BY <1>1 DEF EofIsFinal, call, readers
  <2>1. p \notin open
    BY <1>1 DEF EofIsFinal
  <2> QED
    BY <1>2, <2>1 DEF EofIsFinal, Alive, TypeOK
<1>7. ResultIsTrue'
  BY <1>1 DEF ResultIsTrue, call, TypeOK
<1> QED
  BY <1>3, <1>4, <1>5, <1>6, <1>7

LEMMA ForkKeeps ==
  ASSUME NEW p \in Procs, NEW q \in Descendants
  PROVE  IInv /\ Fork(p, q) => IInv'
<1> SUFFICES ASSUME IInv, Fork(p, q)
             PROVE  IInv'
  OBVIOUS
<1> USE DEF IInv
<1>1. /\ UNCHANGED <<call, inPipe, readers, pipe, written>>
      /\ pc # "done" /\ Alive(p) /\ q \in Procs
      /\ doing' = [doing EXCEPT ![q] = "free"]
      /\ group' \subseteq group \union {q}
      /\ open' = IF p \in open THEN open \union {q} ELSE open
      /\ doing[q] = "unborn"
  BY DEF Fork, Do, Running, Alive, Procs
<1>2. TypeOK'
  BY <1>1 DEF TypeOK, call, readers, Doings
<1>3. KeepsPrefix'
  BY <1>1 DEF KeepsPrefix, Read, readers
<1>4. WritersHavePipe'
  BY <1>1 DEF WritersHavePipe, call, TypeOK, Streams, Alive
<1>5. EofIsFinal'
  <2> SUFFICES ASSUME NEW s \in Streams, eof[s]
               PROVE  \A r \in open' : ~Alive(r)'
    BY <1>1 DEF EofIsFinal, call, readers
  <2>1. p \notin open
    BY <1>1 DEF EofIsFinal
  <2>2. open' = open
    BY <1>1, <2>1
  <2> QED
    BY <1>1, <2>2 DEF EofIsFinal, WritersHavePipe, Alive, TypeOK
<1>6. ResultIsTrue'
  BY <1>1 DEF ResultIsTrue, call, TypeOK
<1> QED
  BY <1>2, <1>3, <1>4, <1>5, <1>6

-------------------------------------------------------------------------------
\* The invariant the theorems rest on holds in every reachable state.
THEOREM Invariance == Spec => []IInv
<1>1. IInv /\ [Next]_vars => IInv'
  <2> SUFFICES ASSUME IInv, [Next]_vars
               PROVE  IInv'
    OBVIOUS
  <2>1. CASE CallStep
    BY <2>1, StartKeeps, StdinKeeps, DrainKeeps, ReadEofKeeps, CollectedKeeps,
       SignalKeeps DEF CallStep
  <2>2. CASE TimeOut
    BY <2>2, SignalKeeps
  <2>3. ASSUME NEW p \in Procs, ProcStep(p)
        PROVE  IInv'
    BY <2>3, EndWriteKeeps, OtherStepKeeps, ForkKeeps DEF ProcStep
  <2>4. CASE UNCHANGED vars
    BY <2>4 DEF IInv, TypeOK, KeepsPrefix, Read, WritersHavePipe, EofIsFinal,
       ResultIsTrue, Alive, vars, call, readers, procs
  <2> QED
    BY <2>1, <2>2, <2>3, <2>4 DEF Next
<1> QED
  BY InitIInv, <1>1, PTL DEF Spec

\* The variables keep their types; in particular no more than Cap units of a
\* stream are ever held in memory.
THEOREM TypeCorrect == Spec => []TypeOK
<1>1. IInv => TypeOK
  BY DEF IInv
<1> QED
  BY Invariance, <1>1, PTL

\* A call that ended returned the first Cap units of all that was written to
\* each stream, and flagged exactly the streams that had more.
THEOREM WholeOutput == Spec => []OutputIsWhole
<1>1. IInv => OutputIsWhole
  <2> SUFFICES ASSUME IInv, result = "ended", NEW s \in Streams
               PROVE  /\ kept[s] = Smaller(written[s], Cap)
                      /\ capped[s] <=> written[s] > Cap
    BY DEF OutputIsWhole
  <2>1. pipe[s] = 0 /\ written[s] \in Nat
    BY DEF IInv, ResultIsTrue, EofIsFinal, TypeOK
  <2>2. Read(s) = written[s]
    BY <2>1 DEF Read
  <2> QED
    BY <2>2 DEF IInv, KeepsPrefix
<1> QED
  BY Invariance, <1>1, PTL

\* A call that timed out leaves nothing of the command's group alive, however
\* many processes it forked and whatever they did about SIGTERM.
THEOREM GroupIsKilled == Spec => []TimeoutKillsGroup
<1>1. IInv => TimeoutKillsGroup
  BY DEF IInv, ResultIsTrue, TimeoutKillsGroup
<1> QED
  BY Invariance, <1>1, PTL
===============================================================================
