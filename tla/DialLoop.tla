------------------------------- MODULE DialLoop -------------------------------
(***************************************************************************)
(* The dial/reconnect loop of one node: Runner::try_run, dial_loop and     *)
(* wait_then_widen of src/runtime/runner.rs.                               *)
(*                                                                         *)
(* The loop asks its credential source for a bearer before every dial,     *)
(* dials once, serves the connection until it closes, waits, and goes      *)
(* round.  A refusal is answered once by forgetting the credential; a stop *)
(* signal races the whole loop.                                            *)
(*                                                                         *)
(* The credential source is the Credentials trait: every answer a          *)
(* bearer() or a forget_refused() may give is an input here, and           *)
(* DeviceGrant.tla says which ones the self-enrolling source gives.  Time  *)
(* is abstracted to what the loop asks of it: whether a connection lasted  *)
(* stable_after, and that a sleep ends.                                    *)
(***************************************************************************)
EXTENDS Integers

CONSTANTS BackoffMin, BackoffMax, \* RunConfig::backoff_min, backoff_max
          RungCap                 \* bound of the history variable "rungs"

ASSUME BackoffAssumption == /\ BackoffMin \in Nat \ {0}
                            /\ BackoffMax \in Nat
                            /\ BackoffMin <= BackoffMax

\* BackoffMin after that many doublings.
Doubled[n \in 0..RungCap] == IF n = 0 THEN BackoffMin ELSE 2 * Doubled[n - 1]

\* Rungs are counted at least until the doubled wait has reached its cap: a
\* rung more would not change it.
ASSUME RungAssumption == RungCap \in Nat /\ Doubled[RungCap] >= BackoffMax

VARIABLES pc,       \* where the task is: in the loop, closing, or exited
          backoff,  \* the local "backoff"
          spent,    \* the local "reenrolled_after_refusal"
          conn,     \* the connection as the deployment sees it
          live,     \* whether the "live" slot holds the connection
          aged,     \* whether up.elapsed() >= stable_after
          signal,   \* a stop signal has been delivered
          exit,     \* the exit status, Running until there is one
          forgets,  \* history: credentials forgotten since the last connection
          rungs     \* history: waits since the last healthy connection

vars == <<pc, backoff, spent, conn, live, aged, signal, exit, forgets, rungs>>

Running == -1

\* The connection of the current attempt: none accepted yet, open, closed by
\* the other side, retired by a closing frame, or dropped: given up on this
\* side with no frame sent.
ConnStates == {"none", "open", "closed", "retired", "dropped"}

LoopStates == {"bearer", "dial", "up", "forget", "wait"}

TypeOK ==
  /\ pc \in LoopStates \union {"closing", "exited"}
  /\ backoff \in BackoffMin..BackoffMax
  /\ spent \in BOOLEAN
  /\ conn \in ConnStates
  /\ live \in BOOLEAN
  /\ aged \in BOOLEAN
  /\ signal \in BOOLEAN
  /\ exit \in {Running, 0, 1, 2}
  /\ forgets \in Nat
  /\ rungs \in 0..RungCap

Init ==
  /\ pc = "bearer"
  /\ backoff = BackoffMin
  /\ spent = FALSE
  /\ conn = "none"
  /\ live = FALSE
  /\ aged = FALSE
  /\ signal = FALSE
  /\ exit = Running
  /\ forgets = 0
  /\ rungs = 0

-------------------------------------------------------------------------------
(***************************************************************************)
(* Errors and what they mean to the loop.                                  *)
(***************************************************************************)
CredentialsErrors == {"needs_operator", "fatal", "unavailable"}
ConnectErrors == {"unauthorized", "revoked", "version_mismatch",
                  "no_tls_provider", "unreachable"}

\* Refusal::of
Refusal(error) ==
  CASE error \in {"unauthorized", "revoked"} -> "reenroll"
    [] error \in {"version_mismatch", "no_tls_provider"} -> "fatal"
    [] error = "unreachable" -> "backoff"

\* RunError::exit_code of a credentials error
CredentialsExit(error) == IF error = "needs_operator" THEN 2 ELSE 1

Stop(code) == pc' = "exited" /\ exit' = code

Smaller(a, b) == IF a < b THEN a ELSE b

\* What giving up the attempt leaves at the deployment.
GivenUp == IF conn = "open" THEN "dropped" ELSE conn

-------------------------------------------------------------------------------
(***************************************************************************)
(* The loop.                                                               *)
(***************************************************************************)
BearerReady ==
  /\ pc = "bearer"
  /\ pc' = "dial"
  /\ conn' = "none"
  /\ UNCHANGED <<backoff, spent, live, aged, signal, exit, forgets, rungs>>

\* An unavailable source backs off like a network failure; any other error
\* ends the process.
BearerFails(error) ==
  /\ pc = "bearer"
  /\ IF error = "unavailable"
     THEN pc' = "wait" /\ UNCHANGED exit
     ELSE Stop(CredentialsExit(error))
  /\ UNCHANGED <<backoff, spent, conn, live, aged, signal, forgets, rungs>>

HandOver(stillSpent) ==
  /\ pc = "dial"
  /\ conn \in {"open", "closed"}
  /\ pc' = "up"
  /\ spent' = stillSpent
  /\ live' = TRUE
  /\ aged' = FALSE
  /\ forgets' = 0
  /\ UNCHANGED <<backoff, conn, signal, exit, rungs>>

DialConnectsKeepsSpent == HandOver(spent)

\* A successful dial hands the connection over and parks it in "live" with no
\* await in between.  The other side may have closed it already.
DialConnects == HandOver(FALSE)

FailedDial(error, answer) ==
  /\ pc = "dial"
  /\ error = "unreachable" \/ conn = "none"
  /\ conn' = GivenUp
  /\ \/ answer = "forget" /\ pc' = "forget" /\ spent' = TRUE /\ UNCHANGED exit
     \/ answer = "wait" /\ pc' = "wait" /\ UNCHANGED <<spent, exit>>
     \/ answer = "exit" /\ Stop(1) /\ UNCHANGED spent
  /\ UNCHANGED <<backoff, live, aged, signal, forgets, rungs>>

DialFailsForgetsAgain(error) ==
  FailedDial(error, CASE Refusal(error) = "reenroll" -> "forget"
                      [] Refusal(error) = "backoff" -> "wait"
                      [] OTHER -> "exit")

DialFailsRetriesRefused(error) ==
  FailedDial(error, CASE Refusal(error) = "reenroll" /\ ~spent -> "forget"
                      [] Refusal(error) = "fatal" -> "exit"
                      [] OTHER -> "wait")

\* A refusal is answered by forgetting the credential once; the second one in
\* a row, or one no credential can change, ends the process.  Only an attempt
\* the deployment never accepted is refused; a transport failure can hit
\* either side of the handshake.
DialFails(error) ==
  FailedDial(error, CASE Refusal(error) = "reenroll" /\ ~spent -> "forget"
                      [] Refusal(error) = "backoff" -> "wait"
                      [] OTHER -> "exit")

\* forget_refused answered.  Forgotten: dial again with no wait.
Forgotten ==
  /\ pc = "forget"
  /\ pc' = "bearer"
  /\ forgets' = forgets + 1
  /\ UNCHANGED <<backoff, spent, conn, live, aged, signal, exit, rungs>>

\* The source has nothing to forget (a mounted credential).
NothingToForget ==
  /\ pc = "forget"
  /\ Stop(1)
  /\ UNCHANGED <<backoff, spent, conn, live, aged, signal, forgets, rungs>>

\* Nothing was forgotten, so the one attempt is given back and the loop
\* waits; any other error ends the process.
ForgetFails(error) ==
  /\ pc = "forget"
  /\ IF error = "unavailable"
     THEN pc' = "wait" /\ spent' = FALSE /\ UNCHANGED exit
     ELSE Stop(CredentialsExit(error)) /\ UNCHANGED spent
  /\ UNCHANGED <<backoff, conn, live, aged, signal, forgets, rungs>>

TakeBack(nextBackoff) ==
  /\ pc = "up"
  /\ conn = "closed"
  /\ pc' = "wait"
  /\ live' = FALSE
  /\ backoff' = nextBackoff
  /\ rungs' = IF aged THEN 0 ELSE rungs
  /\ UNCHANGED <<spent, conn, aged, signal, exit, forgets>>

NoticeClosedAlwaysResets == TakeBack(BackoffMin)

\* conn.closed() resolves: take the connection back, and start the backoff
\* over if it lasted.
NoticeClosed == TakeBack(IF aged THEN BackoffMin ELSE backoff)

Widen(nextBackoff) ==
  /\ pc = "wait"
  /\ pc' = "bearer"
  /\ backoff' = nextBackoff
  /\ rungs' = Smaller(rungs + 1, RungCap)
  /\ UNCHANGED <<spent, conn, live, aged, signal, exit, forgets>>

WakeUncapped == Widen(2 * backoff)

\* The sleep of wait_then_widen ends.
Wake == Widen(Smaller(2 * backoff, BackoffMax))

-------------------------------------------------------------------------------
(***************************************************************************)
(* The stop signal: the other branch of the select in try_run.             *)
(***************************************************************************)
TakeStopLeavesLive ==
  /\ signal
  /\ pc \in LoopStates
  /\ Stop(0)
  /\ conn' = GivenUp
  /\ UNCHANGED <<backoff, spent, live, aged, signal, forgets, rungs>>

TakeStopOnlyWhileUp ==
  /\ signal
  /\ pc = "up"
  /\ pc' = "closing"
  /\ live' = FALSE
  /\ conn' = IF conn = "open" THEN "retired" ELSE conn
  /\ UNCHANGED <<backoff, spent, aged, signal, exit, forgets, rungs>>

\* The loop is dropped wherever it waits.  A parked connection gets a closing
\* frame and CLOSE_GRACE; a handshake in flight is just given up.
TakeStop ==
  /\ signal
  /\ pc \in LoopStates
  /\ live' = FALSE
  /\ IF live
     THEN /\ pc' = "closing"
          /\ conn' = IF conn = "open" THEN "retired" ELSE conn
          /\ UNCHANGED exit
     ELSE Stop(0) /\ conn' = GivenUp
  /\ UNCHANGED <<backoff, spent, aged, signal, forgets, rungs>>

\* The grace period is over.
CloseGrace ==
  /\ pc = "closing"
  /\ Stop(0)
  /\ UNCHANGED <<backoff, spent, conn, live, aged, signal, forgets, rungs>>

-------------------------------------------------------------------------------
(***************************************************************************)
(* The world: the deployment, the clock and the supervisor.                *)
(***************************************************************************)
\* The deployment takes the attempt up before this side knows.
ServerAccepts ==
  /\ pc = "dial"
  /\ conn = "none"
  /\ conn' = "open"
  /\ UNCHANGED <<pc, backoff, spent, live, aged, signal, exit, forgets, rungs>>

PeerCloses ==
  /\ conn = "open"
  /\ conn' = "closed"
  /\ UNCHANGED <<pc, backoff, spent, live, aged, signal, exit, forgets, rungs>>

\* stable_after passes: also between the close and the loop noticing it,
\* since up.elapsed() is read afterwards.
Age ==
  /\ pc = "up"
  /\ ~aged
  /\ aged' = TRUE
  /\ UNCHANGED <<pc, backoff, spent, conn, live, signal, exit, forgets, rungs>>

Signal ==
  /\ pc # "exited"
  /\ ~signal
  /\ signal' = TRUE
  /\ UNCHANGED <<pc, backoff, spent, conn, live, aged, exit, forgets, rungs>>

-------------------------------------------------------------------------------
Loop ==
  \/ BearerReady
  \/ \E e \in CredentialsErrors : BearerFails(e)
  \/ DialConnects
  \/ \E e \in ConnectErrors : DialFails(e)
  \/ Forgotten
  \/ NothingToForget
  \/ \E e \in CredentialsErrors : ForgetFails(e)
  \/ NoticeClosed
  \/ Wake

World == ServerAccepts \/ PeerCloses \/ Age \/ Signal

Next == Loop \/ TakeStop \/ CloseGrace \/ World

\* The runtime polls a future that is ready: a signal, a close and the end of
\* a sleep are acted on.  Answers of the source and the deployment may never
\* come.
Fairness ==
  /\ WF_vars(TakeStop)
  /\ WF_vars(CloseGrace)
  /\ WF_vars(NoticeClosed)
  /\ WF_vars(Wake)

Spec == Init /\ [][Next]_vars /\ Fairness

-------------------------------------------------------------------------------
(***************************************************************************)
(* Properties.                                                             *)
(***************************************************************************)

\* At most one credential is thrown away between two connections, however
\* refusals, transport failures, source outages and waits interleave: a
\* server that refuses even a freshly approved credential cannot make the
\* node enroll in a loop (reenrolled_after_refusal).
OneForgetPerConnection == forgets <= 1

\* A refusal ends the process only when a credential has been forgotten over
\* it: a forget that an earlier connection made good, or one the source could
\* not do, does not count as the one attempt.
RefusalIsAnsweredFirst ==
  [][\A e \in {"unauthorized", "revoked"} :
       DialFails(e) /\ exit' = 1 => forgets = 1]_vars

\* A node whose dials are refused for ever connects, or fails to forget, for
\* ever in between: otherwise it has exited rather than dial on with a
\* credential that does not work.
RefusalsEnd ==
  []<><<\E e \in {"unauthorized", "revoked"} : DialFails(e)>>_vars
    => []<><<DialConnects \/ ForgetFails("unavailable")>>_vars

\* A connection the loop was handed is never given up without a closing
\* frame: while it is up it ends by the other side or by retirement only.
HandedConnectionRetired == [][pc = "up" => conn' # "dropped"]_vars

\* The wait is BackoffMin doubled once per wait since the last connection
\* that lasted stable_after, capped: a connection that flaps does not buy the
\* node a short wait.  (From RungCap waits on it is the cap.)
BackoffLaw == backoff = Smaller(Doubled[rungs], BackoffMax)

\* A stop signal ends the process wherever the loop is: also while it backs
\* off, dials or waits for an approval.
StopEnds == signal ~> pc = "exited"
===============================================================================
