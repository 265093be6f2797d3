---------------------------- MODULE DialLoopProofs ----------------------------
(***************************************************************************)
(* Theorems of DialLoop, for every backoff range and every bound on the    *)
(* history of waits that is long enough to reach the cap.                  *)
(***************************************************************************)
EXTENDS DialLoop, SharedLemmas

-------------------------------------------------------------------------------
(***************************************************************************)
(* Doubling                                                                *)
(***************************************************************************)
LEMMA DoubledIs ==
  /\ Doubled[0] = BackoffMin
  /\ \A n \in 1..RungCap : Doubled[n] = 2 * Doubled[n - 1]
<1> DEFINE step == [n \in Nat |-> [wait \in Nat |-> 2 * wait]]
           Right(F) == F = [n \in 0..RungCap |->
                              IF n = 0 THEN BackoffMin ELSE 2 * F[n - 1]]
<1>1. RungCap \in Nat /\ BackoffMin \in Nat
  BY RungAssumption, BackoffAssumption
<1>2. PICK f \in [0..RungCap -> Nat] :
        f[0] = BackoffMin /\ \A n \in 1..RungCap : f[n] = step[n][f[n - 1]]
  <2>1. step \in [Nat -> [Nat -> Nat]]
    OBVIOUS
  <2>2. Iterates(Nat, BackoffMin, step, RungCap) # {}
    <3> HIDE DEF step
    <3> QED
      BY <1>1, <2>1, Iteration
  <2> QED
    BY <2>2 DEF Iterates
<1>3. Right(f)
  <2>1. ASSUME NEW n \in 0..RungCap
        PROVE  f[n] = IF n = 0 THEN BackoffMin ELSE 2 * f[n - 1]
    <3>1. CASE n = 0
      BY <1>2, <3>1
    <3>2. CASE n # 0
      <4>1. n \in 1..RungCap /\ n \in Nat /\ f[n - 1] \in Nat
        BY <1>1, <1>2, <3>2
      <4> QED
        BY <1>2, <3>2, <4>1
    <3> QED
      BY <3>1, <3>2
  <2> QED
    BY <1>2, <2>1
<1>4. Right(Doubled)
  <2>1. Doubled = CHOOSE F : Right(F)
    BY DEF Doubled
  <2> HIDE DEF Right
  <2> QED
    BY <1>3, <2>1
<1>5. ASSUME NEW n \in 0..RungCap
      PROVE  Doubled[n] = IF n = 0 THEN BackoffMin ELSE 2 * Doubled[n - 1]
  <2> DEFINE F == Doubled
             body == [k \in 0..RungCap |->
                        IF k = 0 THEN BackoffMin ELSE 2 * F[k - 1]]
  <2>1. F = body
    BY <1>4
  <2>2. body[n] = IF n = 0 THEN BackoffMin ELSE 2 * F[n - 1]
    <3> HIDE DEF F
    <3> QED
      OBVIOUS
  <2> HIDE DEF F, body
  <2>3. F[n] = IF n = 0 THEN BackoffMin ELSE 2 * F[n - 1]
    BY <2>1, <2>2
  <2> QED
    BY <2>3 DEF F
<1>6. Doubled[0] = BackoffMin
  BY <1>1, <1>5
<1>7. ASSUME NEW n \in 1..RungCap
      PROVE  Doubled[n] = 2 * Doubled[n - 1]
  <2>1. n \in 0..RungCap /\ n # 0
    BY <1>1
  <2> QED
    BY <1>5, <2>1
<1> QED
  BY <1>6, <1>7

\* Doubling never brings the wait below its first value.
LEMMA DoubledGrows ==
  \A n \in 0..RungCap : Doubled[n] \in Nat /\ Doubled[n] >= BackoffMin
<1> DEFINE S == {n \in Nat : n \in 0..RungCap =>
                              Doubled[n] \in Nat /\ Doubled[n] >= BackoffMin}
<1>1. RungCap \in Nat /\ BackoffMin \in Nat
  BY RungAssumption, BackoffAssumption
<1>2. 0 \in S
  BY <1>1, DoubledIs
<1>3. ASSUME NEW n \in Nat, n \in S PROVE n + 1 \in S
  <2>1. CASE n + 1 \in 0..RungCap
    <3>1. n + 1 \in 1..RungCap /\ n \in 0..RungCap /\ (n + 1) - 1 = n
      BY <1>1, <2>1
    <3>2. Doubled[n + 1] = 2 * Doubled[n]
      BY <3>1, DoubledIs
    <3> QED
      BY <1>1, <1>3, <3>1, <3>2
  <2> QED
    BY <2>1
<1>4. \A n \in Nat : n \in S
  <2> HIDE DEF S
  <2> QED
    BY <1>2, <1>3, SetInduction
<1> QED
  BY <1>1, <1>4

-------------------------------------------------------------------------------
(***************************************************************************)
(* The loop                                                                *)
(***************************************************************************)

\* What the parked connection and the one re-enrollment have to do with the
\* place the loop is at: the slot is full exactly while the connection is up,
\* a handed connection is open or closed by the other side, and in the loop
\* the attempt is spent exactly when a credential was forgotten.
SlotFollowsLoop ==
  /\ live <=> pc = "up"
  /\ pc = "up" => conn \in {"open", "closed"}

ForgetSpends ==
  /\ pc = "forget" => spent /\ forgets = 0
  /\ forgets # 0 => spent /\ forgets = 1
  /\ spent /\ pc \in LoopStates \ {"forget"} => forgets = 1

ExitEnds == pc # "exited" => exit = Running

IInv == TypeOK /\ SlotFollowsLoop /\ ForgetSpends /\ ExitEnds /\ BackoffLaw

LEMMA InitIInv == Init => IInv
<1> SUFFICES ASSUME Init
             PROVE  IInv
  OBVIOUS
<1>1. TypeOK
  <2>1. backoff \in BackoffMin..BackoffMax /\ rungs \in 0..RungCap /\ forgets \in Nat
    BY BackoffAssumption, RungAssumption DEF Init
  <2> QED
    BY <2>1, Zenon DEF Init, TypeOK, LoopStates, ConnStates
<1>2. SlotFollowsLoop /\ ForgetSpends /\ ExitEnds
  BY DEF Init, SlotFollowsLoop, ForgetSpends, ExitEnds
<1>3. BackoffLaw
  BY BackoffAssumption, DoubledIs DEF Init, BackoffLaw, Smaller
<1> QED
  BY <1>1, <1>2, <1>3 DEF IInv

\* Every action keeps the variables in their types, and the backoff within
\* its range.
LEMMA StepTypeOK == IInv /\ [Next]_vars => TypeOK'
<1> SUFFICES ASSUME IInv, [Next]_vars
             PROVE  TypeOK'
  OBVIOUS
<1> USE BackoffAssumption, RungAssumption
    DEF IInv, TypeOK, LoopStates, ConnStates, Running
<1>1. CASE BearerReady
  BY <1>1 DEF BearerReady
<1>2. ASSUME NEW e \in CredentialsErrors, BearerFails(e)
      PROVE  TypeOK'
  BY <1>2 DEF BearerFails, Stop, CredentialsExit
<1>3. CASE DialConnects
  BY <1>3 DEF DialConnects, HandOver
<1>4. ASSUME NEW e \in ConnectErrors, DialFails(e)
      PROVE  TypeOK'
  BY <1>4 DEF DialFails, FailedDial, Stop, GivenUp, Refusal, ConnectErrors
<1>5. CASE Forgotten
  BY <1>5 DEF Forgotten
<1>6. CASE NothingToForget
  BY <1>6 DEF NothingToForget, Stop
<1>7. ASSUME NEW e \in CredentialsErrors, ForgetFails(e)
      PROVE  TypeOK'
  BY <1>7 DEF ForgetFails, Stop, CredentialsExit
<1>8. CASE NoticeClosed
  <2>1. backoff' \in BackoffMin..BackoffMax /\ rungs' \in 0..RungCap
    <3>1. CASE aged
      BY <1>8, <3>1 DEF NoticeClosed, TakeBack
    <3>2. CASE ~aged
      BY <1>8, <3>2 DEF NoticeClosed, TakeBack
    <3> QED
      BY <3>1, <3>2
  <2>2. UNCHANGED <<spent, conn, aged, signal, exit, forgets>>
        /\ live' \in BOOLEAN /\ pc' = "wait"
    BY <1>8 DEF NoticeClosed, TakeBack
  <2> QED
    BY <2>1, <2>2
<1>9. CASE Wake
  BY <1>9 DEF Wake, Widen, Smaller
<1>10. CASE TakeStop
  BY <1>10 DEF TakeStop, Stop, GivenUp
<1>11. CASE CloseGrace
  BY <1>11 DEF CloseGrace, Stop
<1>12. CASE World
  BY <1>12 DEF World, ServerAccepts, PeerCloses, Age, Signal
<1>13. CASE UNCHANGED vars
  BY <1>13 DEF vars
<1> QED
  BY <1>1, <1>2, <1>3, <1>4, <1>5, <1>6, <1>7, <1>8, <1>9, <1>10, <1>11,
     <1>12, <1>13 DEF Next, Loop

LEMMA StepSlot == IInv /\ [Next]_vars => SlotFollowsLoop'
<1> SUFFICES ASSUME IInv, [Next]_vars
             PROVE  SlotFollowsLoop'
  OBVIOUS
<1> USE DEF IInv, TypeOK, SlotFollowsLoop, LoopStates
<1>1. CASE BearerReady
  BY <1>1 DEF BearerReady
<1>2. ASSUME NEW e \in CredentialsErrors, BearerFails(e)
      PROVE  SlotFollowsLoop'
  BY <1>2 DEF BearerFails, Stop
<1>3. CASE DialConnects
  BY <1>3 DEF DialConnects, HandOver
<1>4. ASSUME NEW e \in ConnectErrors, DialFails(e)
      PROVE  SlotFollowsLoop'
  BY <1>4 DEF DialFails, FailedDial, Stop
<1>5. CASE Forgotten \/ NothingToForget
  BY <1>5 DEF Forgotten, NothingToForget, Stop
<1>6. ASSUME NEW e \in CredentialsErrors, ForgetFails(e)
      PROVE  SlotFollowsLoop'
  BY <1>6 DEF ForgetFails, Stop
<1>7. CASE NoticeClosed \/ Wake
  BY <1>7 DEF NoticeClosed, TakeBack, Wake, Widen
<1>8. CASE TakeStop
  BY <1>8 DEF TakeStop, Stop
<1>9. CASE CloseGrace
  BY <1>9 DEF CloseGrace, Stop
<1>10. CASE World
  BY <1>10 DEF World, ServerAccepts, PeerCloses, Age, Signal
<1>11. CASE UNCHANGED vars
  BY <1>11 DEF vars
<1> QED
  BY <1>1, <1>2, <1>3, <1>4, <1>5, <1>6, <1>7, <1>8, <1>9, <1>10, <1>11
     DEF Next, Loop

LEMMA StepForget == IInv /\ [Next]_vars => ForgetSpends'
<1> SUFFICES ASSUME IInv, [Next]_vars
             PROVE  ForgetSpends'
  OBVIOUS
<1> USE DEF IInv, TypeOK, ForgetSpends, LoopStates
<1>1. CASE BearerReady
  BY <1>1 DEF BearerReady
<1>2. ASSUME NEW e \in CredentialsErrors, BearerFails(e)
      PROVE  ForgetSpends'
  BY <1>2 DEF BearerFails, Stop
<1>3. CASE DialConnects
  BY <1>3 DEF DialConnects, HandOver
<1>4. ASSUME NEW e \in ConnectErrors, DialFails(e)
      PROVE  ForgetSpends'
  BY <1>4 DEF DialFails, FailedDial, Stop
<1>5. CASE Forgotten \/ NothingToForget
  BY <1>5 DEF Forgotten, NothingToForget, Stop
<1>6. ASSUME NEW e \in CredentialsErrors, ForgetFails(e)
      PROVE  ForgetSpends'
  BY <1>6 DEF ForgetFails, Stop
<1>7. CASE NoticeClosed \/ Wake
  BY <1>7 DEF NoticeClosed, TakeBack, Wake, Widen
<1>8. CASE TakeStop
  BY <1>8 DEF TakeStop, Stop
<1>9. CASE CloseGrace
  BY <1>9 DEF CloseGrace, Stop
<1>10. CASE World
  BY <1>10 DEF World, ServerAccepts, PeerCloses, Age, Signal
<1>11. CASE UNCHANGED vars
  BY <1>11 DEF vars
<1> QED
  BY <1>1, <1>2, <1>3, <1>4, <1>5, <1>6, <1>7, <1>8, <1>9, <1>10, <1>11
     DEF Next, Loop

LEMMA StepExit == IInv /\ [Next]_vars => ExitEnds'
<1> SUFFICES ASSUME IInv, [Next]_vars
             PROVE  ExitEnds'
  OBVIOUS
<1> USE DEF IInv, TypeOK, ExitEnds, LoopStates
<1>1. CASE BearerReady \/ DialConnects \/ Forgotten \/ NothingToForget
  BY <1>1 DEF BearerReady, DialConnects, HandOver, Forgotten, NothingToForget, Stop
<1>2. ASSUME NEW e \in CredentialsErrors, BearerFails(e) \/ ForgetFails(e)
      PROVE  ExitEnds'
  BY <1>2 DEF BearerFails, ForgetFails, Stop
<1>3. ASSUME NEW e \in ConnectErrors, DialFails(e)
      PROVE  ExitEnds'
  BY <1>3 DEF DialFails, FailedDial, Stop
<1>4. CASE NoticeClosed \/ Wake \/ TakeStop \/ CloseGrace
  BY <1>4 DEF NoticeClosed, TakeBack, Wake, Widen, TakeStop, CloseGrace, Stop
<1>5. CASE World
  BY <1>5 DEF World, ServerAccepts, PeerCloses, Age, Signal
<1>6. CASE UNCHANGED vars
  BY <1>6 DEF vars
<1> QED
  BY <1>1, <1>2, <1>3, <1>4, <1>5, <1>6 DEF Next, Loop

\* A connection that lasted resets the wait and the count, another leaves
\* both; a wait doubles it, up to the cap, and past RungCap it is at the cap.
LEMMA StepBackoff == IInv /\ [Next]_vars => BackoffLaw'
<1> SUFFICES ASSUME IInv, [Next]_vars
             PROVE  BackoffLaw'
  OBVIOUS
<1>1. /\ rungs \in 0..RungCap
      /\ backoff = Smaller(Doubled[rungs], BackoffMax)
      /\ RungCap \in Nat /\ BackoffMin \in Nat \ {0} /\ BackoffMax \in Nat
      /\ BackoffMin <= BackoffMax
  BY BackoffAssumption, RungAssumption DEF IInv, TypeOK, BackoffLaw
<1>2. Doubled[rungs] \in Nat /\ Doubled[0] = BackoffMin
  BY <1>1, DoubledIs, DoubledGrows
<1>3. CASE NoticeClosed
  BY <1>1, <1>2, <1>3 DEF NoticeClosed, TakeBack, BackoffLaw, Smaller
<1>4. CASE Wake
  <2>1. backoff' = Smaller(2 * backoff, BackoffMax) /\ rungs' = Smaller(rungs + 1, RungCap)
    BY <1>4 DEF Wake, Widen
  <2>2. CASE rungs < RungCap
    <3>1. rungs' = rungs + 1 /\ rungs + 1 \in 1..RungCap /\ (rungs + 1) - 1 = rungs
      BY <1>1, <2>1, <2>2 DEF Smaller
    <3>2. Doubled[rungs'] = 2 * Doubled[rungs]
      BY <3>1, DoubledIs
    <3> QED
      BY <1>1, <1>2, <2>1, <3>2 DEF BackoffLaw, Smaller
  <2>3. CASE rungs = RungCap
    <3>1. rungs' = rungs /\ Doubled[rungs] >= BackoffMax
      BY <1>1, <2>1, <2>3, RungAssumption DEF Smaller
    <3> QED
      BY <1>1, <1>2, <2>1, <3>1 DEF BackoffLaw, Smaller
  <2> QED
    BY <1>1, <2>2, <2>3
<1>5. CASE UNCHANGED <<backoff, rungs>>
  BY <1>1, <1>5 DEF BackoffLaw
<1>6. CASE Loop
  BY <1>3, <1>4, <1>5, <1>6 DEF Loop, BearerReady, BearerFails, DialConnects, HandOver,
     DialFails, FailedDial, Forgotten, NothingToForget, ForgetFails
<1>7. CASE TakeStop \/ CloseGrace
  BY <1>5, <1>7 DEF TakeStop, CloseGrace
<1>8. CASE World
  BY <1>5, <1>8 DEF World, ServerAccepts, PeerCloses, Age, Signal
<1>9. CASE UNCHANGED vars
  BY <1>5, <1>9 DEF vars
<1> QED
  BY <1>6, <1>7, <1>8, <1>9 DEF Next

\* The invariant the other theorems rest on holds in every reachable state.
THEOREM Invariance == Spec => []IInv
<1>1. IInv /\ [Next]_vars => IInv'
  BY StepTypeOK, StepSlot, StepForget, StepExit, StepBackoff DEF IInv
<1> QED
  BY InitIInv, <1>1, PTL DEF Spec

\* The variables keep their types; in particular the backoff never leaves
\* BackoffMin..BackoffMax, whatever the doublings and resets.
THEOREM TypeCorrect == Spec => []TypeOK
<1>1. IInv => TypeOK
  BY DEF IInv
<1> QED
  BY Invariance, <1>1, PTL

\* The wait is the first one doubled per wait since the last connection that
\* lasted, and capped: however connections, refusals and outages alternate,
\* nothing else shortens or lengthens it.
THEOREM BackoffIsLaw == Spec => []BackoffLaw
<1>1. IInv => BackoffLaw
  BY DEF IInv
<1> QED
  BY Invariance, <1>1, PTL

\* Between two connections at most one credential is thrown away, for every
\* interleaving of refusals, failures, outages and waits.
THEOREM OneForget == Spec => []OneForgetPerConnection
<1>1. IInv => OneForgetPerConnection
  BY DEF IInv, TypeOK, ForgetSpends, OneForgetPerConnection
<1> QED
  BY Invariance, <1>1, PTL

\* No refusal ends the process before it has cost a credential: the one
\* attempt is never charged for a forget that did not happen.
THEOREM RefusalAnswered == Spec => RefusalIsAnsweredFirst
<1>1. IInv /\ [Next]_vars
        => [\A e \in {"unauthorized", "revoked"} :
              DialFails(e) /\ exit' = 1 => forgets = 1]_vars
  <2> SUFFICES ASSUME IInv,
                      NEW e \in {"unauthorized", "revoked"},
                      DialFails(e), exit' = 1
               PROVE  forgets = 1
    OBVIOUS
  <2>1. pc = "dial" /\ Refusal(e) = "reenroll"
    BY DEF DialFails, FailedDial, Refusal
  <2>2. exit # 1
    BY <2>1 DEF IInv, ExitEnds, Running
  <2>3. spent
    BY <2>1, <2>2 DEF DialFails, FailedDial, Stop
  <2> QED
    BY <2>1, <2>3 DEF IInv, ForgetSpends, LoopStates
<1> QED
  BY Invariance, <1>1, PTL DEF Spec, RefusalIsAnsweredFirst

\* A connection the loop was handed is never abandoned without a frame.
THEOREM HandedIsRetired == Spec => HandedConnectionRetired
<1>1. IInv /\ [Next]_vars => [pc = "up" => conn' # "dropped"]_vars
  <2> SUFFICES ASSUME IInv, Next, pc = "up"
               PROVE  conn' # "dropped"
    OBVIOUS
  <2>1. live /\ conn \in {"open", "closed"}
    BY DEF IInv, SlotFollowsLoop
  <2>2. CASE Loop
    BY <2>1, <2>2 DEF Loop, BearerReady, BearerFails, DialConnects, HandOver, DialFails, FailedDial,
       Forgotten, NothingToForget, ForgetFails, NoticeClosed, TakeBack, Wake, Widen
  <2>3. CASE TakeStop \/ CloseGrace
    BY <2>1, <2>3 DEF TakeStop, CloseGrace
  <2>4. CASE World
    BY <2>1, <2>4 DEF World, ServerAccepts, PeerCloses, Age, Signal
  <2> QED
    BY <2>2, <2>3, <2>4 DEF Next
<1> QED
  BY Invariance, <1>1, PTL DEF Spec, HandedConnectionRetired
===============================================================================
