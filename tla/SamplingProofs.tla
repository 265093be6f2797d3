----------------------------- MODULE SamplingProofs -----------------------------
(***************************************************************************)
(* Proofs about Sampling: what a sample says of a thing, and what an agent *)
(* sees of its restart, for any number of containers, pods and nodes that  *)
(* change between the calls.                                               *)
(* The second part is about ProcTable, the scan a process is sampled with. *)
(***************************************************************************)
EXTENDS Sampling, ProcTable, SharedLemmas

USE LookupAssumption, SamplingAssumption

-------------------------------------------------------------------------------
(***************************************************************************)
(* The invariant                                                           *)
(***************************************************************************)
Container == [name : Names, state : {"exited", "running", "paused"}]

DockerType == containers \in Seq(Container) /\ reachable \in BOOLEAN

\* The daemon gives a name once.
NamesDiffer ==
  \A i, j \in DOMAIN containers : containers[i].name = containers[j].name => i = j

SampleType ==
  /\ pods \in [Pods -> Phases \union {Absent}]
  /\ nodes \in [Nodes -> Conditions \union {Absent}]
  /\ stage \in {"idle", "processes", "containers", "pods", "nodes"}
  /\ focus \in Things
  /\ left \subseteq Containers /\ (stage = "processes" => left = Containers)
  /\ was \subseteq {"up", "down", "mixed"}

\* What the sample has been told of so far.
Asked ==
  (IF stage \in {"containers", "pods", "nodes", "idle"} THEN {Process} ELSE {})
    \union (IF stage \in {"pods", "nodes", "idle"} THEN Containers
            ELSE IF stage = "containers" THEN Containers \ left ELSE {})
    \union (IF stage \in {"nodes", "idle"} THEN Pods ELSE {})
    \union (IF stage = "idle" THEN Nodes ELSE {})

OnlyAsked == incidents \subseteq Asked \union {Cluster}

\* While a sample runs, what the thing is now it was during the sample.
WasNow == stage # "idle" => Health(focus) \subseteq was

\* What is promised of the thing at the end of a sample holds once it was asked
\* about.
AskedIsTrue ==
  focus \in Asked =>
    /\ was = {"up"} => focus \notin incidents \/ (focus = Process /\ unread)
    /\ was = {"down"} => \/ focus \in incidents
                         \/ focus \in Pods /\ Cluster \in incidents
                         \/ focus \in Nodes /\ unread

IInv ==
  /\ DockerType /\ NamesDiffer /\ SampleType
  /\ OnlyAsked /\ WasNow /\ AskedIsTrue

-------------------------------------------------------------------------------
(***************************************************************************)
(* The questions                                                           *)
(***************************************************************************)
\* Asked by a name that is part of no other, the daemon answers for the one
\* container of that name.
AnswersAreOwn ==
  \A name \in Names :
    Alone(name) => (ContainerRunning(name) <=> reachable /\ IsRunning(name))

LEMMA AnswerIsOwn == DockerType /\ NamesDiffer => AnswersAreOwn
<1> SUFFICES ASSUME DockerType, NamesDiffer, NEW name \in Names, Alone(name)
             PROVE  ContainerRunning(name) <=> reachable /\ IsRunning(name)
  BY DEF AnswersAreOwn
<1>1. \A i \in DOMAIN containers :
        Matches(name, containers[i]) <=> containers[i].name = name
  BY DEF DockerType, Container, Matches, Alone
<1>2. ASSUME ContainerRunning(name) PROVE reachable /\ IsRunning(name)
  BY <1>1, <1>2 DEF ContainerRunning, ContainerInfo, IsRunning
<1>3. ASSUME reachable, IsRunning(name) PROVE ContainerRunning(name)
  <2>1. PICK i \in DOMAIN containers :
          containers[i].name = name /\ containers[i].state = "running"
    BY <1>3 DEF IsRunning
  <2>2. \A j \in 1..(i - 1) : j \in DOMAIN containers /\ j # i
    BY <2>1 DEF DockerType
  <2>3. i \in ContainerInfo(name)
    BY <1>1, <1>3, <2>1, <2>2 DEF ContainerInfo, NamesDiffer
  <2> QED
    BY <2>1, <2>3 DEF ContainerRunning
<1> QED
  BY <1>2, <1>3

\* Asked by any name, it answers for one of the containers that have it in their
\* name, if there are any.
LEMMA AnswerIsOneOf ==
  ASSUME DockerType, NEW name \in Names
  PROVE  /\ ContainerRunning(name) => reachable /\ \E i \in NamedLike(name) : Running(i)
         /\ reachable /\ NamedLike(name) # {} =>
              \E i \in NamedLike(name) : ContainerRunning(name) <=> Running(i)
<1>1. ASSUME ContainerRunning(name)
      PROVE  reachable /\ \E i \in NamedLike(name) : Running(i)
  BY <1>1 DEF ContainerRunning, ContainerInfo, NamedLike, Running
<1>2. ASSUME reachable, NamedLike(name) # {}
      PROVE  \E i \in NamedLike(name) : ContainerRunning(name) <=> Running(i)
  <2>1. NamedLike(name) \subseteq Nat /\ DOMAIN containers = 1..Len(containers)
    BY DEF NamedLike, DockerType
  <2>2. PICK i \in NamedLike(name) : \A j \in NamedLike(name) : i <= j
    BY <1>2, <2>1, LeastOf
  <2>3. \A j \in 1..(i - 1) : j \in DOMAIN containers /\ j \notin NamedLike(name)
    BY <2>1, <2>2 DEF NamedLike
  <2>4. i \in ContainerInfo(name)
    BY <1>2, <2>2, <2>3 DEF ContainerInfo, NamedLike
  <2>5. ASSUME NEW j \in ContainerInfo(name) PROVE j = i
    <3>1. j \in NamedLike(name) /\ j \in Nat /\ i \in Nat /\ 1 <= i
      BY <2>1, <2>2 DEF ContainerInfo, NamedLike
    <3>2. i \in 1..(j - 1) => ~Matches(name, containers[i])
      BY DEF ContainerInfo
    <3>3. Matches(name, containers[i])
      BY <2>2 DEF NamedLike
    <3>4. ~(i < j)
      BY <3>1, <3>2, <3>3
    <3> QED
      BY <2>2, <3>1, <3>4
  <2> QED
    BY <2>2, <2>4, <2>5 DEF ContainerRunning, Running
<1> QED
  BY <1>1, <1>2

\* So a watched name that is up is answered for by a container that runs, and one
\* that is down by none.
LEMMA AnswerFits ==
  ASSUME DockerType, SampleType, NEW name \in Containers
  PROVE  /\ Health(name) = {"up"} => ContainerRunning(name)
         /\ Health(name) = {"down"} => ~ContainerRunning(name)
<1>1. name \in Names /\ name \notin {Process} \union Pods \union Nodes
  OBVIOUS
<1>2. ASSUME IsUp(name) PROVE ContainerRunning(name)
  BY <1>1, <1>2, AnswerIsOneOf DEF IsUp
<1>3. ASSUME ContainerRunning(name), ~IsUp(name) PROVE IsMixed(name)
  BY <1>1, <1>3, AnswerIsOneOf DEF IsUp, IsMixed
<1> QED
  BY <1>2, <1>3 DEF Health

\* A name that is part of no other is never mixed: it is up exactly when the one
\* container of that name runs.
LEMMA AloneIsOne ==
  ASSUME DockerType, NamesDiffer, NEW name \in Containers, Alone(name)
  PROVE  ~IsMixed(name) /\ (IsUp(name) <=> reachable /\ IsRunning(name))
<1>1. name \in Names /\ name \notin {Process} \union Pods \union Nodes
  OBVIOUS
<1>2. \A i \in DOMAIN containers : i \in NamedLike(name) <=> containers[i].name = name
  BY <1>1 DEF DockerType, Container, NamedLike, Matches, Alone
<1>3. NamedLike(name) \subseteq DOMAIN containers
  BY DEF NamedLike
<1>4. \A i, j \in NamedLike(name) : i = j
  BY <1>2, <1>3 DEF NamesDiffer
<1>5. IsRunning(name) <=> \E i \in NamedLike(name) : Running(i)
  BY <1>2, <1>3 DEF IsRunning, Running
<1> QED
  BY <1>1, <1>4, <1>5 DEF IsMixed, IsUp

\* A node is ready when its first condition of that type says so.
LEMMA ReadyIsTrue ==
  ASSUME NEW n \in Nodes, nodes[n] \in Conditions
  PROVE  NodeIsReady(n) <=> nodes[n] = Said("True")
<1>1. CASE nodes[n] = <<>>
  BY <1>1 DEF NodeIsReady, Said
<1>2. ASSUME NEW ready \in {"True", "Unknown"}, nodes[n] = Said(ready)
      PROVE  NodeIsReady(n) <=> nodes[n] = Said("True")
  <2>1. /\ DOMAIN nodes[n] = 1..2
        /\ nodes[n][1] = [type |-> "MemoryPressure", status |-> "False"]
        /\ nodes[n][2] = [type |-> "Ready", status |-> ready]
    BY <1>2 DEF Said
  <2>2. NodeIsReady(n) <=> ready = "True"
    BY <2>1 DEF NodeIsReady
  <2>3. nodes[n] = Said("True") <=> ready = "True"
    BY <1>2, <2>1 DEF Said
  <2> QED
    BY <2>2, <2>3
<1> QED
  BY <1>1, <1>2 DEF Conditions

-------------------------------------------------------------------------------
(***************************************************************************)
(* The daemon                                                              *)
(***************************************************************************)
\* What is behind a row that goes moves up by one.
LEMMA RowsMoveUp ==
  ASSUME NEW S, NEW seq \in Seq(S), NEW i \in 1..Len(seq)
  PROVE  /\ RemoveAt(seq, i) \in Seq(S)
         /\ DOMAIN RemoveAt(seq, i) = 1..(Len(seq) - 1)
         /\ \A k \in 1..(Len(seq) - 1) :
              RemoveAt(seq, i)[k] = seq[IF k < i THEN k ELSE k + 1]
<1> DEFINE front == SubSeq(seq, 1, i - 1)
           back  == SubSeq(seq, i + 1, Len(seq))
<1>1. Len(seq) \in Nat /\ i \in Int /\ \A k \in 1..Len(seq) : seq[k] \in S
  OBVIOUS
<1>2. /\ front \in Seq(S) /\ Len(front) = i - 1
      /\ \A k \in 1..(i - 1) : front[k] = seq[k]
  BY <1>1
<1>3. /\ back \in Seq(S) /\ Len(back) = Len(seq) - i
      /\ \A k \in 1..(Len(seq) - i) : back[k] = seq[k + i]
  BY <1>1
<1>4. RemoveAt(seq, i) = front \o back
  BY DEF RemoveAt
<1> HIDE DEF front, back
<1>5. /\ front \o back \in Seq(S)
      /\ Len(front \o back) = Len(seq) - 1
      /\ \A k \in 1..(Len(seq) - 1) :
           (front \o back)[k] = IF k <= i - 1 THEN front[k] ELSE back[k - (i - 1)]
  <2>1. Len(front) + Len(back) = Len(seq) - 1
    BY <1>1, <1>2, <1>3
  <2>2. /\ front \o back \in Seq(S)
        /\ Len(front \o back) = Len(front) + Len(back)
        /\ \A k \in 1..(Len(front) + Len(back)) :
             (front \o back)[k] = IF k <= Len(front) THEN front[k] ELSE back[k - Len(front)]
    <3>1. front \in Seq(S) /\ back \in Seq(S)
      BY <1>2, <1>3
    <3> QED
      BY <3>1, ConcatProperties, Zenon
  <2>3. Len(front \o back) = Len(seq) - 1
    BY <2>1, <2>2
  <2>4. ASSUME NEW k \in 1..(Len(seq) - 1)
        PROVE  (front \o back)[k] = IF k <= i - 1 THEN front[k] ELSE back[k - (i - 1)]
    <3>1. k \in 1..(Len(front) + Len(back))
      BY <2>1
    <3>2. (front \o back)[k] = IF k <= Len(front) THEN front[k] ELSE back[k - Len(front)]
      BY <2>2, <3>1
    <3> QED
      BY <1>2, <3>2
  <2> QED
    BY <2>2, <2>3, <2>4
<1>6. DOMAIN (front \o back) = 1..(Len(seq) - 1)
  BY <1>5, LenProperties
<1>7. ASSUME NEW k \in 1..(Len(seq) - 1)
      PROVE  (front \o back)[k] = seq[IF k < i THEN k ELSE k + 1]
  <2>1. CASE k < i
    BY <1>1, <1>2, <1>5, <2>1
  <2>2. CASE k >= i
    <3>1. k - (i - 1) \in 1..(Len(seq) - i) /\ (k - (i - 1)) + i = k + 1
      BY <1>1, <2>2
    <3>2. back[k - (i - 1)] = seq[k + 1]
      BY <1>3, <3>1
    <3>3. (front \o back)[k] = back[k - (i - 1)]
      BY <1>1, <1>5, <2>2
    <3>4. ~(k < i)
      BY <1>1, <2>2
    <3>5. (front \o back)[k] = seq[k + 1]
      BY <3>2, <3>3
    <3> QED
      BY <3>4, <3>5
  <2>3. k < i \/ k >= i
    BY <1>1
  <2> QED
    BY <2>1, <2>2, <2>3
<1> QED
  BY <1>4, <1>5, <1>6, <1>7

\* Whatever happens to the containers, the daemon gives a name once.
LEMMA DockerStepKeeps ==
  ASSUME DockerType, NamesDiffer, DockerStep
  PROVE  DockerType' /\ NamesDiffer'
<1> DEFINE n == Len(containers)
<1>0. DOMAIN containers = 1..n /\ n \in Nat /\ \A k \in 1..n : containers[k] \in Container
  BY DEF DockerType
<1>1. ASSUME NEW i \in DOMAIN containers, NEW name \in Names,
             NEW state \in {"exited", "running", "paused"}, Put(i, name, state),
             name = containers[i].name \/ Free(name)
      PROVE  DockerType' /\ NamesDiffer'
  <2>1. /\ DOMAIN containers' = 1..n /\ containers' \in Seq(Container)
        /\ \A k \in 1..n :
             containers'[k].name = IF k = i THEN name ELSE containers[k].name
    BY <1>0, <1>1 DEF Put, DockerType, Container
  <2> QED
    BY <1>0, <1>1, <2>1 DEF Put, DockerType, NamesDiffer, Free
<1>2. ASSUME NEW name \in Names, Create(name) PROVE DockerType' /\ NamesDiffer'
  <2> DEFINE new == [name |-> name, state |-> "exited"]
  <2>1. new \in Container /\ new.name = name
    BY DEF Container
  <2>2. containers' = <<new>> \o containers /\ \A k \in 1..n : containers[k].name # name
    BY <1>0, <1>2 DEF Create, Free
  <2> HIDE DEF new
  <2>3. /\ containers' \in Seq(Container) /\ DOMAIN containers' = 1..(n + 1)
        /\ \A k \in 1..(n + 1) : containers'[k] = IF k = 1 THEN new ELSE containers[k - 1]
    BY <1>0, <2>1, <2>2 DEF DockerType
  <2> QED
    BY <1>0, <1>2, <2>1, <2>2, <2>3 DEF Create, NamesDiffer, DockerType
<1>3. ASSUME NEW i \in DOMAIN containers
      PROVE  containers[i].name \in Names /\ containers[i].state \in {"exited", "running", "paused"}
  BY <1>0 DEF Container
<1>4. ASSUME NEW i \in DOMAIN containers, Delete(i) PROVE DockerType' /\ NamesDiffer'
  <2>1. i \in 1..n /\ containers \in Seq(Container)
    BY <1>0 DEF DockerType
  <2>2. containers' = RemoveAt(containers, i) /\ reachable' \in BOOLEAN
    BY <1>4 DEF Delete, DockerType
  <2>3. /\ containers' \in Seq(Container) /\ DOMAIN containers' = 1..(n - 1)
        /\ \A k \in 1..(n - 1) : containers'[k] = containers[IF k < i THEN k ELSE k + 1]
    BY <2>1, <2>2, RowsMoveUp
  <2>4. ASSUME NEW k \in 1..(n - 1), NEW l \in 1..(n - 1), containers'[k].name = containers'[l].name
        PROVE  k = l
    <3> DEFINE old(m) == IF m < i THEN m ELSE m + 1
    <3>1. old(k) \in 1..n /\ old(l) \in 1..n
      BY <1>0, <2>1
    <3>2. containers[old(k)].name = containers[old(l)].name
      BY <2>3, <2>4
    <3>3. old(k) = old(l)
      BY <1>0, <3>1, <3>2 DEF NamesDiffer
    <3> QED
      BY <1>0, <2>1, <3>3
  <2> QED
    BY <2>2, <2>3, <2>4 DEF NamesDiffer, DockerType
<1>5. CASE Lose \/ Find
  BY <1>5 DEF Lose, Find, DockerType, NamesDiffer
<1> QED
  BY <1>1, <1>2, <1>3, <1>4, <1>5
  DEF DockerStep, Rename, Became, Pause, Stop, DockerStart, DockerRestart

-------------------------------------------------------------------------------
(***************************************************************************)
(* Each step keeps the invariant                                           *)
(***************************************************************************)
LEMMA InitInvariant == Init => IInv
BY DEF Init, DockerInit, IInv, DockerType, NamesDiffer, SampleType, OnlyAsked,
       WasNow, AskedIsTrue, Phases, Conditions

\* A step of the sample leaves the world as it is.
LEMMA SampleKeepsWorld ==
  ASSUME IInv, UNCHANGED world
  PROVE  DockerType' /\ NamesDiffer' /\ Health(focus)' = Health(focus')
BY DEF IInv, world, docker, DockerType, NamesDiffer, Health, IsUp, IsMixed, NamedLike,
       Matches, Running

LEMMA BeginPreserves == ASSUME IInv, Begin PROVE IInv'
<1>1. DockerType' /\ NamesDiffer'
  BY SampleKeepsWorld DEF Begin
<1>2. SampleType'
  BY DEF Begin, IInv, SampleType, Health, world
<1>3. WasNow'
  BY DEF Begin, WasNow, Health, IsUp, IsMixed, NamedLike, Matches, Running, world, docker
<1>4. OnlyAsked' /\ AskedIsTrue'
  BY DEF Begin, OnlyAsked, AskedIsTrue, Asked
<1> QED
  BY <1>1, <1>2, <1>3, <1>4 DEF IInv

\* A call is answered: it tells of the things it asked about, and so of the one
\* that is followed if that is among them.
LEMMA AnswerPreserves ==
  ASSUME IInv, UNCHANGED world, focus' = focus, was' = was,
         stage # "idle",
         stage' \in {"idle", "containers", "pods", "nodes"}, left' \subseteq Containers,
         NEW things, incidents' = incidents \union things,
         Asked \subseteq Asked', things \subseteq (Asked' \ Asked) \union {Cluster},
         unread => unread',
         focus \in Asked' \ Asked =>
           /\ was = {"up"} => focus \notin things \/ (focus = Process /\ unread')
           /\ was = {"down"} => \/ focus \in things
                                \/ focus \in Pods /\ Cluster \in things
                                \/ focus \in Nodes /\ unread'
  PROVE  IInv'
<1>1. DockerType' /\ NamesDiffer'
  BY SampleKeepsWorld
<1>2. SampleType'
  BY DEF IInv, SampleType, world
<1>3. WasNow'
  BY DEF IInv, WasNow, Health, IsUp, IsMixed, NamedLike, Matches, Running, world, docker
<1>4. OnlyAsked'
  BY DEF IInv, OnlyAsked
<1>5. AskedIsTrue'
  BY DEF IInv, OnlyAsked, AskedIsTrue, SampleType, Things
<1> QED
  BY <1>1, <1>2, <1>3, <1>4, <1>5 DEF IInv

LEMMA SampleProcessPreserves == ASSUME IInv, SampleProcess PROVE IInv'
<1>1. /\ Asked = {} /\ left = Containers /\ left' = left
      /\ stage = "processes" /\ focus' = focus /\ was' = was /\ UNCHANGED world
  BY DEF SampleProcess, Found, Asked, IInv, SampleType
<1>2. stage' = "containers"
  BY DEF SampleProcess, Found
<1>3. Asked' = {Process}
  BY <1>1, <1>2 DEF Asked
<1>4. ASSUME NEW says \in IF focus = Process THEN was ELSE {"up", "down"},
             Found(IF says = "down" THEN {Process} ELSE {}, "containers"),
             UNCHANGED unread
      PROVE  IInv'
  BY <1>1, <1>2, <1>3, <1>4, AnswerPreserves DEF Found, IInv, SampleType
<1>5. ASSUME Found({Process}, "containers"), unread' = (unread \/ focus = Process)
      PROVE  IInv'
  BY <1>1, <1>2, <1>3, <1>5, AnswerPreserves DEF Found, IInv, SampleType
<1> QED
  BY <1>4, <1>5 DEF SampleProcess

LEMMA SampleContainersPreserves == ASSUME IInv, SampleContainers PROVE IInv'
<1>1. /\ stage = "containers" /\ unread' = unread
      /\ focus' = focus /\ was' = was /\ UNCHANGED world
      /\ Asked = {Process} \union (Containers \ left)
  BY DEF SampleContainers, Found, Asked
<1>2. ASSUME NEW name \in left, left' = left \ {name},
             Found(IF ContainerRunning(name) THEN {} ELSE {name}, "containers")
      PROVE  IInv'
  <2>1. stage' = "containers" /\ name \in Containers
    BY <1>2 DEF Found, IInv, SampleType
  <2>2. Asked' = {Process} \union (Containers \ left) \union {name}
    BY <1>2, <2>1 DEF Asked
  <2>3. Health(focus) # {} /\ Health(focus) \subseteq was
    BY <1>1 DEF IInv, WasNow, Health
  <2>4. ASSUME focus = name
        PROVE  /\ was = {"up"} => ContainerRunning(name)
               /\ was = {"down"} => ~ContainerRunning(name)
    BY <2>1, <2>3, <2>4, AnswerFits DEF IInv
  <2>5. focus \in Asked' \ Asked => focus = name
    BY <1>1, <2>2
  <2> QED
    BY <1>1, <1>2, <2>1, <2>2, <2>4, <2>5, AnswerPreserves DEF Found, IInv, SampleType
<1>3. ASSUME left = {}, Found({}, "pods"), left' = left
      PROVE  IInv'
  <2>1. Asked' = Asked
    BY <1>1, <1>3 DEF Found, Asked
  <2> QED
    BY <1>1, <1>3, <2>1, AnswerPreserves DEF Found, IInv, SampleType
<1> QED
  BY <1>2, <1>3 DEF SampleContainers

LEMMA SamplePodsPreserves == ASSUME IInv, SamplePods PROVE IInv'
<1> DEFINE things == {p \in ListedPods : PodIsDown(p)}
<1>1. PICK entries \in {things, {Cluster}} :
        Found(entries, "nodes") /\ stage = "pods" /\ UNCHANGED <<left, unread>>
  BY DEF SamplePods
<1>2. /\ Asked = {Process} \union Containers
      /\ Asked' = {Process} \union Containers \union Pods
  BY <1>1 DEF Found, Asked
<1>3. ASSUME focus \in Pods PROVE focus \in things <=> ~IsUp(focus)
  BY <1>3 DEF IInv, IsUp, SampleType, ListedPods, PodIsDown, Phases
<1>4. Health(focus) \subseteq was
  BY <1>1 DEF IInv, WasNow
<1>5. things \subseteq Pods
  BY DEF ListedPods
<1> HIDE DEF things
<1> QED
  BY <1>1, <1>2, <1>3, <1>4, <1>5, AnswerPreserves DEF Found, Health, IInv, SampleType

LEMMA SampleNodesPreserves == ASSUME IInv, SampleNodes PROVE IInv'
<1> DEFINE things == {n \in ListedNodes : ~NodeIsReady(n)}
<1>1. /\ stage = "nodes"
      /\ \/ Found(things, "idle") /\ UNCHANGED unread
         \/ Found({}, "idle") /\ unread' = (unread \/ focus \in Nodes)
      /\ UNCHANGED left
  BY DEF SampleNodes
<1>2. /\ Asked = {Process} \union Containers \union Pods
      /\ Asked' = Asked \union Nodes
  BY <1>1 DEF Found, Asked, Things
<1>3. ASSUME focus \in Nodes PROVE focus \in things <=> ~IsUp(focus)
  BY <1>3, ReadyIsTrue DEF IInv, IsUp, SampleType, ListedNodes
<1>4. Health(focus) \subseteq was
  BY <1>1 DEF IInv, WasNow
<1>5. things \subseteq Nodes
  BY DEF ListedNodes
<1> HIDE DEF things
<1>6. CASE Found(things, "idle") /\ UNCHANGED unread
  BY <1>1, <1>2, <1>3, <1>4, <1>5, <1>6, AnswerPreserves DEF Found, Health, IInv, SampleType
<1>7. CASE Found({}, "idle") /\ unread' = (unread \/ focus \in Nodes)
  BY <1>1, <1>2, <1>3, <1>4, <1>7, AnswerPreserves DEF Found, Health, IInv, SampleType
<1> QED
  BY <1>1, <1>6, <1>7

\* What changes meanwhile is noted.
LEMMA WorldPreserves == ASSUME IInv, WorldStep, Changes PROVE IInv'
<1>1. UNCHANGED <<stage, left, incidents, focus, unread>> /\ Asked' = Asked
  BY DEF Changes, sample, Asked
<1>2. was' = (IF stage = "idle" THEN was ELSE was \union Health(focus)')
  BY DEF Changes
<1>3. DockerType' /\ NamesDiffer'
  BY DockerStepKeeps DEF IInv, WorldStep, StartOrEnd, PodBecomes, NodeBecomes, docker,
     DockerType, NamesDiffer
<1>4. /\ pods' \in [Pods -> Phases \union {Absent}]
      /\ nodes' \in [Nodes -> Conditions \union {Absent}]
  BY DEF IInv, SampleType, WorldStep, StartOrEnd, PodBecomes, NodeBecomes
<1>5. \E h \in {"up", "down", "mixed"} : Health(focus)' = {h}
  BY <1>1 DEF Health
<1>6. SampleType'
  BY <1>1, <1>2, <1>4, <1>5 DEF IInv, SampleType
<1>7. WasNow'
  BY <1>1, <1>2 DEF WasNow
<1>8. OnlyAsked'
  BY <1>1 DEF IInv, OnlyAsked
<1>9. AskedIsTrue'
  <2>1. stage # "idle" => was # {}
    BY DEF IInv, WasNow, Health
  <2> QED
    BY <1>1, <1>2, <1>5, <2>1 DEF IInv, AskedIsTrue, SampleType
<1> QED
  BY <1>3, <1>6, <1>7, <1>8, <1>9 DEF IInv

LEMMA NextInvariant == IInv /\ [Next]_vars => IInv'
<1> SUFFICES ASSUME IInv, [Next]_vars PROVE IInv'
  OBVIOUS
<1>1. CASE UNCHANGED vars
  BY <1>1, SampleKeepsWorld
  DEF vars, world, docker, sample, past, IInv, SampleType, OnlyAsked, Asked, WasNow,
      AskedIsTrue
<1>2. CASE Next
  BY <1>2, BeginPreserves, SampleProcessPreserves, SampleContainersPreserves,
     SamplePodsPreserves, SampleNodesPreserves, WorldPreserves DEF Next
<1> QED
  BY <1>1, <1>2

LEMMA Invariant == Spec => []IInv
BY InitInvariant, NextInvariant, PTL DEF Spec

-------------------------------------------------------------------------------
\* A sample tells the truth about whatever stayed as it was, for any number of
\* containers, pods and nodes and whatever else changes between its calls, but for
\* what SampleIsTrue names: what could not be read, and a watched name that is part
\* of the names of several containers of which some run and some do not.
THEOREM SampleTrue == Spec => []SampleIsTrue
<1>1. IInv => SampleIsTrue
  BY DEF IInv, SampleType, AskedIsTrue, Asked, Things, SampleIsTrue
<1> QED
  BY <1>1, Invariant, PTL

\* What an agent starts or restarts by a name that is part of no other, it sees
\* running when it asks again by that name, among any number of containers.
THEOREM ActionSeen == Spec => ActionIsSeen
<1> DEFINE Seen ==
      \A i \in DOMAIN containers :
        Alone(containers[i].name) /\ (DockerStart(i) \/ DockerRestart(i)) =>
          ContainerRunning(containers[i].name)'
<1>1. ASSUME DockerType, AnswersAreOwn' PROVE Seen
  <2> SUFFICES ASSUME NEW i \in DOMAIN containers, Alone(containers[i].name),
                      DockerStart(i) \/ DockerRestart(i)
               PROVE  ContainerRunning(containers[i].name)'
    OBVIOUS
  <2>0. reachable /\ Put(i, containers[i].name, "running")
    BY DEF DockerStart, DockerRestart, Became
  <2> HIDE DEF Seen
  <2>1. containers[i] \in Container
    <3>1. containers \in Seq(Container)
      BY <1>1 DEF DockerType
    <3> QED
      BY <3>1, ElementOfSeq, LenProperties
  <2>2. containers[i].name \in Names
    BY <2>1 DEF Container
  <2>3. /\ i \in DOMAIN containers'
        /\ containers'[i] = [name |-> containers[i].name, state |-> "running"]
        /\ reachable'
    BY <2>0 DEF Put
  <2>4. containers'[i].name = containers[i].name /\ containers'[i].state = "running"
    BY <2>3
  <2>5. IsRunning(containers[i].name)'
    BY <2>3, <2>4 DEF IsRunning
  <2>6. Alone(containers[i].name)'
    BY <2>4
  <2> QED
    BY <1>1, <2>2, <2>3, <2>4, <2>5, <2>6 DEF AnswersAreOwn
<1>2. IInv => DockerType /\ AnswersAreOwn
  BY AnswerIsOwn DEF IInv
<1> QED
  BY <1>1, <1>2, Invariant, PTL DEF ActionIsSeen

-------------------------------------------------------------------------------
(***************************************************************************)
(* The scan the processes are sampled with (ProcTable), for every pid      *)
(* space and every set of names: what a scan of a table that changes under *)
(* it can be relied on for.  Nothing is said here of how a name is read,   *)
(* only of names that are read right.                                      *)
(***************************************************************************)
\* The part of the assumption the proofs need.
LEMMA TableConstants == MaxPid \in Nat /\ MaxPid >= 1 /\ Watched # <<>>
BY ProcAssumption

\* The names that are read as they are, and those that are read as another.
Faithful == ParsedComm(Watched) = Watched
Unmistaken == \A comm \in Comms : ParsedComm(comm) = Watched => comm = Watched

\* While a scan runs, the pids that are steady still have the name, and one the
\* cursor has passed was found unless its entry could not be read.
PassedIsFound ==
  /\ cursor # 0 => steady \subseteq Named(procs)
  /\ Faithful /\ cursor # 0 => \A pid \in steady : pid < cursor => found \/ pid \in skipped
  /\ Faithful /\ cursor = 0 /\ result = "absent" => steady \subseteq skipped

\* While a scan runs, a name that is there now was there, and what was found
\* was there.
FoundWasThere ==
  /\ cursor # 0 /\ Named(procs) # {} => ever
  /\ Unmistaken /\ cursor # 0 => (found => ever)
  /\ Unmistaken => (result = "running" => ever)

\* The inductive invariant.
TableInv == ScanTypeOK /\ PassedIsFound /\ FoundWasThere

LEMMA TableInit == ScanInit => TableInv
<1> SUFFICES ASSUME ScanInit
             PROVE  TableInv
  OBVIOUS
<1>1. ScanTypeOK
  <2>1. procs \in [Pids -> [comm : Comms, state : {"S", "Z"}] \union {Gone}]
    <3>1. [comm : Comms, state : {"S"}] \subseteq [comm : Comms, state : {"S", "Z"}]
      OBVIOUS
    <3> QED
      BY <3>1 DEF ScanInit
  <2>2. cursor \in 0..MaxPid + 1
    BY TableConstants DEF ScanInit
  <2> QED
    BY <2>1, <2>2 DEF ScanInit, ScanTypeOK
<1>2. PassedIsFound /\ FoundWasThere
  BY DEF ScanInit, PassedIsFound, FoundWasThere
<1> QED
  BY <1>1, <1>2 DEF TableInv

\* What the other processes do: the table stays one, and the history follows it.
LEMMA WorldBecomes ==
  ASSUME ScanTypeOK,
         NEW pid \in Pids,
         \/ \E comm \in Comms : Start(pid, comm) \/ Exec(pid, comm)
         \/ Die(pid) \/ Reap(pid)
  PROVE  /\ \E table : Becomes(table)
         /\ procs' \in [Pids -> [comm : Comms, state : {"S", "Z"}] \union {Gone}]
<1> USE DEF ScanTypeOK
<1>1. ASSUME NEW comm \in Comms, Start(pid, comm)
      PROVE  /\ \E table : Becomes(table)
             /\ procs' \in [Pids -> [comm : Comms, state : {"S", "Z"}] \union {Gone}]
  BY <1>1 DEF Start, Becomes
<1>2. ASSUME NEW comm \in Comms, Exec(pid, comm)
      PROVE  /\ \E table : Becomes(table)
             /\ procs' \in [Pids -> [comm : Comms, state : {"S", "Z"}] \union {Gone}]
  <2>1. procs[pid] \in [comm : Comms, state : {"S", "Z"}]
    BY <1>2 DEF Exec, Gone
  <2>2. [procs[pid] EXCEPT !.comm = comm] \in [comm : Comms, state : {"S", "Z"}]
    BY <2>1
  <2>3. procs' = [procs EXCEPT ![pid] = [procs[pid] EXCEPT !.comm = comm]]
    BY <1>2 DEF Exec, Becomes
  <2>4. \E table : Becomes(table)
    BY <1>2 DEF Exec
  <2> QED
    BY <2>2, <2>3, <2>4
<1>3. CASE Die(pid)
  <2>1. procs[pid] \in [comm : Comms, state : {"S", "Z"}]
    BY <1>3 DEF Die, Gone
  <2>2. [procs[pid] EXCEPT !.state = "Z"] \in [comm : Comms, state : {"S", "Z"}]
    BY <2>1
  <2>3. procs' = [procs EXCEPT ![pid] = [procs[pid] EXCEPT !.state = "Z"]]
    BY <1>3 DEF Die, Becomes
  <2>4. \E table : Becomes(table)
    BY <1>3 DEF Die
  <2> QED
    BY <2>2, <2>3, <2>4
<1>4. CASE Reap(pid)
  BY <1>4 DEF Reap, Becomes
<1> QED
  BY <1>1, <1>2, <1>3, <1>4

LEMMA StepTypeOK == TableInv /\ [ScanNext]_scanVars => ScanTypeOK'
<1> SUFFICES ASSUME TableInv, [ScanNext]_scanVars
             PROVE  ScanTypeOK'
  OBVIOUS
<1> USE TableConstants DEF TableInv, ScanTypeOK, Pids
<1>1. CASE BeginScan
  <2>1. /\ cursor' \in {1, MaxPid + 1} /\ skipped' \subseteq Pids
        /\ procs' = procs /\ found' = FALSE /\ result' = "none"
        /\ steady' \subseteq Pids
    BY <1>1 DEF BeginScan, Named
  <2>2. ever' \in BOOLEAN
    BY <1>1, Zenon DEF BeginScan
  <2>3. cursor' \in 0..MaxPid + 1
    BY <2>1
  <2> QED
    BY <2>1, <2>2, <2>3
<1>2. CASE Read
  <2>1. ASSUME NEW answer \in BOOLEAN, Learn(answer)
        PROVE  cursor' \in 0..MaxPid + 1 /\ found' \in BOOLEAN /\ skipped' \subseteq Pids
    BY <1>2, <2>1 DEF Learn, Read
  <2>2. ASSUME NEW pid \in {cursor + 1, MaxPid + 1}, SkipTo(pid)
        PROVE  cursor' \in 0..MaxPid + 1 /\ found' \in BOOLEAN /\ skipped' \subseteq Pids
    BY <1>2, <2>2 DEF SkipTo, Read
  <2> QED
    BY <1>2, <2>1, <2>2 DEF Read
<1>3. CASE Finish
  BY <1>3 DEF Finish, observed
<1>4. ASSUME NEW pid \in Pids,
             \/ \E comm \in Comms : Start(pid, comm) \/ Exec(pid, comm)
             \/ Die(pid) \/ Reap(pid)
      PROVE  ScanTypeOK'
  <2>1. /\ \E table : Becomes(table)
        /\ procs' \in [Pids -> [comm : Comms, state : {"S", "Z"}] \union {Gone}]
    BY <1>4, WorldBecomes
  <2>2. /\ UNCHANGED scan
        /\ steady' \subseteq Pids /\ ever' \in BOOLEAN /\ skipped' = skipped
    BY <2>1 DEF Becomes, observed, Named
  <2> QED
    BY <2>1, <2>2 DEF scan
<1>5. CASE UNCHANGED scanVars
  BY <1>5 DEF scanVars, scan, observed
<1> QED
  BY <1>1, <1>2, <1>3, <1>4, <1>5 DEF ScanNext

\* A steady pid is one the scan finds when it comes to it, and a scan that ends
\* has come to all of them.
LEMMA StepPassed == TableInv /\ [ScanNext]_scanVars => PassedIsFound'
<1> SUFFICES ASSUME TableInv, [ScanNext]_scanVars
             PROVE  PassedIsFound'
  OBVIOUS
<1> USE TableConstants DEF TableInv, ScanTypeOK, PassedIsFound, Pids
<1>1. CASE BeginScan
  BY <1>1 DEF BeginScan, Named
<1>2. CASE Read
  <2>1. cursor \in Pids /\ cursor' \in Nat \ {0}
        /\ steady' = steady /\ procs' = procs
    BY <1>2 DEF Read, Learn, SkipTo
  <2>2. steady' \subseteq Named(procs)'
    BY <2>1 DEF Named
  <2>3. ASSUME Faithful, NEW pid \in steady, pid < cursor'
        PROVE  found' \/ pid \in skipped'
    <3>1. CASE pid < cursor
      BY <1>2, <2>1, <2>3, <3>1 DEF Read, Learn, SkipTo
    <3>2. CASE pid >= cursor
      <4>1. procs[pid].comm = Watched /\ procs[pid] # Gone
        BY <2>1 DEF Named, Gone
      <4>2. ASSUME NEW answer \in BOOLEAN, Learn(answer) PROVE pid = cursor /\ (answer => found')
        <5>1. pid \in Int /\ cursor \in Int
          OBVIOUS
        <5>2. cursor' = cursor + 1 /\ (answer => found')
          BY <4>2 DEF Learn
        <5> QED
          BY <2>3, <3>2, <5>1, <5>2
      <4>3. ASSUME NEW next \in {cursor + 1, MaxPid + 1}, SkipTo(next)
            PROVE  pid \in skipped'
        BY <2>1, <2>3, <3>2, <4>3 DEF SkipTo
      <4> QED
        BY <1>2, <2>3, <4>1, <4>2, <4>3 DEF Read, Faithful
    <3> QED
      BY <2>1, <2>3, <3>1, <3>2
  <2> QED
    BY <2>1, <2>2, <2>3 DEF Faithful
<1>3. CASE Finish
  <2>1. cursor # 0 /\ \A pid \in steady : pid < cursor
    BY <1>3 DEF Finish
  <2>2. cursor' = 0 /\ steady' = steady /\ skipped' = skipped
    BY <1>3 DEF Finish, observed
  <2>3. ASSUME Faithful, result' = "absent"
        PROVE  steady \subseteq skipped
    <3>1. ~found
      BY <1>3, <2>3 DEF Finish
    <3> QED
      BY <2>1, <2>3, <3>1
  <2> QED
    BY <2>2, <2>3 DEF Faithful
<1>4. ASSUME NEW pid \in Pids,
             \/ \E comm \in Comms : Start(pid, comm) \/ Exec(pid, comm)
             \/ Die(pid) \/ Reap(pid)
      PROVE  PassedIsFound'
  <2>1. PICK table : Becomes(table)
    BY <1>4, WorldBecomes
  <2>2. CASE cursor = 0
    BY <2>1, <2>2 DEF Becomes, scan, observed, Faithful
  <2>3. CASE cursor # 0
    BY <2>1, <2>3 DEF Becomes, scan, Faithful, Named
  <2> QED
    BY <2>2, <2>3
<1>5. CASE UNCHANGED scanVars
  BY <1>5 DEF scanVars, scan, observed, Faithful, Named
<1> QED
  BY <1>1, <1>2, <1>3, <1>4, <1>5 DEF ScanNext

LEMMA StepFound == TableInv /\ [ScanNext]_scanVars => FoundWasThere'
<1> SUFFICES ASSUME TableInv, [ScanNext]_scanVars
             PROVE  FoundWasThere'
  OBVIOUS
<1> USE TableConstants DEF TableInv, ScanTypeOK, FoundWasThere, Pids
<1>1. CASE BeginScan
  BY <1>1 DEF BeginScan, Named, Unmistaken
<1>2. CASE Read
  <2>1. cursor \in Pids /\ cursor # 0 /\ result' = result /\ ever' = ever
        /\ Named(procs)' = Named(procs) /\ cursor' # 0
    BY <1>2 DEF Read, Learn, SkipTo, Named
  <2>2. ASSUME Unmistaken, found'
        PROVE  ever
    <3>1. CASE found
      BY <2>1, <2>2, <3>1
    <3>2. CASE ~found
      <4>1. procs[cursor] # Gone /\ ParsedComm(procs[cursor].comm) = Watched
        BY <1>2, <2>2, <3>2 DEF Read, Learn, SkipTo
      <4>2. procs[cursor].comm \in Comms
        BY <2>1, <4>1
      <4>3. cursor \in Named(procs)
        BY <2>1, <2>2, <4>1, <4>2 DEF Unmistaken, Named
      <4> QED
        BY <2>1, <4>3
    <3> QED
      BY <3>1, <3>2
  <2> QED
    BY <2>1, <2>2 DEF Unmistaken
<1>3. CASE Finish
  BY <1>3 DEF Finish, observed, Unmistaken
<1>4. ASSUME NEW pid \in Pids,
             \/ \E comm \in Comms : Start(pid, comm) \/ Exec(pid, comm)
             \/ Die(pid) \/ Reap(pid)
      PROVE  FoundWasThere'
  <2>1. PICK table : Becomes(table)
    BY <1>4, WorldBecomes
  <2>2. CASE cursor = 0
    BY <2>1, <2>2 DEF Becomes, scan, observed, Unmistaken
  <2>3. CASE cursor # 0
    BY <2>1, <2>3 DEF Becomes, scan, Unmistaken, Named
  <2> QED
    BY <2>2, <2>3
<1>5. CASE UNCHANGED scanVars
  BY <1>5 DEF scanVars, scan, observed, Unmistaken, Named
<1> QED
  BY <1>1, <1>2, <1>3, <1>4, <1>5 DEF ScanNext

\* The invariant the theorems rest on holds in every reachable state.
THEOREM TableInvariance == ScanSpec => []TableInv
<1>1. TableInv /\ [ScanNext]_scanVars => TableInv'
  BY StepTypeOK, StepPassed, StepFound DEF TableInv
<1> QED
  BY TableInit, <1>1, PTL DEF ScanSpec

\* The variables keep their types, for every pid space.
THEOREM TableTypeCorrect == ScanSpec => []ScanTypeOK
<1>1. TableInv => ScanTypeOK
  BY DEF TableInv
<1> QED
  BY TableInvariance, <1>1, PTL

\* A process that has the name asked for all through a scan is said to be absent
\* only if its own entry could not be read, or the directory could not: however
\* many processes come, go and rename themselves around it, and however many of
\* the other entries cannot be read.
THEOREM SteadySeen == ScanSpec => []SteadyIsSeen
<1>1. TableInv => SteadyIsSeen
  BY DEF TableInv, PassedIsFound, Faithful, SteadyIsSeen
<1> QED
  BY TableInvariance, <1>1, PTL

\* No process is said to run under a name none had while the scan ran.
THEOREM SeenThere == ScanSpec => []SeenWasThere
<1>1. TableInv => SeenWasThere
  BY DEF TableInv, FoundWasThere, Unmistaken, SeenWasThere
<1> QED
  BY TableInvariance, <1>1, PTL
===============================================================================
