# A formal model of zyris-docker

`zyris-docker` is a Rust program that runs in a container (or on a host), connects to an Attacca
deployment as a Zyris node, offers it tools (a terminal, files, monitoring), and watches processes,
containers and a Kubernetes cluster: when one of them is down it opens a session with an agent of
the account, which repairs it through those tools.

This directory holds TLA+ modules that model the program, the TLC configurations that check them on
small instances, and proofs, checked by TLAPS, of what holds for every value of the constants.
Paths like `runner.rs:394` are relative to `src/src/` (`src/src/runtime/` for `runner.rs`,
`store.rs` and `credentials.rs`); `README:174` is the repository's own README. `PROJECT.json` maps
every definition that models code to its lines, gives each property a mutation of the model that
breaks it, and lists the hazards the properties are for.

## 1. The system

| Component | Source | State it keeps | Operations |
|---|---|---|---|
| Dial loop | `runtime/runner.rs` | backoff, "one re-enrollment spent", the `live` slot | bearer → dial → serve → wait; forget on refusal; stop |
| Credential store | `runtime/store.rs` | one file, and a temp file beside it | load, save, clear |
| Self-enrollment | `enroll.rs` | the credential held in memory | bearer, stored, enroll, forget_refused |
| Operator-given credentials | `runtime/credentials.rs`, `enroll::source` | a string, or a path | bearer, validate |
| Self-healing watcher | `heal.rs`, hook in `main.rs` | incidents reported, the connection slot | sample, report, report_incident |
| Terminal | `terminal.rs` | per call: a child, three pipes, two buffers | exec |
| Process sampling | `system.rs` | none; reads `/proc` | process_list, process_running, system_snapshot |
| Docker | `docker.rs` | none; runs `docker` | list, info, running, start, restart, logs |
| Kubernetes | `k8s.rs` | none; runs `kubectl` | pods, nodes |
| Monitor capability | `monitor.rs` | none | one handler per sampling function and docker action |
| Path gate, file_io | `gate.rs`, `file_io.rs` | the roots and the denied directories, resolved at the start | gate a path, then stat, list, read, write, edit, mkdir, remove |
| Configuration | `config.rs` | set once from the environment | from_env |
| Startup and shutdown | `main.rs` | the runtime, the watcher's handle | choose a source, run_runtime |

### How they interact

- The **dial loop** asks a `Credentials` source (static, mounted or self-enrolling) for a bearer
  before every dial and tells it of a refusal. The self-enrolling source uses the **store** and the
  deployment's device flow. Several pods of a rolling update may use one store.
- A successful dial runs the `on_connect` **hooks**, each in a task of its own; the one of `main.rs`
  fills the slot the **watcher** reports over. The slot is never emptied.
- The watcher and the **monitor** handlers call the sampling functions, which run `docker` and
  `kubectl` with blocking calls on the worker threads the whole program shares.
- The **path gate** is built from the file roots, the mounted secrets and the directory of the
  credential store; every file operation and the working directory of an exec go through it.
- SIGTERM ends the dial loop, then the watcher is aborted, then the runtime is dropped.

### What is hard, and what would be correct

| Component | Hard behaviour | Correct when |
|---|---|---|
| Dial loop | a stop in every await; refusals, outages and closes in any order; when the backoff resets | no enrollment loop, no refusal unanswered, no connection dropped without a frame, a stop ends it, the backoff law |
| Store | a kill or loss of power at each system call; two pods on one temp file; content read before its mode; names made of URLs | the file is whole, never readable by others, looks like an atomic register, and is one node's |
| Self-enrollment | a kill between grant and save; siblings that save and clear; a code nobody types | what is presented was saved, what is held is what a restart finds, what was refused is not presented again |
| Mounted credential | rotation between read and dial; a file not there yet | a new file is picked up, a revoked credential does not dial for ever |
| Watcher | outages and recoveries around and during a sample; a dead connection in the slot; a sample that half fails | a sample is true of what stayed as it was; one session per outage, told when connected |
| Terminal | pipes that fill on both sides; commands that fork, ignore SIGTERM, or leave the group | whole output up to the cap, a timeout that kills the group and returns |
| Process table | `/proc` changes while it is walked | a process that stays is seen, none is invented |
| Docker | substring filters, unreachable daemon | the watch is about the container asked for, and so is the action |
| Path gate | links, `..`, paths that do not exist yet; a tree that changes between the check and the use; a credential directory made after the gate | an operation comes to a place inside, and nothing inside is refused |
| Runtime | blocking commands on few threads, abort and drop | the watcher is not starved, a stop ends the process |

## 2. The modules

| Module | Models | State ↔ code | Runs |
|---|---|---|---|
| `DialLoop` | `Runner::try_run`, `dial_loop`, `wait_then_widen` | `backoff`, `spent` (`reenrolled_after_refusal`), `live` are the locals and the slot; `pc` is the await the task is at; `conn` is the connection at the deployment | `dial_loop` |
| `CredentialRegister` | what a `CredentialStore` promises: an atomic register | `value`; `durable` is what a loss of power brings back | (abstract) |
| `CredentialFile` | `FileCredentialStore` by system call | `dir`, `data`, `mode`: names, contents and permissions of inodes; `fd`, `mine`: locals of save and load | `credential_file` |
| `CredentialName` | `slugify`, `file_name` | none: functions on texts, against a reference definition | `credential_file` |
| `DeviceGrant` | `enroll.rs` in the dial loop, per pod, over one store | `held`; `code`, `renewals`: locals of `enroll`; `at`: the call a pod is at; `account`: the deployment's view | `device_grant` |
| `MountedCredential` | `enroll::source`, `StaticToken`, `TokenFile`, `validate_credential` in the dial loop | `source`, `bearer`; `mount`: the file; `account`: what is not revoked | `mounted_credential` |
| `SelfHealer` | `SelfHealer::sample`, `run`, `report_incident`, `ConnSlot` | `reported`, `slot`; `todo`: the incidents of a tick still to be reported; `tasks`: the spawned reports | `self_healer`, `self_healer_ignored` |
| `ExecCall` | `GatedTerminal::exec`, `read_capped` and the processes of one call | `kept`, `capped`: the buffers; `pipe`, `inPipe`: what the pipes hold; `group`: the process group | `exec_call`, `exec_call_stdin` |
| `ProcTable` | `process_running`, `process_list`, `parse_proc_stat` against a changing `/proc`, of which any part may be unreadable | `cursor`: how far the directory was walked; `skipped`: what could not be read | `proc_table` |
| `ContainerLookup` | `container_info`, `container_running`, `docker_start`, `docker_restart` | `containers`: the daemon's list, newest first; `reachable`: whether it answers | `sampling` |
| `Sampling` | `SelfHealer::sample`, `pods` and `nodes` of `k8s.rs`, over `ContainerLookup` | `stage`: the call sample is at; `left`: the containers it still asks for; `incidents`: its local; `pods`, `nodes`, `running`: what there is | `sampling` |
| `PathGate` | `PathGate::new`, `check`, `canonicalize_deepest`, `join_like_upstream`, the operations of `GatedFileIo`, `resolve_roots` | `roots`, `deny`: the fields of the gate; `joined`, `depth`: locals of `check`; `place`: what it resolved; `tree`: the file system | `path_gate` |
| `Workers` | `run_runtime`, blocking handlers and samples on worker threads, the stop | `thread`: what each worker waits for; `main`: where `run_runtime` is | `workers` |

`CredentialFile` implements `CredentialRegister`, and `DeviceGrant` builds on that: a call on the
store is one atomic step there. `SelfHealer` takes a sample in one step; `Sampling` makes its calls
one after the other, over `ContainerLookup`, and shows when that is the same. The modules of
the three credential sources contain the part of the dial loop that decides which credential is
presented; `DialLoop` has all of the loop with any source. `DialLoop` takes it for granted that a
free thread polls it; `Workers` says when there is one. `MC*` modules give constants their
values; `CredentialFile` extends `CredentialName`, so that the store and the name of its file are one
component. The theorems are in the `*Proofs` modules: one for each component, except that
`SelfHealerProofs` also has those of `Workers`, on whose threads the watcher runs, and
`SamplingProofs` those of `ProcTable`, whose walk is one of the sample's calls. (`Workers` and
`ProcTable` therefore name their specifications `WorkersSpec` and `ScanSpec`.) `SharedLemmas` has
what several proofs need: induction over a set of numbers, recursion, beginnings of sequences.

### Abstractions

- Time: a sleep may end at any moment, `stable_after` may have passed or not. `jitter` and the
  numbers of `effective_timeout` are left out. The settings themselves are constants.
- Text: a credential, a name or an incident is a model value; a credential file is two halves so
  that a write can be caught between them; output is a count of units. A process name is a sequence
  of characters because `parse_proc_stat` looks for brackets in it; its trimming is left out.
- `ContainerLookup` folds docker's "created" and "dead" into "exited", and "restarting" into where it
  ends: the code only asks whether the state is "running". Containers are told apart by name.
- `SelfHealer` samples in one step. `SampleIsTrue` of `Sampling` is the reason: of what stayed as it
  was during the calls, a sample says what a sample in one step would. There, the walk of `/proc` is
  one call that says something true at some moment of it, or reports a process it could not read
  as down, which is `SteadyIsSeen` and `SeenWasThere` of `ProcTable`. `SelfHealer` leaves a `/proc`
  that cannot be read out: such a process falls and recovers like any other.
- In `SelfHealer` every incident is sampled and marked; the report tasks are followed for processes
  and containers and left out for the cluster, pods and nodes, whose tasks are the same code.
- `CredentialName` keeps of a character whether it is a small letter or digit, a capital, or else.
- `PathGate`: a file is its kind. Resolving a path is one step, as `realpath` is in the code's eyes;
  the loop around it that drops one name after the other is not. Following a path replaces its first
  link by where that leads (`Hop`), `MaxLinks` times at most; a path that still has a link then is
  one the kernel refuses (`Loops`). Other processes make and remove anything at any moment, links
  in the middle of a call included; where links lead is bounded in the run (`Targets`).
- `CredentialFile` leaves out `create_dir_all`. A failing system call of a save leaves what a kill
  there leaves.
- `Workers` looks at one command per handler. The runtime itself is external and modelled from how
  `main.rs` uses it: `block_on` runs the dial loop on the main thread; timers, signals and sockets
  are polled by a worker only while it is parked; dropping the runtime waits for its threads.

## 3. The runs

Each run's invariants and properties are all those of its `.cfg`. Deadlock is checked in
`credential_file`, `self_healer`, `self_healer_ignored`, `proc_table`, `sampling` and `path_gate`;
what the others model ends (the process exits, the call returns), so their runs do not ask for it.

**`dial_loop`**, with the real backoff (1 s doubling to 30 s; six rungs reach the cap and go one
past it). All interleavings of refusals, outages, closes and a stop, unbounded in number: the state
is finite because the loop keeps so little.
`OneForgetPerConnection`, `RefusalIsAnsweredFirst` and `RefusalsEnd` are the three sides of the
re-enrollment rule: never twice, never zero times, and never for ever. `BackoffLaw` says the wait is
the minimum doubled per wait since the last connection that lasted (`Doubled`), up to the cap. `HandedConnectionRetired` and
`StopEnds` are the stop.

**`credential_file`**: one pod (what holds of several is the theorem `Private`; what does not is in
§6), two secrets, three inodes (one per name and one the disk still
holds), with kills, lost directory writes, and torn content. `NeverHalfWritten`,
`SecretsArePrivate`, and `ImplementsRegister`: the refinement of `CredentialRegister`. The same run
computes the file's name for every text of up to five characters, cut at four, and profiles of up to
two, so that a cut falls in a word, on a dash and after one: `SlugIsWords` compares `slugify` with
the words of the text, `FilesAreApart` says when two nodes have two files (§6 says when not).

**`device_grant`**: a volume and two pods, either or both of them there from the start; two
credentials (one on the volume and its replacement), one kill, renewals bounded at 1 since each only
repeats the poll. `HeldIsStored` and `LiveIsKept` relate memory, volume and deployment for a pod that
has been alone on the volume; both are false of siblings (§6). `NeverRetriesRefused` is about any pod
whatever its sibling does. `EnrollmentEnds` is the bound on renewals.

**`mounted_credential`**: two credentials (one in use, one that replaces it) and everything else a
file can be: torn, blank, another kind of secret, missing, unreadable, a directory. The mount may
become any of these at any moment, at the start and later. `MountIsPickedUp`: what is mounted while
the node waits is what it dials with next. `RevokedEnds`: a revoked credential is dialled with, and
connected over, only so often. It does not say that the node ends: one whose file is gone dials no
more and waits (§6).

**`self_healer`**: a process, a pod and a node, two outages of the process, one drop of the
connection (thus two connections). Two outages let an old report meet a new fall; two connections
let a hook be late. `OneSessionPerOutage`, `ConnectedIncidentIsTold`.

**`self_healer_ignored`** (violation): the README's "nothing is silently ignored" (finding, §6).

**`exec_call`**: a command and one process it may fork, pipes of two units, a cap of one, two
units of output per stream: one read may cross the cap, and the rest must be drained. `OutputIsWhole`,
`TimeoutKillsGroup`, `CapHolds` (the timer ends any call whose stdin was taken), and
`EndingCommandReturns` (no deadlock with a command that would end).

**`exec_call_stdin`** (violation): the "hard cap" for a call with more stdin than the pipe holds
(finding, §6).

**`proc_table`**: three pids; a watched name, one that it is a prefix of, one with a bracket. Three
pids are one before, at and after the cursor. The directory may be unreadable at the start or from
some entry on, and so may any stat file. `SteadyIsSeen`: a process that has the name all through,
zombies included, is missed only if its own entry or the directory could not be read.
`SeenWasThere`: nothing is invented.

**`sampling`**: a process, two containers in every order of creation, of which the one that is
watched has a name (`web`) that is part of the other's (`old-web`), a pod and a node, all of which
change between the calls, with a daemon and a cluster that come and go and a `/proc` that cannot be
read. `SampleIsTrue` follows one thing (any of them) through a sample: up all through is no incident,
but for a process that could not be read; down all through is one, or the cluster is, or the nodes
could not be read. A watched name that is part of others is up when every container whose name holds
it runs, down when none does, and in between the sample says what the newest is (§6). Watched
containers are asked one after the other in any order; the run watches one (with two it takes
more than five minutes), the theorem is of any number. `ActionIsSeen`: what an agent restarts, it sees running when it
asks again, for names that are part of no other (§6).

**`path_gate`**: every tree of two names and two levels, with files, directories and links to two
places; the root `/a`, the credential directory `/a/a`, which may not be there yet; nine requests,
relative and absolute, with `..`, through links, to what is missing; other processes that create and
remove files, directories and links at every moment. `StaysInside`: what passes comes to a place under
the root and under nothing denied. `GateIsExact`: if nothing changes, the operation is done where the
path leads, and nothing inside is refused. Both except three cases, which are histories of the module:
the gate was built by a name with a link on it, or its own paths have led elsewhere since
(`~settled`); a link that led nowhere was taken for a file to be made (`linked`); a link was made
while the path was resolved, or on the way to the place before that was opened (`swapped`). None of
the three is there for the proof's sake: without any one of them TLC finds `StaysInside` violated
(§6). Three links may be followed, one for each name of the longest path asked for, and trees in
which they lead in a circle are among those checked.

**`workers`**: two threads, three calls, one of which follows a log, so that a thread can be gone
for good while two calls and the watcher share the other. `NoSampleAfterAbort`, `StopEnds` (if every
followed log ends), `KeepsSampling`.

### Bounds

`RungCap`, `MaxCrashes`, `MaxRenewals`, `MaxOutages`, `MaxDrops`, `MaxOutput`, `MaxPid`,
`MaxContainers`, `Many` (sessions are counted as 0, 1, many), `Depth`, `MaxLinks`, `Targets` and `Requests` of
`PathGate`, `Servers` and `Profiles` of `CredentialName`, and the sets `Inodes`, `Credentials` and
`Calls`. The output cap is the code's own, in units. The theorems of §5 hold
for every value of all of them. (`RungCap` counts waits until the doubled one has reached the cap:
`RungAssumption`. `MaxLinks` is the kernel's own limit.) Two names and two levels in `path_gate` are
enough for a link beside a file, below a directory and in front of a denied one, and for a chain of
two links. Symmetry is used in
`credential_file`, which checks no liveness.

### Fairness

- `DialLoop`: weak fairness of `TakeStop`, `CloseGrace`, `NoticeClosed`, `Wake`: an executor polls a
  future that is ready. A bearer, a dial and a forget may never answer; nothing assumes they do.
- `DeviceGrant`: weak fairness of each pod's own steps and of a code's expiry. Not of the person.
- `MountedCredential`: weak fairness of the node's steps; `SF(Refused)`: a deployment that can be
  reached again and again refuses a revoked credential in the end; `WF(Retire)`: it disconnects
  what it revoked (README:41-43).
- `SelfHealer`: weak fairness of ticks, reports, tasks, reconnecting and hooks. Calls may fail; they
  are not assumed to succeed. Not of outages, recoveries or drops.
- `ExecCall`: weak fairness of the call's own steps. The two liveness properties name what else they
  need: the timer (`TimerRuns`), or a command that makes progress and exits (`CommandEnds`).
- `Workers`: strong fairness of ticks, of running a queued task, and of the two timers of the main
  thread, because a parked worker comes and goes; weak fairness of the end of a command that does
  not follow a log. `docker` and `kubectl` have no timeout in this code: when an API server hangs for
  ever, this does not hold, and the thread counts as one that follows a log.

## 4. What only TLC checks

Liveness, which the proof system cannot reach: `RefusalsEnd` and `StopEnds` of `DialLoop`,
`EnrollmentEnds`, `ConnectedIncidentIsTold`, `CapHolds` and `EndingCommandReturns`,
`MountIsPickedUp` and `RevokedEnds` (the two of `MountedCredential`, which therefore has no theorem),
`StopEnds` and `KeepsSampling` of `Workers`. Every invariant, every action property and the
refinement that a passing run checks is also a theorem.

## 5. What is proved

Every theorem is `Spec => []Inv` or `Spec => [][A]_vars`, from an inductive invariant, or the
refinement, from the same.

| Module | Theorems | Argument |
|---|---|---|
| `DialLoopProofs` | `TypeCorrect`, `BackoffIsLaw`, `OneForget`, `RefusalAnswered`, `HandedIsRetired` | The invariant is `TypeOK` with: the slot holds the connection exactly while the loop is up (`SlotFollowsLoop`); one forget is spent exactly when the flag says so, except while a forget is under way (`ForgetSpends`); the process has a status exactly when it ended (`ExitEnds`). `OneForgetPerConnection` alone is not inductive: from `forgets = 1` and a flag that was given back, a second forget would follow. `BackoffLaw` is inductive once `Doubled` is known to grow: doubling what is capped already and capping it again is capping what is doubled. |
| `CredentialFileProofs` | `TypeCorrect`, `Private`, `NoHalfWrittenCredential`, `FileImplementsRegister`, `SlugsAreWords`, `FilesApart` | `Private` holds for any number of pods: an open descriptor of a pod past `set_permissions` is an inode that is no longer at its creation mode, and truncating keeps a mode. The next two assume one pod: what `path` names is synced, whole and not the inode being written, now and on disk, so a loss of power leaves it whole. The refinement maps a save to its rename, a load to its check of the mode, the rest to stuttering. The two about names are facts of constants, by induction over the characters: what the loop of `slugify` has pushed is the text it would push without a limit (`Uncut`), cut to the limit (`PushedIsCut`); the words are that text without a dash at its end (`WordsFollow`). A name has its last dash between URL and profile when the profile is one word, so it says both (`PartsAreApart`). |
| `ExecCallProofs` | `TypeCorrect`, `WholeOutput`, `GroupIsKilled` | What was written is what is kept, up to the cap, and what the pipe still holds (`KeepsPrefix`); a process that may write keeps the pipe open (`WritersHavePipe`), so an end of file is final (`EofIsFinal`). |
| `DeviceGrantProofs` | `TypeCorrect`, `HeldStored`, `LiveKept`, `NoRetry` | For any number of pods, credentials and kills. What a pod was refused with had been saved (`RefusedWasSaved`), and what it is about to save is new to everybody (`SavingIsNew`), so a refused credential does not come back to the volume of its own accord; it is on the volume only until that process cleared it (`RefusedIsCleared`), and in memory only until it is forgotten. A pod on its own that clears or enrolls clears nothing that works (`ClearedIsDead`): what was issued was saved, lost in a kill, or is in hand (`IssuedIsAccountedFor`). |
| `SelfHealerProofs` | `TypeCorrect`, `OneSession`, `PoolTypeCorrect`, `AbortStops` | For any number of things, outages and connections. An outage that was taken up, by a task or by a session, stays marked while it lasts (`TakenUpIsMarked`), what a tick sets out to report has not been taken up (`TodoIsNew`), so there is one task of an outage at most (`OneTask`), and its step says how many sessions there are (`SessionOfTask`). Of `Workers`: a thread waits exactly for a running task, each on one thread; after the abort the watcher is running its last sample or gone (`AbortIsFinal`). |
| `SamplingProofs` | `SampleTrue`, `ActionSeen`, `TableTypeCorrect`, `SteadySeen`, `SeenThere` | For any number of containers, pods and nodes, and any watched names. The newest of the containers whose names hold the one asked for answers (`AnswerIsOneOf`, from `LeastOf`: such a list has a first), so the answer is "up" or "down" when they agree and either when they do not (`AnswerFits`); that a name part of no other is never in between, and up exactly when its own container runs, is `AloneIsOne`. While a sample runs, what the thing followed is now, it was during the sample (`WasNow`); once it was asked about, the answer fits (`AskedIsTrue`), and no later call speaks of it (`OnlyAsked`). The daemon gives a name once, also when a row goes and those behind it move up (`DockerStepKeeps`), so for `ActionSeen` the question by a name that is part of no other is answered for that container (`AnswerIsOwn`). Of `ProcTable`: a steady pid the cursor has passed was found or could not be read (`PassedIsFound`); what was found had the name (`FoundWasThere`). |
| `PathGateProofs` | `TypeCorrect`, `InsideAlways`, `GateExact` | For every tree, choice of links, root and denied directory, and any `MaxLinks`, with the three exceptions of §3. First, what following does: a place has no link on it unless the chain is too long, following a path in two parts is following it at once, and what is created and removed leaves alone where the paths without it lead. Then the invariant: the gate's lists are where the directories are now, while it is settled (`GateFollows`). While no link has crossed the call: what a turn of `canonicalize_deepest` did not find, and was made since, has no link in it (`MissedIsFresh`), so the tail can be put back without following anything, and the place resolved has no link on its way (`NoLinkOnWay`): others remove links, make none, or make one that is on no way of the call (`OthersTree`). What goes on was allowed and what was refused was not (`Decided`); while nothing changes, it is where the path leads (`LeadsOn`, `RefusedThere`, `DoneThere`). Without `MissedIsFresh` neither property is inductive: a directory made behind the loop's back could lead anywhere. |

The induction theorems of the library take an operator, which the provers cannot instantiate.
`SetInduction` says the same of a set of numbers and is proved from the well-foundedness of `<`;
`Iteration`, proved from it, says that a step given as a function can be repeated, and a recursive
function (`Doubled`, `Pushed`, `Words`, the following of links) is shown equal to the repetition of
its step. That is how a claim about every path, every text and every number of doublings is proved
here without a recursive operator.

The assumptions are those the modules state on their constants (`BackoffAssumption`,
`ContentAssumption`, ...), and one pod where said. TLC evaluates them in each run.

## 6. Where the code and its text part

Two have a run that shows the violation:

- **An incident with nobody to tell is forgotten** (`self_healer_ignored`; `heal.rs:148`). It is
  marked as reported before a connection is asked for. With none, or one that drops before the
  message is sent, no agent hears of it until the thing recovers and falls again. README:174-175
  says the watcher "keeps sampling; an incident that comes back re-opens a session, so nothing is
  silently ignored".
- **stdin is outside the cap** (`exec_call_stdin`; `terminal.rs:210`). It is written before the
  timeout starts and before the output is read. A command that does not read it, or that first fills
  its output, holds the call for ever; `config.rs:32` says "Hard cap on how long any `exec` may run".

The others the models show as behaviours; the properties say what holds in spite of them:

- `runner.rs:390-392`: a stop may find a connection in the slot that closed a moment ago. A stop
  during a handshake the deployment has accepted drops it with no frame (README:179-181 promises
  one); `HandedConnectionRetired` is about connections the loop was handed.
- `store.rs:313-316`: the temp file has one name, so two pods saving at once may rename a mixture of
  their credentials. `NeverHalfWritten` and the refinement are for one pod.
- `store.rs:299`: the mode is looked up by name after the content is read, so a file cleared in
  between is reported unusable, not missing.
- `enroll.rs:227-229`: a sibling that saves between the look and the clear of `forget_refused` loses
  the credential it saved: `HeldIsStored` and `LiveIsKept` are for a pod that was alone.
  `runner.rs:346-347`: an adopted credential that is refused as well ends the process, though
  enrolling could help.
- `store.rs:241` says that two nodes "cannot clobber each other". Two URLs with the same words
  (`a.b` and `a-b`), two long ones that are the same up to the cut, and two of which one has in its
  URL what the other has in its profile (`a/b` with `c`, `a` with `b-c`) share a file:
  `FilesAreApart` is for the others.
- `gate.rs:83-84` says that resolving only the ancestor "still stops symlink escapes". There are three
  it does not stop, and the hypotheses of `StaysInside` and `GateIsExact` name them; TLC finds
  `StaysInside` violated when any one of them is left out. (1) `gate.rs:24-27`: the roots and the
  denied directories are resolved once. One that is missing then is kept by name, and if a link is on
  the way to it, or its path leads elsewhere later, the gate watches the wrong place (`settled`).
  (2) `gate.rs:89-105`: a link whose target does not exist is taken for a file to be created, and a
  write through it creates the target, wherever that is (`linked`). (3) The path is checked and then
  opened by name: a link made in between leads where nobody has looked (`swapped`). Removing a
  directory takes what is below it along, a denied directory included. `gate.rs` itself says that it
  stops accidents, not a determined caller.
- `enroll.rs:173-176`: MAX_RENEWALS + 1 codes are shown before "after MAX_RENEWALS codes".
- README:41-43 and :188 say a revoked node exits 1. One that enrolled itself enrolls again first.
- `credentials.rs:149-150`: a mounted credential replaced and revoked between the read and the dial
  exits 1 though the file holds a good one; README:29-30 says replacing it needs no restart.
  A file that is gone, or is no file any more, is waited for without end (`credentials.rs:180-195`,
  `runner.rs:359-363`): it is an outage of the source, which is what a mount that is not up yet looks
  like. The node then dials with nothing, and neither ends nor connects.
  README:49-50: a leftover `ZYRIS_NODE_TOKEN` ends the process only when no credential is given.
- `heal.rs:48-50`: when `kubectl` fails, the incidents of pods and nodes disappear from the sample
  and are re-armed: a pod that stayed down is reported again afterwards.
- `terminal.rs:250`: a descendant that calls `setsid` survives the timeout: `TimeoutKillsGroup`
  speaks of the group.
- `system.rs:149-154`: when `/proc` cannot be opened the list of processes is empty, and a stat file
  that cannot be read is passed over, so a process that runs is reported down (`process_running` says
  "is alive in this PID namespace"). The watcher then opens a session about it. `SteadyIsSeen` and
  `SampleIsTrue` say that a process that stays is missed in no other way (if its name is read as it is, see next).
- `system.rs:160-163`: the comment says to "split on the *last* `)`", the code splits on the first:
  a name with `)` in it is cut there. Hence the hypotheses of `SteadyIsSeen` and `SeenWasThere`. A
  zombie still counts as running (README:167). A process whose job moves from one pid to another
  during the walk may be missed: steady means one pid.
- `docker.rs:57,71`: docker's name filter matches substrings and ids not at all: the newest match
  answers, where `docker.rs:71` says "Whether the named container is currently running" and
  `config.rs:18` says "names". So `web` may be down while a newer `old-web` hides it, and
  `SampleIsTrue` says what a sample says only while the two agree. An id that `docker restart` takes is
  not found.
- `system.rs:48,50,169-173`: the memory and CPU columns are counted from the wrong field of the stat
  line. This is arithmetic without state and not modelled.
- README:174 and :179-181, `monitor.rs:40`: `docker_logs` with "follow" keeps a thread until the
  container stops. As many as there are threads stop the watcher and the signal handling; even one
  keeps the process from exiting. Hence the hypotheses of `StopEnds` and `KeepsSampling`.

## 7. Plan

In the order of importance. Done: the dial loop and the store with its refinement (first, since a
credential lost or an enrollment loop is the worst that can happen), self-enrollment, the terminal,
the watcher, the mounted credential, the runtime, the process table, docker; then the path gate and
the file operations, the name of the credential file, a whole sample over docker and the cluster,
pods that were not there from the start; proofs of every
safety property the runs check.

Left, modelling: `Node`, the composition of `DialLoop` with an abstract source, and an abstract
promise (a credential is forgotten only after a refusal, never twice in a row) that `DialLoop` and
`DeviceGrant` both implement; the two containers of one watched name that differ, once the code says
which of them it means.

Left, proofs: type correctness of `MountedCredential`, and the refinement of that promise by both
once it is written. Liveness stays with TLC.

## 8. What is not modelled

- `config.rs`, the flags and logging of `main.rs`, where `credential_dir` looks for a directory: read
  once from the environment; the settings are the constants of the modules.
- `system_snapshot` and the columns of `k8s.rs` and `docker.rs` that only an agent reads: arithmetic
  and text without state.
- A call whose future is dropped: whether the library does so on a disconnect is not decided here.
- The Zyris client library and the deployment: not in this repository. What they may answer is an
  input, taken from how the code reads it; such definitions are marked external in the map.

## 9. Running it

```
tlc -config MCDialLoop.cfg MCDialLoop
tlapm DialLoopProofs.tla
```

and likewise for the others. Each run ends within two minutes on two workers. The two violation runs
are expected to fail, with the counterexample described in §6.
