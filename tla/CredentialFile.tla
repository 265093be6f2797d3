----------------------------- MODULE CredentialFile -----------------------------
(***************************************************************************)
(* The credential file: load, save and clear of src/runtime/store.rs, one  *)
(* system call per step, with the discarding DeviceGrant::stored adds      *)
(* (src/enroll.rs).                                                        *)
(*                                                                         *)
(* Pods mount the same volume, so their steps interleave; a pod may be     *)
(* killed between any two of its steps, and the host may lose power.  A    *)
(* file is an inode: names point at it, an open descriptor keeps it, and   *)
(* its content is two halves, so that a write may be caught between them.  *)
(*                                                                         *)
(* Left out: create_dir_all and the mode of the directory, and the text of *)
(* the credential.  A save that fails (a full disk, a directory that       *)
(* cannot be written) leaves what a kill at the same step leaves, and is   *)
(* the action Abort.                                                       *)
(***************************************************************************)
EXTENDS FiniteSets, CredentialName

CONSTANTS Pods,     \* the processes sharing one volume
          Secrets,  \* credentials this build can use
          Alien,    \* content that is not one: an earlier image's credential
          None,     \* no content, no file
          Inodes    \* bound: files that can exist at once

ASSUME ContentAssumption ==
  /\ Alien \notin Secrets
  /\ None \notin Secrets \union {Alien}
  /\ None \notin Inodes

VARIABLES dir,    \* the directory: the inode of each name
          disk,   \* the directory a loss of power brings back
          data,   \* the content of each inode
          synced, \* whether that content is on disk
          mode,   \* the permissions of each inode
          pc,     \* where each pod is
          fd,     \* the inode a saving pod has open
          mine,   \* the credential it saves, the content it read
          answer  \* what its last load told it

vars == <<dir, disk, data, synced, mode, pc, fd, mine, answer>>

Names == {"path", "temp"}
Halves == {"head", "tail"}
Content == [Halves -> Secrets \union {Alien, None}]

Empty == [h \in Halves |-> None]
Whole(c) == [h \in Halves |-> c]

\* "umask": as created; "private": 0600; "exposed": somebody else's doing.
Modes == {"umask", "private", "exposed"}

SaveSteps == {"created", "private", "half", "written", "synced"}

TypeOK ==
  /\ dir \in [Names -> Inodes \union {None}]
  /\ disk \in [Names -> Inodes \union {None}]
  /\ data \in [Inodes -> Content]
  /\ synced \in [Inodes -> BOOLEAN]
  /\ mode \in [Inodes -> Modes]
  /\ pc \in [Pods -> SaveSteps \union {"idle", "read", "discard"}]
  /\ fd \in [Pods -> Inodes \union {None}]
  /\ mine \in [Pods -> Content]
  /\ answer \in [Pods -> Secrets \union {None, "refused", "unusable"}]

\* An empty volume, or one that holds the file of an earlier run.
Init ==
  /\ \/ dir = [n \in Names |-> None] /\ data = [i \in Inodes |-> Empty]
     \/ \E i \in Inodes, c \in Secrets \union {Alien} :
          /\ dir = [n \in Names |-> IF n = "path" THEN i ELSE None]
          /\ data = [j \in Inodes |-> IF j = i THEN Whole(c) ELSE Empty]
  /\ disk = dir
  /\ synced = [i \in Inodes |-> TRUE]
  /\ mode = [i \in Inodes |-> "private"]
  /\ pc = [p \in Pods |-> "idle"]
  /\ fd = [p \in Pods |-> None]
  /\ mine = [p \in Pods |-> Empty]
  /\ answer = [p \in Pods |-> None]

-------------------------------------------------------------------------------
\* An inode no name and no descriptor keeps can be handed out again.
Unused(i) == /\ \A n \in Names : dir[n] # i /\ disk[n] # i
             /\ \A p \in Pods : fd[p] # i

Goto(p, step) == pc' = [pc EXCEPT ![p] = step]

\* The pod is between two calls to the store.
Rest(p) ==
  /\ Goto(p, "idle")
  /\ fd' = [fd EXCEPT ![p] = None]
  /\ mine' = [mine EXCEPT ![p] = Empty]

-------------------------------------------------------------------------------
(***************************************************************************)
(* save                                                                    *)
(***************************************************************************)
\* File::create opens the temp file every pod shares, emptying it if it is
\* there.
Create(p, c) ==
  /\ pc[p] = "idle"
  /\ \E i \in Inodes :
       /\ IF dir["temp"] = None
          THEN /\ Unused(i)
               /\ dir' = [dir EXCEPT !["temp"] = i]
               /\ mode' = [mode EXCEPT ![i] = "umask"]
          ELSE i = dir["temp"] /\ UNCHANGED <<dir, mode>>
       /\ data' = [data EXCEPT ![i] = Empty]
       /\ synced' = [synced EXCEPT ![i] = FALSE]
       /\ fd' = [fd EXCEPT ![p] = i]
  /\ mine' = [mine EXCEPT ![p] = Whole(c)]
  /\ Goto(p, "created")
  /\ UNCHANGED <<disk, answer>>

SetPermissionsLater(p) ==
  /\ pc[p] = "created"
  /\ Goto(p, "private")
  /\ UNCHANGED <<dir, disk, data, synced, mode, fd, mine, answer>>

SetPermissions(p) ==
  /\ pc[p] = "created"
  /\ mode' = [mode EXCEPT ![fd[p]] = "private"]
  /\ Goto(p, "private")
  /\ UNCHANGED <<dir, disk, data, synced, fd, mine, answer>>

Write(p, half) ==
  /\ data' = [data EXCEPT ![fd[p]] = [@ EXCEPT ![half] = mine[p][half]]]
  /\ synced' = [synced EXCEPT ![fd[p]] = FALSE]
  /\ UNCHANGED <<dir, disk, mode, fd, mine, answer>>

\* write_all may take more than one write.
WriteHead(p) == pc[p] = "private" /\ Goto(p, "half") /\ Write(p, "head")
WriteTail(p) == pc[p] = "half" /\ Goto(p, "written") /\ Write(p, "tail")

SyncNothing(p) ==
  /\ pc[p] = "written"
  /\ Goto(p, "synced")
  /\ UNCHANGED <<dir, disk, data, synced, mode, fd, mine, answer>>

SyncAll(p) ==
  /\ pc[p] = "written"
  /\ synced' = [synced EXCEPT ![fd[p]] = TRUE]
  /\ Goto(p, "synced")
  /\ UNCHANGED <<dir, disk, data, mode, fd, mine, answer>>

\* rename goes by name: it moves whatever the temp file is by now.
Rename(p) ==
  /\ pc[p] = "synced"
  /\ dir["temp"] # None
  /\ dir' = [dir EXCEPT !["path"] = dir["temp"], !["temp"] = None]
  /\ Rest(p)
  /\ UNCHANGED <<disk, data, synced, mode, answer>>

-------------------------------------------------------------------------------
(***************************************************************************)
(* load, clear, and what DeviceGrant::stored makes of them                 *)
(***************************************************************************)
\* The end of a load.  Anything but a refusal may be thrown away, so an
\* unusable answer is followed by a clear.
Tell(p, reply) ==
  /\ answer' = [answer EXCEPT ![p] = reply]
  /\ mine' = [mine EXCEPT ![p] = Empty]
  /\ Goto(p, IF reply = "unusable" THEN "discard" ELSE "idle")
  /\ UNCHANGED <<dir, disk, data, synced, mode, fd>>

\* fs::read; a missing file is no credential.
Read(p) ==
  /\ pc[p] = "idle"
  /\ \/ dir["path"] = None /\ Tell(p, None)
     \/ /\ dir["path"] # None
        /\ mine' = [mine EXCEPT ![p] = data[dir["path"]]]
        /\ Goto(p, "read")
        /\ UNCHANGED <<dir, disk, data, synced, mode, fd, answer>>

\* A file that is there and cannot be read.
ReadFails(p) ==
  /\ pc[p] = "idle"
  /\ dir["path"] # None
  /\ Tell(p, "unusable")

ParsedUnchecked(content) == content["head"]

\* serde_json and the version check: only a whole credential of this build.
Parsed(content) ==
  IF \E c \in Secrets : content = Whole(c) THEN content["head"] ELSE "unusable"

CheckModeOfNothing(p) ==
  /\ pc[p] = "read"
  /\ Tell(p, Parsed(mine[p]))

\* fs::metadata looks the name up again; what it says of the file there now
\* decides about the content read before.
CheckMode(p) ==
  /\ pc[p] = "read"
  /\ LET now == dir["path"]
     IN Tell(p, IF now = None THEN "unusable"
                ELSE IF mode[now] # "private" THEN "refused"
                ELSE Parsed(mine[p]))

\* clear: from DeviceGrant::stored, which discards what it cannot use, or
\* from forget_refused, of a credential the server refused.
Clear(p) ==
  /\ pc[p] \in {"discard", "idle"}
  /\ dir' = [dir EXCEPT !["path"] = None]
  /\ Rest(p)
  /\ UNCHANGED <<disk, data, synced, mode, answer>>

-------------------------------------------------------------------------------
(***************************************************************************)
(* The world                                                               *)
(***************************************************************************)
\* SIGKILL, or an error that ends the call where it is: a rename of a temp file
\* that another pod has renamed already is one.
Abort(p) ==
  /\ pc[p] # "idle"
  /\ Rest(p)
  /\ UNCHANGED <<dir, disk, data, synced, mode, answer>>

\* The kernel writes the directory back in its own time.
Flush ==
  /\ disk' = dir
  /\ UNCHANGED <<dir, data, synced, mode, pc, fd, mine, answer>>

\* Names go back to what is on disk, unsynced content to any part of it.
PowerLoss ==
  /\ dir' \in {dir, disk}
  /\ disk' = dir'
  /\ \E lost \in [{i \in Inodes : ~synced[i]} -> SUBSET Halves] :
       data' = [i \in Inodes |->
                  IF synced[i] THEN data[i]
                  ELSE [h \in Halves |-> IF h \in lost[i] THEN None ELSE data[i][h]]]
  /\ synced' = [i \in Inodes |-> TRUE]
  /\ pc' = [p \in Pods |-> "idle"]
  /\ fd' = [p \in Pods |-> None]
  /\ mine' = [p \in Pods |-> Empty]
  /\ UNCHANGED <<mode, answer>>

\* Somebody restores the file from a tarball, or widens its mode.
Expose ==
  /\ dir["path"] # None
  /\ mode' = [mode EXCEPT ![dir["path"]] = "exposed"]
  /\ UNCHANGED <<dir, disk, data, synced, pc, fd, mine, answer>>
-------------------------------------------------------------------------------
PodStep(p) ==
  \/ \E c \in Secrets : Create(p, c)
  \/ SetPermissions(p) \/ WriteHead(p) \/ WriteTail(p) \/ SyncAll(p)
  \/ Rename(p)
  \/ Read(p) \/ ReadFails(p) \/ CheckMode(p)
  \/ Clear(p)
  \/ Abort(p)

Next == (\E p \in Pods : PodStep(p)) \/ Flush \/ PowerLoss \/ Expose

Spec == Init /\ [][Next]_vars

-------------------------------------------------------------------------------
(***************************************************************************)
(* Properties                                                              *)
(***************************************************************************)
Stored(i) == IF i = None THEN None
             ELSE IF \E c \in Secrets : data[i] = Whole(c) THEN data[i]["head"]
             ELSE Alien

\* What the directory names is the register; a kill or a loss of power at any
\* step of a save, and a load in two steps, look atomic to the one pod of a
\* volume.
Register == INSTANCE CredentialRegister WITH
  value   <- Stored(dir["path"]),
  durable <- Stored(disk["path"]),
  exposed <- dir["path"] # None /\ mode[dir["path"]] = "exposed"

ImplementsRegister == Register!Spec

\* Whatever kills the node, and wherever, the credential file is never found
\* half-written: it holds one credential, whole, as somebody saved it.  (save
\* writes a temp file, syncs it and only then renames.)
NeverHalfWritten ==
  dir["path"] # None =>
    \E c \in Secrets \union {Alien} : data[dir["path"]] = Whole(c)

\* No secret is ever in a file that has the mode it was created with: save
\* narrows the mode before it writes, also when several pods share the temp
\* file.
SecretsArePrivate ==
  \A i \in Inodes : data[i] # Empty => mode[i] # "umask"

\* Whatever the store does, it does to a file whose name is the words of the URL
\* and the profile, cut to the limit: what an enrolled node has on disk is found
\* again by any spelling of its URL with the same words.
SlugIsWords == [][Misnamed = {}]_vars

\* "One file per (deployment, profile) so two nodes started against different
\* servers cannot clobber each other": no step of the store is on a file that two
\* nodes have, of those CredentialName says the name tells apart.
FilesAreApart == [][Shared = {}]_vars
===============================================================================
