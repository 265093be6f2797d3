-------------------------- MODULE CredentialFileProofs --------------------------
(***************************************************************************)
(* Theorems of CredentialFile, for any number of credentials and files,    *)
(* any alphabet, and any URLs and profiles.                                *)
(***************************************************************************)
EXTENDS CredentialFile, SharedLemmas

-------------------------------------------------------------------------------
(***************************************************************************)
(* Types.                                                                  *)
(***************************************************************************)
\* A whole file is content, and says which credential it is.
LEMMA WholeContent ==
  \A c \in Secrets \union {Alien, None} :
    Whole(c) \in Content /\ Whole(c)["head"] = c /\ Whole(c)["tail"] = c
  BY DEF Whole, Content, Halves

LEMMA EmptyContent == Empty \in Content
  BY DEF Empty, Content, Halves

LEMMA InitTypeOK == Init => TypeOK
<1> SUFFICES ASSUME Init
             PROVE  TypeOK
  OBVIOUS
<1>1. dir \in [Names -> Inodes \union {None}] /\ data \in [Inodes -> Content]
  BY WholeContent, EmptyContent DEF Init, Names
<1> QED
  BY <1>1, EmptyContent DEF Init, TypeOK, Modes, SaveSteps

\* What a load is told is an answer.
LEMMA ParsedType ==
  \A content \in Content : Parsed(content) \in Secrets \union {"unusable"}
<1> SUFFICES ASSUME NEW content \in Content
             PROVE  Parsed(content) \in Secrets \union {"unusable"}
  OBVIOUS
<1>1. CASE \E c \in Secrets : content = Whole(c)
  BY <1>1, WholeContent DEF Parsed
<1>2. CASE ~ \E c \in Secrets : content = Whole(c)
  BY <1>2 DEF Parsed
<1> QED
  BY <1>1, <1>2

LEMMA StepTypeOK == TypeOK /\ [Next]_vars => TypeOK'
<1> SUFFICES ASSUME TypeOK, [Next]_vars
             PROVE  TypeOK'
  OBVIOUS
<1> USE WholeContent, EmptyContent DEF TypeOK, SaveSteps, Modes, Names
<1>1. ASSUME NEW p \in Pods, NEW c \in Secrets, Create(p, c)
      PROVE  TypeOK'
  BY <1>1 DEF Create, Goto
<1>2. ASSUME NEW p \in Pods, SetPermissions(p)
      PROVE  TypeOK'
  BY <1>2 DEF SetPermissions, Goto
<1>3. ASSUME NEW p \in Pods, NEW h \in Halves, Write(p, h),
             pc' \in [Pods -> SaveSteps \union {"idle", "read", "discard"}]
      PROVE  TypeOK'
  <2>1. \A x \in Content : [x EXCEPT ![h] = mine[p][h]] \in Content
    BY DEF Content
  <2>2. data' \in [Inodes -> Content]
    BY <1>3, <2>1 DEF Write
  <2> QED
    BY <1>3, <2>2 DEF Write
<1>4. ASSUME NEW p \in Pods, WriteHead(p) \/ WriteTail(p)
      PROVE  TypeOK'
  <2>1. pc' \in [Pods -> SaveSteps \union {"idle", "read", "discard"}]
    BY <1>4 DEF WriteHead, WriteTail, Goto
  <2> QED
    BY <1>3, <1>4, <2>1 DEF WriteHead, WriteTail, Halves
<1>5. ASSUME NEW p \in Pods, SyncAll(p)
      PROVE  TypeOK'
  BY <1>5 DEF SyncAll, Goto
<1>6. ASSUME NEW p \in Pods, Rename(p)
      PROVE  TypeOK'
  BY <1>6 DEF Rename, Rest, Goto
<1>7. ASSUME NEW p \in Pods,
             NEW reply \in Secrets \union {None, "refused", "unusable"},
             Tell(p, reply)
      PROVE  TypeOK'
  BY <1>7 DEF Tell, Goto
<1>8. ASSUME NEW p \in Pods, Read(p) \/ ReadFails(p)
      PROVE  TypeOK'
  BY <1>7, <1>8 DEF Read, ReadFails, Goto
<1>9. ASSUME NEW p \in Pods, CheckMode(p)
      PROVE  TypeOK'
  BY <1>7, <1>9, ParsedType DEF CheckMode
<1>10. ASSUME NEW p \in Pods, Clear(p) \/ Abort(p)
       PROVE  TypeOK'
  BY <1>10 DEF Clear, Abort, Rest, Goto
<1>11. CASE Flush
  BY <1>11 DEF Flush
<1>12. CASE PowerLoss
  <2>1. data' \in [Inodes -> Content]
    BY <1>12 DEF PowerLoss, Content
  <2> QED
    BY <1>12, <2>1 DEF PowerLoss
<1>13. CASE Expose
  BY <1>13 DEF Expose
<1>14. CASE UNCHANGED vars
  BY <1>14 DEF vars
<1> QED
  BY <1>1, <1>2, <1>4, <1>5, <1>6, <1>8, <1>9, <1>10, <1>11, <1>12, <1>13,
     <1>14 DEF Next, PodStep

\* Every variable keeps its type, for any number of pods.
THEOREM TypeCorrect == Spec => []TypeOK
  BY InitTypeOK, StepTypeOK, PTL DEF Spec

-------------------------------------------------------------------------------
(***************************************************************************)
(* No secret under the mode of a file just created, however many pods      *)
(* share the temp file.                                                    *)
(***************************************************************************)
\* A pod past SetPermissions has a narrowed file open, and keeps it: an inode
\* is created anew only once no descriptor holds it.
Narrowed ==
  \A p \in Pods :
    /\ pc[p] \in SaveSteps => fd[p] \in Inodes
    /\ pc[p] \in SaveSteps \ {"created"} => mode[fd[p]] # "umask"

PrivateInv == TypeOK /\ SecretsArePrivate /\ Narrowed

LEMMA InitPrivate == Init => SecretsArePrivate /\ Narrowed
  BY DEF Init, SecretsArePrivate, Narrowed, SaveSteps

LEMMA StepNarrowed == PrivateInv /\ [Next]_vars => Narrowed'
<1> SUFFICES ASSUME PrivateInv, [Next]_vars
             PROVE  Narrowed'
  OBVIOUS
<1> USE DEF PrivateInv, TypeOK, Narrowed, SaveSteps
<1>1. ASSUME NEW p \in Pods, NEW c \in Secrets, Create(p, c)
      PROVE  Narrowed'
  <2>1. PICK i \in Inodes :
          /\ IF dir["temp"] = None
             THEN Unused(i) /\ mode' = [mode EXCEPT ![i] = "umask"]
             ELSE UNCHANGED mode
          /\ fd' = [fd EXCEPT ![p] = i]
    BY <1>1 DEF Create
  <2>2. pc' = [pc EXCEPT ![p] = "created"]
    BY <1>1 DEF Create, Goto
  <2> QED
    BY <2>1, <2>2 DEF Unused
<1>2. ASSUME NEW p \in Pods, SetPermissions(p)
      PROVE  Narrowed'
  BY <1>2 DEF SetPermissions, Goto
<1>3. ASSUME NEW p \in Pods, WriteHead(p) \/ WriteTail(p) \/ SyncAll(p)
      PROVE  Narrowed'
  BY <1>3 DEF WriteHead, WriteTail, Write, SyncAll, Goto
<1>4. ASSUME NEW p \in Pods,
             Rename(p) \/ Clear(p) \/ Abort(p)
      PROVE  Narrowed'
  BY <1>4 DEF Rename, Clear, Abort, Rest, Goto
<1>5. ASSUME NEW p \in Pods, Read(p) \/ ReadFails(p) \/ CheckMode(p)
      PROVE  Narrowed'
  BY <1>5 DEF Read, ReadFails, CheckMode, Tell, Goto
<1>6. CASE Flush \/ PowerLoss
  BY <1>6 DEF Flush, PowerLoss
<1>7. CASE Expose
  BY <1>7 DEF Expose, Names
<1>8. CASE UNCHANGED vars
  BY <1>8 DEF vars
<1> QED
  BY <1>1, <1>2, <1>3, <1>4, <1>5, <1>6, <1>7, <1>8 DEF Next, PodStep

LEMMA StepPrivate == PrivateInv /\ [Next]_vars => SecretsArePrivate'
<1> SUFFICES ASSUME PrivateInv, [Next]_vars, NEW j \in Inodes, data'[j] # Empty
             PROVE  mode'[j] # "umask"
  BY DEF SecretsArePrivate
<1> USE DEF PrivateInv, TypeOK, Narrowed, SecretsArePrivate, SaveSteps
<1>1. ASSUME NEW p \in Pods, NEW c \in Secrets, Create(p, c)
      PROVE  mode'[j] # "umask"
  <2>1. PICK i \in Inodes :
          /\ IF dir["temp"] = None
             THEN mode' = [mode EXCEPT ![i] = "umask"]
             ELSE UNCHANGED mode
          /\ data' = [data EXCEPT ![i] = Empty]
    BY <1>1 DEF Create
  <2> QED
    BY <2>1
<1>2. ASSUME NEW p \in Pods, SetPermissions(p)
      PROVE  mode'[j] # "umask"
  BY <1>2 DEF SetPermissions
<1>3. ASSUME NEW p \in Pods, WriteHead(p) \/ WriteTail(p)
      PROVE  mode'[j] # "umask"
  <2>1. CASE j = fd[p]
    BY <1>3, <2>1 DEF WriteHead, WriteTail, Write
  <2>2. CASE j # fd[p]
    <3>1. data'[j] = data[j] /\ mode' = mode
      BY <1>3, <2>2 DEF WriteHead, WriteTail, Write
    <3> QED
      BY <3>1
  <2> QED
    BY <2>1, <2>2
<1>4. ASSUME NEW p \in Pods,
             \/ SyncAll(p) \/ Rename(p) \/ Clear(p) \/ Abort(p)
             \/ Read(p) \/ ReadFails(p) \/ CheckMode(p)
      PROVE  mode'[j] # "umask"
  BY <1>4 DEF SyncAll, Rename, Clear, Abort, Read, ReadFails,
     CheckMode, Tell
<1>5. CASE Flush
  BY <1>5 DEF Flush
<1>6. CASE PowerLoss
  <2>1. data[j] # Empty
    <3> SUFFICES ASSUME data[j] = Empty
                 PROVE  data'[j] = Empty
      OBVIOUS
    <3> QED
      BY <1>6 DEF PowerLoss, Empty
  <2> QED
    BY <1>6, <2>1 DEF PowerLoss
<1>7. CASE Expose
  BY <1>7 DEF Expose, Names
<1>8. CASE UNCHANGED vars
  BY <1>8 DEF vars
<1> QED
  BY <1>1, <1>2, <1>3, <1>4, <1>5, <1>6, <1>7, <1>8 DEF Next, PodStep

\* No secret is ever in a file under the mode it was created with, for any
\* number of pods on the volume.
THEOREM Private == Spec => []SecretsArePrivate
<1>1. Init => PrivateInv
  BY InitTypeOK, InitPrivate DEF PrivateInv
<1>2. PrivateInv /\ [Next]_vars => PrivateInv'
  BY StepTypeOK, StepNarrowed, StepPrivate DEF PrivateInv
<1>3. PrivateInv => SecretsArePrivate
  BY DEF PrivateInv
<1> QED
  BY <1>1, <1>2, <1>3, PTL DEF Spec

-------------------------------------------------------------------------------
(***************************************************************************)
(* One pod on a volume: the file is never half-written.                    *)
(***************************************************************************)
Alone == \A p, q \in Pods : p = q

\* The temp file is never the file the credential is in, nor the one a loss
\* of power would bring back.
Linked ==
  /\ dir["temp"] # None => dir["temp"] # dir["path"] /\ dir["temp"] # disk["path"]
  /\ disk["temp"] # None => disk["temp"] # disk["path"]

\* The file a name finds, now or after a loss of power, is whole, on disk and
\* narrowed.
Kept(i) == i # None => /\ synced[i]
                       /\ mode[i] # "umask"
                       /\ \E c \in Secrets \union {Alien} : data[i] = Whole(c)

\* How far the save under way has brought the temp file.
Saving(p) ==
  /\ pc[p] \in SaveSteps => /\ fd[p] \in Inodes
                            /\ fd[p] = dir["temp"]
                            /\ \E c \in Secrets : mine[p] = Whole(c)
  /\ pc[p] \in SaveSteps \ {"created"} => mode[fd[p]] = "private"
  /\ pc[p] = "half" => data[fd[p]]["head"] = mine[p]["head"]
  /\ pc[p] \in {"written", "synced"} => data[fd[p]] = mine[p]
  /\ pc[p] = "synced" => synced[fd[p]]

\* A load holds what the file still says.
Loading(p) == pc[p] = "read" => /\ dir["path"] \in Inodes
                                /\ mine[p] = data[dir["path"]]

AloneInv == /\ TypeOK
            /\ Linked
            /\ Kept(dir["path"]) /\ Kept(disk["path"])
            /\ \A p \in Pods : Saving(p) /\ Loading(p)

LEMMA InitAlone == Init => AloneInv
<1> SUFFICES ASSUME Init
             PROVE  AloneInv
  OBVIOUS
<1>1. TypeOK
  BY InitTypeOK
<1>2. Linked /\ Kept(dir["path"]) /\ Kept(disk["path"])
  BY ContentAssumption DEF Init, Linked, Kept, Names
<1>3. \A p \in Pods : Saving(p) /\ Loading(p)
  BY DEF Init, Saving, Loading, SaveSteps
<1> QED
  BY <1>1, <1>2, <1>3 DEF AloneInv

\* Two halves make a file.
LEMMA TwoHalves ==
  ASSUME NEW x \in Content, NEW y \in Content,
         x["head"] = y["head"], x["tail"] = y["tail"]
  PROVE  x = y
  BY DEF Content, Halves

LEMMA StepAlone == Alone /\ AloneInv /\ [Next]_vars => AloneInv'
<1> SUFFICES ASSUME Alone, AloneInv, [Next]_vars
             PROVE  AloneInv'
  OBVIOUS
<1>0. TypeOK'
  BY StepTypeOK DEF AloneInv
<1> DEFINE Rest1 == /\ Linked'
                    /\ Kept(dir["path"])' /\ Kept(disk["path"])'
                    /\ \A p \in Pods : Saving(p)' /\ Loading(p)'
<1> SUFFICES Rest1
  BY <1>0 DEF AloneInv
<1> USE ContentAssumption
    DEF AloneInv, Alone, TypeOK, Linked, Kept, Saving, Loading, SaveSteps, Names
<1>1. ASSUME NEW p \in Pods, NEW c \in Secrets, Create(p, c)
      PROVE  Rest1
  <2>1. PICK i \in Inodes :
          /\ IF dir["temp"] = None
             THEN /\ Unused(i)
                  /\ dir' = [dir EXCEPT !["temp"] = i]
                  /\ mode' = [mode EXCEPT ![i] = "umask"]
             ELSE i = dir["temp"] /\ UNCHANGED <<dir, mode>>
          /\ data' = [data EXCEPT ![i] = Empty]
          /\ synced' = [synced EXCEPT ![i] = FALSE]
          /\ fd' = [fd EXCEPT ![p] = i]
    BY <1>1 DEF Create
  <2>2. /\ pc' = [pc EXCEPT ![p] = "created"]
        /\ mine' = [mine EXCEPT ![p] = Whole(c)]
        /\ disk' = disk
    BY <1>1 DEF Create, Goto
  <2>3. i # dir["path"] /\ i # disk["path"] /\ dir'["temp"] = i
        /\ dir'["path"] = dir["path"]
    BY <2>1 DEF Unused
  <2> QED
    BY <2>1, <2>2, <2>3
<1>2. ASSUME NEW p \in Pods, SetPermissions(p)
      PROVE  Rest1
  BY <1>2 DEF SetPermissions, Goto
<1>3. ASSUME NEW p \in Pods, WriteHead(p)
      PROVE  Rest1
  <2>1. data'[fd[p]]["head"] = mine[p]["head"]
    BY <1>3 DEF WriteHead, Write, Content, Halves
  <2>2. /\ \A i \in Inodes : i # fd[p] => data'[i] = data[i] /\ synced'[i] = synced[i]
        /\ UNCHANGED <<dir, disk, mode, fd, mine, answer>>
        /\ pc' = [pc EXCEPT ![p] = "half"]
    BY <1>3 DEF WriteHead, Write, Goto
  <2> QED
    BY <1>3, <2>1, <2>2 DEF WriteHead
<1>4. ASSUME NEW p \in Pods, WriteTail(p)
      PROVE  Rest1
  <2>1. data'[fd[p]]["head"] = mine[p]["head"] /\ data'[fd[p]]["tail"] = mine[p]["tail"]
    BY <1>4 DEF WriteTail, Write, Content, Halves
  <2>2. /\ \A i \in Inodes : i # fd[p] => data'[i] = data[i] /\ synced'[i] = synced[i]
        /\ UNCHANGED <<dir, disk, mode, fd, mine, answer>>
        /\ pc' = [pc EXCEPT ![p] = "written"]
    BY <1>4 DEF WriteTail, Write, Goto
  <2>3. data'[fd[p]] = mine[p]
    BY <1>0, <1>4, <2>1, TwoHalves DEF WriteTail
  <2> QED
    BY <1>4, <2>2, <2>3 DEF WriteTail
<1>5. ASSUME NEW p \in Pods, SyncAll(p)
      PROVE  Rest1
  BY <1>5 DEF SyncAll, Goto
<1>6. ASSUME NEW p \in Pods, Rename(p)
      PROVE  Rest1
  BY <1>6 DEF Rename, Rest, Goto
<1>7. ASSUME NEW p \in Pods, Clear(p) \/ Abort(p)
      PROVE  Rest1
  BY <1>7 DEF Clear, Abort, Rest, Goto
<1>8. ASSUME NEW p \in Pods, Read(p) \/ ReadFails(p) \/ CheckMode(p)
      PROVE  Rest1
  BY <1>8 DEF Read, ReadFails, CheckMode, Tell, Goto
<1>9. CASE Flush
  BY <1>9 DEF Flush
<1>10. CASE PowerLoss
  <2>1. \A i \in Inodes : synced[i] => data'[i] = data[i] /\ synced'[i]
    BY <1>10 DEF PowerLoss
  <2>2. /\ dir' \in {dir, disk} /\ disk' = dir' /\ mode' = mode
        /\ \A p \in Pods : pc'[p] = "idle"
    BY <1>10 DEF PowerLoss
  <2> QED
    BY <2>1, <2>2
<1>11. CASE Expose
  BY <1>11 DEF Expose
<1>12. CASE UNCHANGED vars
  BY <1>12 DEF vars
<1> QED
  BY <1>1, <1>2, <1>3, <1>4, <1>5, <1>6, <1>7, <1>8, <1>9, <1>10, <1>11,
     <1>12 DEF Next, PodStep

LEMMA AloneInvariance == Alone => (Spec => []AloneInv)
<1> SUFFICES ASSUME Alone
             PROVE  Spec => []AloneInv
  OBVIOUS
<1>1. AloneInv /\ [Next]_vars => AloneInv'
  BY StepAlone
<1> QED
  BY InitAlone, <1>1, PTL DEF Spec

\* Whatever kills the only pod of a volume, at whatever step, and whatever a
\* loss of power forgets, the credential file holds one whole credential.
THEOREM NoHalfWrittenCredential == Alone => (Spec => []NeverHalfWritten)
<1> SUFFICES ASSUME Alone
             PROVE  Spec => []NeverHalfWritten
  OBVIOUS
<1>1. AloneInv => NeverHalfWritten
  BY DEF AloneInv, Kept, NeverHalfWritten
<1> QED
  BY AloneInvariance, <1>1, PTL

-------------------------------------------------------------------------------
(***************************************************************************)
(* One pod on a volume: the file implements the register.                  *)
(***************************************************************************)
Exposed == dir["path"] # None /\ mode[dir["path"]] = "exposed"

LEMMA StoredWhole ==
  ASSUME NEW i \in Inodes, NEW c \in Secrets, data[i] = Whole(c)
  PROVE  Stored(i) = c
  BY WholeContent, ContentAssumption DEF Stored

LEMMA StoredAlien ==
  ASSUME NEW i \in Inodes, data[i] = Whole(Alien)
  PROVE  Stored(i) = Alien
  BY WholeContent, ContentAssumption DEF Stored

LEMMA RegisterInit == Init => Register!Init
<1> SUFFICES ASSUME Init
             PROVE  Register!Init
  OBVIOUS
<1>1. Stored(dir["path"]) \in Register!Values
  <2>1. CASE dir["path"] = None
    BY <2>1 DEF Stored, Register!Values
  <2>2. CASE dir["path"] # None
    <3>1. TypeOK /\ dir["path"] \in Inodes
      BY <2>2, InitTypeOK DEF TypeOK, Names
    <3>2. PICK c \in Secrets \union {Alien} : data[dir["path"]] = Whole(c)
      BY <2>2 DEF Init, Names
    <3>3. Stored(dir["path"]) = c
      BY <3>1, <3>2, StoredWhole, StoredAlien
    <3> QED
      BY <3>3 DEF Register!Values
  <2> QED
    BY <2>1, <2>2
<1>2. ~Exposed
  BY ContentAssumption DEF Init, Exposed, Names
<1>3. disk = dir /\ answer = [p \in Pods |-> None]
  BY DEF Init
<1> QED
  BY <1>1, <1>2, <1>3 DEF Register!Init, Exposed

\* A step that leaves the named files alone is no step of the register.
LEMMA Stutters ==
  ASSUME AloneInv, answer' = answer, disk' = disk, dir'["path"] = dir["path"],
         \A i \in Inodes : i = dir["path"] \/ i = disk["path"] =>
           data'[i] = data[i] /\ mode'[i] = mode[i]
  PROVE  UNCHANGED Register!vars
<1>1. /\ dir["path"] \in Inodes \union {None}
      /\ disk["path"] \in Inodes \union {None}
  BY DEF AloneInv, TypeOK, Names
<1>2. Stored(dir["path"])' = Stored(dir["path"])
      /\ Stored(disk["path"])' = Stored(disk["path"])
  BY <1>1 DEF Stored
<1>3. Exposed' = Exposed
  BY <1>1 DEF Exposed
<1> QED
  BY <1>2, <1>3 DEF Register!vars, Exposed

\* The temp file is no named file.
LEMMA TempStutters ==
  ASSUME AloneInv, NEW p \in Pods, pc[p] \in SaveSteps,
         UNCHANGED <<dir, disk, answer>>,
         \A i \in Inodes : i # fd[p] => data'[i] = data[i] /\ mode'[i] = mode[i]
  PROVE  UNCHANGED Register!vars
<1>1. fd[p] # dir["path"] /\ fd[p] # disk["path"]
  BY ContentAssumption DEF AloneInv, Saving, Linked
<1> QED
  BY <1>1, Stutters

\* A load that ends is a load of the register.
LEMMA CheckModeLoads ==
  ASSUME AloneInv, NEW p \in Pods, CheckMode(p)
  PROVE  Register!Load(p)
<1>1. /\ dir["path"] \in Inodes
      /\ dir["path"] # None
      /\ mine[p] = data[dir["path"]]
  BY ContentAssumption DEF AloneInv, Loading, CheckMode
<1>2. UNCHANGED <<dir, disk, data, mode>>
  BY DEF CheckMode, Tell
<1>3. /\ Stored(dir["path"])' = Stored(dir["path"])
      /\ Stored(disk["path"])' = Stored(disk["path"])
      /\ Exposed' = Exposed
  BY <1>2 DEF Exposed, Stored
<1>4. Exposed <=> mode[dir["path"]] # "private"
  BY <1>1 DEF AloneInv, TypeOK, Kept, Modes, Exposed
<1>5. answer' = [answer EXCEPT ![p] = Register!Answer(Stored(dir["path"]), Exposed)]
  <2>1. CASE Exposed
    BY <1>1, <1>4, <2>1 DEF CheckMode, Tell, Register!Answer
  <2>2. CASE ~Exposed
    <3>1. answer' = [answer EXCEPT ![p] = Parsed(mine[p])]
      BY <1>1, <1>4, <2>2 DEF CheckMode, Tell
    <3>2. PICK c \in Secrets \union {Alien} : data[dir["path"]] = Whole(c)
      BY <1>1 DEF AloneInv, Kept
    <3>3. CASE c \in Secrets
      <4>1. Parsed(mine[p]) = c
        BY <1>1, <3>2, <3>3, WholeContent DEF Parsed
      <4>2. Stored(dir["path"]) = c /\ c # Alien
        BY <1>1, <3>2, <3>3, StoredWhole, ContentAssumption
      <4> QED
        BY <2>2, <3>1, <4>1, <4>2 DEF Register!Answer
    <3>4. CASE c = Alien
      <4>1. Parsed(mine[p]) = "unusable"
        BY <1>1, <3>2, <3>4, WholeContent, ContentAssumption DEF Parsed
      <4>2. Stored(dir["path"]) = Alien
        BY <1>1, <3>2, <3>4, StoredAlien
      <4> QED
        BY <2>2, <3>1, <4>1, <4>2 DEF Register!Answer
    <3> QED
      BY <3>2, <3>3, <3>4
  <2> QED
    BY <2>1, <2>2
<1> QED
  BY <1>3, <1>5 DEF Register!Load, Exposed

LEMMA RenameSaves ==
  ASSUME AloneInv, NEW p \in Pods, Rename(p)
  PROVE  \E c \in Secrets : Register!Save(c)
<1>1. /\ pc[p] = "synced"
      /\ fd[p] \in Inodes /\ fd[p] = dir["temp"]
      /\ data[fd[p]] = mine[p] /\ mode[fd[p]] = "private"
  BY DEF AloneInv, Saving, SaveSteps, Rename
<1>2. PICK c \in Secrets : mine[p] = Whole(c)
  BY <1>1 DEF AloneInv, Saving, SaveSteps
<1>3. /\ dir'["path"] = fd[p]
      /\ UNCHANGED <<disk, data, mode, answer>>
  BY <1>1 DEF AloneInv, TypeOK, Names, Rename
<1>4. Stored(dir["path"])' = c
  BY <1>1, <1>2, <1>3, WholeContent, ContentAssumption DEF Stored
<1>5. Stored(disk["path"])' = Stored(disk["path"])
  BY <1>3 DEF Stored
<1>6. ~Exposed'
  BY <1>1, <1>3 DEF Exposed
<1> QED
  BY <1>3, <1>4, <1>5, <1>6 DEF Register!Save, Exposed

LEMMA PowerLossLoses ==
  ASSUME AloneInv, PowerLoss
  PROVE  Register!PowerLoss
<1>1. /\ dir["path"] \in Inodes \union {None}
      /\ disk["path"] \in Inodes \union {None}
  BY DEF AloneInv, TypeOK, Names
<1>2. /\ dir["path"] # None => data'[dir["path"]] = data[dir["path"]]
      /\ disk["path"] # None => data'[disk["path"]] = data[disk["path"]]
  BY <1>1 DEF AloneInv, Kept, PowerLoss
<1>3. dir' \in {dir, disk} /\ disk' = dir' /\ UNCHANGED answer
  BY DEF PowerLoss
<1>4. Stored(dir["path"])' \in {Stored(dir["path"]), Stored(disk["path"])}
  BY <1>2, <1>3 DEF Stored
<1>5. Stored(disk["path"])' = Stored(dir["path"])'
  BY <1>3 DEF Stored
<1> QED
  BY <1>3, <1>4, <1>5 DEF Register!PowerLoss

LEMMA RegisterStep ==
  Alone /\ AloneInv /\ [Next]_vars => [Register!Next]_(Register!vars)
<1> SUFFICES ASSUME Alone, AloneInv, [Next]_vars
             PROVE  Register!Next \/ UNCHANGED Register!vars
  OBVIOUS
<1>0. /\ dir["path"] \in Inodes \union {None}
      /\ dir \in [Names -> Inodes \union {None}]
      /\ data \in [Inodes -> Content] /\ mode \in [Inodes -> Modes]
  BY DEF AloneInv, TypeOK, Names
<1>1. ASSUME NEW p \in Pods, NEW c \in Secrets, Create(p, c)
      PROVE  UNCHANGED Register!vars
  <2>1. PICK i \in Inodes :
          /\ IF dir["temp"] = None
             THEN /\ Unused(i)
                  /\ dir' = [dir EXCEPT !["temp"] = i]
                  /\ mode' = [mode EXCEPT ![i] = "umask"]
             ELSE i = dir["temp"] /\ UNCHANGED <<dir, mode>>
          /\ data' = [data EXCEPT ![i] = Empty]
    BY <1>1 DEF Create
  <2>2. i # dir["path"] /\ i # disk["path"] /\ dir'["path"] = dir["path"]
    BY <1>0, <2>1 DEF Unused, AloneInv, Linked, Names
  <2>3. disk' = disk /\ answer' = answer
    BY <1>1 DEF Create
  <2>4. \A j \in Inodes : j = dir["path"] \/ j = disk["path"] =>
          data'[j] = data[j] /\ mode'[j] = mode[j]
    BY <1>0, <2>1, <2>2
  <2> QED
    BY <2>2, <2>3, <2>4, Stutters
<1>2. ASSUME NEW p \in Pods,
             SetPermissions(p) \/ WriteHead(p) \/ WriteTail(p) \/ SyncAll(p)
      PROVE  UNCHANGED Register!vars
  <2>1. pc[p] \in SaveSteps /\ UNCHANGED <<dir, disk, answer>>
    BY <1>2 DEF SetPermissions, WriteHead, WriteTail, Write, SyncAll, SaveSteps
  <2>2. \A i \in Inodes : i # fd[p] => data'[i] = data[i] /\ mode'[i] = mode[i]
    BY <1>0, <1>2 DEF SetPermissions, WriteHead, WriteTail, Write, SyncAll
  <2> QED
    BY <2>1, <2>2, TempStutters
<1>3. ASSUME NEW p \in Pods, Abort(p)
      PROVE  UNCHANGED Register!vars
  BY <1>3, Stutters DEF Abort
<1>4. ASSUME NEW p \in Pods, Rename(p)
      PROVE  Register!Next
  BY <1>4, RenameSaves DEF Register!Next
<1>5. ASSUME NEW p \in Pods, Read(p)
      PROVE  Register!Next \/ UNCHANGED Register!vars
  <2>1. CASE dir["path"] = None
    <3>1. /\ answer' = [answer EXCEPT ![p] = None]
          /\ UNCHANGED <<dir, disk, data, mode>>
      BY <1>5, <2>1 DEF Read, Tell
    <3>2. Stored(dir["path"]) = None /\ ~Exposed /\ None # Alien
      BY <2>1, ContentAssumption DEF Stored, Exposed
    <3>3. Register!Answer(Stored(dir["path"]), Exposed) = None
      BY <3>2 DEF Register!Answer
    <3>4. /\ Stored(dir["path"])' = Stored(dir["path"])
          /\ Stored(disk["path"])' = Stored(disk["path"])
          /\ Exposed' = Exposed
      BY <3>1 DEF Stored, Exposed
    <3>5. Register!Load(p)
      BY <3>1, <3>3, <3>4 DEF Register!Load, Exposed
    <3> QED
      BY <3>5 DEF Register!Next
  <2>2. CASE dir["path"] # None
    BY <1>5, <2>2, Stutters DEF Read
  <2> QED
    BY <2>1, <2>2
<1>6. ASSUME NEW p \in Pods, ReadFails(p)
      PROVE  Register!Next
  <2>1. /\ answer' = [answer EXCEPT ![p] = "unusable"]
        /\ dir["path"] # None
        /\ UNCHANGED <<dir, disk, data, mode>>
    BY <1>6 DEF ReadFails, Tell
  <2>2. PICK c \in Secrets \union {Alien} : data[dir["path"]] = Whole(c)
    BY <2>1 DEF AloneInv, Kept
  <2>3. Stored(dir["path"]) # None
    BY <1>0, <2>1, <2>2, StoredWhole, StoredAlien, ContentAssumption
  <2>4. /\ Stored(dir["path"])' = Stored(dir["path"])
        /\ Stored(disk["path"])' = Stored(disk["path"])
        /\ Exposed' = Exposed
    BY <2>1 DEF Stored, Exposed
  <2>5. Register!LoadFails(p)
    BY <2>1, <2>3, <2>4 DEF Register!LoadFails, Exposed
  <2> QED
    BY <2>5 DEF Register!Next
<1>7. ASSUME NEW p \in Pods, CheckMode(p)
      PROVE  Register!Next
  BY <1>7, CheckModeLoads DEF Register!Next
<1>8. ASSUME NEW p \in Pods, Clear(p)
      PROVE  Register!Next
  <2>1. dir'["path"] = None /\ UNCHANGED <<disk, data, mode, answer>>
    BY <1>0, <1>8 DEF Clear, Names
  <2>2. Stored(dir["path"])' = None /\ ~Exposed'
    BY <2>1 DEF Stored, Exposed
  <2>3. Stored(disk["path"])' = Stored(disk["path"])
    BY <2>1 DEF Stored
  <2>4. Register!Clear
    BY <2>1, <2>2, <2>3 DEF Register!Clear, Exposed
  <2> QED
    BY <2>4 DEF Register!Next
<1>9. CASE Flush
  <2>1. disk' = dir /\ UNCHANGED <<dir, data, mode, answer>>
    BY <1>9 DEF Flush
  <2>2. /\ Stored(disk["path"])' = Stored(dir["path"])
        /\ Stored(dir["path"])' = Stored(dir["path"])
        /\ Exposed' = Exposed
    BY <2>1 DEF Stored, Exposed
  <2>3. Register!Flush
    BY <2>1, <2>2 DEF Register!Flush, Exposed
  <2> QED
    BY <2>3 DEF Register!Next
<1>10. CASE PowerLoss
  BY <1>10, PowerLossLoses DEF Register!Next
<1>11. CASE Expose
  <2>1. /\ dir["path"] # None
        /\ mode' = [mode EXCEPT ![dir["path"]] = "exposed"]
        /\ UNCHANGED <<dir, disk, data, answer>>
    BY <1>11 DEF Expose
  <2>2. PICK c \in Secrets \union {Alien} : data[dir["path"]] = Whole(c)
    BY <2>1 DEF AloneInv, Kept
  <2>3. Stored(dir["path"]) # None
    BY <1>0, <2>1, <2>2, StoredWhole, StoredAlien, ContentAssumption
  <2>4. /\ Stored(dir["path"])' = Stored(dir["path"])
        /\ Stored(disk["path"])' = Stored(disk["path"])
        /\ Exposed'
    BY <1>0, <2>1 DEF Stored, Exposed
  <2>5. Register!Expose
    BY <2>1, <2>3, <2>4 DEF Register!Expose, Exposed
  <2> QED
    BY <2>5 DEF Register!Next
<1>12. CASE UNCHANGED vars
  BY <1>12, Stutters DEF vars
<1> QED
  BY <1>1, <1>2, <1>3, <1>4, <1>5, <1>6, <1>7, <1>8, <1>9, <1>10, <1>11,
     <1>12 DEF Next, PodStep

\* To the one pod of a volume the file is a register: kills, failed writes,
\* loads in two steps and loss of power show it nothing a register would not.
THEOREM FileImplementsRegister == Alone => (Spec => ImplementsRegister)
<1> SUFFICES ASSUME Alone
             PROVE  Spec => ImplementsRegister
  OBVIOUS
<1>1. AloneInv /\ [Next]_vars => [Register!Next]_(Register!vars)
  BY RegisterStep
<1> QED
  BY AloneInvariance, RegisterInit, <1>1, PTL
     DEF Spec, ImplementsRegister, Register!Spec
-------------------------------------------------------------------------------
(***************************************************************************)
(* The names of the files.                                                 *)
(*                                                                         *)
(* slugify is compared with the words of the text by way of what the loop  *)
(* would push without a limit, its uncut text: what is pushed is the uncut *)
(* text cut to the limit, and the words are the uncut text without a dash  *)
(* at its end.                                                             *)
(***************************************************************************)
Signs == Plain \union {"-"}

\* Of a text, whether a word goes on or begins after the i-th character.
Later(text, i) == \E j \in DOMAIN text : j > i /\ InWord(text, j)

LEMMA TextIs ==
  ASSUME NEW text \in Texts
  PROVE  /\ Len(text) \in Nat /\ DOMAIN text = 1..Len(text)
         /\ \A i \in DOMAIN text : text[i] \in Plain \union Capital \union Other
BY LenProperties, ElementOfSeq DEF Texts

\* The letters of a text, made small, are no dash.
LEMMA SmallIs ==
  ASSUME NEW text \in Texts, NEW i, InWord(text, i)
  PROVE  Small(text[i]) \in Signs /\ Small(text[i]) # "-"
<1>1. text[i] \in Plain \union Capital
  BY DEF InWord, IsLetter
<1> QED
  BY <1>1, NameAssumption DEF Small, Signs

LEMMA PushType ==
  ASSUME NEW text \in Texts, NEW i \in DOMAIN text, NEW out \in Seq(Signs)
  PROVE  Push(out, text[i]) \in Seq(Signs)
<1>1. "-" \in Signs
  BY DEF Signs
<1>2. Append(out, "-") \in Seq(Signs)
  BY <1>1, AppendProperties
<1>3. ASSUME IsLetter(text[i]) PROVE Append(out, Small(text[i])) \in Seq(Signs)
  <2>1. Small(text[i]) \in Signs
    BY <1>3, SmallIs DEF InWord
  <2> QED
    BY <2>1, AppendProperties
<1> QED
  BY <1>2, <1>3 DEF Push, PushLetter

\* What is out after each character.
LEMMA PushedIs ==
  ASSUME NEW text \in Texts
  PROVE  \E out \in [0..Len(text) -> Seq(Signs)] :
           /\ out[0] = <<>>
           /\ \A n \in 1..Len(text) : out[n] = Push(out[n - 1], text[n])
           /\ Pushed(text) = out[Len(text)]
<1> DEFINE last == Len(text)
           P == Seq(Signs)
           step == [n \in Nat |-> [out \in P |->
                      IF n \in 1..last THEN Push(out, text[n]) ELSE out]]
           Right(F) == F = [n \in 0..last |->
                              IF n = 0 THEN <<>> ELSE Push(F[n - 1], text[n])]
           out == CHOOSE F : Right(F)
<1>1. last \in Nat /\ DOMAIN text = 1..last /\ <<>> \in P
  BY TextIs
<1>2. step \in [Nat -> [P -> P]]
  BY <1>1, PushType
<1>3. PICK f \in [0..last -> P] :
        f[0] = <<>> /\ \A n \in 1..last : f[n] = step[n][f[n - 1]]
  <2>1. Iterates(P, <<>>, step, last) # {}
    <3> HIDE DEF step, last, P
    <3> QED
      BY <1>1, <1>2, Iteration
  <2> QED
    BY <2>1 DEF Iterates
<1>4. ASSUME NEW n \in 1..last PROVE f[n] = Push(f[n - 1], text[n])
  <2>1. f[n - 1] \in P /\ n \in Nat
    BY <1>1, <1>3
  <2> QED
    BY <1>3, <2>1
<1>5. Right(f)
  BY <1>1, <1>3, <1>4
<1>6. Right(out)
  <2> HIDE DEF Right
  <2> QED
    BY <1>5
<1>7. Pushed(text) = out[last]
  BY DEF Pushed
<1>8. ASSUME NEW n \in 0..last
      PROVE  out[n] = IF n = 0 THEN <<>> ELSE Push(out[n - 1], text[n])
  <2> DEFINE body == [k \in 0..last |-> IF k = 0 THEN <<>> ELSE Push(out[k - 1], text[k])]
  <2>1. out = body
    BY <1>6
  <2>2. body[n] = IF n = 0 THEN <<>> ELSE Push(out[n - 1], text[n])
    OBVIOUS
  <2> HIDE DEF out, body
  <2> QED
    BY <2>1, <2>2
<1> HIDE DEF out
<1>9. out[0] = <<>>
  BY <1>1, <1>8
<1>10. ASSUME NEW n \in 1..last, out[n - 1] \in P PROVE out[n] = step[n][out[n - 1]]
  <2>1. n \in 0..last /\ n # 0 /\ n \in Nat
    BY <1>1
  <2> QED
    BY <1>8, <1>10, <2>1
<1>11. \A n \in 0..last : out[n] = f[n]
  <2>1. f \in Iterates(P, <<>>, step, last)
    BY <1>3 DEF Iterates
  <2> HIDE DEF step, last, P
  <2> QED
    BY <1>1, <1>9, <1>10, <2>1, Sole
<1>12. last \in 0..last
  BY <1>1
<1> QED
  BY <1>3, <1>4, <1>7, <1>11, <1>12

\* The characters shown, up to each.
LEMMA WordsAre ==
  ASSUME NEW text \in Texts
  PROVE  \E words \in [0..Len(text) -> Seq(Signs)] :
           /\ words[0] = <<>>
           /\ \A n \in 1..Len(text) :
                words[n] = IF Shown(text, n) THEN Append(words[n - 1], Sign(text, n))
                           ELSE words[n - 1]
           /\ Words(text) = words[Len(text)]
<1> DEFINE last == Len(text)
           P == Seq(Signs)
           Grown(words, n) == IF Shown(text, n) THEN Append(words, Sign(text, n)) ELSE words
           step == [n \in Nat |-> [words \in P |->
                      IF n \in 1..last THEN Grown(words, n) ELSE words]]
           Right(F) == F = [n \in 0..last |->
                              IF n = 0 THEN <<>> ELSE Grown(F[n - 1], n)]
           out == CHOOSE F : Right(F)
<1>1. last \in Nat /\ DOMAIN text = 1..last /\ <<>> \in P
  BY TextIs
<1>2. step \in [Nat -> [P -> P]]
  <2>1. ASSUME NEW words \in P, NEW n \in 1..last PROVE Grown(words, n) \in P
    <3>1. Sign(text, n) \in Signs
      BY SmallIs DEF Sign, Signs
    <3> QED
      BY <3>1, AppendProperties
  <2> HIDE DEF Grown
  <2> QED
    BY <2>1
<1>3. PICK f \in [0..last -> P] :
        f[0] = <<>> /\ \A n \in 1..last : f[n] = step[n][f[n - 1]]
  <2>1. Iterates(P, <<>>, step, last) # {}
    <3> HIDE DEF step, last, P
    <3> QED
      BY <1>1, <1>2, Iteration
  <2> QED
    BY <2>1 DEF Iterates
<1>4. ASSUME NEW n \in 1..last PROVE f[n] = Grown(f[n - 1], n)
  <2>1. f[n - 1] \in P /\ n \in Nat
    BY <1>1, <1>3
  <2> HIDE DEF Grown
  <2> QED
    BY <1>3, <2>1
<1>5. Right(f)
  <2> HIDE DEF Grown
  <2> QED
    BY <1>1, <1>3, <1>4
<1>6. Right(out)
  <2> HIDE DEF Right
  <2> QED
    BY <1>5
<1>7. Words(text) = out[last]
  BY DEF Words
<1>8. ASSUME NEW n \in 0..last
      PROVE  out[n] = IF n = 0 THEN <<>> ELSE Grown(out[n - 1], n)
  <2> DEFINE body == [k \in 0..last |-> IF k = 0 THEN <<>> ELSE Grown(out[k - 1], k)]
  <2>1. out = body
    BY <1>6
  <2>2. body[n] = IF n = 0 THEN <<>> ELSE Grown(out[n - 1], n)
    <3> HIDE DEF Grown, out
    <3> QED
      OBVIOUS
  <2> HIDE DEF out, body, Grown
  <2> QED
    BY <2>1, <2>2
<1> HIDE DEF out
<1>9. out[0] = <<>>
  BY <1>1, <1>8
<1>10. ASSUME NEW n \in 1..last, out[n - 1] \in P PROVE out[n] = step[n][out[n - 1]]
  <2>1. n \in 0..last /\ n # 0 /\ n \in Nat
    BY <1>1
  <2> HIDE DEF Grown
  <2> QED
    BY <1>8, <1>10, <2>1
<1>11. \A n \in 0..last : out[n] = f[n]
  <2>1. f \in Iterates(P, <<>>, step, last)
    BY <1>3 DEF Iterates
  <2> HIDE DEF step, last, P
  <2> QED
    BY <1>1, <1>9, <1>10, <2>1, Sole
<1>12. last \in 0..last
  BY <1>1
<1> QED
  BY <1>3, <1>4, <1>7, <1>11, <1>12

\* The characters shown of a text that goes on: the letters, and a dash after
\* every word, up to each character.  (Nothing is cut, and the last dash stays.)
Uncut(text, u) ==
  /\ u \in [0..Len(text) -> Seq(Signs)]
  /\ u[0] = <<>>
  /\ \A n \in 1..Len(text) :
       u[n] = IF InWord(text, n) THEN Append(u[n - 1], Small(text[n]))
              ELSE IF InWord(text, n - 1) THEN Append(u[n - 1], "-")
              ELSE u[n - 1]

LEMMA UncutIs == ASSUME NEW text \in Texts PROVE \E u : Uncut(text, u)
<1> DEFINE last == Len(text)
           P == Seq(Signs)
           step == [n \in Nat |-> [out \in P |->
                      IF InWord(text, n) THEN Append(out, Small(text[n]))
                      ELSE IF InWord(text, n - 1) THEN Append(out, "-")
                      ELSE out]]
<1>1. last \in Nat /\ <<>> \in P
  BY TextIs
<1>2. step \in [Nat -> [P -> P]]
  <2>1. ASSUME NEW out \in P, NEW n \in Nat
        PROVE  /\ InWord(text, n) => Append(out, Small(text[n])) \in P
               /\ Append(out, "-") \in P
    <3>1. "-" \in Signs
      BY DEF Signs
    <3> QED
      BY <3>1, SmallIs, AppendProperties
  <2> QED
    BY <2>1
<1>3. PICK u \in [0..last -> P] :
        u[0] = <<>> /\ \A n \in 1..last : u[n] = step[n][u[n - 1]]
  <2>1. Iterates(P, <<>>, step, last) # {}
    <3> HIDE DEF step, last, P
    <3> QED
      BY <1>1, <1>2, Iteration
  <2> QED
    BY <2>1 DEF Iterates
<1>4. ASSUME NEW n \in 1..last
      PROVE  u[n] = IF InWord(text, n) THEN Append(u[n - 1], Small(text[n]))
                    ELSE IF InWord(text, n - 1) THEN Append(u[n - 1], "-")
                    ELSE u[n - 1]
  <2>1. u[n - 1] \in P /\ n \in Nat
    BY <1>1, <1>3
  <2> QED
    BY <1>3, <2>1
<1>5. Uncut(text, u)
  BY <1>3, <1>4 DEF Uncut
<1> QED
  BY <1>5

\* Nothing begins with a dash, and what ends with one is what is not in a word.
Ends(out, inWord) ==
  /\ inWord => out # <<>> /\ out[Len(out)] # "-"
  /\ ~inWord /\ out # <<>> => out[Len(out)] = "-"
  /\ out # <<>> => out[1] # "-"

LEMMA UncutEnds ==
  ASSUME NEW text \in Texts, NEW u, Uncut(text, u)
  PROVE  \A n \in 0..Len(text) : Ends(u[n], InWord(text, n))
<1> DEFINE last == Len(text)
           S == {n \in Nat : n <= last => Ends(u[n], InWord(text, n))}
<1>1. last \in Nat /\ DOMAIN text = 1..last
  BY TextIs
<1>2. 0 \in S
  <2>1. u[0] = <<>> /\ ~InWord(text, 0)
    BY <1>1 DEF Uncut, InWord
  <2> QED
    BY <2>1 DEF Ends
<1>3. ASSUME NEW n \in Nat, n \in S PROVE n + 1 \in S
  <2>1. CASE n + 1 <= last
    <3> DEFINE out == u[n]
    <3>1. /\ n + 1 \in 1..last /\ (n + 1) - 1 = n /\ n \in 0..last
          /\ out \in Seq(Signs) /\ Len(out) \in Nat /\ (out # <<>> => Len(out) >= 1)
          /\ Ends(out, InWord(text, n))
      BY <1>1, <1>3, <2>1, EmptySeq DEF Uncut
    <3>2. u[n + 1] = IF InWord(text, n + 1) THEN Append(out, Small(text[n + 1]))
                     ELSE IF InWord(text, n) THEN Append(out, "-")
                     ELSE out
      BY <3>1 DEF Uncut
    <3> HIDE DEF out
    <3>3. CASE InWord(text, n + 1)
      <4>1. Small(text[n + 1]) \in Signs /\ Small(text[n + 1]) # "-"
        BY <3>3, SmallIs
      <4> DEFINE more == Append(out, Small(text[n + 1]))
      <4>2. /\ more # <<>> /\ Len(more) = Len(out) + 1
            /\ \A i \in 1..Len(out) : more[i] = out[i]
            /\ more[Len(out) + 1] = Small(text[n + 1])
        BY <3>1, <4>1, AppendProperties
      <4>3. out = <<>> => Len(out) = 0
        OBVIOUS
      <4>4. more[1] # "-"
        BY <3>1, <4>1, <4>2, <4>3 DEF Ends
      <4>5. u[n + 1] = more
        BY <3>2, <3>3
      <4> HIDE DEF more
      <4>6. Ends(more, InWord(text, n + 1))
        BY <3>3, <4>1, <4>2, <4>4 DEF Ends
      <4> QED
        BY <4>5, <4>6
    <3>4. CASE ~InWord(text, n + 1) /\ InWord(text, n)
      <4> DEFINE more == Append(out, "-")
      <4>1. "-" \in Signs
        BY DEF Signs
      <4>2. /\ more # <<>> /\ Len(more) = Len(out) + 1
            /\ \A i \in 1..Len(out) : more[i] = out[i]
            /\ more[Len(out) + 1] = "-"
        BY <3>1, <4>1, AppendProperties
      <4>3. more[1] # "-"
        BY <3>1, <3>4, <4>2 DEF Ends
      <4>4. u[n + 1] = more
        BY <3>2, <3>4
      <4> HIDE DEF more
      <4>5. Ends(more, InWord(text, n + 1))
        BY <3>4, <4>2, <4>3 DEF Ends
      <4> QED
        BY <4>4, <4>5
    <3>5. CASE ~InWord(text, n + 1) /\ ~InWord(text, n)
      <4>1. u[n + 1] = out
        BY <3>2, <3>5
      <4> QED
        BY <3>1, <3>5, <4>1 DEF Ends
    <3> QED
      BY <3>3, <3>4, <3>5
  <2> QED
    BY <2>1
<1>4. \A n \in Nat : n \in S
  <2> HIDE DEF S
  <2> QED
    BY <1>2, <1>3, SetInduction
<1> QED
  BY <1>1, <1>4

\* A beginning, up to the limit.
CutOf(out, whole) ==
  /\ Len(out) = IF Len(whole) < Limit THEN Len(whole) ELSE Limit
  /\ \A i \in 1..Len(out) : out[i] = whole[i]

\* Appending to what is whole so far, and to what is cut already.
LEMMA CutGrows ==
  ASSUME NEW out \in Seq(Signs), NEW whole \in Seq(Signs), CutOf(out, whole), NEW c \in Signs
  PROVE  /\ Len(out) < Limit => out = whole /\ CutOf(Append(out, c), Append(whole, c))
         /\ ~(Len(out) < Limit) => CutOf(out, Append(whole, c))
<1> DEFINE more == Append(out, c)
           all  == Append(whole, c)
<1>1. /\ Len(out) \in Nat /\ Len(whole) \in Nat /\ Limit \in Nat \ {0}
      /\ Len(more) = Len(out) + 1 /\ more[Len(out) + 1] = c
      /\ \A i \in 1..Len(out) : more[i] = out[i]
      /\ Len(all) = Len(whole) + 1 /\ all[Len(whole) + 1] = c
      /\ \A i \in 1..Len(whole) : all[i] = whole[i]
  BY AppendProperties, LenProperties, NameAssumption
<1>2. Len(out) < Limit => out = whole
  <2> SUFFICES ASSUME Len(out) < Limit PROVE out = whole
    OBVIOUS
  <2>1. Len(out) = Len(whole) /\ \A i \in 1..Len(out) : out[i] = whole[i]
    BY <1>1 DEF CutOf
  <2> QED
    BY <2>1, SeqEqual
<1> HIDE DEF more, all
<1>3. ASSUME Len(out) < Limit PROVE CutOf(more, all)
  <2>1. Len(out) = Len(whole) /\ Len(more) = Len(all) /\ Len(all) <= Limit
    BY <1>1, <1>2, <1>3
  <2>2. ASSUME NEW i \in 1..Len(more) PROVE more[i] = all[i]
    <3>1. CASE i \in 1..Len(out)
      BY <1>1, <1>2, <1>3, <2>1, <3>1
    <3>2. CASE i = Len(out) + 1
      BY <1>1, <2>1, <3>2
    <3> QED
      BY <1>1, <3>1, <3>2
  <2> QED
    BY <1>1, <2>1, <2>2 DEF CutOf
<1>4. ASSUME ~(Len(out) < Limit) PROVE CutOf(out, all)
  <2>1. Len(out) = Limit /\ Len(out) <= Len(whole)
    BY <1>1, <1>4 DEF CutOf
  <2> QED
    BY <1>1, <2>1 DEF CutOf
<1> QED
  BY <1>2, <1>3, <1>4 DEF more, all

\* One turn of the loop, on what is cut.
LEMMA PushCuts ==
  ASSUME NEW text \in Texts, NEW n \in 1..Len(text),
         NEW out \in Seq(Signs), NEW whole \in Seq(Signs), NEW more \in Seq(Signs),
         CutOf(out, whole), Ends(whole, InWord(text, n - 1)),
         more = IF InWord(text, n) THEN Append(whole, Small(text[n]))
                ELSE IF InWord(text, n - 1) THEN Append(whole, "-")
                ELSE whole
  PROVE  CutOf(Push(out, text[n]), more)
<1>1. DOMAIN text = 1..Len(text) /\ Len(out) \in Nat /\ "-" \in Signs
  BY TextIs DEF Signs
<1>2. InWord(text, n) <=> IsLetter(text[n])
  BY <1>1 DEF InWord
<1>3. CASE InWord(text, n)
  <2>1. Small(text[n]) \in Signs
    BY <1>3, SmallIs
  <2>2. Push(out, text[n]) = IF Len(out) < Limit THEN Append(out, Small(text[n])) ELSE out
    BY <1>2, <1>3 DEF Push, PushLetter
  <2>3. more = Append(whole, Small(text[n]))
    BY <1>3
  <2> QED
    BY <2>1, <2>2, <2>3, CutGrows
<1>4. CASE ~InWord(text, n)
  <2>1. Push(out, text[n]) = IF Len(out) < Limit /\ out # <<>> /\ Last(out) # "-"
                             THEN Append(out, "-") ELSE out
    BY <1>2, <1>4 DEF Push, PushLetter
  <2>2. more = IF InWord(text, n - 1) THEN Append(whole, "-") ELSE whole
    BY <1>4
  <2>3. CASE ~(Len(out) < Limit)
    <3>1. Push(out, text[n]) = out
      BY <2>1, <2>3
    <3> QED
      BY <1>1, <2>2, <2>3, <3>1, CutGrows
  <2>4. CASE Len(out) < Limit
    <3>1. out = whole
      BY <1>1, <2>4, CutGrows
    <3>2. Last(out) = out[Len(out)]
      BY DEF Last
    <3>3. InWord(text, n - 1) <=> out # <<>> /\ Last(out) # "-"
      BY <3>1, <3>2 DEF Ends
    <3> QED
      BY <1>1, <2>1, <2>2, <2>4, <3>3, CutGrows
  <2> QED
    BY <2>3, <2>4
<1> QED
  BY <1>3, <1>4

LEMMA PushedIsCut ==
  ASSUME NEW text \in Texts, NEW u, Uncut(text, u)
  PROVE  Pushed(text) \in Seq(Signs) /\ CutOf(Pushed(text), u[Len(text)])
<1> DEFINE last == Len(text)
<1>1. last \in Nat
  BY TextIs
<1>2. PICK out \in [0..last -> Seq(Signs)] :
           /\ out[0] = <<>>
           /\ \A n \in 1..last : out[n] = Push(out[n - 1], text[n])
           /\ Pushed(text) = out[last]
  BY PushedIs
<1> DEFINE S == {n \in Nat : n <= last => CutOf(out[n], u[n])}
<1>3. 0 \in S
  <2>1. out[0] = <<>> /\ u[0] = <<>> /\ Len(<<>>) = 0 /\ Limit \in Nat \ {0}
    BY <1>2, NameAssumption DEF Uncut
  <2> QED
    BY <2>1 DEF CutOf
<1>4. ASSUME NEW n \in Nat, n \in S PROVE n + 1 \in S
  <2>1. CASE n + 1 <= last
    <3>1. /\ n + 1 \in 1..last /\ (n + 1) - 1 = n /\ n \in 0..last /\ n + 1 \in 0..last
          /\ CutOf(out[n], u[n])
      BY <1>1, <1>4, <2>1
    <3>2. out[n] \in Seq(Signs) /\ u[n] \in Seq(Signs) /\ u[n + 1] \in Seq(Signs)
      BY <1>2, <3>1 DEF Uncut
    <3>3. out[n + 1] = Push(out[n], text[n + 1])
      BY <1>2, <3>1
    <3>4. u[n + 1] = IF InWord(text, n + 1) THEN Append(u[n], Small(text[n + 1]))
                     ELSE IF InWord(text, n) THEN Append(u[n], "-")
                     ELSE u[n]
      BY <3>1 DEF Uncut
    <3>5. Ends(u[n], InWord(text, n))
      BY <3>1, UncutEnds
    <3>6. CutOf(Push(out[n], text[n + 1]), u[n + 1])
      <4> DEFINE m == n + 1
      <4>1. m \in 1..Len(text) /\ m - 1 = n
        BY <3>1
      <4> HIDE DEF m
      <4>2. u[m] = IF InWord(text, m) THEN Append(u[n], Small(text[m]))
                   ELSE IF InWord(text, m - 1) THEN Append(u[n], "-")
                   ELSE u[n]
        BY <3>4, <4>1 DEF m
      <4>3. Ends(u[n], InWord(text, m - 1)) /\ u[m] \in Seq(Signs)
        BY <3>2, <3>5, <4>1 DEF m
      <4>4. CutOf(Push(out[n], text[m]), u[m])
        BY <3>1, <3>2, <4>1, <4>2, <4>3, PushCuts
      <4> QED
        BY <4>4 DEF m
    <3> QED
      BY <3>3, <3>6
  <2> QED
    BY <2>1
<1>5. \A n \in Nat : n \in S
  <2> HIDE DEF S
  <2> QED
    BY <1>3, <1>4, SetInduction
<1>6. CutOf(out[last], u[last]) /\ out[last] \in Seq(Signs)
  BY <1>1, <1>2, <1>5
<1> QED
  BY <1>2, <1>6

\* What is shown of a text is what is out, but for a dash no word follows.
Follows(words, out, text, n) ==
  IF InWord(text, n) \/ Later(text, n) THEN words = out
  ELSE \/ words = <<>> /\ out = <<>>
       \/ words # <<>> /\ words[Len(words)] # "-" /\ out = Append(words, "-")

LEMMA WordsFollow ==
  ASSUME NEW text \in Texts, NEW u, Uncut(text, u)
  PROVE  Words(text) \in Seq(Signs) /\ Follows(Words(text), u[Len(text)], text, Len(text))
<1> DEFINE last == Len(text)
<1>1. last \in Nat /\ DOMAIN text = 1..last
  BY TextIs
<1>2. PICK w \in [0..last -> Seq(Signs)] :
           /\ w[0] = <<>>
           /\ \A n \in 1..last :
                w[n] = IF Shown(text, n) THEN Append(w[n - 1], Sign(text, n)) ELSE w[n - 1]
           /\ Words(text) = w[last]
  BY WordsAre
<1> DEFINE S == {n \in Nat : n <= last => Follows(w[n], u[n], text, n)}
<1>3. 0 \in S
  <2>1. w[0] = <<>> /\ u[0] = <<>>
    BY <1>2 DEF Uncut
  <2> QED
    BY <2>1 DEF Follows
<1>4. ASSUME NEW n \in Nat, n \in S PROVE n + 1 \in S
  <2>1. CASE n + 1 <= last
    <3>1. /\ n + 1 \in 1..last /\ (n + 1) - 1 = n /\ n \in 0..last /\ n + 1 \in 0..last
          /\ Follows(w[n], u[n], text, n)
      BY <1>1, <1>4, <2>1
    <3>2. w[n + 1] = IF Shown(text, n + 1) THEN Append(w[n], Sign(text, n + 1)) ELSE w[n]
      BY <1>2, <3>1
    <3>3. u[n + 1] = IF InWord(text, n + 1) THEN Append(u[n], Small(text[n + 1]))
                     ELSE IF InWord(text, n) THEN Append(u[n], "-")
                     ELSE u[n]
      BY <3>1 DEF Uncut
    <3>4. Shown(text, n + 1) <=> InWord(text, n + 1) \/ (InWord(text, n) /\ Later(text, n + 1))
      BY <3>1 DEF Shown, Later
    <3>5. Later(text, n) <=> InWord(text, n + 1) \/ Later(text, n + 1)
      BY <1>1, <3>1 DEF Later, InWord
    <3>6. CASE InWord(text, n + 1)
      <4>1. w[n] = u[n]
        BY <3>1, <3>5, <3>6 DEF Follows
      <4>2. w[n + 1] = Append(w[n], Small(text[n + 1]))
        BY <3>2, <3>4, <3>6 DEF Sign
      <4>3. w[n + 1] = u[n + 1]
        BY <3>3, <3>6, <4>1, <4>2
      <4> QED
        BY <3>6, <4>3 DEF Follows
    <3>7. CASE ~InWord(text, n + 1) /\ InWord(text, n)
      <4>1. w[n] = u[n]
        BY <3>1, <3>7 DEF Follows
      <4>2. u[n] # <<>> /\ u[n][Len(u[n])] # "-"
        BY <3>1, <3>7, UncutEnds DEF Ends
      <4>3. u[n + 1] = Append(u[n], "-")
        BY <3>3, <3>7
      <4>4. CASE Later(text, n + 1)
        <5>1. w[n + 1] = u[n + 1]
          BY <3>2, <3>4, <3>7, <4>1, <4>3, <4>4 DEF Sign
        <5> QED
          BY <4>4, <5>1 DEF Follows
      <4>5. CASE ~Later(text, n + 1)
        <5>1. w[n + 1] = u[n]
          BY <3>2, <3>4, <3>7, <4>1, <4>5
        <5> QED
          BY <3>7, <4>2, <4>3, <4>5, <5>1 DEF Follows
      <4> QED
        BY <4>4, <4>5
    <3>8. CASE ~InWord(text, n + 1) /\ ~InWord(text, n)
      BY <3>1, <3>2, <3>3, <3>4, <3>5, <3>8 DEF Follows
    <3> QED
      BY <3>6, <3>7, <3>8
  <2> QED
    BY <2>1
<1>5. \A n \in Nat : n \in S
  <2> HIDE DEF S
  <2> QED
    BY <1>3, <1>4, SetInduction
<1>6. Follows(w[last], u[last], text, last) /\ w[last] \in Seq(Signs)
  BY <1>1, <1>2, <1>5
<1> QED
  BY <1>2, <1>6

\* A text after its last character: no word follows.
LEMMA AtEnd ==
  ASSUME NEW text \in Texts
  PROVE  ~Later(text, Len(text))
BY TextIs DEF Later

\* What is left of a beginning that does not begin with a dash.
LEMMA TrimIs ==
  ASSUME NEW out \in Seq(Signs), out # <<>>, out[1] # "-"
  PROVE  /\ TrimMatches(out) = IF Last(out) = "-" THEN Front(out) ELSE out
         /\ TrimMatches(out) # <<>>
<1>1. TrimMatches(out) = IF Last(out) = "-" THEN Front(out) ELSE out
  BY DEF TrimMatches
<1>2. CASE Last(out) = "-"
  <2>1. Len(out) \in Nat \ {0} /\ Len(Front(out)) = Len(out) - 1 /\ Last(out) = out[Len(out)]
    BY FrontIs DEF Last
  <2>2. Len(out) # 1
    BY <1>2, <2>1
  <2>3. Len(Front(out)) # 0 /\ Len(<<>>) = 0
    BY <2>1, <2>2
  <2> QED
    BY <1>1, <1>2, <2>3
<1> QED
  BY <1>1, <1>2

\* What is out at the end is the words, cut; or the words and one dash.
LEMMA CutIsWords ==
  ASSUME NEW words \in Seq(Signs), words # <<>>,
         NEW out \in Seq(Signs), CutOf(out, words)
  PROVE  out = SubSeq(words, 1, IF Len(words) < Limit THEN Len(words) ELSE Limit)
<1> DEFINE m == IF Len(words) < Limit THEN Len(words) ELSE Limit
           cut == SubSeq(words, 1, m)
<1>1. Len(words) \in Nat /\ Limit \in Nat /\ m \in 0..Len(words)
  BY LenProperties, NameAssumption
<1> HIDE DEF m
<1>2. cut \in Seq(Signs) /\ Len(cut) = m /\ \A i \in 1..m : cut[i] = words[i]
  BY <1>1, BeginningIs
<1>3. Len(out) = m /\ \A i \in 1..Len(out) : out[i] = words[i]
  BY DEF CutOf, m
<1> HIDE DEF cut
<1>4. out = cut
  BY <1>2, <1>3, SeqEqual
<1> QED
  BY <1>4 DEF cut, m

\* The slug of a text is its words, cut to the limit, with no dash at an end.
LEMMA SlugIsName ==
  ASSUME NEW text \in Texts
  PROVE  slugify(text) = Name(text)
<1> DEFINE last  == Len(text)
           out   == Pushed(text)
           words == Words(text)
           cut   == SubSeq(words, 1, IF Len(words) < Limit THEN Len(words) ELSE Limit)
<1>1. PICK u : Uncut(text, u)
  BY UncutIs
<1> DEFINE whole == u[last]
<1>2. last \in Nat /\ last \in 0..last
  BY TextIs
<1>3. /\ out \in Seq(Signs) /\ CutOf(out, whole)
      /\ words \in Seq(Signs) /\ Follows(words, whole, text, last)
  BY <1>1, PushedIsCut, WordsFollow
<1>4. whole \in Seq(Signs) /\ Ends(whole, InWord(text, last)) /\ ~Later(text, last)
  BY <1>1, <1>2, UncutEnds, AtEnd DEF Uncut
<1>5. slugify(text) = IF TrimMatches(out) = <<>> THEN Default ELSE TrimMatches(out)
  BY DEF slugify
<1>6. Name(text) = IF words = <<>> THEN Default
                   ELSE IF Last(cut) = "-" THEN Front(cut) ELSE cut
  BY DEF Name
<1>7. Limit \in Nat \ {0}
  BY NameAssumption
<1> HIDE DEF last, out, words, whole, cut
<1>8. CASE words = <<>>
  <2>1. whole = <<>>
    BY <1>3, <1>4, <1>8 DEF Follows, Ends
  <2>2. out = <<>>
    <3>1. Len(<<>>) = 0
      OBVIOUS
    <3>2. Len(out) = 0
      BY <1>3, <1>7, <2>1, <3>1 DEF CutOf
    <3> QED
      BY <1>3, <3>2, EmptySeq
  <2> QED
    BY <1>5, <1>6, <1>8, <2>2 DEF TrimMatches
<1>9. CASE words # <<>> /\ CutOf(out, words) /\ words[1] # "-"
  <2>1. out = cut
    BY <1>3, <1>9, CutIsWords DEF cut
  <2>2. out # <<>> /\ out[1] # "-"
    <3>1. Len(words) \in Nat \ {0}
      BY <1>3, <1>9, EmptySeq
    <3>2. Len(out) \in Nat \ {0} /\ Len(<<>>) = 0
      BY <1>7, <1>9, <3>1 DEF CutOf
    <3> QED
      BY <1>9, <3>2 DEF CutOf
  <2> QED
    BY <1>3, <1>5, <1>6, <1>9, <2>1, <2>2, TrimIs
<1>10. CASE words # <<>> /\ whole = words
  <2>1. words[1] # "-"
    BY <1>4, <1>10 DEF Ends
  <2> QED
    BY <1>3, <1>9, <1>10, <2>1
<1>11. CASE words # <<>> /\ words[Len(words)] # "-" /\ whole = Append(words, "-")
  <2>1. /\ Len(words) \in Nat \ {0} /\ "-" \in Signs
        /\ Len(whole) = Len(words) + 1 /\ whole[Len(words) + 1] = "-"
        /\ \A i \in 1..Len(words) : whole[i] = words[i]
        /\ whole # <<>>
    <3>1. "-" \in Signs
      BY DEF Signs
    <3> QED
      BY <1>3, <1>11, <3>1, AppendProperties, EmptySeq
  <2>2. words[1] # "-"
    BY <1>4, <2>1 DEF Ends
  <2>3. CASE Len(words) < Limit
    <3>1. out = whole
      <4>1. Len(out) = Len(whole) /\ \A i \in 1..Len(out) : out[i] = whole[i]
        BY <1>3, <1>7, <2>1, <2>3 DEF CutOf
      <4> QED
        BY <1>3, <1>4, <4>1, SeqEqual
    <3>2. Last(whole) = "-" /\ Front(whole) = words
      <4>1. Last(whole) = "-"
        BY <2>1 DEF Last
      <4>2. Append(Front(whole), Last(whole)) = whole /\ Front(whole) \in Seq(Signs)
        BY <1>4, <2>1, FrontIs
      <4>3. Append(Front(whole), "-") = Append(words, "-")
        BY <1>11, <4>1, <4>2
      <4> QED
        BY <1>3, <2>1, <4>1, <4>2, <4>3, AppendInjective
    <3>3. TrimMatches(out) = words
      BY <2>1, <3>1, <3>2 DEF TrimMatches
    <3>4. CutOf(words, words)
      BY <2>3 DEF CutOf
    <3>5. cut = words
      BY <1>3, <1>11, <3>4, CutIsWords DEF cut
    <3>6. Last(cut) # "-"
      BY <1>11, <3>5 DEF Last
    <3> QED
      BY <1>5, <1>6, <1>11, <3>3, <3>5, <3>6
  <2>4. CASE ~(Len(words) < Limit)
    <3>1. CutOf(out, words)
      BY <1>3, <1>7, <2>1, <2>4 DEF CutOf
    <3> QED
      BY <1>9, <1>11, <2>2, <3>1
  <2> QED
    BY <2>3, <2>4
<1> QED
  BY <1>3, <1>4, <1>8, <1>10, <1>11 DEF Follows

\* A slug that is not cut is the words.
LEMMA SlugOfFitting ==
  ASSUME NEW text \in Texts, Fits(text)
  PROVE  slugify(text) = Words(text) /\ Words(text) \in Seq(Signs)
<1> DEFINE words == Words(text)
<1>1. PICK u : Uncut(text, u)
  BY UncutIs
<1>2. Len(text) \in 0..Len(text)
  BY TextIs
<1>3. words \in Seq(Signs) /\ Follows(words, u[Len(text)], text, Len(text))
  BY <1>1, WordsFollow
<1>4. Ends(u[Len(text)], InWord(text, Len(text))) /\ ~Later(text, Len(text))
  BY <1>1, <1>2, UncutEnds, AtEnd
<1>5. words # <<>> /\ Len(words) \in Nat /\ Limit \in Nat /\ Len(words) <= Limit
  BY <1>3, LenProperties, NameAssumption DEF Fits
<1>6. words[Len(words)] # "-"
  <2> HIDE DEF words
  <2> QED
    BY <1>3, <1>4, <1>5 DEF Follows, Ends
<1>7. CutOf(words, words)
  <2> HIDE DEF words
  <2> QED
    BY <1>5 DEF CutOf
<1> DEFINE cut == SubSeq(words, 1, IF Len(words) < Limit THEN Len(words) ELSE Limit)
<1>8. Name(text) = IF words = <<>> THEN Default
                   ELSE IF Last(cut) = "-" THEN Front(cut) ELSE cut
  BY DEF Name
<1>9. slugify(text) = Name(text)
  BY SlugIsName
<1> HIDE DEF words
<1>10. cut = words
  BY <1>3, <1>5, <1>7, CutIsWords
<1> HIDE DEF cut
<1>11. slugify(text) = words
  BY <1>5, <1>6, <1>8, <1>9, <1>10 DEF Last
<1> QED
  BY <1>3, <1>11 DEF words

LEMMA ConcatIs ==
  ASSUME NEW S, NEW x \in Seq(S), NEW y \in Seq(S)
  PROVE  /\ x \o y \in Seq(S)
         /\ Len(x) \in Nat /\ Len(y) \in Nat /\ Len(x \o y) = Len(x) + Len(y)
         /\ \A i \in 1..Len(x) : (x \o y)[i] = x[i]
         /\ \A i \in 1..Len(y) : (x \o y)[Len(x) + i] = y[i]
<1> DEFINE z == x \o y
<1>1. Len(x) \in Nat /\ Len(y) \in Nat
  BY LenProperties
<1>2. z \in Seq(S) /\ Len(z) = Len(x) + Len(y)
  BY ConcatProperties
<1>3. \A i \in 1..Len(x) + Len(y) :
        z[i] = IF i <= Len(x) THEN x[i] ELSE y[i - Len(x)]
  BY ConcatProperties, Zenon
<1> HIDE DEF z
<1>4. \A i \in 1..Len(x) : z[i] = x[i]
  BY <1>1, <1>3
<1>5. ASSUME NEW i \in 1..Len(y) PROVE z[Len(x) + i] = y[i]
  <2>1. /\ Len(x) + i \in 1..Len(x) + Len(y)
        /\ ~(Len(x) + i <= Len(x)) /\ (Len(x) + i) - Len(x) = i
    BY <1>1
  <2> QED
    BY <1>3, <2>1
<1> QED
  BY <1>1, <1>2, <1>4, <1>5 DEF z

\* Two parts with a dash between them.
LEMMA Parts ==
  ASSUME NEW a \in Seq(Signs), NEW p \in Seq(Signs), NEW name,
         name = a \o <<"-">> \o p
  PROVE  /\ Len(a) \in Nat /\ Len(p) \in Nat /\ Len(name) = Len(a) + 1 + Len(p)
         /\ \A i \in 1..Len(a) : name[i] = a[i]
         /\ name[Len(a) + 1] = "-"
         /\ \A i \in 1..Len(p) : name[Len(a) + 1 + i] = p[i]
<1> DEFINE dash == <<"-">>
           start == a \o dash
<1>1. dash \in Seq(Signs) /\ Len(dash) = 1 /\ dash[1] = "-" /\ name = start \o p
  BY DEF Signs
<1> HIDE DEF dash
<1>2. /\ start \in Seq(Signs) /\ Len(a) \in Nat /\ Len(start) = Len(a) + Len(dash)
      /\ \A i \in 1..Len(a) : start[i] = a[i]
      /\ \A i \in 1..Len(dash) : start[Len(a) + i] = dash[i]
  BY <1>1, ConcatIs
<1> HIDE DEF start
<1>3. /\ Len(p) \in Nat /\ Len(name) = Len(start) + Len(p)
      /\ \A i \in 1..Len(start) : name[i] = start[i]
      /\ \A i \in 1..Len(p) : name[Len(start) + i] = p[i]
  BY <1>1, <1>2, ConcatIs
<1>4. 1 \in 1..Len(dash) /\ Len(start) = Len(a) + 1
  BY <1>1, <1>2
<1>5. start[Len(a) + 1] = "-"
  BY <1>1, <1>2, <1>4
<1> QED
  BY <1>2, <1>3, <1>4, <1>5

LEMMA LastDash ==
  ASSUME NEW a \in Seq(Signs), NEW p \in Seq(Signs), NEW b \in Seq(Signs), NEW q \in Seq(Signs),
         \A i \in 1..Len(q) : q[i] # "-",
         a \o <<"-">> \o p = b \o <<"-">> \o q
  PROVE  Len(a) <= Len(b)
<1> DEFINE name == b \o <<"-">> \o q
<1>1. /\ Len(a) \in Nat /\ Len(p) \in Nat /\ Len(b) \in Nat /\ Len(q) \in Nat
      /\ Len(name) = Len(a) + 1 + Len(p) /\ Len(name) = Len(b) + 1 + Len(q)
      /\ name[Len(a) + 1] = "-"
      /\ \A i \in 1..Len(q) : name[Len(b) + 1 + i] = q[i]
  <2>1. name = a \o <<"-">> \o p /\ name = b \o <<"-">> \o q
    OBVIOUS
  <2> HIDE DEF name
  <2>2. /\ Len(a) \in Nat /\ Len(p) \in Nat /\ Len(name) = Len(a) + 1 + Len(p)
        /\ name[Len(a) + 1] = "-"
    BY <2>1, Parts
  <2>3. /\ Len(b) \in Nat /\ Len(q) \in Nat /\ Len(name) = Len(b) + 1 + Len(q)
        /\ \A i \in 1..Len(q) : name[Len(b) + 1 + i] = q[i]
    BY <2>1, Parts
  <2> QED
    BY <2>2, <2>3
<1> HIDE DEF name
<1>2. SUFFICES ASSUME Len(a) > Len(b) PROVE FALSE
  BY <1>1
<1>3. Len(a) - Len(b) \in 1..Len(q) /\ Len(b) + 1 + (Len(a) - Len(b)) = Len(a) + 1
  BY <1>1, <1>2
<1> QED
  BY <1>1, <1>3

\* So the name says where the one ends and the other begins.
LEMMA PartsAreApart ==
  ASSUME NEW a \in Seq(Signs), NEW p \in Seq(Signs), NEW b \in Seq(Signs), NEW q \in Seq(Signs),
         \A i \in 1..Len(p) : p[i] # "-", \A i \in 1..Len(q) : q[i] # "-",
         a \o <<"-">> \o p = b \o <<"-">> \o q
  PROVE  a = b /\ p = q
<1> DEFINE left == a \o <<"-">> \o p
           right == b \o <<"-">> \o q
<1>1. /\ Len(a) \in Nat /\ Len(p) \in Nat /\ Len(left) = Len(a) + 1 + Len(p)
      /\ \A i \in 1..Len(a) : left[i] = a[i]
      /\ \A i \in 1..Len(p) : left[Len(a) + 1 + i] = p[i]
  BY Parts
<1>2. /\ Len(b) \in Nat /\ Len(q) \in Nat /\ Len(right) = Len(b) + 1 + Len(q)
      /\ \A i \in 1..Len(b) : right[i] = b[i]
      /\ \A i \in 1..Len(q) : right[Len(b) + 1 + i] = q[i]
  BY Parts
<1>3. Len(a) <= Len(b) /\ Len(b) <= Len(a)
  BY LastDash
<1>4. left = right
  OBVIOUS
<1> HIDE DEF left, right
<1>5. Len(a) = Len(b) /\ Len(p) = Len(q)
  BY <1>1, <1>2, <1>3, <1>4
<1>6. a = b
  BY <1>1, <1>2, <1>4, <1>5, SeqEqual
<1>7. p = q
  <2>1. \A i \in 1..Len(p) : p[i] = q[i]
    BY <1>1, <1>2, <1>4, <1>5
  <2> QED
    BY <1>5, <2>1, SeqEqual
<1> QED
  BY <1>6, <1>7

LEMMA NoneMisnamed == Misnamed = {}
BY SlugIsName, NameAssumption DEF Misnamed

LEMMA NoneShared == Shared = {}
<1> DEFINE Joined(x, y) == x \o <<"-">> \o y
<1>0. \A x \in Seq(Signs), y \in Seq(Signs), v \in Seq(Signs), w \in Seq(Signs) :
        /\ \A i \in 1..Len(y) : y[i] # "-"
        /\ \A i \in 1..Len(w) : w[i] # "-"
        /\ Joined(x, y) = Joined(v, w)
        => x = v /\ y = w
  BY PartsAreApart, Zenon
<1> HIDE DEF Joined
<1>1. ASSUME NEW s \in Servers, Fits(s), NEW p \in Profiles, OneWord(p),
             NEW t \in Servers, Fits(t), NEW q \in Profiles, OneWord(q),
             file_name(s, p) = file_name(t, q)
      PROVE  Words(s) = Words(t) /\ Words(p) = Words(q)
  <2>1. /\ {s, t, p, q} \subseteq Texts
        /\ Fits(p) /\ Fits(q)
    BY <1>1, NameAssumption DEF OneWord
  <2>2. /\ slugify(s) = Words(s) /\ slugify(t) = Words(t)
        /\ slugify(p) = Words(p) /\ slugify(q) = Words(q)
        /\ Words(s) \in Seq(Signs) /\ Words(t) \in Seq(Signs)
        /\ Words(p) \in Seq(Signs) /\ Words(q) \in Seq(Signs)
    BY <1>1, <2>1, SlugOfFitting
  <2>3. ASSUME NEW text \in {p, q} PROVE \A i \in 1..Len(Words(text)) : Words(text)[i] # "-"
    <3> DEFINE words == Words(text)
    <3>1. words \in Seq(Signs) /\ "-" \notin Range(words)
      BY <1>1, <2>2 DEF OneWord
    <3> HIDE DEF words
    <3>2. \A i \in 1..Len(words) : words[i] # "-"
      BY <3>1 DEF Range
    <3> QED
      BY <3>2 DEF words
  <2>4. Joined(Words(s), Words(p)) = Joined(Words(t), Words(q))
    BY <1>1, <2>2 DEF file_name, Joined
  <2>5. /\ \A i \in 1..Len(Words(p)) : Words(p)[i] # "-"
        /\ \A i \in 1..Len(Words(q)) : Words(q)[i] # "-"
    BY <2>3
  <2> DEFINE words == <<Words(s), Words(p), Words(t), Words(q)>>
  <2>6. /\ words[1] \in Seq(Signs) /\ words[2] \in Seq(Signs)
        /\ words[3] \in Seq(Signs) /\ words[4] \in Seq(Signs)
        /\ Joined(words[1], words[2]) = Joined(words[3], words[4])
        /\ \A i \in 1..Len(words[2]) : words[2][i] # "-"
        /\ \A i \in 1..Len(words[4]) : words[4][i] # "-"
    BY <2>2, <2>4, <2>5
  <2>7. words[1] = words[3] /\ words[2] = words[4]
    <3> HIDE DEF words
    <3> QED
      BY <1>0, <2>6
  <2> QED
    BY <2>7
<1> DEFINE Node(s, p) == <<file_name(s, p), Words(s), Words(p)>>
           nodes == {Node(s, p) : s \in {server \in Servers : Fits(server)},
                                  p \in {profile \in Profiles : OneWord(profile)}}
<1>2. ASSUME NEW m \in nodes, NEW n \in nodes, m[1] = n[1] PROVE m = n
  <2>1. PICK s \in Servers, p \in Profiles : Fits(s) /\ OneWord(p) /\ m = Node(s, p)
    OBVIOUS
  <2>2. PICK t \in Servers, q \in Profiles : Fits(t) /\ OneWord(q) /\ n = Node(t, q)
    OBVIOUS
  <2>3. file_name(s, p) = file_name(t, q)
    BY <1>2, <2>1, <2>2
  <2>4. Words(s) = Words(t) /\ Words(p) = Words(q)
    BY <1>1, <2>1, <2>2, <2>3
  <2> QED
    BY <2>1, <2>2, <2>3, <2>4
<1>3. Shared = {m \in nodes : \E n \in nodes : m[1] = n[1] /\ m # n}
  BY DEF Shared
<1> HIDE DEF nodes
<1> QED
  BY <1>2, <1>3

\* Every slug is the words of its text in small letters, cut to the limit: a node
\* finds its file again by any spelling of its URL that has the same words.
THEOREM SlugsAreWords == Spec => SlugIsWords
BY NoneMisnamed, PTL DEF SlugIsWords

\* No two nodes told apart by the words of URLs that fit into a slug and by
\* profiles of a single word have one file.
THEOREM FilesApart == Spec => FilesAreApart
BY NoneShared, PTL DEF FilesAreApart
===============================================================================
