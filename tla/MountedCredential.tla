--------------------------- MODULE MountedCredential ---------------------------
(***************************************************************************)
(* A node whose credential an operator gives it: the choice of a source in *)
(* src/enroll.rs, StaticToken and TokenFile of src/runtime/credentials.rs, *)
(* and the dial loop that asks them for a bearer before every dial.        *)
(*                                                                         *)
(* The operator rotates the credential while the node runs: what the file  *)
(* holds, what the node read of it, and what the deployment thinks of it   *)
(* are three things that change apart.  A volume that a kubelet swaps      *)
(* changes at once; a file written in place is empty, then torn, then      *)
(* whole.  Backoff, signals and hooks are the matter of DialLoop.tla, a    *)
(* node left to enroll itself that of DeviceGrant.tla.                     *)
(*                                                                         *)
(* The operator and the deployment are external.                           *)
(***************************************************************************)
EXTENDS Naturals

CONSTANTS Credentials, \* those the operator was issued: each live at first
          First,       \* the one the node is started with
          Torn,        \* a prefix of one, as a file written in place has it
          Foreign,     \* a secret of another kind: "atk_", "znt_"
          Empty,       \* nothing but blanks
          Missing,     \* no such file (yet)
          Denied,      \* a file this user cannot read
          Directory    \* what a bind mount of a missing file makes: any other error

ASSUME MountAssumption ==
  /\ First \in Credentials
  /\ {Torn, Foreign, Empty, Missing, Denied, Directory} \cap Credentials = {}
  /\ Torn \notin {Foreign, Empty, Missing, Denied, Directory}

VARIABLES env,     \* what is set of $ZYRIS_CREDENTIAL, _FILE and the old variables
          source,  \* what enroll::source chose
          mount,   \* what is at $ZYRIS_CREDENTIAL_FILE
          writing, \* what is being written there in place, if anything
          account, \* the credentials the deployment still takes
          at,      \* where the node is
          bearer,  \* the bearer last read
          exit     \* the exit status, Running until there is one

vars == <<env, source, mount, writing, account, at, bearer, exit>>

Running == 3

Secrets  == Credentials \union {Torn}
Contents == Secrets \union {Foreign, Empty, Missing, Denied, Directory}

Init ==
  /\ env \in [credential : {First, Foreign, Empty}, file : BOOLEAN, token : BOOLEAN]
  /\ mount \in Contents \ {Torn} /\ (mount \in Credentials => mount = First)
  /\ source = "none"
  /\ writing = Empty
  /\ account = Credentials
  /\ at = "start"
  /\ bearer = Empty
  /\ exit = Running

-------------------------------------------------------------------------------
Goto(place) == at' = place /\ UNCHANGED exit

Stop(status) == at' = "exited" /\ exit' = status

\* validate_credential: the secret goes on, a blank one is an operator's
\* business, another kind of secret is an error no retry mends.
Validated(contents) ==
  \/ contents \in Secrets /\ bearer' = contents /\ Goto("dial")
  \/ contents = Empty     /\ Stop(2) /\ UNCHANGED bearer
  \/ contents = Foreign   /\ Stop(1) /\ UNCHANGED bearer

\* A variable that is blank is one that is not set.
StaticGiven == env.credential # Empty
FileGiven   == env.file

\* What an operator gives wins over enrolling, and a variable that holds another
\* kind of secret, or an old one that is still set, ends the process.
Choose ==
  /\ at = "start" /\ source = "none"
  /\ \/ StaticGiven /\ env.credential \in Credentials /\ source' = "static" /\ Goto("bearer")
     \/ StaticGiven /\ env.credential = Foreign /\ Stop(1) /\ UNCHANGED source
     \/ ~StaticGiven /\ FileGiven /\ source' = "mount" /\ Goto("bearer")
     \/ ~StaticGiven /\ ~FileGiven /\ env.token /\ Stop(2) /\ UNCHANGED source
     \/ ~StaticGiven /\ ~FileGiven /\ ~env.token /\ source' = "grant" /\ UNCHANGED <<at, exit>>
  /\ UNCHANGED <<env, mount, writing, account, bearer>>

\* The variable was validated when it was read.
BearerStatic ==
  /\ at = "bearer" /\ source = "static"
  /\ bearer' = env.credential
  /\ Goto("dial")
  /\ UNCHANGED <<env, source, mount, writing, account>>

\* A file that is not there yet is waited for.
ReadMount ==
  \/ Validated(mount)
  \/ mount = Denied /\ Stop(2) /\ UNCHANGED bearer
  \/ mount \in {Missing, Directory} /\ Goto("wait") /\ UNCHANGED bearer

BearerMountedOnce ==
  /\ at = "bearer" /\ source = "mount"
  /\ IF bearer # Empty THEN Goto("dial") /\ UNCHANGED bearer ELSE ReadMount
  /\ UNCHANGED <<env, source, mount, writing, account>>

\* Read afresh for every dial.
BearerMounted ==
  /\ at = "bearer" /\ source = "mount"
  /\ ReadMount
  /\ UNCHANGED <<env, source, mount, writing, account>>

Connect ==
  /\ at = "dial" /\ bearer \in account
  /\ Goto("up")
  /\ UNCHANGED <<env, source, mount, writing, account, bearer>>

RefusedBacksOff ==
  /\ at = "dial" /\ bearer \notin account
  /\ Goto("wait")
  /\ UNCHANGED <<env, source, mount, writing, account, bearer>>

\* forget_refused of a credential an operator gave: false, and the first
\* refusal is the last.
Refused ==
  /\ at = "dial" /\ bearer \notin account
  /\ Stop(1)
  /\ UNCHANGED <<env, source, mount, writing, account, bearer>>

Unreachable ==
  /\ at = "dial"
  /\ Goto("wait")
  /\ UNCHANGED <<env, source, mount, writing, account, bearer>>

Disconnect ==
  /\ at = "up"
  /\ Goto("wait")
  /\ UNCHANGED <<env, source, mount, writing, account, bearer>>

Wake ==
  /\ at = "wait"
  /\ Goto("bearer")
  /\ UNCHANGED <<env, source, mount, writing, account, bearer>>

-------------------------------------------------------------------------------
(***************************************************************************)
(* The operator and the deployment                                         *)
(***************************************************************************)
\* The volume comes up, goes away or can no longer be read, or a kubelet swaps
\* what it mounts: all of it at once, so a swap leaves nothing torn.
Swap(c) ==
  /\ writing = Empty
  /\ mount' = c
  /\ UNCHANGED <<env, source, writing, account, at, bearer, exit>>

\* Written in place: truncated, then a part of it, then all of it.
Truncate(c) ==
  /\ writing = Empty /\ mount \in Credentials \ {c}
  /\ mount' = Empty
  /\ writing' = c
  /\ UNCHANGED <<env, source, account, at, bearer, exit>>

WritePart ==
  /\ writing # Empty /\ mount = Empty
  /\ mount' = Torn
  /\ UNCHANGED <<env, source, writing, account, at, bearer, exit>>

WriteRest ==
  /\ writing # Empty /\ mount = Torn
  /\ mount' = writing
  /\ writing' = Empty
  /\ UNCHANGED <<env, source, account, at, bearer, exit>>

Revoke(c) ==
  /\ c \in account
  /\ account' = account \ {c}
  /\ UNCHANGED <<env, source, mount, writing, at, bearer, exit>>

-------------------------------------------------------------------------------
NodeStep ==
  Choose \/ BearerStatic \/ BearerMounted \/ Connect \/ Refused \/ Wake

\* A revocation closes the connections that presented the credential.
Retire == Disconnect /\ bearer \notin account

Next ==
  \/ NodeStep \/ Unreachable \/ Disconnect
  \/ \E c \in Contents \ {Torn} : Swap(c)
  \/ \E c \in Credentials : Truncate(c) \/ Revoke(c)
  \/ WritePart \/ WriteRest

\* The runtime polls a future that can go on; a deployment that is up again and
\* again answers in the end, and closes what it has revoked.
Fairness ==
  /\ WF_vars(NodeStep)
  /\ SF_vars(Refused)
  /\ WF_vars(Retire)

Spec == Init /\ [][Next]_vars /\ Fairness

-------------------------------------------------------------------------------
(***************************************************************************)
(* Properties                                                              *)
(***************************************************************************)

\* A credential that is mounted while the node waits to dial again is the one
\* it dials with, unless the mount changes once more or the node ends over what
\* it was dialling with: nothing that was read for an earlier dial is kept.
MountIsPickedUp ==
  \A c \in Credentials :
    (source = "mount" /\ at = "wait" /\ mount = c)
      ~> (bearer = c \/ mount # c \/ at = "exited")

\* A revoked credential is not presented for ever: from some moment on the node
\* neither dials with it nor is connected over it, whatever is mounted and
\* removed meanwhile.  Either the refusal ends the node, or what it read last is
\* another credential, or there is no file to read and it dials no more.
RevokedEnds ==
  \A c \in Credentials :
    c \notin account ~> [](bearer = c => at \notin {"dial", "up"})
===============================================================================
