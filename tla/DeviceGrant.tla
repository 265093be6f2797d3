------------------------------ MODULE DeviceGrant ------------------------------
(***************************************************************************)
(* The self-enrolling credential source, DeviceGrant of src/enroll.rs, in  *)
(* the dial loop that drives it (src/runtime/runner.rs), for the pods that *)
(* share one credential volume and the deployment they enroll against.     *)
(*                                                                         *)
(* A rolling update runs two pods over one volume: every call a pod makes  *)
(* on the store or the deployment is a step, and the steps of the pods     *)
(* interleave.  One call on the store is atomic here; CredentialFile.tla   *)
(* says when it really is.  Of the loop there is what decides which        *)
(* credential is presented; its waits, signals and connections are the     *)
(* matter of DialLoop.tla.                                                 *)
(*                                                                         *)
(* The deployment and the person at the browser are external: what they    *)
(* may answer is modelled from how the code reads it.                      *)
(***************************************************************************)
EXTENDS Integers, FiniteSets

CONSTANTS Pods,        \* the processes on the volume
          Credentials, \* bound: those the deployment can issue
          First,       \* the credential an earlier run left on the volume
          Alien,       \* one this build cannot use: an earlier image's
          Exposed,     \* one that other users can read
          None,        \* no credential
          MaxRenewals, \* MAX_RENEWALS
          MaxCrashes   \* bound: kills, over all pods

ASSUME GrantAssumption ==
  /\ First \in Credentials
  /\ {Alien, Exposed, None} \cap Credentials = {}
  /\ Alien # Exposed /\ Alien # None /\ Exposed # None
  /\ MaxRenewals \in Nat
  /\ MaxCrashes \in Nat

VARIABLES file,     \* the credential on the volume
          account,  \* what the deployment knows of each credential
          at,       \* where each pod is
          held,     \* DeviceGrant::held
          inHand,   \* a local: the credential granted, or refused
          spent,    \* the loop's reenrolled_after_refusal
          code,     \* the enrollment a pod polls, as the deployment sees it
          renewals, \* the local "renewals" of enroll
          exit,     \* the exit status, Running until there is one
          crashes,  \* kills so far
          saved,    \* history: every credential that was on the volume
          lost,     \* history: granted and gone before it was saved, or not readable
          refused   \* history: refused to this process of each pod

loop   == <<held, inHand, spent, at, exit>>
grant  == <<code, renewals>>
server == <<account>>
past   == <<crashes, lost, refused>>
vars   == <<file, saved, loop, grant, server, past>>

Running == -1

Places == {"absent", "bearer", "discard", "begin", "poll", "save", "dial", "up",
           "wait", "forget", "discardRefused", "clear", "down", "exited"}

TypeOK ==
  /\ file \in Credentials \union {Alien, Exposed, None}
  /\ account \in [Credentials -> {"unissued", "live", "revoked"}]
  /\ at \in [Pods -> Places]
  /\ held \in [Pods -> Credentials \union {None}]
  /\ inHand \in [Pods -> Credentials \union {None}]
  /\ spent \in [Pods -> BOOLEAN]
  /\ code \in [Pods -> {"none", "pending", "approved", "denied", "lapsed"}]
  /\ renewals \in [Pods -> 0..MaxRenewals]
  /\ exit \in [Pods -> {Running, 1, 2}]
  /\ crashes \in 0..MaxCrashes
  /\ saved \subseteq Credentials
  /\ lost \subseteq Credentials
  /\ refused \in [Pods -> SUBSET Credentials]

\* A new volume, one an earlier image wrote, or one of an earlier run, whose
\* credential may have been revoked since; and some of the pods run.
Init ==
  /\ file \in {First, Alien, None}
  /\ \E standing \in {"live", "revoked"} :
       account = [c \in Credentials |->
                    IF c = First /\ file = First THEN standing ELSE "unissued"]
  /\ \E present \in SUBSET Pods \ {{}} :
       at = [p \in Pods |-> IF p \in present THEN "bearer" ELSE "absent"]
  /\ held = [p \in Pods |-> None]
  /\ inHand = [p \in Pods |-> None]
  /\ spent = [p \in Pods |-> FALSE]
  /\ code = [p \in Pods |-> "none"]
  /\ renewals = [p \in Pods |-> 0]
  /\ exit = [p \in Pods |-> Running]
  /\ crashes = 0
  /\ saved = IF file = First THEN {First} ELSE {}
  /\ lost = {}
  /\ refused = [p \in Pods |-> {}]

-------------------------------------------------------------------------------
Goto(p, place) == at' = [at EXCEPT ![p] = place] /\ UNCHANGED exit

Stop(p, status) ==
  /\ at' = [at EXCEPT ![p] = "exited"]
  /\ exit' = [exit EXCEPT ![p] = status]

Hold(p, c) == held' = [held EXCEPT ![p] = c]
Carry(p, c) == inHand' = [inHand EXCEPT ![p] = c]

\* enrollment_trouble: an enrollment that ends in an error is dropped; the
\* loop waits for a deployment it cannot reach and for a lapsed code, and
\* exits for an unknown scope and a refusal in the browser.
EnrollmentTrouble(p) ==
  /\ code' = [code EXCEPT ![p] = "none"]
  /\ Goto(p, "wait") \/ Stop(p, 2)

-------------------------------------------------------------------------------
(***************************************************************************)
(* bearer: the credential held, the one stored, or a new enrollment        *)
(***************************************************************************)
BearerHeld(p) ==
  /\ at[p] = "bearer"
  /\ held[p] # None
  /\ Goto(p, "dial")
  /\ UNCHANGED <<file, saved, held, inHand, spent, grant, server, past>>

\* stored: what is missing is enrolled for, what is unusable is discarded
\* first, what is exposed is an operator's business.
BearerStored(p) ==
  /\ at[p] = "bearer"
  /\ held[p] = None
  /\ \/ file \in Credentials /\ Hold(p, file) /\ Goto(p, "dial")
     \/ file = None /\ Goto(p, "begin") /\ UNCHANGED held
     \/ file = Alien /\ Goto(p, "discard") /\ UNCHANGED held
     \/ file = Exposed /\ Stop(p, 2) /\ UNCHANGED held
  /\ UNCHANGED <<file, saved, inHand, spent, grant, server, past>>

\* A file that is there and cannot be read is unusable as well, whatever it
\* holds: stored, from bearer or from forget_refused, discards it.  (What an
\* exposed file holds is any credential that was ever on the volume.)
Unreadable(p) ==
  /\ file # None
  /\ \/ at[p] = "bearer" /\ held[p] = None /\ Goto(p, "discard") /\ UNCHANGED inHand
     \/ at[p] = "forget" /\ Goto(p, "discardRefused") /\ Carry(p, held[p])
  /\ Hold(p, None)
  /\ lost' = lost \union (IF file = Exposed THEN saved ELSE {file} \cap Credentials)
  /\ UNCHANGED <<file, saved, spent, grant, server, crashes, refused>>

\* The clear of stored removes whatever is there by now.
Discard(p) ==
  /\ at[p] \in {"discard", "discardRefused"}
  /\ file' = None
  /\ Goto(p, IF at[p] = "discard" THEN "begin" ELSE "clear")
  /\ UNCHANGED <<saved, held, inHand, spent, grant, server, past>>

\* A directory that cannot be written ends the process.
StoreFails(p) ==
  /\ at[p] \in {"discard", "discardRefused", "clear", "save"}
  /\ Stop(p, 2)
  /\ lost' = IF at[p] = "save" THEN lost \union {inHand[p]} ELSE lost
  /\ UNCHANGED <<file, saved, held, inHand, spent, grant, server, crashes, refused>>

Begin(p) ==
  /\ at[p] = "begin"
  /\ \/ /\ code' = [code EXCEPT ![p] = "pending"]
        /\ renewals' = [renewals EXCEPT ![p] = 0]
        /\ Goto(p, "poll")
     \/ EnrollmentTrouble(p) /\ UNCHANGED renewals
  /\ UNCHANGED <<file, saved, held, inHand, spent, server, past>>

\* poll answers Granted: the deployment issues the credential as it answers.
PollGranted(p) ==
  /\ at[p] = "poll"
  /\ code[p] = "approved"
  /\ \E c \in Credentials :
       /\ account[c] = "unissued"
       /\ account' = [account EXCEPT ![c] = "live"]
       /\ Carry(p, c)
  /\ code' = [code EXCEPT ![p] = "none"]
  /\ Goto(p, "save")
  /\ UNCHANGED <<file, saved, held, spent, renewals, crashes, lost, refused>>

Renew(p) ==
  \/ code' = [code EXCEPT ![p] = "pending"] /\ UNCHANGED <<at, exit>>
  \/ EnrollmentTrouble(p)

PollLapsedForever(p) ==
  /\ at[p] = "poll"
  /\ code[p] = "lapsed"
  /\ Renew(p)
  /\ UNCHANGED <<file, saved, held, inHand, spent, renewals, server, past>>

RenewUpTo(p, last) ==
  /\ at[p] = "poll"
  /\ code[p] = "lapsed"
  /\ IF renewals[p] = last
     THEN Stop(p, 2) /\ UNCHANGED grant
     ELSE renewals' = [renewals EXCEPT ![p] = @ + 1] /\ Renew(p)
  /\ UNCHANGED <<file, saved, held, inHand, spent, server, past>>

PollLapsedOnceMore(p) == RenewUpTo(p, MaxRenewals + 1)

\* A lapsed code is renewed, MaxRenewals times.
PollLapsed(p) == RenewUpTo(p, MaxRenewals)

PollDenied(p) ==
  /\ at[p] = "poll"
  /\ code[p] = "denied"
  /\ Stop(p, 2)
  /\ UNCHANGED <<file, saved, held, inHand, spent, grant, server, past>>

PollFails(p) ==
  /\ at[p] = "poll"
  /\ EnrollmentTrouble(p)
  /\ UNCHANGED <<file, saved, held, inHand, spent, renewals, server, past>>

Adopt(p) ==
  /\ at[p] = "save"
  /\ Hold(p, inHand[p])
  /\ Carry(p, None)
  /\ Goto(p, "dial")
  /\ UNCHANGED <<spent, grant, server, past>>

SaveInMemory(p) == Adopt(p) /\ UNCHANGED <<file, saved>>

\* Saved before it is held or presented.
Save(p) ==
  /\ file' = inHand[p]
  /\ saved' = saved \union {inHand[p]}
  /\ Adopt(p)

-------------------------------------------------------------------------------
(***************************************************************************)
(* The dial, and what the loop makes of its outcome                        *)
(***************************************************************************)
Connect(p) ==
  /\ at[p] = "dial"
  /\ account[held[p]] = "live"
  /\ spent' = [spent EXCEPT ![p] = FALSE]
  /\ Goto(p, "up")
  /\ UNCHANGED <<file, saved, held, inHand, grant, server, crashes, lost, refused>>

Unreachable(p) ==
  /\ at[p] = "dial"
  /\ Goto(p, "wait")
  /\ UNCHANGED <<file, saved, held, inHand, spent, grant, server, past>>

\* Refused: once it is answered by forget_refused, the second time in a row
\* the process ends.
Refused(p) ==
  /\ at[p] = "dial"
  /\ account[held[p]] = "revoked"
  /\ refused' = [refused EXCEPT ![p] = @ \union {held[p]}]
  /\ IF spent[p]
     THEN Stop(p, 1) /\ UNCHANGED spent
     ELSE Goto(p, "forget") /\ spent' = [spent EXCEPT ![p] = TRUE]
  /\ UNCHANGED <<file, saved, held, inHand, grant, server, crashes, lost>>

Disconnect(p) ==
  /\ at[p] = "up"
  /\ Goto(p, "wait")
  /\ UNCHANGED <<file, saved, held, inHand, spent, grant, server, past>>

Wake(p) ==
  /\ at[p] = "wait"
  /\ Goto(p, "bearer")
  /\ UNCHANGED <<file, saved, held, inHand, spent, grant, server, past>>

-------------------------------------------------------------------------------
(***************************************************************************)
(* forget_refused                                                          *)
(***************************************************************************)
LetGo(p, keeps) ==
  /\ at[p] = "forget"
  /\ \/ /\ file \in Credentials \ {held[p]}
        /\ Hold(p, file)
        /\ Goto(p, "bearer")
        /\ UNCHANGED inHand
     \/ /\ file = Exposed
        /\ Hold(p, keeps)
        /\ Stop(p, 2)
        /\ UNCHANGED inHand
     \/ /\ file \in {held[p], Alien, None}
        /\ Carry(p, held[p])
        /\ Hold(p, keeps)
        /\ Goto(p, IF file = Alien THEN "discardRefused" ELSE "clear")
  /\ UNCHANGED <<file, saved, spent, grant, server, past>>

ForgetKeepsHeld(p) == LetGo(p, held[p])

\* The credential held is let go.  Another one on the volume is a sibling's
\* and is adopted; the same one, or none, will be cleared.
Forget(p) == LetGo(p, None)

\* The store is cleared of whatever is there by now, and the loop dials again
\* at once.
ClearRefused(p) ==
  /\ at[p] = "clear"
  /\ file' = None
  /\ Carry(p, None)
  /\ Goto(p, "bearer")
  /\ UNCHANGED <<saved, held, spent, grant, server, past>>

-------------------------------------------------------------------------------
(***************************************************************************)
(* The deployment, the person, the supervisor                              *)
(***************************************************************************)
\* A person approves while the deployment has a credential left to issue (a
\* bound: those are Credentials).
Decide(p, verdict) ==
  /\ code[p] = "pending"
  /\ verdict = "approved" =>
       Cardinality({q \in Pods : code[q] = "approved"})
         < Cardinality({c \in Credentials : account[c] = "unissued"})
  /\ code' = [code EXCEPT ![p] = verdict]
  /\ UNCHANGED <<file, saved, loop, renewals, server, past>>

Revoke(c) ==
  /\ account[c] = "live"
  /\ account' = [account EXCEPT ![c] = "revoked"]
  /\ UNCHANGED <<file, saved, loop, grant, past>>

\* The file is restored from a tarball, or its mode widened.
Expose ==
  /\ file # None
  /\ file' = Exposed
  /\ UNCHANGED <<saved, loop, grant, server, past>>

Crash(p) ==
  /\ at[p] \notin {"absent", "down", "exited"}
  /\ crashes < MaxCrashes
  /\ crashes' = crashes + 1
  /\ lost' = IF at[p] = "save" THEN lost \union {inHand[p]} ELSE lost
  /\ Goto(p, "down")
  /\ Hold(p, None)
  /\ Carry(p, None)
  /\ spent' = [spent EXCEPT ![p] = FALSE]
  /\ code' = [code EXCEPT ![p] = "none"]
  /\ renewals' = [renewals EXCEPT ![p] = 0]
  /\ refused' = [refused EXCEPT ![p] = {}]
  /\ UNCHANGED <<file, saved, server>>

Restart(p) ==
  /\ at[p] = "down"
  /\ Goto(p, "bearer")
  /\ UNCHANGED <<file, saved, held, inHand, spent, grant, server, past>>

-------------------------------------------------------------------------------
PodStep(p) ==
  \/ BearerHeld(p) \/ BearerStored(p) \/ Discard(p)
  \/ Begin(p) \/ PollGranted(p) \/ PollLapsed(p) \/ PollDenied(p) \/ Save(p)
  \/ Connect(p) \/ Refused(p) \/ Wake(p)
  \/ Forget(p) \/ ClearRefused(p)

\* What goes wrong.
Trouble(p) == Unreadable(p) \/ StoreFails(p) \/ PollFails(p) \/ Unreachable(p) \/ Disconnect(p)

Next ==
  \/ \E p \in Pods :
       \/ PodStep(p) \/ Trouble(p)
       \/ \E verdict \in {"approved", "denied", "lapsed"} : Decide(p, verdict)
       \/ Crash(p) \/ Restart(p)
  \/ \E c \in Credentials : Revoke(c)
  \/ Expose

\* The runtime polls a future that can go on, and the deployment lets a code
\* lapse that nobody types.
Fairness ==
  \A p \in Pods : WF_vars(PodStep(p)) /\ WF_vars(Decide(p, "lapsed"))

Spec == Init /\ [][Next]_vars /\ Fairness

-------------------------------------------------------------------------------
(***************************************************************************)
(* Properties                                                              *)
(***************************************************************************)

\* No other pod runs on the volume, nor ever did.
Alone(p) == \A q \in Pods \ {p} : at[q] = "absent"

\* A pod that has the volume to itself presents the credential the next process
\* will find: a restart at any moment goes on with it and prints no code.  (Only
\* a file somebody exposed stops that.)
HeldIsStored ==
  \A p \in Pods : Alone(p) /\ held[p] # None => file \in {held[p], Exposed}

\* Nor is a credential that still works thrown away by such a pod: it is on the
\* volume, or on its way there, or it was lost with a process or a write that
\* failed between the grant and the save, or in a file that could not be read.
LiveIsKept ==
  \A p \in Pods, c \in Credentials :
    Alone(p) /\ account[c] = "live" =>
      \/ file \in {c, Exposed}
      \/ at[p] = "save" /\ inHand[p] = c
      \/ c \in lost

\* A process never dials again with a credential it was refused with, however
\* its siblings change the volume meanwhile: forget_refused lets go of it in
\* memory and on disk.
NeverRetriesRefused ==
  \A p \in Pods : at[p] = "dial" => held[p] \notin refused[p]

\* An enrollment nobody answers ends: renewals are bounded, so the process
\* exits and its supervisor can tell.
EnrollmentEnds == \A p \in Pods : at[p] = "poll" ~> at[p] # "poll"
===============================================================================
