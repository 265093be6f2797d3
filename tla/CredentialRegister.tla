--------------------------- MODULE CredentialRegister ---------------------------
(***************************************************************************)
(* What a CredentialStore (src/runtime/store.rs) promises its callers: one *)
(* register that is saved, cleared and loaded in one step each, and never  *)
(* shows anything between two of them.                                     *)
(*                                                                         *)
(* A loss of power may bring back the value before the last save or clear, *)
(* but nothing else: a half-written credential, "indistinguishable from a  *)
(* corrupt one", is not a value of the register.                           *)
(***************************************************************************)
CONSTANTS Pods,     \* the processes sharing one volume
          Secrets,  \* credentials this build can use
          Alien,    \* a credential it cannot: an earlier image's, a corrupt one
          None      \* no credential

VARIABLES value,    \* what is stored
          durable,  \* what a loss of power brings back
          exposed,  \* whether the stored credential is readable by others
          answer    \* what the last load told each pod

vars == <<value, durable, exposed, answer>>

Values == Secrets \union {Alien, None}
Answers == Secrets \union {None, "refused", "unusable"}

TypeOK ==
  /\ value \in Values
  /\ durable \in Values
  /\ exposed \in BOOLEAN
  /\ answer \in [Pods -> Answers]

Init ==
  /\ value \in Values
  /\ durable = value
  /\ exposed = FALSE
  /\ answer = [p \in Pods |-> None]

\* A credential other users can read is refused, whatever it says.
Answer(stored, open) ==
  CASE open -> "refused"
    [] ~open /\ stored = Alien -> "unusable"
    [] OTHER -> stored

Load(p) ==
  /\ answer' = [answer EXCEPT ![p] = Answer(value, exposed)]
  /\ UNCHANGED <<value, durable, exposed>>

\* The stored credential exists but could not be read.
LoadFails(p) ==
  /\ value # None
  /\ answer' = [answer EXCEPT ![p] = "unusable"]
  /\ UNCHANGED <<value, durable, exposed>>

Save(c) ==
  /\ value' = c
  /\ exposed' = FALSE
  /\ UNCHANGED <<durable, answer>>

Clear ==
  /\ value' = None
  /\ exposed' = FALSE
  /\ UNCHANGED <<durable, answer>>

Expose ==
  /\ value # None
  /\ exposed' = TRUE
  /\ UNCHANGED <<value, durable, answer>>

Flush ==
  /\ durable' = value
  /\ UNCHANGED <<value, exposed, answer>>

PowerLoss ==
  /\ value' \in {value, durable}
  /\ durable' = value'
  /\ exposed' \in BOOLEAN
  /\ UNCHANGED answer

Next ==
  \/ \E p \in Pods : Load(p) \/ LoadFails(p)
  \/ \E c \in Secrets : Save(c)
  \/ Clear
  \/ Expose
  \/ Flush
  \/ PowerLoss

Spec == Init /\ [][Next]_vars
===============================================================================
