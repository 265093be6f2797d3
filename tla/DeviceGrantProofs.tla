--------------------------- MODULE DeviceGrantProofs ---------------------------
(***************************************************************************)
(* Proofs about DeviceGrant, for any number of pods on the volume, of      *)
(* credentials and of kills: the types, what a pod presents, what it finds *)
(* again and what it never loses.                                          *)
(***************************************************************************)
EXTENDS DeviceGrant, TLAPS

-------------------------------------------------------------------------------
(***************************************************************************)
(* The invariant                                                           *)
(***************************************************************************)
\* What is on the volume, and what a pod holds, was saved.
FileWasSaved == file \in Credentials => file \in saved
HeldWasSaved == \A p \in Pods : held[p] # None => held[p] \in saved

\* What was saved had been issued.
SavedIsIssued == \A c \in saved : account[c] # "unissued"

\* What a pod is about to save is new: nobody else has it or had it.
SavingIsNew ==
  \A p \in Pods :
    at[p] = "save" =>
      /\ inHand[p] \in Credentials \ saved
      /\ account[inHand[p]] # "unissued"
      /\ \A q \in Pods : at[q] = "save" /\ inHand[q] = inHand[p] => q = p

\* What a process was refused with had been saved, so no pod will save it again.
RefusedWasSaved == \A p \in Pods : refused[p] \subseteq saved

\* It is on the volume only until the process has cleared it, or has ended.
RefusedIsCleared ==
  \A p \in Pods :
    file \in refused[p] =>
      \/ at[p] = "forget" /\ held[p] = file
      \/ at[p] \in {"discardRefused", "clear", "exited"}

\* And in memory only until it is forgotten.
RefusedIsLetGo ==
  \A p \in Pods : held[p] \in refused[p] => at[p] \in {"forget", "exited"}

\* Where a pod holds a credential, and where it holds none.
HeldWhereDialled == \A p \in Pods : at[p] \in {"dial", "up", "forget"} => held[p] # None

Empty == {"discard", "discardRefused", "clear", "begin", "poll", "save"}

EmptyHanded == \A p \in Pods : at[p] \in Empty => held[p] = None

\* What a pod forgets is revoked.
ForgottenIsRevoked == \A p \in Pods : at[p] = "forget" => account[held[p]] = "revoked"

\* What was issued was saved, was lost or is about to be saved.
IssuedIsAccountedFor ==
  \A c \in Credentials :
    account[c] # "unissued" =>
      \/ c \in saved \union lost
      \/ \E p \in Pods : at[p] = "save" /\ inHand[p] = c

\* A pod on its own that clears the volume, or enrolls, clears nothing that works.
ClearedIsDead ==
  \A p \in Pods, c \in Credentials :
    Alone(p) /\ at[p] \in Empty /\ account[c] = "live" =>
      c \in lost \/ (at[p] = "save" /\ inHand[p] = c)

IInv ==
  /\ TypeOK
  /\ FileWasSaved /\ HeldWasSaved /\ SavedIsIssued /\ SavingIsNew
  /\ RefusedWasSaved /\ RefusedIsCleared /\ RefusedIsLetGo
  /\ HeldWhereDialled /\ EmptyHanded /\ ForgottenIsRevoked
  /\ IssuedIsAccountedFor /\ ClearedIsDead
  /\ HeldIsStored /\ LiveIsKept

-------------------------------------------------------------------------------
(***************************************************************************)
(* Each action keeps it                                                    *)
(***************************************************************************)

\* It holds at the start.
LEMMA InitInvariant == Init => IInv
<1> SUFFICES ASSUME Init PROVE IInv
  OBVIOUS
<1>1. TypeOK
  BY GrantAssumption DEF Init, TypeOK, Places
<1>2. FileWasSaved /\ HeldWasSaved /\ SavedIsIssued /\ RefusedWasSaved
  BY GrantAssumption
  DEF Init, FileWasSaved, HeldWasSaved, SavedIsIssued, RefusedWasSaved
<1>3. SavingIsNew /\ HeldWhereDialled /\ EmptyHanded /\ ForgottenIsRevoked
  BY DEF Init, SavingIsNew, HeldWhereDialled, EmptyHanded, ForgottenIsRevoked
<1>4. RefusedIsCleared /\ RefusedIsLetGo
  BY DEF Init, RefusedIsCleared, RefusedIsLetGo
<1>5. IssuedIsAccountedFor /\ ClearedIsDead /\ HeldIsStored /\ LiveIsKept
  BY DEF Init, Empty, IssuedIsAccountedFor, ClearedIsDead, HeldIsStored,
         LiveIsKept
<1> QED
  BY <1>1, <1>2, <1>3, <1>4, <1>5 DEF IInv

\* A pod that moves on and changes nothing but the state of its enrollment.
LEMMA MovePreserves ==
  ASSUME IInv, TypeOK', NEW p \in Pods,
         \A q \in Pods \ {p} : at'[q] = at[q],
         at[p] \in {"bearer", "begin", "poll", "dial", "up", "wait", "down"},
         at'[p] \in {"bearer", "poll", "dial", "up", "wait", "exited"},
         at'[p] = "poll" => at[p] \in {"begin", "poll"},
         at'[p] \in {"dial", "up"} => held[p] # None,
         UNCHANGED <<file, saved, held, inHand, account, lost, refused>>
  PROVE  IInv'
<1>1. FileWasSaved' /\ HeldWasSaved' /\ SavedIsIssued' /\ RefusedWasSaved'
  BY DEF IInv, FileWasSaved, HeldWasSaved, SavedIsIssued, RefusedWasSaved
<1>2. SavingIsNew' /\ HeldWhereDialled' /\ EmptyHanded' /\ ForgottenIsRevoked'
  BY DEF IInv, Alone, Empty, SavingIsNew, HeldWhereDialled, EmptyHanded,
         ForgottenIsRevoked
<1>3. RefusedIsCleared' /\ RefusedIsLetGo'
  BY DEF IInv, RefusedIsCleared, RefusedIsLetGo
<1>4. IssuedIsAccountedFor' /\ ClearedIsDead' /\ HeldIsStored' /\ LiveIsKept'
  BY DEF IInv, Alone, Empty, IssuedIsAccountedFor, ClearedIsDead,
         HeldIsStored, LiveIsKept
<1> QED
  BY <1>1, <1>2, <1>3, <1>4 DEF IInv

\* These actions move a pod on.
LEMMA BearerHeldPreserves ==
  ASSUME IInv, NEW p \in Pods, BearerHeld(p)
  PROVE  IInv'
<1>1. TypeOK'
  BY DEF BearerHeld, Goto, grant, server, past, IInv, TypeOK, Places
<1>2. at'[p] = "dial" /\ \A q \in Pods \ {p} : at'[q] = at[q]
  BY DEF BearerHeld, Goto, Stop, loop, grant, server, past, IInv, TypeOK
<1>3. UNCHANGED <<file, saved, held, inHand, account, lost, refused>>
  BY DEF BearerHeld, Goto, Stop, loop, grant, server, past
<1> QED
  BY <1>1, <1>2, <1>3, MovePreserves DEF BearerHeld, IInv, HeldWhereDialled

LEMMA BeginPreserves == ASSUME IInv, NEW p \in Pods, Begin(p) PROVE IInv'
<1>1. TypeOK'
  BY GrantAssumption
  DEF Begin, EnrollmentTrouble, Goto, Stop, server, past, IInv, TypeOK, Places
<1>2. at'[p] \in {"poll", "wait", "exited"} /\ \A q \in Pods \ {p} : at'[q] = at[q]
  BY DEF Begin, EnrollmentTrouble, Goto, Stop, loop, grant, server, past,
         IInv, TypeOK
<1>3. UNCHANGED <<file, saved, held, inHand, account, lost, refused>>
  BY DEF Begin, EnrollmentTrouble, Goto, Stop, loop, grant, server, past
<1>4. at[p] = "begin"
  BY DEF Begin
<1> QED
  BY <1>1, <1>2, <1>3, <1>4, MovePreserves

LEMMA PollLapsedPreserves ==
  ASSUME IInv, NEW p \in Pods, PollLapsed(p)
  PROVE  IInv'
<1>1. TypeOK'
  BY GrantAssumption
  DEF PollLapsed, RenewUpTo, Renew, EnrollmentTrouble, Goto, Stop, grant,
      server, past, IInv, TypeOK, Places
<1>2. at'[p] \in {"poll", "wait", "exited"} /\ \A q \in Pods \ {p} : at'[q] = at[q]
  BY DEF PollLapsed, RenewUpTo, Renew, EnrollmentTrouble, Goto, Stop, loop,
         grant, server, past, IInv, TypeOK
<1>3. UNCHANGED <<file, saved, held, inHand, account, lost, refused>>
  BY DEF PollLapsed, RenewUpTo, Renew, EnrollmentTrouble, Goto, Stop, loop,
         grant, server, past
<1>4. at[p] = "poll"
  BY DEF PollLapsed, RenewUpTo
<1> QED
  BY <1>1, <1>2, <1>3, <1>4, MovePreserves

LEMMA PollDeniedPreserves ==
  ASSUME IInv, NEW p \in Pods, PollDenied(p)
  PROVE  IInv'
<1>1. TypeOK'
  BY DEF PollDenied, Stop, grant, server, past, IInv, TypeOK, Places
<1>2. at'[p] = "exited" /\ \A q \in Pods \ {p} : at'[q] = at[q]
  BY DEF PollDenied, Goto, Stop, loop, grant, server, past, IInv, TypeOK
<1>3. UNCHANGED <<file, saved, held, inHand, account, lost, refused>>
  BY DEF PollDenied, Goto, Stop, loop, grant, server, past
<1>4. at[p] = "poll"
  BY DEF PollDenied
<1> QED
  BY <1>1, <1>2, <1>3, <1>4, MovePreserves

LEMMA PollFailsPreserves ==
  ASSUME IInv, NEW p \in Pods, PollFails(p)
  PROVE  IInv'
<1>1. TypeOK'
  BY DEF PollFails, EnrollmentTrouble, Goto, Stop, server, past, IInv, TypeOK,
         Places
<1>2. at'[p] \in {"wait", "exited"} /\ \A q \in Pods \ {p} : at'[q] = at[q]
  BY DEF PollFails, EnrollmentTrouble, Goto, Stop, loop, grant, server, past,
         IInv, TypeOK
<1>3. UNCHANGED <<file, saved, held, inHand, account, lost, refused>>
  BY DEF PollFails, EnrollmentTrouble, Goto, Stop, loop, grant, server, past
<1>4. at[p] = "poll"
  BY DEF PollFails
<1> QED
  BY <1>1, <1>2, <1>3, <1>4, MovePreserves

LEMMA ConnectPreserves == ASSUME IInv, NEW p \in Pods, Connect(p) PROVE IInv'
<1>1. TypeOK'
  BY DEF Connect, Goto, grant, server, IInv, TypeOK, Places
<1>2. at'[p] = "up" /\ \A q \in Pods \ {p} : at'[q] = at[q]
  BY DEF Connect, Goto, Stop, loop, grant, server, past, IInv, TypeOK
<1>3. UNCHANGED <<file, saved, held, inHand, account, lost, refused>>
  BY DEF Connect, Goto, Stop, loop, grant, server, past
<1> QED
  BY <1>1, <1>2, <1>3, MovePreserves DEF Connect, IInv, HeldWhereDialled

LEMMA UnreachablePreserves ==
  ASSUME IInv, NEW p \in Pods, Unreachable(p)
  PROVE  IInv'
<1>1. TypeOK'
  BY DEF Unreachable, Goto, grant, server, past, IInv, TypeOK, Places
<1>2. at'[p] = "wait" /\ \A q \in Pods \ {p} : at'[q] = at[q]
  BY DEF Unreachable, Goto, Stop, loop, grant, server, past, IInv, TypeOK
<1>3. UNCHANGED <<file, saved, held, inHand, account, lost, refused>>
  BY DEF Unreachable, Goto, Stop, loop, grant, server, past
<1> QED
  BY <1>1, <1>2, <1>3, MovePreserves DEF Unreachable, IInv, HeldWhereDialled

LEMMA DisconnectPreserves ==
  ASSUME IInv, NEW p \in Pods, Disconnect(p)
  PROVE  IInv'
<1>1. TypeOK'
  BY DEF Disconnect, Goto, grant, server, past, IInv, TypeOK, Places
<1>2. at'[p] = "wait" /\ \A q \in Pods \ {p} : at'[q] = at[q]
  BY DEF Disconnect, Goto, Stop, loop, grant, server, past, IInv, TypeOK
<1>3. UNCHANGED <<file, saved, held, inHand, account, lost, refused>>
  BY DEF Disconnect, Goto, Stop, loop, grant, server, past
<1> QED
  BY <1>1, <1>2, <1>3, MovePreserves DEF Disconnect, IInv, HeldWhereDialled

LEMMA WakePreserves == ASSUME IInv, NEW p \in Pods, Wake(p) PROVE IInv'
<1>1. TypeOK'
  BY DEF Wake, Goto, grant, server, past, IInv, TypeOK, Places
<1>2. at'[p] = "bearer" /\ \A q \in Pods \ {p} : at'[q] = at[q]
  BY DEF Wake, Goto, Stop, loop, grant, server, past, IInv, TypeOK
<1>3. UNCHANGED <<file, saved, held, inHand, account, lost, refused>>
  BY DEF Wake, Goto, Stop, loop, grant, server, past
<1> QED
  BY <1>1, <1>2, <1>3, MovePreserves DEF Wake, IInv, HeldWhereDialled

LEMMA RestartPreserves == ASSUME IInv, NEW p \in Pods, Restart(p) PROVE IInv'
<1>1. TypeOK'
  BY DEF Restart, Goto, grant, server, past, IInv, TypeOK, Places
<1>2. at'[p] = "bearer" /\ \A q \in Pods \ {p} : at'[q] = at[q]
  BY DEF Restart, Goto, Stop, loop, grant, server, past, IInv, TypeOK
<1>3. UNCHANGED <<file, saved, held, inHand, account, lost, refused>>
  BY DEF Restart, Goto, Stop, loop, grant, server, past
<1> QED
  BY <1>1, <1>2, <1>3, MovePreserves DEF Restart, IInv, HeldWhereDialled

\* What is adopted from the volume was saved, and is none this process was
\* refused with.
LEMMA BearerStoredPreserves ==
  ASSUME IInv, NEW p \in Pods, BearerStored(p)
  PROVE  IInv'
<1>1. TypeOK'
  BY DEF BearerStored, Goto, Stop, Hold, grant, server, past, IInv, TypeOK,
         Places
<1>2. FileWasSaved' /\ SavedIsIssued' /\ RefusedWasSaved'
  BY DEF BearerStored, server, past, IInv, FileWasSaved, SavedIsIssued,
         RefusedWasSaved
<1>3. HeldWasSaved'
  BY DEF BearerStored, Hold, IInv, TypeOK, HeldWasSaved, FileWasSaved
<1>4. SavingIsNew' /\ HeldWhereDialled' /\ EmptyHanded' /\ ForgottenIsRevoked'
  BY GrantAssumption
  DEF BearerStored, Goto, Stop, server, Hold, IInv, TypeOK, Empty,
      SavingIsNew, HeldWhereDialled, EmptyHanded, ForgottenIsRevoked
<1>5. RefusedIsCleared'
  BY DEF BearerStored, Goto, Stop, Hold, past, IInv, TypeOK, RefusedIsCleared
<1>6. RefusedIsLetGo'
  BY DEF BearerStored, Goto, Stop, Hold, past, IInv, TypeOK, RefusedIsCleared,
         RefusedIsLetGo
<1>7. IssuedIsAccountedFor' /\ HeldIsStored' /\ LiveIsKept'
  BY DEF BearerStored, Goto, Stop, server, past, Hold, IInv, TypeOK, Alone,
         IssuedIsAccountedFor, HeldIsStored, LiveIsKept
<1>8. ClearedIsDead'
  BY GrantAssumption
  DEF BearerStored, Goto, Stop, server, past, IInv, TypeOK, Alone, Empty,
      ClearedIsDead, LiveIsKept
<1> QED
  BY <1>1, <1>2, <1>3, <1>4, <1>5, <1>6, <1>7, <1>8 DEF IInv

\* A file that cannot be read may be let go: its credential is lost with it.
LEMMA UnreadablePreserves ==
  ASSUME IInv, NEW p \in Pods, Unreadable(p)
  PROVE  IInv'
<1>1. TypeOK'
  BY DEF Unreadable, Goto, Hold, Carry, grant, server, IInv, TypeOK, Places
<1>2. FileWasSaved' /\ HeldWasSaved' /\ SavedIsIssued' /\ RefusedWasSaved'
  BY DEF Unreadable, Hold, server, IInv, FileWasSaved, HeldWasSaved,
         SavedIsIssued, RefusedWasSaved
<1>3. SavingIsNew' /\ HeldWhereDialled' /\ EmptyHanded' /\ ForgottenIsRevoked'
  BY DEF Unreadable, Goto, Carry, server, Hold, IInv, TypeOK, SavingIsNew,
         HeldWhereDialled, EmptyHanded, ForgottenIsRevoked
<1>4. RefusedIsCleared' /\ RefusedIsLetGo'
  BY GrantAssumption
  DEF Unreadable, Goto, Hold, IInv, TypeOK, RefusedIsCleared, RefusedIsLetGo
<1>5. IssuedIsAccountedFor' /\ HeldIsStored' /\ LiveIsKept'
  BY DEF Unreadable, Goto, Carry, server, Hold, IInv, TypeOK, Alone,
         IssuedIsAccountedFor, HeldIsStored, LiveIsKept
<1>6. ClearedIsDead'
  BY DEF Unreadable, Goto, server, IInv, TypeOK, Alone, IssuedIsAccountedFor,
         ClearedIsDead, LiveIsKept
<1> QED
  BY <1>1, <1>2, <1>3, <1>4, <1>5, <1>6 DEF IInv

\* A pod on its own that discards has nothing that works on the volume.
LEMMA DiscardPreserves == ASSUME IInv, NEW p \in Pods, Discard(p) PROVE IInv'
<1>1. TypeOK'
  BY DEF Discard, Goto, grant, server, past, IInv, TypeOK, Places
<1>2. FileWasSaved' /\ HeldWasSaved' /\ SavedIsIssued' /\ RefusedWasSaved'
  BY GrantAssumption
  DEF Discard, server, past, IInv, FileWasSaved, HeldWasSaved, SavedIsIssued,
      RefusedWasSaved
<1>3. SavingIsNew' /\ HeldWhereDialled' /\ EmptyHanded' /\ ForgottenIsRevoked'
  BY DEF Discard, Goto, server, IInv, Empty, SavingIsNew, HeldWhereDialled,
         EmptyHanded, ForgottenIsRevoked
<1>4. RefusedIsCleared' /\ RefusedIsLetGo'
  BY GrantAssumption
  DEF Discard, past, Goto, IInv, TypeOK, RefusedIsCleared, RefusedIsLetGo
<1>5. IssuedIsAccountedFor' /\ ClearedIsDead'
  BY DEF Discard, Goto, server, past, IInv, Alone, Empty,
         IssuedIsAccountedFor, ClearedIsDead
<1>6. HeldIsStored'
  BY DEF Discard, Goto, IInv, Alone, Empty, HeldIsStored, EmptyHanded
<1>7. LiveIsKept'
  BY DEF Discard, Goto, server, past, IInv, Alone, Empty, LiveIsKept,
         ClearedIsDead
<1> QED
  BY <1>1, <1>2, <1>3, <1>4, <1>5, <1>6, <1>7 DEF IInv

\* A credential that could not be saved is lost.
LEMMA StoreFailsPreserves ==
  ASSUME IInv, NEW p \in Pods, StoreFails(p)
  PROVE  IInv'
<1>1. TypeOK'
  BY DEF StoreFails, Stop, grant, server, IInv, TypeOK, Places, SavingIsNew
<1>2. FileWasSaved' /\ HeldWasSaved' /\ SavedIsIssued' /\ RefusedWasSaved'
  BY DEF StoreFails, server, IInv, FileWasSaved, HeldWasSaved, SavedIsIssued,
         RefusedWasSaved
<1>3. SavingIsNew' /\ HeldWhereDialled' /\ EmptyHanded' /\ ForgottenIsRevoked'
  BY DEF StoreFails, Stop, server, IInv, Empty, SavingIsNew, HeldWhereDialled,
         EmptyHanded, ForgottenIsRevoked
<1>4. RefusedIsCleared' /\ RefusedIsLetGo'
  BY DEF StoreFails, Stop, IInv, RefusedIsCleared, RefusedIsLetGo
<1>5. IssuedIsAccountedFor' /\ ClearedIsDead' /\ HeldIsStored' /\ LiveIsKept'
  BY DEF StoreFails, Stop, server, IInv, Alone, Empty, IssuedIsAccountedFor,
         ClearedIsDead, HeldIsStored, LiveIsKept
<1> QED
  BY <1>1, <1>2, <1>3, <1>4, <1>5 DEF IInv

\* A credential granted is issued to no other pod.
LEMMA PollGrantedPreserves ==
  ASSUME IInv, NEW p \in Pods, PollGranted(p)
  PROVE  IInv'
<1>1. TypeOK'
  BY DEF PollGranted, Goto, Carry, IInv, TypeOK, Places
<1>2. FileWasSaved' /\ HeldWasSaved' /\ SavedIsIssued' /\ RefusedWasSaved'
  BY DEF PollGranted, IInv, FileWasSaved, HeldWasSaved, SavedIsIssued,
         RefusedWasSaved
<1>3. HeldWhereDialled' /\ EmptyHanded' /\ ForgottenIsRevoked'
  BY DEF PollGranted, Goto, IInv, Empty, HeldWhereDialled, EmptyHanded,
         ForgottenIsRevoked
<1>4. SavingIsNew'
  BY DEF PollGranted, Goto, Carry, IInv, TypeOK, SavingIsNew, SavedIsIssued
<1>5. RefusedIsCleared' /\ RefusedIsLetGo'
  BY DEF PollGranted, Goto, IInv, RefusedIsCleared, RefusedIsLetGo
<1>6. IssuedIsAccountedFor' /\ ClearedIsDead' /\ HeldIsStored' /\ LiveIsKept'
  BY DEF PollGranted, Goto, Carry, IInv, TypeOK, Alone, Empty,
         IssuedIsAccountedFor, ClearedIsDead, HeldIsStored, LiveIsKept
<1> QED
  BY <1>1, <1>2, <1>3, <1>4, <1>5, <1>6 DEF IInv

\* What is saved was new, so no process was refused with it.
LEMMA SavePreserves == ASSUME IInv, NEW p \in Pods, Save(p) PROVE IInv'
<1>1. TypeOK'
  BY DEF Save, Adopt, Goto, Hold, Carry, grant, server, past, IInv, TypeOK,
         Places, SavingIsNew
<1>2. FileWasSaved' /\ HeldWasSaved' /\ RefusedWasSaved'
  BY DEF Save, Adopt, Hold, past, IInv, FileWasSaved, HeldWasSaved,
         RefusedWasSaved
<1>3. SavedIsIssued'
  BY DEF Save, Adopt, server, IInv, SavedIsIssued, SavingIsNew
<1>4. SavingIsNew' /\ EmptyHanded' /\ ForgottenIsRevoked'
  BY DEF Save, Adopt, Goto, Carry, server, Hold, IInv, TypeOK, Empty,
         SavingIsNew, EmptyHanded, ForgottenIsRevoked
<1>5. HeldWhereDialled'
  BY GrantAssumption
  DEF Save, Adopt, Goto, Hold, IInv, TypeOK, HeldWhereDialled, SavingIsNew
<1>6. RefusedIsCleared'
  BY DEF Save, Adopt, past, IInv, RefusedIsCleared, SavingIsNew, RefusedWasSaved
<1>7. RefusedIsLetGo'
  BY DEF Save, Adopt, Goto, Hold, past, IInv, RefusedIsLetGo, SavingIsNew,
         RefusedWasSaved
<1>8. IssuedIsAccountedFor' /\ ClearedIsDead' /\ HeldIsStored'
  BY DEF Save, Adopt, Goto, Carry, server, past, Hold, IInv, TypeOK, Alone,
         Empty, IssuedIsAccountedFor, ClearedIsDead, HeldIsStored
<1>9. LiveIsKept'
  BY DEF Save, Adopt, Goto, server, past, IInv, Alone, Empty, LiveIsKept,
         ClearedIsDead
<1> QED
  BY <1>1, <1>2, <1>3, <1>4, <1>5, <1>6, <1>7, <1>8, <1>9 DEF IInv

\* What a process is refused with, it held: it had been saved.
LEMMA RefusedPreserves == ASSUME IInv, NEW p \in Pods, Refused(p) PROVE IInv'
<1>1. TypeOK'
  <2>1. held[p] \in Credentials
    BY DEF Refused, IInv, TypeOK, HeldWhereDialled
  <2>2. refused' \in [Pods -> SUBSET Credentials]
    BY <2>1 DEF Refused, IInv, TypeOK
  <2>3. /\ at' \in [Pods -> Places] /\ exit' \in [Pods -> {Running, 1, 2}]
        /\ spent' \in [Pods -> BOOLEAN]
    BY DEF Refused, Goto, Stop, IInv, TypeOK, Places, Running
  <2> QED
    BY <2>2, <2>3 DEF Refused, grant, server, IInv, TypeOK
<1>2. FileWasSaved' /\ HeldWasSaved' /\ SavedIsIssued'
  BY DEF Refused, server, IInv, FileWasSaved, HeldWasSaved, SavedIsIssued
<1>3. RefusedWasSaved'
  BY DEF Refused, IInv, RefusedWasSaved, HeldWhereDialled, HeldWasSaved
<1>4. SavingIsNew' /\ HeldWhereDialled' /\ EmptyHanded' /\ ForgottenIsRevoked'
  BY DEF Refused, Goto, Stop, server, IInv, TypeOK, Empty, SavingIsNew,
         HeldWhereDialled, EmptyHanded, ForgottenIsRevoked
<1>5. RefusedIsCleared' /\ RefusedIsLetGo'
  BY DEF Refused, Goto, Stop, IInv, TypeOK, RefusedIsCleared, RefusedIsLetGo
<1>6. IssuedIsAccountedFor' /\ ClearedIsDead' /\ HeldIsStored' /\ LiveIsKept'
  BY DEF Refused, Goto, Stop, server, IInv, TypeOK, Alone, Empty,
         IssuedIsAccountedFor, ClearedIsDead, HeldIsStored, LiveIsKept
<1> QED
  BY <1>1, <1>2, <1>3, <1>4, <1>5, <1>6 DEF IInv

\* What is forgotten is revoked; a sibling's is adopted from the volume.
LEMMA ForgetPreserves == ASSUME IInv, NEW p \in Pods, Forget(p) PROVE IInv'
<1>1. TypeOK'
  BY DEF Forget, LetGo, Goto, Stop, Hold, Carry, grant, server, past, IInv,
         TypeOK, Places
<1>2. FileWasSaved' /\ SavedIsIssued' /\ RefusedWasSaved'
  BY DEF Forget, LetGo, server, past, IInv, FileWasSaved, SavedIsIssued,
         RefusedWasSaved
<1>3. HeldWasSaved'
  BY DEF Forget, LetGo, Hold, IInv, TypeOK, HeldWasSaved, FileWasSaved
<1>4. SavingIsNew' /\ HeldWhereDialled' /\ EmptyHanded' /\ ForgottenIsRevoked'
  BY DEF Forget, LetGo, Goto, Stop, Carry, server, Hold, IInv, TypeOK, Empty,
         SavingIsNew, HeldWhereDialled, EmptyHanded, ForgottenIsRevoked
<1>5. RefusedIsCleared'
  BY DEF Forget, LetGo, Goto, Stop, Hold, past, IInv, TypeOK, RefusedIsCleared
<1>6. RefusedIsLetGo'
  BY GrantAssumption
  DEF Forget, LetGo, Goto, Stop, Hold, past, IInv, TypeOK, RefusedIsCleared,
      RefusedIsLetGo
<1>7. IssuedIsAccountedFor' /\ HeldIsStored' /\ LiveIsKept'
  BY DEF Forget, LetGo, Goto, Stop, Carry, server, past, Hold, IInv, TypeOK,
         Alone, IssuedIsAccountedFor, HeldIsStored, LiveIsKept
<1>8. ClearedIsDead'
  BY GrantAssumption
  DEF Forget, LetGo, Goto, Stop, server, past, IInv, TypeOK, Empty, Alone,
      ForgottenIsRevoked, ClearedIsDead, LiveIsKept
<1> QED
  BY <1>1, <1>2, <1>3, <1>4, <1>5, <1>6, <1>7, <1>8 DEF IInv

\* A pod on its own that clears has nothing that works on the volume.
LEMMA ClearRefusedPreserves ==
  ASSUME IInv, NEW p \in Pods, ClearRefused(p)
  PROVE  IInv'
<1>1. TypeOK'
  BY DEF ClearRefused, Goto, Carry, grant, server, past, IInv, TypeOK, Places
<1>2. FileWasSaved' /\ HeldWasSaved' /\ SavedIsIssued' /\ RefusedWasSaved'
  BY GrantAssumption
  DEF ClearRefused, server, past, IInv, FileWasSaved, HeldWasSaved,
      SavedIsIssued, RefusedWasSaved
<1>3. SavingIsNew' /\ HeldWhereDialled' /\ EmptyHanded' /\ ForgottenIsRevoked'
  BY DEF ClearRefused, Goto, Carry, server, IInv, Empty, SavingIsNew,
         HeldWhereDialled, EmptyHanded, ForgottenIsRevoked
<1>4. RefusedIsCleared' /\ RefusedIsLetGo'
  BY GrantAssumption
  DEF ClearRefused, past, Goto, IInv, TypeOK, RefusedIsCleared, RefusedIsLetGo
<1>5. IssuedIsAccountedFor' /\ ClearedIsDead'
  BY DEF ClearRefused, Goto, Carry, server, past, IInv, Alone, Empty,
         IssuedIsAccountedFor, ClearedIsDead
<1>6. HeldIsStored'
  BY DEF ClearRefused, Goto, IInv, Alone, Empty, HeldIsStored, EmptyHanded
<1>7. LiveIsKept'
  BY DEF ClearRefused, Goto, server, past, IInv, Alone, Empty, LiveIsKept,
         ClearedIsDead
<1> QED
  BY <1>1, <1>2, <1>3, <1>4, <1>5, <1>6, <1>7 DEF IInv

\* A process that is killed takes what it had not saved with it.
LEMMA CrashPreserves == ASSUME IInv, NEW p \in Pods, Crash(p) PROVE IInv'
<1>1. TypeOK'
  BY GrantAssumption
  DEF Crash, Goto, Hold, Carry, server, IInv, TypeOK, Places, SavingIsNew
<1>2. FileWasSaved' /\ HeldWasSaved' /\ SavedIsIssued' /\ RefusedWasSaved'
  BY DEF Crash, Hold, server, IInv, FileWasSaved, HeldWasSaved, SavedIsIssued,
         RefusedWasSaved
<1>3. SavingIsNew' /\ HeldWhereDialled' /\ EmptyHanded' /\ ForgottenIsRevoked'
  BY DEF Crash, Goto, Carry, server, Hold, IInv, TypeOK, Empty, SavingIsNew,
         HeldWhereDialled, EmptyHanded, ForgottenIsRevoked
<1>4. RefusedIsCleared' /\ RefusedIsLetGo'
  BY DEF Crash, Goto, Hold, IInv, TypeOK, RefusedIsCleared, RefusedIsLetGo
<1>5. IssuedIsAccountedFor' /\ ClearedIsDead' /\ HeldIsStored' /\ LiveIsKept'
  BY DEF Crash, Goto, Carry, server, Hold, IInv, Alone, Empty,
         IssuedIsAccountedFor, ClearedIsDead, HeldIsStored, LiveIsKept
<1> QED
  BY <1>1, <1>2, <1>3, <1>4, <1>5 DEF IInv

\* What the person decides, a code that lapses.
LEMMA DecidePreserves ==
  ASSUME IInv, NEW p \in Pods, NEW verdict \in {"approved", "denied", "lapsed"},
         Decide(p, verdict)
  PROVE  IInv'
<1>1. TypeOK'
  BY DEF Decide, loop, server, past, IInv, TypeOK
<1>2. UNCHANGED <<file, saved, held, inHand, at, account, lost, refused>>
  BY DEF Decide, loop, server, past
<1> QED
  BY <1>1, <1>2
  DEF IInv, Alone, FileWasSaved, HeldWasSaved, SavedIsIssued, SavingIsNew,
      RefusedWasSaved, RefusedIsCleared, RefusedIsLetGo, HeldWhereDialled,
      EmptyHanded, ForgottenIsRevoked, IssuedIsAccountedFor, ClearedIsDead,
      HeldIsStored, LiveIsKept

\* A credential that is revoked was issued.
LEMMA RevokePreserves ==
  ASSUME IInv, NEW c \in Credentials, Revoke(c)
  PROVE  IInv'
<1>1. TypeOK'
  BY DEF Revoke, loop, grant, past, IInv, TypeOK
<1>2. UNCHANGED <<file, saved, held, inHand, at, lost, refused>>
  BY DEF Revoke, loop, past
<1>3. /\ account[c] = "live"
      /\ \A b \in Credentials : account'[b] = IF b = c THEN "revoked" ELSE account[b]
  BY DEF Revoke, IInv, TypeOK
<1>4. FileWasSaved' /\ HeldWasSaved' /\ SavedIsIssued' /\ RefusedWasSaved'
  BY <1>2, <1>3
  DEF IInv, TypeOK, FileWasSaved, HeldWasSaved, SavedIsIssued, RefusedWasSaved
<1>5. SavingIsNew' /\ HeldWhereDialled' /\ EmptyHanded'
  BY <1>2, <1>3 DEF IInv, SavingIsNew, HeldWhereDialled, EmptyHanded
<1>6. ForgottenIsRevoked'
  BY <1>2, <1>3 DEF IInv, TypeOK, ForgottenIsRevoked, HeldWhereDialled
<1>7. RefusedIsCleared' /\ RefusedIsLetGo'
  BY <1>2, <1>3 DEF IInv, RefusedIsCleared, RefusedIsLetGo
<1>8. IssuedIsAccountedFor' /\ ClearedIsDead' /\ HeldIsStored' /\ LiveIsKept'
  BY <1>2, <1>3
  DEF IInv, Alone, Empty, IssuedIsAccountedFor, ClearedIsDead, HeldIsStored,
      LiveIsKept
<1> QED
  BY <1>1, <1>4, <1>5, <1>6, <1>7, <1>8 DEF IInv

\* An exposed file is none of the credentials.
LEMMA ExposePreserves == ASSUME IInv, Expose PROVE IInv'
<1>1. TypeOK'
  BY DEF Expose, loop, grant, server, past, IInv, TypeOK
<1>2. file' = Exposed /\ UNCHANGED <<account, saved, held, inHand, at, lost, refused>>
  BY DEF Expose, loop, server, past
<1>3. FileWasSaved' /\ HeldWasSaved' /\ SavedIsIssued' /\ RefusedWasSaved'
  BY GrantAssumption, <1>2
  DEF IInv, FileWasSaved, HeldWasSaved, SavedIsIssued, RefusedWasSaved
<1>4. SavingIsNew' /\ HeldWhereDialled' /\ EmptyHanded' /\ ForgottenIsRevoked'
  BY GrantAssumption, <1>2
  DEF IInv, SavingIsNew, HeldWhereDialled, EmptyHanded, ForgottenIsRevoked
<1>5. RefusedIsCleared' /\ RefusedIsLetGo'
  BY GrantAssumption, <1>2 DEF IInv, TypeOK, RefusedIsCleared, RefusedIsLetGo
<1>6. IssuedIsAccountedFor' /\ ClearedIsDead' /\ HeldIsStored' /\ LiveIsKept'
  BY GrantAssumption, <1>2
  DEF IInv, Alone, IssuedIsAccountedFor, ClearedIsDead, HeldIsStored,
      LiveIsKept
<1> QED
  BY <1>1, <1>3, <1>4, <1>5, <1>6 DEF IInv

\* Every step keeps it.
LEMMA NextInvariant == IInv /\ [Next]_vars => IInv'
<1> SUFFICES ASSUME IInv, [Next]_vars PROVE IInv'
  OBVIOUS
<1>1. CASE UNCHANGED vars
  <2>1. UNCHANGED <<file, account, at, held, inHand, spent, code, renewals, exit,
                    crashes, saved, lost, refused>>
    BY <1>1 DEF vars, loop, grant, server, past
  <2> QED
    BY <2>1
    DEF IInv, TypeOK, Alone, FileWasSaved, HeldWasSaved, SavedIsIssued,
        SavingIsNew, RefusedWasSaved, RefusedIsCleared, RefusedIsLetGo,
        HeldWhereDialled, EmptyHanded, ForgottenIsRevoked,
        IssuedIsAccountedFor, ClearedIsDead, HeldIsStored, LiveIsKept
<1>2. ASSUME NEW p \in Pods, PodStep(p) PROVE IInv'
  BY <1>2, BearerHeldPreserves, BearerStoredPreserves, DiscardPreserves, BeginPreserves,
     PollGrantedPreserves, PollLapsedPreserves, PollDeniedPreserves, SavePreserves,
     ConnectPreserves, RefusedPreserves, WakePreserves, ForgetPreserves,
     ClearRefusedPreserves DEF PodStep
<1>3. ASSUME NEW p \in Pods, Trouble(p) PROVE IInv'
  BY <1>3, UnreadablePreserves, StoreFailsPreserves, PollFailsPreserves,
     UnreachablePreserves, DisconnectPreserves DEF Trouble
<1>4. ASSUME NEW p \in Pods,
             Crash(p) \/ Restart(p) \/
             \E verdict \in {"approved", "denied", "lapsed"} : Decide(p, verdict)
      PROVE  IInv'
  BY <1>4, CrashPreserves, RestartPreserves, DecidePreserves
<1>5. CASE Expose \/ \E c \in Credentials : Revoke(c)
  BY <1>5, ExposePreserves, RevokePreserves
<1> QED
  BY <1>1, <1>2, <1>3, <1>4, <1>5 DEF Next

\* So it holds throughout.
LEMMA Invariant == Spec => []IInv
BY InitInvariant, NextInvariant, PTL DEF Spec

-------------------------------------------------------------------------------
\* The pods keep their variables in their types, however many share the volume;
\* in particular a code is renewed MaxRenewals times at most.
THEOREM TypeCorrect == Spec => []TypeOK
<1>1. IInv => TypeOK
  BY DEF IInv
<1> QED
  BY <1>1, Invariant, PTL

\* However many pods share the volume, none dials again with a credential it was
\* refused with (forget_refused).
THEOREM NoRetry == Spec => []NeverRetriesRefused
<1>1. IInv => NeverRetriesRefused
  BY DEF IInv, RefusedIsLetGo, NeverRetriesRefused
<1> QED
  BY <1>1, Invariant, PTL

\* A pod on its own presents what the next process finds, through kills and
\* errors at every step.
THEOREM HeldStored == Spec => []HeldIsStored
<1>1. IInv => HeldIsStored
  BY DEF IInv
<1> QED
  BY <1>1, Invariant, PTL

\* A pod on its own throws no working credential away.
THEOREM LiveKept == Spec => []LiveIsKept
<1>1. IInv => LiveIsKept
  BY DEF IInv
<1> QED
  BY <1>1, Invariant, PTL

===============================================================================
