------------------------------- MODULE ProcTable -------------------------------
(***************************************************************************)
(* How the watcher asks whether a process runs: process_running,           *)
(* process_list and parse_proc_stat of src/system.rs.                      *)
(*                                                                         *)
(* The list is no snapshot.  /proc is walked in the order of the pids, one *)
(* stat file read after the other, while processes start, take the names   *)
(* of the programs they become, die and are reaped by their parents.  And  *)
(* what cannot be read is passed over in silence, be it one stat file or   *)
(* the whole directory (a process out of file descriptors can read none).  *)
(*                                                                         *)
(* A name is a sequence of characters, of which the brackets and the rest  *)
(* are told apart: the stat line puts the name in brackets, and the name   *)
(* may hold some itself.  The kernel and the other processes are external. *)
(*                                                                         *)
(* Names that Sampling has as well are told apart from it, so that a       *)
(* module can hold theorems of a sample and of the scan it makes.          *)
(***************************************************************************)
EXTENDS Integers, Sequences, SequencesExt

CONSTANTS MaxPid,  \* bound: the pids of the namespace are 1..MaxPid
          Comms,   \* the names processes take
          Watched  \* the one process_running is asked for

ASSUME ProcAssumption ==
  /\ MaxPid \in Nat \ {0}
  /\ \A comm \in Comms \union {Watched} : comm \in Seq(STRING) \ {<<>>}

VARIABLES procs,  \* per pid: its name and scheduling state, or Gone
          cursor, \* the pid process_list goes on with
          found,  \* whether one of those read has the name asked for
          result, \* what the last process_running said
          steady, \* history: the pids that had the name since the scan began
          ever,   \* history: at some moment of it some pid had the name
          skipped \* history: the pids whose entry could not be read in it

scan == <<cursor, found, result>>
observed == <<steady, ever, skipped>>
scanVars == <<procs, scan, observed>>

Pids == 1..MaxPid
Gone == [comm |-> <<>>, state |-> "-"]

ScanTypeOK ==
  /\ procs \in [Pids -> [comm : Comms, state : {"S", "Z"}] \union {Gone}]
  /\ cursor \in 0..MaxPid + 1
  /\ found \in BOOLEAN
  /\ result \in {"none", "running", "absent"}
  /\ steady \subseteq Pids
  /\ ever \in BOOLEAN
  /\ skipped \subseteq Pids

Named(table) == {pid \in Pids : table[pid].comm = Watched}

ScanInit ==
  /\ procs \in [Pids -> [comm : Comms, state : {"S"}] \union {Gone}]
  /\ cursor = 0
  /\ found = FALSE
  /\ result = "none"
  /\ steady = {}
  /\ ever = FALSE
  /\ skipped = {}

-------------------------------------------------------------------------------
\* What split_once and rsplit_once leave of a line.
UpTo(line, char) ==
  SubSeq(line, 1, SelectInSeq(line, LAMBDA c : c = char) - 1)

After(line, char) ==
  SubSeq(line, SelectLastInSeq(line, LAMBDA c : c = char) + 1, Len(line))

\* parse_proc_stat on the line "pid (comm) state ...": the name ends at the first
\* closing bracket and begins after the last opening one before it.
ParsedComm(comm) ==
  LET line == <<"(">> \o comm \o <<")">>
  IN  After(UpTo(line, ")"), "(")

-------------------------------------------------------------------------------
\* /proc is opened, or it cannot be and the list is empty.
BeginScan ==
  /\ cursor = 0
  /\ \/ cursor' = 1 /\ skipped' = {}
     \/ cursor' = MaxPid + 1 /\ skipped' = Pids
  /\ found' = FALSE
  /\ result' = "none"
  /\ steady' = Named(procs)
  /\ ever' = (Named(procs) # {})
  /\ UNCHANGED procs

\* The walk goes on at pid, having learned nothing of those before it.
SkipTo(pid) ==
  /\ cursor' = pid
  /\ skipped' = skipped \union (cursor..(pid - 1))
  /\ UNCHANGED found

\* It goes on with the next, with this answer for the one it was at.
Learn(answer) ==
  /\ cursor' = cursor + 1
  /\ found' = (found \/ answer)
  /\ UNCHANGED skipped

ReadStopsAtGap ==
  /\ cursor \in Pids
  /\ IF procs[cursor] = Gone
     THEN cursor' = MaxPid + 1 /\ UNCHANGED <<found, skipped>>
     ELSE Learn(ParsedComm(procs[cursor].comm) = Watched)
  /\ UNCHANGED <<procs, result, steady, ever>>

ReadPrefix ==
  /\ cursor \in Pids
  /\ Learn(procs[cursor] # Gone /\ IsPrefix(Watched, ParsedComm(procs[cursor].comm)))
  /\ UNCHANGED <<procs, result, steady, ever>>

\* One stat file; a process that is gone by now is passed over, and the state
\* is not looked at.  A stat file that cannot be read is passed over as well, and
\* so is all that is left when the directory cannot be read on.
Read ==
  /\ cursor \in Pids
  /\ \/ Learn(procs[cursor] # Gone /\ ParsedComm(procs[cursor].comm) = Watched)
     \/ SkipTo(cursor + 1)
     \/ SkipTo(MaxPid + 1)
  /\ UNCHANGED <<procs, result, steady, ever>>

FinishKeepsCursor ==
  /\ cursor = MaxPid + 1
  /\ result' = (IF found THEN "running" ELSE "absent")
  /\ cursor' = cursor + 1
  /\ UNCHANGED <<procs, found, observed>>

Finish ==
  /\ cursor = MaxPid + 1
  /\ result' = (IF found THEN "running" ELSE "absent")
  /\ cursor' = 0
  /\ UNCHANGED <<procs, found, observed>>

-------------------------------------------------------------------------------
(***************************************************************************)
(* The kernel and the other processes                                      *)
(***************************************************************************)
\* What the change means for a scan under way.
Becomes(table) ==
  /\ procs' = table
  /\ IF cursor = 0
     THEN UNCHANGED observed
     ELSE /\ steady' = steady \cap Named(table)
          /\ ever' = (ever \/ Named(table) # {})
          /\ UNCHANGED skipped
  /\ UNCHANGED scan

Start(pid, comm) ==
  /\ procs[pid] = Gone
  /\ Becomes([procs EXCEPT ![pid] = [comm |-> comm, state |-> "S"]])

Exec(pid, comm) ==
  /\ procs[pid].state = "S"
  /\ Becomes([procs EXCEPT ![pid].comm = comm])

\* A process that ended keeps its entry until its parent waits for it.
Die(pid) ==
  /\ procs[pid].state = "S"
  /\ Becomes([procs EXCEPT ![pid].state = "Z"])

Reap(pid) ==
  /\ procs[pid].state = "Z"
  /\ Becomes([procs EXCEPT ![pid] = Gone])

ScanNext ==
  \/ BeginScan \/ Read \/ Finish
  \/ \E pid \in Pids :
       \/ \E comm \in Comms : Start(pid, comm) \/ Exec(pid, comm)
       \/ Die(pid) \/ Reap(pid)

ScanSpec == ScanInit /\ [][ScanNext]_scanVars

-------------------------------------------------------------------------------
(***************************************************************************)
(* Properties                                                              *)
(***************************************************************************)
\* A process that has the name asked for all through a scan, the ones that are
\* zombies included, is said to be absent only if its own entry could not be read,
\* or the directory could not: whatever starts and dies around it, and whatever
\* else cannot be read, the walk passes over that and goes on.  (The name must be
\* one that is read as it is.)
SteadyIsSeen ==
  ParsedComm(Watched) = Watched /\ cursor = 0 /\ result = "absent" => steady \subseteq skipped

\* "running" is said only of a name some process had while the scan ran, as
\* long as no other name is cut down to the one asked for.
SeenWasThere ==
  (\A comm \in Comms : ParsedComm(comm) = Watched => comm = Watched)
    => (result = "running" => ever)
===============================================================================
