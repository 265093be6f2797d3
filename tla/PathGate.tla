-------------------------------- MODULE PathGate --------------------------------
(***************************************************************************)
(* The path gate of src/gate.rs and the operations of src/file_io.rs that  *)
(* go through it, one system call per step.                                *)
(*                                                                         *)
(* The gate is built once, from the roots and the deny list main.rs hands  *)
(* it.  A call joins the path it is given to the first root, resolves as   *)
(* much of it as exists, decides, and then the layer below opens what was  *)
(* resolved.  Meanwhile other calls and other processes create and remove  *)
(* files and directories, and the credential store makes its directory,    *)
(* often the first time long after the gate was built.                     *)
(*                                                                         *)
(* A path is the sequence of its names from "/".  Links come and go at any *)
(* moment, in the middle of a call as well: what such a link does to a     *)
(* call, and what one does that led nowhere when the path was resolved, is *)
(* noted, and the properties say that nothing else leads out.  The links   *)
(* that lead to a root or a denied directory stay as they were when the    *)
(* gate was built, unless a call itself removes one, with a directory      *)
(* above it.  The file system and LocalFileIo are external.                *)
(***************************************************************************)
EXTENDS Integers, Sequences, SequencesExt

CONSTANTS Names,         \* of files and directories
          Depth,         \* bound: names in the path of one that exists
          Targets,       \* bound: where links lead
          MaxLinks,      \* how many links the kernel follows on the way to one place
          Requests,      \* bound: the paths asked for: [absolute, parts]
          FileRoots,     \* ZYRISD_FILE_ROOTS
          Secrets,       \* the directories of mounted secrets
          CredentialDir  \* credential_dir()

Paths == BoundedSeq(Names, Depth)

Up == ".."

ASSUME GateAssumption ==
  /\ Up \notin Names
  /\ Targets \subseteq Paths
  /\ Depth \in Nat /\ MaxLinks \in Nat
  /\ Requests \subseteq [absolute : BOOLEAN, parts : Seq(Names \union {Up})]
  /\ FileRoots \in Seq(Paths)
  /\ Secrets \subseteq Paths
  /\ CredentialDir \in Paths

VARIABLES tree,   \* what exists: its path, and whether it is a directory, a file or a link
          roots,  \* PathGate::roots
          deny,   \* PathGate::deny
          phase,  \* where the call is
          joined, \* the local "joined" of check
          depth,  \* how much of it "existing" is: the rest is the tail
          place,  \* the path resolved, then the place the operation came to
          settled, \* history: when the gate was built, each root and each denied
                   \* directory existed, or no link was on the way to it, and
                   \* their paths have led to the same places ever since
          still,   \* history: nothing changed since the call began
          linked,  \* history: what followed the resolved part of the path was a link
          swapped  \* history: a link was made while the path was resolved, or on
                   \* the way to the place resolved before that was opened

gate == <<roots, deny, settled>>
call == <<phase, joined, depth, place>>
past == <<still, linked, swapped>>
vars == <<tree, gate, call, past>>

Entries == [kind : {"dir", "file"}, to : {<<>>}] \union [kind : {"link"}, to : Targets]
Dir     == [kind |-> "dir", to |-> <<>>]
File    == [kind |-> "file", to |-> <<>>]

KindIn(t, path) == IF path \in DOMAIN t THEN t[path].kind ELSE "none"

Kind(path) == KindIn(tree, path)

TypeOK ==
  /\ DOMAIN tree \subseteq Paths
  /\ \A path \in DOMAIN tree :
       /\ tree[path] \in Entries
       /\ path # <<>> => Kind(Front(path)) = "dir"
  /\ Kind(<<>>) = "dir"
  /\ roots \in Seq(Seq(Names))
  /\ deny \subseteq Seq(Names)
  /\ phase \in {"idle", "resolve", "open", "refused", "done"}
  /\ joined \in Seq(Names)
  /\ depth \in 0..Len(joined)
  /\ place \in Seq(Names)
  /\ {settled, still, linked, swapped} \subseteq BOOLEAN

-------------------------------------------------------------------------------
(***************************************************************************)
(* The file system                                                         *)
(***************************************************************************)
\* Of a path, how many of its names come to a link.
LinksOn(t, path) == {n \in 1..Len(path) : KindIn(t, SubSeq(path, 1, n)) = "link"}

\* The first link on the way is followed: the rest is looked for where it leads.
Hop(t, path) ==
  LET n == Min(LinksOn(t, path))
  IN  t[SubSeq(path, 1, n)].to \o SubSeq(path, n + 1, Len(path))

Follow(t) ==
  LET follow[n \in 0..MaxLinks] ==
        [path \in Seq(Names) |-> IF n = 0 \/ LinksOn(t, path) = {} THEN path
                                 ELSE follow[n - 1][Hop(t, path)]]
  IN  follow

\* Where the kernel comes to; what does not exist is taken by its name.  A chain
\* of links that is too long is given up at one of them.
PlaceIn(t, path) == Follow(t)[MaxLinks][path]

Place(path) == PlaceIn(tree, path)

Loops(path) == LinksOn(tree, Place(path)) # {}

\* canonicalize: the place of what exists, and an error for what does not.
Canonical(path) == {at \in {Place(path)} : Kind(at) \in {"dir", "file"}}

WayTo(path) == {SubSeq(path, 1, n) : n \in 1..Len(path)}

-------------------------------------------------------------------------------
(***************************************************************************)
(* The gate                                                                *)
(***************************************************************************)
IsUnder(path, base) == IsPrefix(base, path)

\* resolve_roots.
Roots  == IF FileRoots = <<>> THEN << <<>> >> ELSE FileRoots
Denied == Secrets \union {CredentialDir}

Confines == Range(Roots) \union Denied

CanonByName(path) == path

\* Canonical, if it exists.
Canon(path) == IF Canonical(path) = {} THEN path ELSE Place(path)

JoinPartOnly(out, part) ==
  IF part # Up \/ out = <<>> THEN Append(out, part) ELSE Front(out)

\* join_like_upstream, by name only: ".." takes off what stands before it.
JoinPart(out, part) ==
  IF part # Up THEN Append(out, part) ELSE IF out = <<>> THEN out ELSE Front(out)

JoinAll(base, parts) ==
  LET out[n \in 0..Len(parts)] ==
        IF n = 0 THEN base ELSE JoinPart(out[n - 1], parts[n])
  IN  out[Len(parts)]

Join(request) ==
  JoinAll(IF request.absolute THEN <<>> ELSE Head(roots), request.parts)

Trees ==
  {t \in UNION {[exist -> Entries] : exist \in SUBSET (Paths \ {<<>>})} :
     \A path \in DOMAIN t :
       Front(path) = <<>> \/ (Front(path) \in DOMAIN t /\ t[Front(path)] = Dir)}

\* PathGate::new, on any file system.
Init ==
  /\ \E t \in Trees : tree = [path \in DOMAIN t \union {<<>>} |->
                              IF path = <<>> THEN Dir ELSE t[path]]
  /\ roots = [i \in DOMAIN Roots |-> Canon(Roots[i])]
  /\ deny = {Canon(path) : path \in Denied}
  /\ phase = "idle"
  /\ joined = <<>> /\ depth = 0 /\ place = <<>>
  /\ settled = \A path \in Confines :
       Canonical(path) # {} \/ \A q \in WayTo(path) : Kind(q) # "link"
  /\ still = TRUE /\ linked = FALSE /\ swapped = FALSE

Request(request) ==
  /\ phase \in {"idle", "refused", "done"}
  /\ phase' = "resolve"
  /\ joined' = Join(request)
  /\ depth' = Len(joined')
  /\ place' = <<>>
  /\ still' = TRUE /\ linked' = FALSE /\ swapped' = FALSE
  /\ UNCHANGED <<tree, gate>>

Allows(path) ==
  /\ ~\E d \in deny : IsUnder(path, d)
  /\ \E i \in DOMAIN roots : IsUnder(path, roots[i])

\* One turn of canonicalize_deepest, and the decision of check once something
\* exists ("/" always does).
Resolve ==
  /\ phase = "resolve"
  /\ LET existing == SubSeq(joined, 1, depth)
         tail     == SubSeq(joined, depth + 1, Len(joined))
         resolved == Place(existing) \o tail
     IN  IF Canonical(existing) = {}
         THEN depth' = depth - 1 /\ UNCHANGED <<phase, place, linked>>
         ELSE /\ phase' = IF Allows(resolved) THEN "open" ELSE "refused"
              /\ place' = resolved
              /\ linked' = (tail # <<>> /\ Kind(Append(Place(existing), Head(tail))) = "link")
              /\ UNCHANGED depth
  /\ UNCHANGED <<tree, gate, joined, still, swapped>>

-------------------------------------------------------------------------------
(***************************************************************************)
(* The layer below opens the path it is given                              *)
(***************************************************************************)
Create(at, entry) ==
  tree' = [path \in DOMAIN tree \union {<<>>} \union WayTo(at) |->
             IF path \in DOMAIN tree THEN tree[path] ELSE IF path = at THEN entry ELSE Dir]

Erase(at) == tree' = [path \in {q \in DOMAIN tree : ~IsPrefix(at, q)} |-> tree[path]]

\* The directories above can be made, or are there.
HasWay(at) ==
  at \in Paths \ {<<>>} /\ \A q \in WayTo(Front(at)) : Kind(q) \in {"dir", "none"}

\* The paths of the roots and the denied directories lead where they led before.
Stay == \A path \in Confines : Place(path)' = Place(path)

Done(at) ==
  /\ phase' = "done"
  /\ place' = at
  /\ still' = (still /\ tree' = tree)
  /\ settled' = (settled /\ Stay)
  /\ UNCHANGED <<roots, deny, joined, depth, linked, swapped>>

\* stat, list, read, read_stream and edit, and the directory of an exec.
Open ==
  /\ phase = "open"
  /\ \E at \in Canonical(place) : UNCHANGED tree /\ Done(at)

\* The parents are made if they are missing.
Write ==
  /\ phase = "open"
  /\ LET at == Place(place)
     IN  HasWay(at) /\ Kind(at) \in {"none", "file"} /\ Create(at, File) /\ Done(at)

Mkdir ==
  /\ phase = "open"
  /\ HasWay(place) /\ Kind(place) \in {"none", "dir"} /\ Create(place, Dir) /\ Done(place)

\* A link is removed itself; a directory with what is in it, or if it is empty.
Unlink ==
  /\ phase = "open"
  /\ place # <<>>
  /\ LET at == Append(Place(Front(place)), Last(place))
     IN  Kind(at) # "none" /\ Erase(at) /\ Done(at)

\* The call is over, and nothing of it remains.
Rest ==
  /\ phase' = "idle"
  /\ joined' = <<>> /\ depth' = 0 /\ place' = <<>>
  /\ still' = TRUE /\ linked' = FALSE /\ swapped' = FALSE

Fail == phase = "open" /\ Rest /\ UNCHANGED <<tree, gate>>

-------------------------------------------------------------------------------
(***************************************************************************)
(* Other calls, other processes and the credential store                   *)
(***************************************************************************)
\* They may cross the call with a link of theirs.
Meanwhile(crossed) ==
  /\ IF phase \in {"resolve", "open"}
     THEN /\ still' = FALSE /\ swapped' = (swapped \/ crossed)
          /\ UNCHANGED <<phase, joined, depth, place, linked>>
     ELSE Rest
  /\ settled' = (settled /\ Stay)
  /\ UNCHANGED <<roots, deny>>

Crosses(at, entry) == entry.kind = "link" /\ (phase = "resolve" \/ at \in WayTo(place))

Make(at, entry) ==
  /\ Kind(at) = "none" /\ Kind(Front(at)) = "dir"
  /\ Create(at, entry)

Delete(at) == Kind(at) # "none" /\ Erase(at)

Next ==
  \/ \E request \in Requests : Request(request)
  \/ Resolve
  \/ Open \/ Write \/ Mkdir \/ Unlink \/ Fail
  \/ \E at \in Paths \ {<<>>} :
       \/ Delete(at) /\ Meanwhile(FALSE)
       \/ \E entry \in Entries : Make(at, entry) /\ Meanwhile(Crosses(at, entry))

Spec == Init /\ [][Next]_vars

-------------------------------------------------------------------------------
(***************************************************************************)
(* Properties                                                              *)
(***************************************************************************)
\* Under a root and under no denied directory, wherever those are by now.
Inside(at) ==
  /\ \E i \in DOMAIN Roots : IsPrefix(Place(Roots[i]), at)
  /\ ~\E path \in Denied : IsPrefix(Place(path), at)

\* An operation comes to a place inside the roots and outside the denied
\* directories, those that were made since the gate was built included, whatever
\* files and directories come and go between the calls that resolve the path and
\* whatever links go.  Three things alone may lead it out: a gate that was built
\* by names with a link on them, or whose own paths lead elsewhere since then
\* (~settled); a link that led nowhere when the path was resolved, and so was taken
\* for a file to be made (linked); and a link made during the call (swapped).
StaysInside == phase = "done" /\ settled /\ ~linked /\ ~swapped => Inside(place)

\* An operation is done where the path asked for leads, if it leads anywhere and
\* nothing changed during the call; and nothing inside is refused, be it a link,
\* a parent or a path that does not exist yet, but for the same three cases.
GateIsExact ==
  /\ phase = "done" /\ still /\ ~Loops(joined) => place = Place(joined)
  /\ phase = "refused" /\ settled /\ ~linked /\ ~swapped => ~Inside(Place(joined))
===============================================================================
