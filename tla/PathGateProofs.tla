----------------------------- MODULE PathGateProofs -----------------------------
(***************************************************************************)
(* Theorems of PathGate, for every file system, every choice of names,     *)
(* links and paths, and every configuration of roots and denied            *)
(* directories.                                                            *)
(*                                                                         *)
(* Where a path leads is a recursion over links, so most of this is about  *)
(* what following does: a place has no link on it, unless the chain is too *)
(* long; following in two parts is following at once; and removing, adding *)
(* or renaming away what is not on the way changes nothing.                *)
(***************************************************************************)
EXTENDS PathGate, SharedLemmas

-------------------------------------------------------------------------------
(***************************************************************************)
(* The beginnings of a path                                                *)
(***************************************************************************)
\* What remains after it.
LEMMA RestIs ==
  ASSUME NEW S, NEW p \in Seq(S), NEW m \in 0..Len(p)
  PROVE  /\ SubSeq(p, m + 1, Len(p)) \in Seq(S)
         /\ Len(SubSeq(p, m + 1, Len(p))) = Len(p) - m
         /\ \A i \in 1..(Len(p) - m) : SubSeq(p, m + 1, Len(p))[i] = p[m + i]
<1>1. \A i \in (m + 1)..Len(p) : p[i] \in S
  BY ElementOfSeq
<1>2. Len(p) \in Nat
  BY LenProperties
<1> QED
  BY <1>1, <1>2, SubSeqProperties

\* The two make the sequence again.
LEMMA Halves ==
  ASSUME NEW S, NEW p \in Seq(S), NEW m \in 0..Len(p)
  PROVE  SubSeq(p, 1, m) \o SubSeq(p, m + 1, Len(p)) = p
<1>1. Len(p) \in Nat
  BY LenProperties
<1>2. /\ 1 \in 1..(Len(p) + 1) /\ m \in (1 - 1)..Len(p) /\ Len(p) \in m..Len(p)
  BY <1>1
<1>3. SubSeq(p, 1, m) \o SubSeq(p, m + 1, Len(p)) = SubSeq(p, 1, Len(p))
  BY <1>2, ConcatAdjacentSubSeq
<1> QED
  BY <1>3, SubSeqFull

\* A beginning of a beginning is a beginning.
LEMMA BeginningOfBeginning ==
  ASSUME NEW S, NEW p \in Seq(S), NEW m \in 0..Len(p), NEW n \in 0..m
  PROVE  SubSeq(SubSeq(p, 1, m), 1, n) = SubSeq(p, 1, n)
<1> DEFINE q == SubSeq(p, 1, m)
<1>1. q \in Seq(S) /\ Len(q) = m /\ \A i \in 1..m : q[i] = p[i]
  BY BeginningIs
<1>2. n \in 0..Len(q) /\ n \in 0..Len(p) /\ Len(p) \in Nat
  BY <1>1, LenProperties
<1> HIDE DEF q
<1>3. /\ SubSeq(q, 1, n) \in Seq(S) /\ Len(SubSeq(q, 1, n)) = n
      /\ \A i \in 1..n : SubSeq(q, 1, n)[i] = q[i]
  BY <1>1, <1>2, BeginningIs
<1>4. /\ SubSeq(p, 1, n) \in Seq(S) /\ Len(SubSeq(p, 1, n)) = n
      /\ \A i \in 1..n : SubSeq(p, 1, n)[i] = p[i]
  BY <1>2, BeginningIs
<1>5. \A i \in 1..n : SubSeq(q, 1, n)[i] = SubSeq(p, 1, n)[i]
  BY <1>1, <1>2, <1>3, <1>4
<1>6. SubSeq(q, 1, n) = SubSeq(p, 1, n)
  BY <1>3, <1>4, <1>5, SeqEqual
<1> QED
  BY <1>6 DEF q

\* A beginning of the first part is one of the whole.
LEMMA BeginningOfConcat ==
  ASSUME NEW S, NEW p \in Seq(S), NEW s \in Seq(S), NEW n \in 0..Len(p)
  PROVE  SubSeq(p \o s, 1, n) = SubSeq(p, 1, n)
<1>0. Len(p) \in Nat /\ Len(s) \in Nat
  BY LenProperties
<1>1. /\ p \o s \in Seq(S) /\ Len(p \o s) = Len(p) + Len(s)
      /\ \A i \in 1..Len(p) : (p \o s)[i] = p[i]
  BY <1>0, ConcatProperties
<1> DEFINE q == p \o s
<1> HIDE DEF q
<1>2. q \in Seq(S) /\ n \in 0..Len(q) /\ \A i \in 1..Len(p) : q[i] = p[i]
  BY <1>0, <1>1 DEF q
<1>3. /\ SubSeq(q, 1, n) \in Seq(S) /\ Len(SubSeq(q, 1, n)) = n
      /\ \A i \in 1..n : SubSeq(q, 1, n)[i] = q[i]
  BY <1>2, BeginningIs
<1>4. /\ SubSeq(p, 1, n) \in Seq(S) /\ Len(SubSeq(p, 1, n)) = n
      /\ \A i \in 1..n : SubSeq(p, 1, n)[i] = p[i]
  BY BeginningIs
<1>5. \A i \in 1..n : SubSeq(q, 1, n)[i] = SubSeq(p, 1, n)[i]
  BY <1>0, <1>2, <1>3, <1>4
<1>6. SubSeq(q, 1, n) = SubSeq(p, 1, n)
  BY <1>3, <1>4, <1>5, SeqEqual
<1> QED
  BY <1>6 DEF q

\* A prefix is a beginning.
LEMMA PrefixIs ==
  ASSUME NEW S, NEW p \in Seq(S), NEW q \in Seq(S)
  PROVE  IsPrefix(p, q) <=> Len(p) <= Len(q) /\ p = SubSeq(q, 1, Len(p))
<1>1. SubSeq(p, 1, Len(p)) = p
  BY SubSeqFull
<1> QED
  BY <1>1 DEF IsPrefix

\* The paths are the sequences of names that are not too long.
LEMMA PathsAre ==
  ASSUME GateAssumption
  PROVE  Paths = {p \in Seq(Names) : Len(p) <= Depth}
<1>1. Depth \in Nat
  BY DEF GateAssumption
<1>2. \A p : p \in Paths <=> \E m \in 0..Depth : p \in [1..m -> Names]
  BY DEF Paths, BoundedSeq, SeqOf
<1>3. ASSUME NEW p \in Paths PROVE p \in Seq(Names) /\ Len(p) <= Depth
  <2>1. PICK m \in 0..Depth : p \in [1..m -> Names]
    BY <1>2
  <2>2. m \in Nat
    BY <1>1
  <2>3. p \in Seq(Names)
    BY <2>1, <2>2, SeqDef
  <2>4. Len(p) = m
    BY <2>1, <2>2, <2>3, LenProperties
  <2> QED
    BY <1>1, <2>3, <2>4
<1>4. ASSUME NEW p \in Seq(Names), Len(p) <= Depth PROVE p \in Paths
  <2>1. Len(p) \in 0..Depth /\ p \in [1..Len(p) -> Names]
    BY <1>1, <1>4, LenProperties
  <2> QED
    BY <1>2, <2>1
<1> QED
  BY <1>3, <1>4

\* A file system as TypeOK has it: above what exists there are directories.
Grown(t) ==
  /\ DOMAIN t \subseteq Paths
  /\ \A path \in DOMAIN t :
       /\ t[path] \in Entries
       /\ path # <<>> => KindIn(t, Front(path)) = "dir"
  /\ KindIn(t, <<>>) = "dir"

\* Whatever exists lies in directories, up to "/".
LEMMA DirsAbove ==
  ASSUME NEW t, Grown(t), NEW path \in DOMAIN t, NEW m \in Nat, m < Len(path)
  PROVE  KindIn(t, SubSeq(path, 1, m)) = "dir"
<1> DEFINE S == {j \in Nat : j < Len(path) =>
                   KindIn(t, SubSeq(path, 1, Len(path) - 1 - j)) = "dir"}
<1>1. path \in Seq(Names) /\ Len(path) \in Nat
  <2>1. path \in Seq(Names)
    BY PathsAre, GateAssumption DEF Grown
  <2> QED
    BY <2>1, LenProperties
<1>2. 0 \in S
  <2>1. path # <<>>
    BY <1>1, EmptySeq
  <2>2. Front(path) = SubSeq(path, 1, Len(path) - 1 - 0)
    BY <1>1 DEF Front
  <2> QED
    BY <2>1, <2>2 DEF Grown
<1>3. ASSUME NEW j \in Nat, j \in S PROVE j + 1 \in S
  <2> SUFFICES ASSUME j + 1 < Len(path)
               PROVE  KindIn(t, SubSeq(path, 1, Len(path) - 1 - (j + 1))) = "dir"
    OBVIOUS
  <2> DEFINE n == Len(path) - 1 - j
             q == SubSeq(path, 1, n)
  <2>1. n \in 1..Len(path) /\ n - 1 \in 0..n /\ n - 1 = Len(path) - 1 - (j + 1)
    BY <1>1
  <2>2. KindIn(t, q) = "dir"
    BY <1>1, <1>3
  <2> HIDE DEF n
  <2>3. q \in Seq(Names) /\ Len(q) = n
    BY <1>1, <2>1, BeginningIs
  <2>4. q \in DOMAIN t /\ q # <<>>
    BY <2>1, <2>2, <2>3, EmptySeq DEF KindIn
  <2>5. KindIn(t, Front(q)) = "dir"
    BY <2>4 DEF Grown
  <2>6. Front(q) = SubSeq(q, 1, n - 1)
    BY <2>3 DEF Front
  <2>7. SubSeq(q, 1, n - 1) = SubSeq(path, 1, n - 1)
    BY <1>1, <2>1, BeginningOfBeginning
  <2> QED
    BY <2>1, <2>5, <2>6, <2>7
<1>4. \A j \in Nat : j \in S
  <2> HIDE DEF S
  <2> QED
    BY <1>2, <1>3, SetInduction
<1> DEFINE j == Len(path) - 1 - m
<1>5. j \in Nat /\ j < Len(path) /\ Len(path) - 1 - j = m
  BY <1>1
<1> QED
  BY <1>4, <1>5

\* No link is on the way to a file or a directory.
LEMMA FreeWhereItExists ==
  ASSUME NEW t, Grown(t), NEW path \in Seq(Names), KindIn(t, path) \in {"dir", "file"}
  PROVE  LinksOn(t, path) = {}
<1>1. path \in DOMAIN t /\ Len(path) \in Nat
  BY LenProperties DEF KindIn
<1>2. ASSUME NEW n \in 1..Len(path) PROVE KindIn(t, SubSeq(path, 1, n)) # "link"
  <2>1. CASE n = Len(path)
    BY <2>1, SubSeqFull
  <2>2. CASE n # Len(path)
    BY <1>1, <2>2, DirsAbove
  <2> QED
    BY <2>1, <2>2
<1> QED
  BY <1>2 DEF LinksOn

\* There is at most one link on the way: below it nothing exists.
LEMMA OneLink ==
  ASSUME NEW t, Grown(t), NEW path \in Seq(Names), NEW n \in LinksOn(t, path)
  PROVE  LinksOn(t, path) = {n}
<1>1. Len(path) \in Nat /\ LinksOn(t, path) \subseteq 1..Len(path)
  BY LenProperties DEF LinksOn
<1>2. ASSUME NEW m \in LinksOn(t, path), NEW k \in LinksOn(t, path), m < k
      PROVE  FALSE
  <2> DEFINE q == SubSeq(path, 1, k)
  <2>1. q \in Seq(Names) /\ Len(q) = k
    BY <1>1, BeginningIs
  <2>2. KindIn(t, q) = "link"
    BY DEF LinksOn
  <2>3. q \in DOMAIN t
    BY <2>2 DEF KindIn
  <2>4. m \in Nat /\ m < Len(q)
    BY <1>1, <1>2, <2>1
  <2>5. KindIn(t, SubSeq(q, 1, m)) = "dir"
    BY <2>3, <2>4, DirsAbove
  <2>6. SubSeq(q, 1, m) = SubSeq(path, 1, m)
    BY <1>1, <1>2, BeginningOfBeginning
  <2> QED
    BY <2>5, <2>6 DEF LinksOn
<1> QED
  BY <1>1, <1>2

\* So it is the one that is followed.
LEMMA HopIs ==
  ASSUME NEW t, Grown(t), NEW path \in Seq(Names), NEW n \in LinksOn(t, path)
  PROVE  /\ Hop(t, path) = t[SubSeq(path, 1, n)].to \o SubSeq(path, n + 1, Len(path))
         /\ t[SubSeq(path, 1, n)].to \in Seq(Names)
         /\ Hop(t, path) \in Seq(Names)
<1>1. LinksOn(t, path) = {n} /\ n \in 1..Len(path) /\ Len(path) \in Nat
  BY OneLink, LenProperties DEF LinksOn
<1>2. Min(LinksOn(t, path)) = n
  BY <1>1 DEF Min
<1>3. KindIn(t, SubSeq(path, 1, n)) = "link"
  BY DEF LinksOn
<1>4. SubSeq(path, 1, n) \in DOMAIN t
  BY <1>3 DEF KindIn
<1>5. t[SubSeq(path, 1, n)] \in Entries /\ t[SubSeq(path, 1, n)].kind = "link"
  BY <1>3, <1>4 DEF KindIn, Grown
<1>6. t[SubSeq(path, 1, n)].to \in Targets
  BY <1>5 DEF Entries
<1>7. t[SubSeq(path, 1, n)].to \in Seq(Names)
  BY <1>6, PathsAre, GateAssumption DEF GateAssumption
<1>8. SubSeq(path, n + 1, Len(path)) \in Seq(Names)
  BY <1>1, RestIs
<1> QED
  BY <1>2, <1>7, <1>8, ConcatProperties DEF Hop

-------------------------------------------------------------------------------
(***************************************************************************)
(* Where a path leads                                                      *)
(***************************************************************************)
LEMMA FollowIs ==
  ASSUME NEW t, Grown(t)
  PROVE  /\ MaxLinks \in Nat
         /\ \A path \in Seq(Names) : Follow(t)[0][path] = path
         /\ \A n \in 1..MaxLinks : \A path \in Seq(Names) :
              Follow(t)[n][path] = IF LinksOn(t, path) = {} THEN path
                                   ELSE Follow(t)[n - 1][Hop(t, path)]
<1> DEFINE P == Seq(Names)
           S == [P -> P]
           a == [path \in P |-> path]
           step == [n \in Nat |-> [g \in S |-> [path \in P |->
                      IF LinksOn(t, path) = {} THEN path ELSE g[Hop(t, path)]]]]
<1>1. MaxLinks \in Nat
  BY GateAssumption DEF GateAssumption
<1>2. ASSUME NEW path \in P, LinksOn(t, path) # {} PROVE Hop(t, path) \in P
  BY <1>2, HopIs
<1>3. a \in S /\ step \in [Nat -> [S -> S]]
  BY <1>2
<1>4. PICK f \in [0..MaxLinks -> S] :
        f[0] = a /\ \A n \in 1..MaxLinks : f[n] = step[n][f[n - 1]]
  <2>1. Iterates(S, a, step, MaxLinks) # {}
    <3> HIDE DEF S, a, step
    <3> QED
      BY <1>1, <1>3, Iteration
  <2> QED
    BY <2>1 DEF Iterates
<1> DEFINE Right(F) == F = [n \in 0..MaxLinks |-> [path \in P |->
                        IF n = 0 \/ LinksOn(t, path) = {} THEN path
                        ELSE F[n - 1][Hop(t, path)]]]
<1>5. ASSUME NEW n \in 0..MaxLinks
      PROVE  f[n] = [path \in P |-> IF n = 0 \/ LinksOn(t, path) = {} THEN path
                                    ELSE f[n - 1][Hop(t, path)]]
  <2>1. CASE n = 0
    BY <1>4, <2>1
  <2>2. CASE n # 0
    <3>1. n \in 1..MaxLinks /\ n - 1 \in 0..MaxLinks /\ n \in Nat
      BY <1>1, <2>2
    <3>2. f[n] = step[n][f[n - 1]] /\ f[n - 1] \in S
      BY <1>4, <3>1
    <3> QED
      BY <2>2, <3>1, <3>2
  <2> QED
    BY <2>1, <2>2
<1>6. Right(f)
  BY <1>4, <1>5
<1>7. Right(Follow(t))
  <2>1. Follow(t) = CHOOSE F : Right(F)
    BY DEF Follow
  <2> HIDE DEF Right
  <2> QED
    BY <1>6, <2>1
<1>8. ASSUME NEW n \in 0..MaxLinks, NEW path \in P
      PROVE  Follow(t)[n][path] = IF n = 0 \/ LinksOn(t, path) = {} THEN path
                                  ELSE Follow(t)[n - 1][Hop(t, path)]
  <2> DEFINE F == Follow(t)
             body == [k \in 0..MaxLinks |-> [q \in P |->
                        IF k = 0 \/ LinksOn(t, q) = {} THEN q ELSE F[k - 1][Hop(t, q)]]]
  <2>1. F = body
    BY <1>7
  <2>2. body[n][path] = IF n = 0 \/ LinksOn(t, path) = {} THEN path
                        ELSE F[n - 1][Hop(t, path)]
    <3> HIDE DEF F
    <3> QED
      OBVIOUS
  <2> HIDE DEF F, body
  <2>3. F[n][path] = IF n = 0 \/ LinksOn(t, path) = {} THEN path
                     ELSE F[n - 1][Hop(t, path)]
    BY <2>1, <2>2
  <2> QED
    BY <2>3 DEF F
<1>9. ASSUME NEW path \in P PROVE Follow(t)[0][path] = path
  BY <1>1, <1>8
<1>10. ASSUME NEW n \in 1..MaxLinks, NEW path \in P
       PROVE  Follow(t)[n][path] = IF LinksOn(t, path) = {} THEN path
                                   ELSE Follow(t)[n - 1][Hop(t, path)]
  <2>1. n \in 0..MaxLinks /\ n # 0
    BY <1>1
  <2> QED
    BY <1>8, <2>1
<1> QED
  BY <1>1, <1>9, <1>10

\* What follows a beginning of the first part, in the whole.
LEMMA RestOfConcat ==
  ASSUME NEW S, NEW p \in Seq(S), NEW s \in Seq(S), NEW n \in 0..Len(p)
  PROVE  SubSeq(p \o s, n + 1, Len(p \o s)) = SubSeq(p, n + 1, Len(p)) \o s
<1>0. Len(p) \in Nat /\ Len(s) \in Nat
  BY LenProperties
<1> DEFINE q == p \o s
           left == SubSeq(q, n + 1, Len(q))
           rest == SubSeq(p, n + 1, Len(p))
           right == rest \o s
<1>1. /\ q \in Seq(S) /\ Len(q) = Len(p) + Len(s)
      /\ \A i \in 1..(Len(p) + Len(s)) : q[i] = IF i <= Len(p) THEN p[i] ELSE s[i - Len(p)]
  BY ConcatProperties
<1>2. /\ rest \in Seq(S) /\ Len(rest) = Len(p) - n
      /\ \A i \in 1..(Len(p) - n) : rest[i] = p[n + i]
  BY RestIs
<1> HIDE DEF q, rest
<1>3. n \in 0..Len(q)
  BY <1>0, <1>1
<1>4. /\ left \in Seq(S) /\ Len(left) = Len(q) - n
      /\ \A i \in 1..(Len(q) - n) : left[i] = q[n + i]
  BY <1>1, <1>3, RestIs
<1>5. /\ right \in Seq(S) /\ Len(right) = Len(rest) + Len(s)
      /\ \A i \in 1..(Len(rest) + Len(s)) :
           right[i] = IF i <= Len(rest) THEN rest[i] ELSE s[i - Len(rest)]
  BY <1>2, ConcatProperties
<1> HIDE DEF left, right
<1>6. Len(left) = Len(right)
  BY <1>0, <1>1, <1>2, <1>4, <1>5
<1>7. ASSUME NEW i \in 1..Len(left) PROVE left[i] = right[i]
  <2>1. /\ i \in 1..(Len(p) + Len(s) - n) /\ n + i \in 1..(Len(p) + Len(s))
        /\ i \in 1..(Len(q) - n) /\ i \in 1..(Len(rest) + Len(s))
    BY <1>0, <1>1, <1>2, <1>4
  <2>2. left[i] = IF n + i <= Len(p) THEN p[n + i] ELSE s[(n + i) - Len(p)]
    BY <1>1, <1>4, <2>1
  <2>3. right[i] = IF i <= Len(rest) THEN rest[i] ELSE s[i - Len(rest)]
    BY <1>5, <2>1
  <2>4. CASE i <= Len(rest)
    <3>1. n + i <= Len(p) /\ i \in 1..(Len(p) - n)
      BY <1>0, <1>2, <2>1, <2>4
    <3> QED
      BY <1>2, <2>2, <2>3, <2>4, <3>1
  <2>5. CASE ~(i <= Len(rest))
    <3>1. ~(n + i <= Len(p)) /\ (n + i) - Len(p) = i - Len(rest)
      BY <1>0, <1>2, <2>1, <2>5
    <3> QED
      BY <2>2, <2>3, <2>5, <3>1
  <2> QED
    BY <2>4, <2>5
<1>8. left = right
  BY <1>4, <1>5, <1>6, <1>7, SeqEqual
<1> QED
  BY <1>8 DEF left, right, q, rest

\* Where no link is on the way, a path leads to itself.
LEMMA FreeStays ==
  ASSUME NEW t, Grown(t), NEW n \in 0..MaxLinks, NEW path \in Seq(Names),
         LinksOn(t, path) = {}
  PROVE  Follow(t)[n][path] = path
<1>1. n = 0 \/ n \in 1..MaxLinks
  BY FollowIs
<1> QED
  BY <1>1, FollowIs

\* Links lead to paths.
LEMMA FollowType ==
  ASSUME NEW t, Grown(t)
  PROVE  \A n \in 0..MaxLinks : \A path \in Seq(Names) : Follow(t)[n][path] \in Seq(Names)
<1> DEFINE S == {n \in Nat : n <= MaxLinks =>
                   \A path \in Seq(Names) : Follow(t)[n][path] \in Seq(Names)}
<1>1. 0 \in S
  BY FollowIs
<1>2. ASSUME NEW n \in Nat, n \in S PROVE n + 1 \in S
  <2> SUFFICES ASSUME n + 1 <= MaxLinks, NEW path \in Seq(Names)
               PROVE  Follow(t)[n + 1][path] \in Seq(Names)
    OBVIOUS
  <2>1. MaxLinks \in Nat /\ n + 1 \in 1..MaxLinks /\ n <= MaxLinks /\ (n + 1) - 1 = n
    BY FollowIs
  <2>2. Follow(t)[n + 1][path] = IF LinksOn(t, path) = {} THEN path
                                 ELSE Follow(t)[(n + 1) - 1][Hop(t, path)]
    BY <2>1, FollowIs
  <2>3. LinksOn(t, path) # {} => Hop(t, path) \in Seq(Names)
    BY HopIs
  <2>4. \A q \in Seq(Names) : Follow(t)[n][q] \in Seq(Names)
    BY <1>2, <2>1
  <2> QED
    BY <2>1, <2>2, <2>3, <2>4
<1>3. \A n \in Nat : n \in S
  <2> HIDE DEF S
  <2> QED
    BY <1>1, <1>2, SetInduction
<1> QED
  BY <1>3

\* Once no link is left on the way, following more of them changes nothing.
LEMMA FollowSettles ==
  ASSUME NEW t, Grown(t)
  PROVE  \A n \in 1..MaxLinks : \A path \in Seq(Names) :
           LinksOn(t, Follow(t)[n - 1][path]) = {} =>
             Follow(t)[n][path] = Follow(t)[n - 1][path]
<1> DEFINE Settles(n, path) == LinksOn(t, Follow(t)[n][path]) = {} =>
                                 Follow(t)[n + 1][path] = Follow(t)[n][path]
           S == {n \in Nat : n + 1 <= MaxLinks => \A path \in Seq(Names) : Settles(n, path)}
<1>1. 0 \in S
  <2> SUFFICES ASSUME 1 <= MaxLinks, NEW path \in Seq(Names),
                      LinksOn(t, Follow(t)[0][path]) = {}
               PROVE  Follow(t)[1][path] = Follow(t)[0][path]
    OBVIOUS
  <2>1. MaxLinks \in Nat /\ 1 \in 1..MaxLinks /\ 1 \in 0..MaxLinks /\ Follow(t)[0][path] = path
    BY FollowIs
  <2> QED
    BY <2>1, FreeStays
<1>2. ASSUME NEW n \in Nat, n \in S PROVE n + 1 \in S
  <2> SUFFICES ASSUME (n + 1) + 1 <= MaxLinks, NEW path \in Seq(Names),
                      LinksOn(t, Follow(t)[n + 1][path]) = {}
               PROVE  Follow(t)[(n + 1) + 1][path] = Follow(t)[n + 1][path]
    OBVIOUS
  <2>1. /\ MaxLinks \in Nat /\ n + 1 \in 1..MaxLinks /\ (n + 1) + 1 \in 1..MaxLinks
        /\ n + 1 <= MaxLinks /\ (n + 1) - 1 = n /\ ((n + 1) + 1) - 1 = n + 1
    BY FollowIs
  <2>2. CASE LinksOn(t, path) = {}
    BY <2>1, <2>2, FollowIs
  <2>3. CASE LinksOn(t, path) # {}
    <3> DEFINE q == Hop(t, path)
    <3>1. q \in Seq(Names)
      BY <2>3, HopIs
    <3>2. Follow(t)[n + 1][path] = Follow(t)[(n + 1) - 1][q]
      BY <2>1, <2>3, FollowIs
    <3>3. Follow(t)[(n + 1) + 1][path] = Follow(t)[((n + 1) + 1) - 1][q]
      BY <2>1, <2>3, FollowIs
    <3>4. Settles(n, q)
      BY <1>2, <2>1, <3>1
    <3> HIDE DEF q
    <3> QED
      BY <2>1, <3>2, <3>3, <3>4
  <2> QED
    BY <2>2, <2>3
<1>3. \A n \in Nat : n \in S
  <2> HIDE DEF S
  <2> QED
    BY <1>1, <1>2, SetInduction
<1>4. ASSUME NEW n \in 1..MaxLinks, NEW path \in Seq(Names),
             LinksOn(t, Follow(t)[n - 1][path]) = {}
      PROVE  Follow(t)[n][path] = Follow(t)[n - 1][path]
  <2>1. n - 1 \in Nat /\ (n - 1) + 1 = n /\ n <= MaxLinks
    BY FollowIs
  <2>2. n - 1 \in S
    BY <1>3, <2>1
  <2>3. Settles(n - 1, path)
    BY <2>1, <2>2
  <2> QED
    BY <1>4, <2>1, <2>3
<1> DEFINE G == Follow(t)
<1>5. \A n \in 1..MaxLinks : \A path \in Seq(Names) :
        LinksOn(t, G[n - 1][path]) = {} => G[n][path] = G[n - 1][path]
  <2>1. ASSUME NEW n \in 1..MaxLinks, NEW path \in Seq(Names),
               LinksOn(t, G[n - 1][path]) = {}
        PROVE  G[n][path] = G[n - 1][path]
    BY <1>4, <2>1
  <2> HIDE DEF G
  <2> QED
    BY <2>1
<1> QED
  BY <1>5

\* A longer path has the links of its beginning, and follows the same one.
LEMMA LinksOfLonger ==
  ASSUME NEW t, NEW path \in Seq(Names), NEW rest \in Seq(Names)
  PROVE  LinksOn(t, path) \subseteq LinksOn(t, path \o rest)
<1>1. Len(path) \in Nat /\ Len(rest) \in Nat /\ Len(path \o rest) = Len(path) + Len(rest)
  BY LenProperties, ConcatProperties
<1>2. ASSUME NEW n \in 1..Len(path) PROVE SubSeq(path \o rest, 1, n) = SubSeq(path, 1, n)
  BY BeginningOfConcat, <1>1
<1>3. ASSUME NEW n \in LinksOn(t, path) PROVE n \in LinksOn(t, path \o rest)
  <2>1. n \in 1..Len(path) /\ KindIn(t, SubSeq(path, 1, n)) = "link"
    BY DEF LinksOn
  <2>2. KindIn(t, SubSeq(path \o rest, 1, n)) = "link"
    BY <1>2, <2>1, Zenon
  <2>3. n \in 1..Len(path \o rest)
    BY <1>1, <2>1
  <2> QED
    BY <2>2, <2>3 DEF LinksOn
<1> QED
  BY <1>3

\* A hop on the way is a hop of every path that goes on from there.
LEMMA HopOfLonger ==
  ASSUME NEW t, Grown(t), NEW path \in Seq(Names), NEW rest \in Seq(Names),
         LinksOn(t, path) # {}
  PROVE  LinksOn(t, path \o rest) # {} /\ Hop(t, path \o rest) = Hop(t, path) \o rest
<1>1. PICK n \in LinksOn(t, path) : TRUE
  OBVIOUS
<1>2. n \in 0..Len(path) /\ n \in LinksOn(t, path \o rest)
  <2>1. n \in 1..Len(path) /\ Len(path) \in Nat
    BY LenProperties DEF LinksOn
  <2>2. n \in LinksOn(t, path \o rest)
    BY LinksOfLonger
  <2> QED
    BY <2>1, <2>2
<1>3. path \o rest \in Seq(Names)
  BY ConcatProperties
<1>4. /\ SubSeq(path \o rest, 1, n) = SubSeq(path, 1, n)
      /\ SubSeq(path \o rest, n + 1, Len(path \o rest))
           = SubSeq(path, n + 1, Len(path)) \o rest
  BY <1>2, BeginningOfConcat, RestOfConcat
<1> DEFINE to == t[SubSeq(path, 1, n)].to
           tail == SubSeq(path, n + 1, Len(path))
<1>5. to \in Seq(Names) /\ Hop(t, path) = to \o tail
  BY <1>1, HopIs
<1>6. Hop(t, path \o rest) = t[SubSeq(path \o rest, 1, n)].to
                               \o SubSeq(path \o rest, n + 1, Len(path \o rest))
  BY <1>2, <1>3, HopIs
<1>7. tail \in Seq(Names)
  BY <1>2, RestIs
<1>8. Hop(t, path \o rest) = to \o (tail \o rest)
  BY <1>4, <1>6
<1> HIDE DEF to, tail
<1>9. (to \o tail) \o rest = to \o (tail \o rest)
  BY <1>5, <1>7, ConcatAssociative
<1> QED
  BY <1>2, <1>5, <1>8, <1>9

\* A place is a path.
LEMMA PlaceType ==
  ASSUME NEW t, Grown(t), NEW path \in Seq(Names)
  PROVE  PlaceIn(t, path) \in Seq(Names)
<1>1. MaxLinks \in 0..MaxLinks
  BY FollowIs
<1> QED
  BY <1>1, FollowType DEF PlaceIn

\* A path with no link on it leads where it says.
LEMMA FreePlace ==
  ASSUME NEW t, Grown(t), NEW path \in Seq(Names), LinksOn(t, path) = {}
  PROVE  PlaceIn(t, path) = path
<1>1. MaxLinks \in 0..MaxLinks
  BY FollowIs
<1> QED
  BY <1>1, FreeStays DEF PlaceIn

\* What is below a path is below the place the path leads to, unless that is a
\* link again.
LEMMA PlaceOfLonger ==
  ASSUME NEW t, Grown(t), NEW path \in Seq(Names), NEW rest \in Seq(Names),
         LinksOn(t, PlaceIn(t, path) \o rest) = {}
  PROVE  PlaceIn(t, path \o rest) = PlaceIn(t, path) \o rest
<1> DEFINE G == Follow(t)
           S == {n \in Nat : n <= MaxLinks =>
                   \A p \in Seq(Names) : LinksOn(t, G[n][p] \o rest) = {} =>
                     G[n][p \o rest] = G[n][p] \o rest}
<1>0. \A p \in Seq(Names) : p \o rest \in Seq(Names)
  BY ConcatProperties
<1>1. 0 \in S
  <2>1. \A p \in Seq(Names) : G[0][p] = p /\ G[0][p \o rest] = p \o rest
    BY <1>0, FollowIs
  <2> HIDE DEF G
  <2> QED
    BY <2>1
<1>2. ASSUME NEW n \in Nat, n \in S PROVE n + 1 \in S
  <2> SUFFICES ASSUME n + 1 <= MaxLinks, NEW p \in Seq(Names),
                      LinksOn(t, G[n + 1][p] \o rest) = {}
               PROVE  G[n + 1][p \o rest] = G[n + 1][p] \o rest
    OBVIOUS
  <2>1. /\ MaxLinks \in Nat /\ n + 1 \in 1..MaxLinks /\ n + 1 \in 0..MaxLinks
        /\ n <= MaxLinks /\ (n + 1) - 1 = n
    BY FollowIs
  <2>2. CASE LinksOn(t, p) = {}
    <3>1. G[n + 1][p] = p
      BY <2>1, <2>2, FreeStays
    <3>2. p \o rest \in Seq(Names) /\ LinksOn(t, p \o rest) = {}
      BY <1>0, <3>1
    <3>3. G[n + 1][p \o rest] = p \o rest
      BY <2>1, <3>2, FreeStays
    <3> QED
      BY <3>1, <3>3
  <2>3. CASE LinksOn(t, p) # {}
    <3> DEFINE q == Hop(t, p)
    <3>1. q \in Seq(Names)
      BY <2>3, HopIs
    <3>2. G[n + 1][p] = G[(n + 1) - 1][q]
      BY <2>1, <2>3, FollowIs
    <3>3. p \o rest \in Seq(Names) /\ LinksOn(t, p \o rest) # {} /\ Hop(t, p \o rest) = q \o rest
      BY <1>0, <2>3, HopOfLonger
    <3>4. G[n + 1][p \o rest] = G[(n + 1) - 1][q \o rest]
      <4>1. G[n + 1][p \o rest] = G[(n + 1) - 1][Hop(t, p \o rest)]
        BY <2>1, <3>3, FollowIs
      <4> QED
        BY <3>3, <4>1
    <3>5. LinksOn(t, G[n][q] \o rest) = {} => G[n][q \o rest] = G[n][q] \o rest
      BY <1>2, <2>1, <3>1
    <3> HIDE DEF G, q
    <3> QED
      BY <2>1, <3>2, <3>4, <3>5
  <2> QED
    BY <2>2, <2>3
<1>3. \A n \in Nat : n \in S
  <2> HIDE DEF S
  <2> QED
    BY <1>1, <1>2, SetInduction
<1>4. MaxLinks \in S /\ MaxLinks <= MaxLinks
  BY <1>3, FollowIs
<1> HIDE DEF G
<1>5. LinksOn(t, G[MaxLinks][path] \o rest) = {} =>
        G[MaxLinks][path \o rest] = G[MaxLinks][path] \o rest
  BY <1>4
<1> QED
  BY <1>5 DEF G, PlaceIn

\* Where a path leads can be found in two parts.
LEMMA PlaceInParts ==
  ASSUME NEW t, Grown(t), NEW path \in Seq(Names), NEW rest \in Seq(Names),
         LinksOn(t, PlaceIn(t, path \o rest)) = {}
  PROVE  PlaceIn(t, PlaceIn(t, path) \o rest) = PlaceIn(t, path \o rest)
<1> DEFINE G == Follow(t)
           Parts(n, p) == LinksOn(t, PlaceIn(t, p \o rest)) = {} =>
                            PlaceIn(t, G[n][p] \o rest) = PlaceIn(t, p \o rest)
           S == {n \in Nat : n <= MaxLinks => \A p \in Seq(Names) : Parts(n, p)}
<1>1. 0 \in S
  <2>1. \A p \in Seq(Names) : G[0][p] = p
    BY FollowIs
  <2> HIDE DEF G
  <2> QED
    BY <2>1
<1>2. ASSUME NEW n \in Nat, n \in S PROVE n + 1 \in S
  <2> SUFFICES ASSUME n + 1 <= MaxLinks, NEW p \in Seq(Names),
                      LinksOn(t, PlaceIn(t, p \o rest)) = {}
               PROVE  PlaceIn(t, G[n + 1][p] \o rest) = PlaceIn(t, p \o rest)
    OBVIOUS
  <2>1. /\ MaxLinks \in Nat /\ n + 1 \in 1..MaxLinks /\ n + 1 \in 0..MaxLinks
        /\ n <= MaxLinks /\ (n + 1) - 1 = n /\ MaxLinks \in 1..MaxLinks
        /\ MaxLinks - 1 \in 0..MaxLinks
    BY FollowIs
  <2>2. CASE LinksOn(t, p) = {}
    <3>1. G[n + 1][p] = p
      BY <2>1, <2>2, FreeStays
    <3> QED
      BY <3>1
  <2>3. CASE LinksOn(t, p) # {}
    <3> DEFINE q == Hop(t, p)
    <3>1. q \in Seq(Names) /\ q \o rest \in Seq(Names) /\ p \o rest \in Seq(Names)
      BY <2>3, HopIs, ConcatProperties
    <3>2. G[n + 1][p] = G[(n + 1) - 1][q]
      BY <2>1, <2>3, FollowIs
    <3>3. LinksOn(t, p \o rest) # {} /\ Hop(t, p \o rest) = q \o rest
      BY <2>3, HopOfLonger
    <3>4. G[MaxLinks][p \o rest] = G[MaxLinks - 1][q \o rest]
      <4>1. G[MaxLinks][p \o rest] = G[MaxLinks - 1][Hop(t, p \o rest)]
        BY <2>1, <3>1, <3>3, FollowIs
      <4> QED
        BY <3>3, <4>1
    <3>5. LinksOn(t, G[MaxLinks - 1][q \o rest]) = {}
      BY <3>4 DEF PlaceIn
    <3>6. G[MaxLinks][q \o rest] = G[MaxLinks - 1][q \o rest]
      BY <2>1, <3>1, <3>5, FollowSettles
    <3>7. PlaceIn(t, q \o rest) = PlaceIn(t, p \o rest)
      BY <3>4, <3>6 DEF PlaceIn
    <3>8. Parts(n, q)
      BY <1>2, <2>1, <3>1
    <3> HIDE DEF G, q
    <3> QED
      BY <2>1, <3>2, <3>7, <3>8
  <2> QED
    BY <2>2, <2>3
<1>3. \A n \in Nat : n \in S
  <2> HIDE DEF S
  <2> QED
    BY <1>1, <1>2, SetInduction
<1>4. MaxLinks \in S /\ MaxLinks <= MaxLinks
  BY <1>3, FollowIs
<1>5. Parts(MaxLinks, path)
  <2> HIDE DEF Parts
  <2> QED
    BY <1>4
<1> QED
  BY <1>5 DEF PlaceIn

\* Two file systems with the same links.
LinksAlike(t, u) ==
  \A path \in Seq(Names) :
    /\ KindIn(t, path) = "link" <=> KindIn(u, path) = "link"
    /\ KindIn(t, path) = "link" => t[path].to = u[path].to

\* Two file systems with the same links have them on the same paths.
LEMMA LinksOnAlike ==
  ASSUME NEW t, NEW u, LinksAlike(t, u), NEW path \in Seq(Names)
  PROVE  LinksOn(t, path) = LinksOn(u, path)
<1>1. Len(path) \in Nat
  BY LenProperties
<1>2. ASSUME NEW n \in 1..Len(path)
      PROVE  KindIn(t, SubSeq(path, 1, n)) = "link" <=> KindIn(u, SubSeq(path, 1, n)) = "link"
  <2>1. SubSeq(path, 1, n) \in Seq(Names)
    BY <1>1, BeginningIs
  <2> QED
    BY <2>1 DEF LinksAlike
<1> QED
  BY <1>2 DEF LinksOn

\* Files and directories do not decide where a path leads: the links do.
LEMMA SamePlace ==
  ASSUME NEW t, Grown(t), NEW u, Grown(u), LinksAlike(t, u), NEW path \in Seq(Names)
  PROVE  PlaceIn(t, path) = PlaceIn(u, path)
<1> DEFINE G == Follow(t)
           H == Follow(u)
           S == {n \in Nat : n <= MaxLinks => \A p \in Seq(Names) : G[n][p] = H[n][p]}
<1>1. 0 \in S
  BY FollowIs
<1>2. ASSUME NEW n \in Nat, n \in S PROVE n + 1 \in S
  <2> SUFFICES ASSUME n + 1 <= MaxLinks, NEW p \in Seq(Names)
               PROVE  G[n + 1][p] = H[n + 1][p]
    OBVIOUS
  <2>1. /\ MaxLinks \in Nat /\ n + 1 \in 1..MaxLinks /\ n + 1 \in 0..MaxLinks
        /\ n <= MaxLinks /\ (n + 1) - 1 = n
    BY FollowIs
  <2>2. LinksOn(t, p) = LinksOn(u, p)
    BY LinksOnAlike
  <2>3. CASE LinksOn(t, p) = {}
    BY <2>1, <2>2, <2>3, FreeStays
  <2>4. CASE LinksOn(t, p) # {}
    <3>1. PICK k \in LinksOn(t, p) : TRUE
      BY <2>4
    <3>2. k \in LinksOn(u, p) /\ k \in 0..Len(p) /\ KindIn(t, SubSeq(p, 1, k)) = "link"
      <4>1. k \in 1..Len(p) /\ Len(p) \in Nat
        BY LenProperties DEF LinksOn
      <4> QED
        BY <2>2, <4>1 DEF LinksOn
    <3>3. SubSeq(p, 1, k) \in Seq(Names)
      BY <3>2, BeginningIs
    <3>4. t[SubSeq(p, 1, k)].to = u[SubSeq(p, 1, k)].to
      BY <3>2, <3>3 DEF LinksAlike
    <3> DEFINE q == Hop(t, p)
    <3>5. q = t[SubSeq(p, 1, k)].to \o SubSeq(p, k + 1, Len(p)) /\ q \in Seq(Names)
      BY HopIs
    <3>6. Hop(u, p) = u[SubSeq(p, 1, k)].to \o SubSeq(p, k + 1, Len(p))
      BY <3>2, HopIs
    <3>7. Hop(u, p) = q
      BY <3>4, <3>5, <3>6
    <3>8. G[n + 1][p] = G[(n + 1) - 1][q]
      BY <2>1, <2>4, FollowIs
    <3>9. H[n + 1][p] = H[(n + 1) - 1][q]
      BY <2>1, <2>2, <2>4, <3>7, FollowIs
    <3>10. G[n][q] = H[n][q]
      BY <1>2, <2>1, <3>5
    <3> HIDE DEF G, H, q
    <3> QED
      BY <2>1, <3>8, <3>9, <3>10
  <2> QED
    BY <2>3, <2>4
<1>3. \A n \in Nat : n \in S
  <2> HIDE DEF S
  <2> QED
    BY <1>1, <1>2, SetInduction
<1>4. MaxLinks \in S /\ MaxLinks <= MaxLinks
  BY <1>3, FollowIs
<1> QED
  BY <1>4 DEF PlaceIn

\* A file system from which something was removed.
Smaller(u, t) == DOMAIN u \subseteq DOMAIN t /\ \A path \in DOMAIN u : u[path] = t[path]

\* What is left is what was there.
LEMMA KindInSmaller ==
  ASSUME NEW t, NEW u, Smaller(u, t), NEW path, KindIn(u, path) # "none", Grown(u)
  PROVE  KindIn(t, path) = KindIn(u, path) /\ t[path] = u[path]
BY DEF Smaller, KindIn

\* Removing brings no link onto a path.
LEMMA LinksInSmaller ==
  ASSUME NEW t, NEW u, Grown(u), Smaller(u, t), NEW path \in Seq(Names)
  PROVE  LinksOn(u, path) \subseteq LinksOn(t, path)
BY KindInSmaller DEF LinksOn

\* What still exists is where it was.
LEMMA PlaceInSmaller ==
  ASSUME NEW t, Grown(t), NEW u, Grown(u), Smaller(u, t), NEW path \in Seq(Names),
         KindIn(u, PlaceIn(u, path)) \in {"dir", "file"}
  PROVE  PlaceIn(t, path) = PlaceIn(u, path)
<1> DEFINE G == Follow(t)
           H == Follow(u)
           Stays(n, p) == KindIn(u, H[n][p]) \in {"dir", "file"} => G[n][p] = H[n][p]
           S == {n \in Nat : n <= MaxLinks => \A p \in Seq(Names) : Stays(n, p)}
<1>1. 0 \in S
  BY FollowIs
<1>2. ASSUME NEW n \in Nat, n \in S PROVE n + 1 \in S
  <2> SUFFICES ASSUME n + 1 <= MaxLinks, NEW p \in Seq(Names),
                      KindIn(u, H[n + 1][p]) \in {"dir", "file"}
               PROVE  G[n + 1][p] = H[n + 1][p]
    OBVIOUS
  <2>1. /\ MaxLinks \in Nat /\ n + 1 \in 1..MaxLinks /\ n + 1 \in 0..MaxLinks
        /\ n <= MaxLinks /\ (n + 1) - 1 = n
    BY FollowIs
  <2>2. CASE LinksOn(u, p) = {}
    <3>1. H[n + 1][p] = p
      BY <2>1, <2>2, FreeStays
    <3>2. KindIn(t, p) \in {"dir", "file"}
      BY <3>1, KindInSmaller
    <3>3. LinksOn(t, p) = {}
      BY <3>2, FreeWhereItExists
    <3> QED
      BY <2>1, <3>1, <3>3, FreeStays
  <2>3. CASE LinksOn(u, p) # {}
    <3>1. PICK k \in LinksOn(u, p) : TRUE
      BY <2>3
    <3>2. k \in LinksOn(t, p) /\ KindIn(u, SubSeq(p, 1, k)) = "link"
      BY LinksInSmaller DEF LinksOn
    <3>3. t[SubSeq(p, 1, k)] = u[SubSeq(p, 1, k)]
      BY <3>2, KindInSmaller
    <3> DEFINE q == Hop(u, p)
    <3>4. q = u[SubSeq(p, 1, k)].to \o SubSeq(p, k + 1, Len(p)) /\ q \in Seq(Names)
      BY HopIs
    <3>5. Hop(t, p) = t[SubSeq(p, 1, k)].to \o SubSeq(p, k + 1, Len(p))
      BY <3>2, HopIs
    <3>6. Hop(t, p) = q
      BY <3>3, <3>4, <3>5
    <3>7. G[n + 1][p] = G[(n + 1) - 1][q]
      BY <2>1, <3>2, <3>6, FollowIs
    <3>8. H[n + 1][p] = H[(n + 1) - 1][q]
      BY <2>1, <2>3, FollowIs
    <3>9. Stays(n, q)
      BY <1>2, <2>1, <3>4
    <3> HIDE DEF G, H, q
    <3> QED
      BY <2>1, <3>7, <3>8, <3>9
  <2> QED
    BY <2>2, <2>3
<1>3. \A n \in Nat : n \in S
  <2> HIDE DEF S
  <2> QED
    BY <1>1, <1>2, SetInduction
<1>4. MaxLinks \in S /\ MaxLinks <= MaxLinks
  BY <1>3, FollowIs
<1>5. Stays(MaxLinks, path)
  <2> HIDE DEF Stays
  <2> QED
    BY <1>4
<1> QED
  BY <1>5 DEF PlaceIn

-------------------------------------------------------------------------------
(***************************************************************************)
(* The path of a request                                                   *)
(***************************************************************************)
LEMMA JoinAllType ==
  ASSUME NEW base \in Seq(Names), NEW parts \in Seq(Names \union {Up})
  PROVE  JoinAll(base, parts) \in Seq(Names)
<1> DEFINE last == Len(parts)
           P == Seq(Names)
           step == [n \in Nat |-> [out \in P |->
                      IF n \in 1..last THEN JoinPart(out, parts[n]) ELSE out]]
           Right(F) == F = [n \in 0..last |->
                              IF n = 0 THEN base ELSE JoinPart(F[n - 1], parts[n])]
           out == CHOOSE F : Right(F)
           S == {k \in Nat : k <= last => out[k] \in P}
<1>1. last \in Nat
  BY LenProperties
<1>2. ASSUME NEW path \in P, NEW n \in 1..last PROVE JoinPart(path, parts[n]) \in P
  <2>1. parts[n] \in Names \union {Up}
    BY ElementOfSeq
  <2>2. CASE parts[n] # Up
    BY <2>1, <2>2, AppendProperties DEF JoinPart
  <2>3. CASE parts[n] = Up
    BY <2>3, FrontIs DEF JoinPart
  <2> QED
    BY <2>2, <2>3
<1>3. step \in [Nat -> [P -> P]]
  BY <1>2
<1>4. PICK f \in [0..last -> P] :
        f[0] = base /\ \A n \in 1..last : f[n] = step[n][f[n - 1]]
  <2>1. Iterates(P, base, step, last) # {}
    <3> HIDE DEF step, last
    <3> QED
      BY <1>1, <1>3, Iteration
  <2> QED
    BY <2>1 DEF Iterates
<1>5. ASSUME NEW n \in 1..last PROVE f[n] = JoinPart(f[n - 1], parts[n])
  <2>1. f[n - 1] \in P /\ n \in Nat
    BY <1>1, <1>4
  <2> QED
    BY <1>4, <2>1
<1>6. Right(f)
  BY <1>1, <1>4, <1>5
<1>7. Right(out)
  <2> HIDE DEF Right
  <2> QED
    BY <1>6
<1>8. JoinAll(base, parts) = out[last]
  BY DEF JoinAll
<1>9. ASSUME NEW n \in 0..last
      PROVE  out[n] = IF n = 0 THEN base ELSE JoinPart(out[n - 1], parts[n])
  <2> DEFINE body == [k \in 0..last |-> IF k = 0 THEN base ELSE JoinPart(out[k - 1], parts[k])]
  <2>1. out = body
    BY <1>7
  <2>2. body[n] = IF n = 0 THEN base ELSE JoinPart(out[n - 1], parts[n])
    OBVIOUS
  <2> HIDE DEF out, body
  <2> QED
    BY <2>1, <2>2
<1> HIDE DEF out, last
<1>10. 0 \in S
  <2>1. out[0] = base
    BY <1>1, <1>9
  <2> QED
    BY <2>1
<1>11. ASSUME NEW n \in Nat, n \in S PROVE n + 1 \in S
  <2>1. CASE n + 1 <= last
    <3>1. /\ n + 1 \in 1..last /\ n + 1 \in 0..last /\ (n + 1) - 1 = n /\ n + 1 # 0
          /\ out[n] \in P
      BY <1>1, <1>11, <2>1
    <3>2. out[n + 1] = JoinPart(out[n], parts[n + 1])
      BY <1>9, <3>1
    <3>3. out[n + 1] \in P
      BY <1>2, <3>1, <3>2
    <3> QED
      BY <3>3
  <2>2. CASE ~(n + 1 <= last)
    BY <2>2
  <2> QED
    BY <2>1, <2>2
<1>12. \A n \in Nat : n \in S
  <2> HIDE DEF S
  <2> QED
    BY <1>10, <1>11, SetInduction
<1>13. last \in S /\ last <= last
  BY <1>1, <1>12
<1> QED
  BY <1>8, <1>13

\* There is a root, and every root is a path.
LEMMA RootsAre ==
  /\ Len(Roots) \in Nat \ {0}
  /\ DOMAIN Roots = 1..Len(Roots)
  /\ \A i \in DOMAIN Roots : Roots[i] \in Paths
  /\ Range(Roots) \subseteq Paths
<1>1. CASE FileRoots = <<>>
  <2>1. Roots = << <<>> >>
    BY <1>1 DEF Roots
  <2>2. <<>> \in Seq(Names) /\ Len(<<>>) = 0
    BY EmptySeq
  <2>3. Paths = {path \in Seq(Names) : Len(path) <= Depth} /\ Depth \in Nat
    BY PathsAre, GateAssumption DEF GateAssumption
  <2>4. Len(Roots) = 1 /\ DOMAIN Roots = 1..1 /\ Roots[1] = <<>>
    BY <2>1
  <2>5. <<>> \in Paths
    BY <2>2, <2>3
  <2> QED
    BY <2>4, <2>5 DEF Range
<1>2. CASE FileRoots # <<>>
  <2>1. Roots = FileRoots /\ Roots \in Seq(Paths) /\ Roots # <<>>
    BY <1>2, GateAssumption DEF Roots, GateAssumption
  <2>2. DOMAIN Roots = 1..Len(Roots) /\ Len(Roots) \in Nat \ {0}
    BY <2>1, EmptySeq, LenProperties
  <2>3. \A i \in DOMAIN Roots : Roots[i] \in Paths
    BY <2>1, <2>2, ElementOfSeq
  <2> QED
    BY <2>2, <2>3 DEF Range
<1> QED
  BY <1>1, <1>2

\* What a request is joined to is a path.
LEMMA JoinType ==
  ASSUME NEW request \in Requests, roots \in Seq(Seq(Names)), DOMAIN roots = DOMAIN Roots
  PROVE  Join(request) \in Seq(Names)
<1>1. request.parts \in Seq(Names \union {Up})
  BY GateAssumption DEF GateAssumption
<1>2. roots # <<>>
  <2>1. 1 \in DOMAIN roots /\ DOMAIN roots = 1..Len(roots)
    BY RootsAre, LenProperties
  <2> QED
    BY <2>1, EmptySeq
<1>3. Head(roots) \in Seq(Names)
  BY <1>2, HeadTailProperties
<1>4. <<>> \in Seq(Names)
  BY EmptySeq
<1> QED
  BY <1>1, <1>3, <1>4, JoinAllType DEF Join

-------------------------------------------------------------------------------
(***************************************************************************)
(* What calls and other processes do to the file system                    *)
(***************************************************************************)
LEMMA PathIs ==
  ASSUME NEW path \in Paths
  PROVE  /\ path \in Seq(Names) /\ Len(path) \in 0..Depth /\ Depth \in Nat
         /\ \A n \in 0..Len(path) : SubSeq(path, 1, n) \in Paths
<1>1. Paths = {p \in Seq(Names) : Len(p) <= Depth} /\ Depth \in Nat
  BY PathsAre, GateAssumption DEF GateAssumption
<1>2. path \in Seq(Names) /\ Len(path) \in 0..Depth
  BY <1>1, LenProperties
<1>3. ASSUME NEW n \in 0..Len(path) PROVE SubSeq(path, 1, n) \in Paths
  <2>1. SubSeq(path, 1, n) \in Seq(Names) /\ Len(SubSeq(path, 1, n)) = n
    BY <1>2, BeginningIs
  <2> QED
    BY <1>1, <1>2, <2>1
<1> QED
  BY <1>1, <1>2, <1>3

\* The directories on the way to a path.
LEMMA WayIs ==
  ASSUME NEW at \in Paths \ {<<>>}, NEW q \in WayTo(at)
  PROVE  /\ q \in Paths \ {<<>>}
         /\ Front(q) = <<>> \/ Front(q) \in WayTo(Front(at))
         /\ q = at \/ q \in WayTo(Front(at))
<1>1. PICK n \in 1..Len(at) : q = SubSeq(at, 1, n)
  BY DEF WayTo
<1>2. at \in Seq(Names) /\ Len(at) \in Nat
  BY PathIs
<1>3. q \in Seq(Names) /\ Len(q) = n /\ q \in Paths /\ n \in Nat \ {0}
  BY <1>1, <1>2, PathIs, BeginningIs
<1>4. q # <<>>
  BY <1>3, EmptySeq
<1>5. Front(q) = SubSeq(q, 1, n - 1) /\ Front(at) = SubSeq(at, 1, Len(at) - 1)
  BY <1>3 DEF Front
<1>6. Front(at) \in Seq(Names) /\ Len(Front(at)) = Len(at) - 1
  BY <1>2, FrontIs
<1>7. \A k \in 1..(Len(at) - 1) : SubSeq(Front(at), 1, k) = SubSeq(at, 1, k)
  <2>1. Len(at) - 1 \in 0..Len(at) /\ 1..(Len(at) - 1) \subseteq 0..(Len(at) - 1)
    BY <1>2, <1>3
  <2> QED
    BY <1>2, <1>5, <2>1, BeginningOfBeginning
<1>8. \A k \in 1..(Len(at) - 1) : SubSeq(at, 1, k) \in WayTo(Front(at))
  BY <1>6, <1>7 DEF WayTo
<1>9. Front(q) = SubSeq(at, 1, n - 1)
  <2>1. n \in 0..Len(at) /\ n - 1 \in 0..n
    BY <1>2, <1>3
  <2> QED
    BY <1>1, <1>2, <1>5, <2>1, BeginningOfBeginning
<1>10. Front(q) = <<>> \/ Front(q) \in WayTo(Front(at))
  <2>1. CASE n = 1
    BY <1>9, <2>1, SubSeqEmpty
  <2>2. CASE n # 1
    <3>1. n - 1 \in 1..(Len(at) - 1)
      BY <1>2, <1>3, <2>2
    <3> QED
      BY <1>8, <1>9, <3>1
  <2> QED
    BY <2>1, <2>2
<1>11. q = at \/ q \in WayTo(Front(at))
  <2>1. CASE n = Len(at)
    BY <1>1, <1>2, <2>1, SubSeqFull
  <2>2. CASE n # Len(at)
    <3>1. n \in 1..(Len(at) - 1)
      BY <1>2, <1>3, <2>2
    <3> QED
      BY <1>1, <1>8, <3>1
  <2> QED
    BY <2>1, <2>2
<1> QED
  BY <1>3, <1>4, <1>10, <1>11

\* What is made is what was asked for and the directories it needs; what was
\* there stays.
LEMMA CreatedTree ==
  ASSUME Grown(tree), NEW at \in Paths \ {<<>>}, NEW entry \in Entries, Create(at, entry),
         \A q \in WayTo(Front(at)) : Kind(q) \in {"dir", "none"}
  PROVE  /\ Grown(tree')
         /\ Smaller(tree, tree')
         /\ \A path \in DOMAIN tree' :
              path \in DOMAIN tree \/ tree'[path] = Dir \/ (path = at /\ tree'[path] = entry)
         /\ at \in DOMAIN tree'
<1>1. /\ DOMAIN tree' = DOMAIN tree \union {<<>>} \union WayTo(at)
      /\ \A path \in DOMAIN tree' :
           tree'[path] = IF path \in DOMAIN tree THEN tree[path]
                         ELSE IF path = at THEN entry ELSE Dir
  BY DEF Create
<1>2. <<>> \in DOMAIN tree /\ tree[<<>>].kind = "dir"
  BY DEF Grown, KindIn
<1>3. DOMAIN tree' \subseteq Paths
  BY <1>1, <1>2, WayIs DEF Grown
<1>4. ASSUME NEW path \in DOMAIN tree' PROVE tree'[path] \in Entries
  <2>1. Dir \in Entries
    BY DEF Dir, Entries
  <2>2. path \in DOMAIN tree => tree[path] \in Entries
    BY DEF Grown
  <2> QED
    BY <1>1, <2>1, <2>2
<1>5. ASSUME NEW path, KindIn(tree, path) = "dir" PROVE KindIn(tree', path) = "dir"
  BY <1>1, <1>5 DEF KindIn
<1>6. ASSUME NEW path \in DOMAIN tree', path # <<>>
      PROVE  KindIn(tree', Front(path)) = "dir"
  <2>1. CASE path \in DOMAIN tree
    <3>1. KindIn(tree, Front(path)) = "dir"
      BY <1>6, <2>1 DEF Grown
    <3> QED
      BY <1>5, <3>1
  <2>2. CASE path \notin DOMAIN tree
    <3>1. path \in WayTo(at)
      BY <1>1, <1>2, <2>2
    <3>2. CASE Front(path) = <<>>
      <4>1. KindIn(tree, Front(path)) = "dir"
        BY <1>2, <3>2 DEF KindIn
      <4> QED
        BY <1>5, <4>1
    <3>3. CASE Front(path) # <<>>
      <4> DEFINE above == Front(path)
      <4>1. above \in WayTo(Front(at))
        BY <3>1, <3>3, WayIs
      <4>2. above \in WayTo(at) /\ above # at
        <5>1. at \in Seq(Names) /\ Len(at) \in Nat \ {0} /\ Len(Front(at)) = Len(at) - 1
              /\ Front(at) = SubSeq(at, 1, Len(at) - 1)
          BY PathIs, FrontIs
        <5>2. PICK n \in 1..(Len(at) - 1) : above = SubSeq(Front(at), 1, n)
          BY <4>1, <5>1 DEF WayTo
        <5>3. n \in 0..Len(at) /\ Len(at) - 1 \in 0..Len(at) /\ n \in 0..(Len(at) - 1)
              /\ n \in 1..Len(at)
          BY <5>1
        <5>4. above = SubSeq(at, 1, n)
          BY <5>1, <5>2, <5>3, BeginningOfBeginning
        <5>5. Len(above) = n
          BY <5>1, <5>3, <5>4, BeginningIs
        <5>6. above \in WayTo(at)
          BY <5>3, <5>4 DEF WayTo
        <5> QED
          BY <5>1, <5>5, <5>6
      <4>3. KindIn(tree, above) = "dir" \/ above \notin DOMAIN tree
        <5> HIDE DEF above
        <5>1. Kind(above) \in {"dir", "none"}
          BY <4>1
        <5>2. above \in DOMAIN tree => tree[above].kind # "none"
          BY DEF Grown, Entries
        <5> QED
          BY <5>1, <5>2 DEF Kind, KindIn
      <4>4. CASE KindIn(tree, above) = "dir"
        BY <1>5, <4>4
      <4>5. CASE above \notin DOMAIN tree
        <5>1. above \in DOMAIN tree' /\ tree'[above] = Dir
          <6> HIDE DEF above
          <6> QED
            BY <1>1, <4>2, <4>5
        <5> QED
          BY <5>1 DEF KindIn, Dir
      <4> QED
        BY <4>3, <4>4, <4>5
    <3> QED
      BY <3>2, <3>3
  <2> QED
    BY <2>1, <2>2
<1>7. KindIn(tree', <<>>) = "dir"
  BY <1>2, <1>5 DEF KindIn
<1>8. Grown(tree')
  BY <1>3, <1>4, <1>6, <1>7 DEF Grown
<1>9. Smaller(tree, tree')
  BY <1>1 DEF Smaller
<1>10. at \in DOMAIN tree'
  <2>1. Len(at) \in 1..Len(at) /\ SubSeq(at, 1, Len(at)) = at
    BY PathIs, EmptySeq, SubSeqFull
  <2> QED
    BY <1>1, <2>1 DEF WayTo
<1> QED
  BY <1>1, <1>2, <1>8, <1>9, <1>10

\* What is removed is removed with all that is below it.
LEMMA ErasedTree ==
  ASSUME Grown(tree), NEW at \in Seq(Names), at # <<>>, Erase(at)
  PROVE  Grown(tree') /\ Smaller(tree', tree) /\ at \notin DOMAIN tree'
<1>1. /\ DOMAIN tree' = {q \in DOMAIN tree : ~IsPrefix(at, q)}
      /\ \A path \in DOMAIN tree' : tree'[path] = tree[path]
  BY DEF Erase
<1>2. Len(at) \in Nat \ {0} /\ IsPrefix(at, at)
  BY EmptySeq DEF IsPrefix
<1>3. KindIn(tree', <<>>) = "dir"
  <2>1. ~IsPrefix(at, <<>>)
    BY <1>2, EmptySeq DEF IsPrefix
  <2> QED
    BY <1>1, <2>1 DEF Grown, KindIn
<1>4. ASSUME NEW path \in DOMAIN tree', path # <<>>
      PROVE  KindIn(tree', Front(path)) = "dir"
  <2>1. path \in DOMAIN tree /\ KindIn(tree, Front(path)) = "dir" /\ path \in Seq(Names)
    BY <1>1, <1>4, PathIs DEF Grown
  <2>2. /\ Front(path) \in Seq(Names) /\ Len(Front(path)) = Len(path) - 1
        /\ Front(path) = SubSeq(path, 1, Len(path) - 1) /\ Len(path) \in Nat \ {0}
    BY <1>4, <2>1, FrontIs
  <2>3. ASSUME IsPrefix(at, Front(path)) PROVE IsPrefix(at, path)
    <3>1. Len(at) <= Len(path) - 1 /\ at = SubSeq(Front(path), 1, Len(at))
      BY <2>2, <2>3, PrefixIs
    <3>2. Len(path) - 1 \in 0..Len(path) /\ Len(at) \in 0..(Len(path) - 1)
      BY <1>2, <2>2, <3>1
    <3>3. at = SubSeq(path, 1, Len(at))
      BY <2>1, <2>2, <3>1, <3>2, BeginningOfBeginning
    <3>4. Len(at) <= Len(path)
      BY <1>2, <2>2, <3>1
    <3> QED
      BY <2>1, <3>3, <3>4, PrefixIs
  <2>4. Front(path) \in DOMAIN tree'
    BY <1>1, <2>1, <2>3 DEF KindIn
  <2> QED
    BY <1>1, <2>1, <2>4 DEF KindIn
<1>5. Grown(tree')
  BY <1>1, <1>3, <1>4 DEF Grown
<1> QED
  BY <1>1, <1>2, <1>5 DEF Smaller

-------------------------------------------------------------------------------
(***************************************************************************)
(* Types                                                                   *)
(***************************************************************************)
LEMMA TypeGrown == TypeOK => Grown(tree)
BY DEF TypeOK, Grown, Kind

\* The roots and the denied directories are paths.
LEMMA ConfinesAre == Confines \subseteq Paths /\ Denied \subseteq Paths
BY RootsAre, GateAssumption DEF Confines, Denied, GateAssumption

\* What the gate keeps of one is a path.
LEMMA CanonType ==
  ASSUME Grown(tree), NEW path \in Paths
  PROVE  Canon(path) \in Seq(Names)
BY PathIs, PlaceType DEF Canon, Place

\* What a call does to the file system.
LEMMA WriteTree ==
  ASSUME TypeOK, Write
  PROVE  \E at \in Paths \ {<<>>} :
           /\ at = Place(place) /\ Done(at)
           /\ Grown(tree') /\ Smaller(tree, tree')
<1>1. PICK at : at = Place(place)
  OBVIOUS
<1>2. HasWay(at) /\ Create(at, File) /\ Done(at)
  BY <1>1 DEF Write
<1>3. at \in Paths \ {<<>>} /\ \A q \in WayTo(Front(at)) : Kind(q) \in {"dir", "none"}
  BY <1>2 DEF HasWay
<1>4. File \in Entries
  BY DEF File, Entries
<1>5. Grown(tree') /\ Smaller(tree, tree')
  BY <1>2, <1>3, <1>4, TypeGrown, CreatedTree
<1> QED
  BY <1>1, <1>2, <1>3, <1>5

\* A mkdir adds directories on the way to the place resolved.
LEMMA MkdirTree ==
  ASSUME TypeOK, Mkdir
  PROVE  /\ place \in Paths \ {<<>>} /\ Done(place) /\ Kind(place) \in {"dir", "none"}
         /\ Grown(tree') /\ Smaller(tree, tree') /\ place \in DOMAIN tree'
<1>1. PICK at : at = place
  OBVIOUS
<1>2. HasWay(at) /\ Create(at, Dir) /\ Done(at) /\ Kind(at) \in {"dir", "none"}
  BY <1>1 DEF Mkdir
<1>3. at \in Paths \ {<<>>} /\ \A q \in WayTo(Front(at)) : Kind(q) \in {"dir", "none"}
  BY <1>2 DEF HasWay
<1>4. Dir \in Entries
  BY DEF Dir, Entries
<1>5. Grown(tree') /\ Smaller(tree, tree') /\ at \in DOMAIN tree'
  BY <1>2, <1>3, <1>4, TypeGrown, CreatedTree
<1> QED
  BY <1>1, <1>2, <1>3, <1>5

\* A removal leaves a smaller file system.
LEMMA UnlinkTree ==
  ASSUME TypeOK, Unlink
  PROVE  \E at \in Seq(Names) :
           /\ at = Append(Place(Front(place)), Last(place))
           /\ place # <<>> /\ at \in DOMAIN tree /\ Done(at)
           /\ Grown(tree') /\ Smaller(tree', tree) /\ at \notin DOMAIN tree'
<1>1. PICK at : at = Append(Place(Front(place)), Last(place))
  OBVIOUS
<1>2. place # <<>> /\ Kind(at) # "none" /\ Erase(at) /\ Done(at)
  BY <1>1 DEF Unlink
<1>3. place \in Seq(Names)
  BY DEF TypeOK
<1>4. Front(place) \in Seq(Names) /\ Last(place) \in Names
  BY <1>2, <1>3, FrontIs
<1>5. Place(Front(place)) \in Seq(Names)
  BY <1>4, TypeGrown, PlaceType DEF Place
<1>6. at \in Seq(Names) /\ at # <<>>
  BY <1>1, <1>4, <1>5, AppendProperties
<1>7. at \in DOMAIN tree
  BY <1>2 DEF Kind, KindIn
<1>8. Grown(tree') /\ Smaller(tree', tree) /\ at \notin DOMAIN tree'
  BY <1>2, <1>6, TypeGrown, ErasedTree
<1> QED
  BY <1>1, <1>2, <1>6, <1>7, <1>8

\* What others do to it: one link is made, or the links are the same.
LEMMA MadeTree ==
  ASSUME TypeOK, NEW at \in Paths \ {<<>>}, NEW entry \in Entries, Make(at, entry)
  PROVE  /\ Grown(tree') /\ Smaller(tree, tree')
         /\ entry.kind # "link" => LinksAlike(tree, tree')
         /\ \A path \in Seq(Names) :
              KindIn(tree', path) = "link" => path = at \/ KindIn(tree, path) = "link"
<1>1. KindIn(tree, at) = "none" /\ KindIn(tree, Front(at)) = "dir" /\ Create(at, entry)
  BY DEF Make, Kind
<1>2. Grown(tree)
  BY TypeGrown
<1> DEFINE above == Front(at)
<1>3. above \in DOMAIN tree /\ above \in Seq(Names)
  BY <1>1, PathIs, FrontIs DEF KindIn
<1>4. ASSUME NEW q \in WayTo(above) PROVE Kind(q) \in {"dir", "none"}
  <2> HIDE DEF above
  <2>1. PICK n \in 1..Len(above) : q = SubSeq(above, 1, n)
    BY DEF WayTo
  <2>2. Len(above) \in Nat
    BY <1>3, LenProperties
  <2>3. CASE n = Len(above)
    <3>1. q = above
      BY <1>3, <2>1, <2>3, SubSeqFull
    <3> QED
      BY <1>1, <3>1 DEF above, Kind
  <2>4. CASE n # Len(above)
    <3>1. n \in Nat /\ n < Len(above)
      BY <2>2, <2>4
    <3> QED
      BY <1>2, <1>3, <2>1, <3>1, DirsAbove DEF Kind
  <2> QED
    BY <2>3, <2>4
<1>5. /\ Grown(tree') /\ Smaller(tree, tree')
      /\ \A path \in DOMAIN tree' :
           path \in DOMAIN tree \/ tree'[path] = Dir \/ (path = at /\ tree'[path] = entry)
  BY <1>1, <1>2, <1>4, CreatedTree
<1>6. ASSUME entry.kind # "link", NEW path \in Seq(Names)
      PROVE  /\ KindIn(tree, path) = "link" <=> KindIn(tree', path) = "link"
             /\ KindIn(tree, path) = "link" => tree[path].to = tree'[path].to
  <2>1. path \in DOMAIN tree => path \in DOMAIN tree' /\ tree'[path] = tree[path]
    BY <1>5 DEF Smaller
  <2>2. path \in DOMAIN tree' /\ path \notin DOMAIN tree => tree'[path].kind # "link"
    BY <1>5, <1>6 DEF Dir
  <2> QED
    BY <2>1, <2>2 DEF KindIn
<1>7. ASSUME NEW path \in Seq(Names), KindIn(tree', path) = "link", path # at
      PROVE  KindIn(tree, path) = "link"
  <2>1. path \in DOMAIN tree' /\ tree'[path].kind = "link"
    BY <1>7 DEF KindIn
  <2>2. path \in DOMAIN tree /\ tree'[path] = tree[path]
    BY <1>5, <1>7, <2>1 DEF Dir, Smaller
  <2> QED
    BY <2>1, <2>2 DEF KindIn
<1> QED
  BY <1>5, <1>6, <1>7 DEF LinksAlike

\* So does a removal by somebody else.
LEMMA DeletedTree ==
  ASSUME TypeOK, NEW at \in Paths \ {<<>>}, Delete(at)
  PROVE  Grown(tree') /\ Smaller(tree', tree)
BY PathIs, TypeGrown, ErasedTree DEF Delete

\* Other calls, other processes and the credential store.
Others ==
  \E at \in Paths \ {<<>>} :
    \/ Delete(at) /\ Meanwhile(FALSE)
    \/ \E entry \in Entries : Make(at, entry) /\ Meanwhile(Crosses(at, entry))

LEMMA OthersStep ==
  ASSUME Others
  PROVE  \E at \in Paths \ {<<>>}, crossed \in BOOLEAN :
           (Delete(at) \/ \E entry \in Entries : Make(at, entry)) /\ Meanwhile(crossed)
BY DEF Others, Crosses

\* The gate has a place for every root.
Types == TypeOK /\ DOMAIN roots = DOMAIN Roots

\* The gate starts on a file system, with one entry per root.
LEMMA TypesInit == Init => Types
<1> SUFFICES ASSUME Init PROVE Types
  OBVIOUS
<1>1. Grown(tree)
  <2>1. PICK t \in Trees : tree = [path \in DOMAIN t \union {<<>>} |->
                                     IF path = <<>> THEN Dir ELSE t[path]]
    BY DEF Init
  <2>2. PICK exist \in SUBSET (Paths \ {<<>>}) : t \in [exist -> Entries]
    BY DEF Trees
  <2>3. \A path \in DOMAIN t :
          Front(path) = <<>> \/ (Front(path) \in DOMAIN t /\ t[Front(path)] = Dir)
    BY DEF Trees
  <2>4. <<>> \in Paths /\ Dir \in Entries /\ Dir.kind = "dir"
    <3>1. CredentialDir \in Paths
      BY GateAssumption DEF GateAssumption
    <3>2. SubSeq(CredentialDir, 1, 0) \in Paths
      BY <3>1, PathIs
    <3>3. SubSeq(CredentialDir, 1, 0) = <<>>
      BY SubSeqEmpty
    <3> QED
      BY <3>2, <3>3 DEF Dir, Entries
  <2>5. DOMAIN t \subseteq Paths \ {<<>>} /\ \A path \in DOMAIN t : t[path] \in Entries
    BY <2>2
  <2>6. ASSUME NEW path \in DOMAIN tree, path # <<>>
        PROVE  KindIn(tree, Front(path)) = "dir"
    BY <2>1, <2>3, <2>4, <2>6 DEF KindIn
  <2>7. KindIn(tree, <<>>) = "dir"
    BY <2>1, <2>4 DEF KindIn
  <2> QED
    BY <2>1, <2>4, <2>5, <2>6, <2>7 DEF Grown
<1>2. roots \in Seq(Seq(Names)) /\ DOMAIN roots = DOMAIN Roots
  <2>1. roots = [i \in 1..Len(Roots) |-> Canon(Roots[i])] /\ Len(Roots) \in Nat
    BY RootsAre DEF Init
  <2>2. \A i \in 1..Len(Roots) : Canon(Roots[i]) \in Seq(Names)
    BY <1>1, RootsAre, CanonType
  <2>3. roots \in [1..Len(Roots) -> Seq(Names)]
    BY <2>1, <2>2
  <2> QED
    BY <2>1, <2>3, RootsAre, SeqDef
<1>3. deny \subseteq Seq(Names)
  BY <1>1, ConfinesAre, CanonType DEF Init
<1>4. <<>> \in Seq(Names) /\ Len(<<>>) = 0
  BY EmptySeq
<1>5. /\ phase = "idle" /\ joined = <<>> /\ depth = 0 /\ place = <<>>
      /\ settled \in BOOLEAN /\ still \in BOOLEAN /\ linked \in BOOLEAN
      /\ swapped \in BOOLEAN
  BY DEF Init
<1> QED
  BY <1>1, <1>2, <1>3, <1>4, <1>5 DEF Types, TypeOK, Grown, Kind

\* Every action keeps the file system one, and the paths paths.
LEMMA TypesNext == Types /\ [Next]_vars => Types'
<1> SUFFICES ASSUME Types, [Next]_vars PROVE Types'
  OBVIOUS
<1>0. Grown(tree) /\ TypeOK
  BY TypeGrown DEF Types
<1>1. /\ roots \in Seq(Seq(Names)) /\ DOMAIN roots = DOMAIN Roots
      /\ deny \subseteq Seq(Names) /\ joined \in Seq(Names) /\ place \in Seq(Names)
      /\ Len(joined) \in Nat /\ depth \in 0..Len(joined)
      /\ {settled, still, linked, swapped} \subseteq BOOLEAN
      /\ phase \in {"idle", "resolve", "open", "refused", "done"}
  BY LenProperties DEF Types, TypeOK
<1>2. <<>> \in Seq(Names) /\ Len(<<>>) = 0
  BY EmptySeq
<1> DEFINE Call ==
             /\ phase \in {"idle", "resolve", "open", "refused", "done"}
             /\ joined \in Seq(Names)
             /\ depth \in 0..Len(joined)
             /\ place \in Seq(Names)
             /\ {settled, still, linked, swapped} \subseteq BOOLEAN
<1>3. SUFFICES Grown(tree') /\ roots' = roots /\ deny' = deny /\ Call'
  BY <1>1 DEF Types, TypeOK, Grown, Kind
<1>4. ASSUME NEW at \in Seq(Names), Done(at) PROVE roots' = roots /\ deny' = deny /\ Call'
  BY <1>1, <1>4 DEF Done
<1>5. ASSUME Rest, roots' = roots, deny' = deny, settled' \in BOOLEAN
      PROVE  roots' = roots /\ deny' = deny /\ Call'
  <2>1. /\ roots' = roots /\ deny' = deny /\ settled' \in BOOLEAN
        /\ phase' = "idle" /\ joined' = <<>> /\ depth' = 0 /\ place' = <<>>
        /\ still' = TRUE /\ linked' = FALSE /\ swapped' = FALSE
    BY <1>5 DEF Rest
  <2>2. joined' \in Seq(Names) /\ place' \in Seq(Names) /\ depth' \in 0..Len(joined')
    BY <1>2, <2>1
  <2> QED
    BY <1>1, <2>1, <2>2
<1>6. CASE \E request \in Requests : Request(request)
  <2>1. PICK request \in Requests : Request(request)
    BY <1>6
  <2>2. Join(request) \in Seq(Names) /\ Len(Join(request)) \in Nat
    BY <1>1, JoinType, LenProperties
  <2>3. joined' \in Seq(Names) /\ depth' \in 0..Len(joined')
    BY <2>1, <2>2 DEF Request
  <2> QED
    BY <1>0, <1>1, <1>2, <2>1, <2>3 DEF Request, gate
<1>7. CASE Resolve
  <2> DEFINE existing == SubSeq(joined, 1, depth)
             tail == SubSeq(joined, depth + 1, Len(joined))
  <2>1. /\ existing \in Seq(Names) /\ Len(existing) = depth
        /\ tail \in Seq(Names) /\ Len(tail) = Len(joined) - depth
    BY <1>1, BeginningIs, RestIs
  <2>2. Place(existing) \in Seq(Names)
    BY <1>0, <2>1, PlaceType DEF Place
  <2>3. Place(existing) \o tail \in Seq(Names)
    BY <2>1, <2>2, ConcatProperties
  <2>4. CASE Canonical(existing) = {}
    <3>1. depth # 0
      <4>1. SUFFICES ASSUME depth = 0 PROVE FALSE
        OBVIOUS
      <4>2. existing = <<>>
        BY <4>1, SubSeqEmpty
      <4>3. KindIn(tree, <<>>) = "dir"
        BY <1>0 DEF Grown
      <4>4. PlaceIn(tree, <<>>) = <<>>
        BY <1>0, <1>2, <4>3, FreeWhereItExists, FreePlace
      <4> QED
        BY <2>4, <4>2, <4>3, <4>4 DEF Canonical, Place, Kind
    <3>2. depth' = depth - 1 /\ UNCHANGED <<phase, place, linked, tree, gate, joined, still, swapped>>
      BY <1>7, <2>4 DEF Resolve
    <3>3. depth' \in 0..Len(joined')
      BY <1>1, <3>1, <3>2
    <3> QED
      BY <1>0, <1>1, <3>2, <3>3 DEF gate
  <2>5. CASE Canonical(existing) # {}
    <3>1. /\ phase' \in {"open", "refused"} /\ place' = Place(existing) \o tail
          /\ linked' \in BOOLEAN /\ UNCHANGED <<depth, tree, gate, joined, still, swapped>>
      BY <1>7, <2>5 DEF Resolve
    <3> QED
      BY <1>0, <1>1, <2>3, <3>1 DEF gate
  <2> QED
    BY <2>4, <2>5
<1>8. CASE Open
  <2>1. PICK at \in Canonical(place) : UNCHANGED tree /\ Done(at)
    BY <1>8 DEF Open
  <2>2. at \in Seq(Names)
    BY <1>0, <1>1, <2>1, PlaceType DEF Canonical, Place
  <2> QED
    BY <1>0, <1>4, <2>1, <2>2
<1>9. CASE Write
  BY <1>0, <1>4, <1>9, WriteTree, PathIs
<1>10. CASE Mkdir
  BY <1>0, <1>4, <1>10, MkdirTree, PathIs
<1>11. CASE Unlink
  BY <1>0, <1>4, <1>11, UnlinkTree
<1>12. CASE Fail
  BY <1>0, <1>1, <1>5, <1>12 DEF Fail, gate
<1>13. CASE Others
  <2>1. PICK at \in Paths \ {<<>>}, crossed \in BOOLEAN :
          (Delete(at) \/ \E entry \in Entries : Make(at, entry)) /\ Meanwhile(crossed)
    BY <1>13, OthersStep
  <2>2. Grown(tree')
    BY <1>0, <2>1, DeletedTree, MadeTree
  <2>3. roots' = roots /\ deny' = deny /\ Call'
    <3>1. CASE phase \in {"resolve", "open"}
      <4>1. /\ UNCHANGED <<roots, deny, phase, joined, depth, place, linked>>
            /\ settled' \in BOOLEAN /\ still' = FALSE /\ swapped' \in BOOLEAN
        BY <1>1, <2>1, <3>1 DEF Meanwhile
      <4> QED
        BY <1>1, <4>1
    <3>2. CASE phase \notin {"resolve", "open"}
      BY <1>1, <1>5, <2>1, <3>2 DEF Meanwhile
    <3> QED
      BY <3>1, <3>2
  <2> QED
    BY <2>2, <2>3
<1>14. CASE UNCHANGED vars
  BY <1>0, <1>1, <1>14 DEF vars, gate, call, past
<1> QED
  BY <1>6, <1>7, <1>8, <1>9, <1>10, <1>11, <1>12, <1>13, <1>14 DEF Next, Others

\* Paths are sequences of names, directories are above all that exists, and a
\* call's tail is never longer than its path (TypeOK).
THEOREM TypeCorrect == Spec => []TypeOK
<1>1. Spec => []Types
  BY TypesInit, TypesNext, PTL DEF Spec
<1>2. Types => TypeOK
  BY DEF Types
<1> QED
  BY <1>1, <1>2, PTL

-------------------------------------------------------------------------------
(***************************************************************************)
(* The invariant                                                           *)
(***************************************************************************)
\* No name on the path is a link.
NoLinkOn(path) == LinksOn(tree, path) = {}

\* Once the gate is settled, its list is where the directories are.
GateFollows ==
  settled =>
    /\ \A i \in DOMAIN Roots : roots[i] = Place(Roots[i])
    /\ deny = {Place(path) : path \in Denied}

\* What was not there a turn ago and is a directory now has no link in it, as long
\* as none was made.
MissedIsFresh ==
  phase = "resolve" /\ ~swapped /\ depth < Len(joined) =>
    LET missed == SubSeq(joined, 1, depth + 1)
    IN  Kind(Place(missed)) = "dir" =>
          \A path \in DOMAIN tree : IsPrefix(Place(missed), path) => Kind(path) # "link"

\* What the call goes on with is what the gate said, of the list it has.
Decided ==
  /\ phase = "open" => Allows(place)
  /\ phase = "refused" => ~Allows(place)

\* The place resolved is reached over no link, so the layer below comes to it,
\* unless a link led nowhere or crossed the call.
NoLinkOnWay == phase = "open" /\ ~linked /\ ~swapped => NoLinkOn(place)

\* While nothing changes, the place resolved is where the path asked for leads.
LeadsOn == phase = "open" /\ still /\ ~Loops(joined) => Place(place) = Place(joined)

\* So is one that was refused: a refusal ends the call before any change.
RefusedThere == phase = "refused" /\ ~linked /\ ~swapped => place = Place(joined)

\* And an operation that was done was done there.
DoneThere == phase = "done" /\ still /\ ~Loops(joined) => place = Place(joined)

\* The inductive invariant.  Neither property is inductive without the parts that
\* relate the path being resolved to the file system of the moment: between two
\* turns of canonicalize_deepest anything may be created or removed.
IInv ==
  /\ Types
  /\ GateFollows
  /\ MissedIsFresh
  /\ Decided
  /\ NoLinkOnWay
  /\ LeadsOn
  /\ RefusedThere
  /\ StaysInside
  /\ DoneThere

\* What check resolves: the part that exists and the tail.
Existing == SubSeq(joined, 1, depth)
Remains  == SubSeq(joined, depth + 1, Len(joined))

\* The two parts are paths, and make up the one asked for.
LEMMA ResolvedIs ==
  ASSUME Types
  PROVE  /\ Existing \in Seq(Names) /\ Remains \in Seq(Names)
         /\ Place(Existing) \in Seq(Names)
         /\ Existing \o Remains = joined
BY TypeGrown, BeginningIs, RestIs, Halves, PlaceType
   DEF Types, TypeOK, Existing, Remains, Place

\* If the first name of the tail is no link, there is none on the whole way.
LEMMA ResolvedIsFree ==
  ASSUME Types, MissedIsFresh, phase = "resolve", ~swapped, Canonical(Existing) # {},
         Remains = <<>> \/ Kind(Append(Place(Existing), Head(Remains))) # "link"
  PROVE  NoLinkOn(Place(Existing) \o Remains)
<1> DEFINE at == Place(Existing)
<1>1. /\ Grown(tree) /\ Existing \in Seq(Names) /\ Remains \in Seq(Names)
      /\ at \in Seq(Names) /\ Len(at) \in Nat /\ Len(Remains) \in Nat
  BY TypeGrown, ResolvedIs, LenProperties DEF Types
<1>2. LinksOn(tree, at) = {}
  <2>1. KindIn(tree, at) \in {"dir", "file"}
    BY DEF Canonical, Kind
  <2> HIDE DEF at
  <2> QED
    BY <1>1, <2>1, FreeWhereItExists
<1>3. CASE Remains = <<>>
  <2>1. at \o Remains = at
    BY <1>1, <1>3, ConcatEmptySeq
  <2> QED
    BY <1>2, <2>1 DEF NoLinkOn
<1>4. CASE Remains # <<>>
  <2> DEFINE h == Head(Remains)
             first == Append(at, h)
             way == at \o Remains
  <2>1. h \in Names /\ h = Remains[1] /\ Len(Remains) # 0
    BY <1>1, <1>4, HeadTailProperties, EmptySeq
  <2>2. first \in Seq(Names) /\ Len(first) = Len(at) + 1 /\ first = at \o <<h>>
    <3> HIDE DEF at, h
    <3> QED
      BY <1>1, <2>1, AppendProperties, AppendIsConcat
  <2>3. way \in Seq(Names) /\ Len(way) = Len(at) + Len(Remains)
    BY <1>1, ConcatProperties
  <2>4. SubSeq(way, 1, Len(at) + 1) = first
    <3> DEFINE m == Len(at) + 1
    <3>1. m \in 0..Len(way) /\ m \in Nat
      BY <1>1, <2>1, <2>3
    <3> HIDE DEF way, first, at, h
    <3>2. SubSeq(way, 1, m) \in Seq(Names) /\ Len(SubSeq(way, 1, m)) = m
          /\ \A i \in 1..m : SubSeq(way, 1, m)[i] = way[i]
      <4> HIDE DEF m
      <4> QED
        BY <2>3, <3>1, BeginningIs
    <3>3. \A i \in 1..Len(at) : way[i] = at[i] /\ first[i] = at[i]
      BY <1>1, <2>1, ConcatProperties, AppendProperties DEF way, first
    <3>4. way[m] = h /\ first[m] = h
      BY <1>1, <2>1, ConcatProperties, AppendProperties DEF way, first
    <3>5. \A i \in 1..m : SubSeq(way, 1, m)[i] = first[i]
      BY <1>1, <3>2, <3>3, <3>4
    <3> QED
      BY <2>2, <3>2, <3>5, SeqEqual
  <2>5. KindIn(tree, first) # "link"
    BY <1>4 DEF Kind
  <2> SUFFICES ASSUME NEW n \in LinksOn(tree, way) PROVE FALSE
    BY DEF NoLinkOn
  <2> DEFINE q == SubSeq(way, 1, n)
  <2> HIDE DEF way, first, at, h
  <2>6. n \in 1..Len(way) /\ KindIn(tree, q) = "link"
    BY DEF LinksOn
  <2>7. q \in DOMAIN tree /\ q \in Seq(Names) /\ Len(q) = n /\ n \in Nat
    BY <1>1, <2>3, <2>6, BeginningIs DEF KindIn
  <2>8. n > Len(at) + 1
    <3>1. n > Len(at)
      <4>1. SUFFICES ASSUME n \in 1..Len(at) PROVE FALSE
        BY <1>1, <2>6, <2>7
      <4>2. q = SubSeq(at, 1, n)
        BY <1>1, <4>1, BeginningOfConcat DEF way
      <4> QED
        BY <1>2, <2>6, <4>1, <4>2 DEF LinksOn
    <3>2. n # Len(at) + 1
      BY <2>4, <2>5, <2>6
    <3> QED
      BY <1>1, <2>7, <3>1, <3>2
  <2>9. SubSeq(q, 1, Len(at) + 1) = first
    <3>1. n \in 0..Len(way) /\ Len(at) + 1 \in 0..n
      BY <1>1, <2>3, <2>6, <2>8
    <3>2. SubSeq(q, 1, Len(at) + 1) = SubSeq(way, 1, Len(at) + 1)
      BY <2>3, <3>1, BeginningOfBeginning
    <3> QED
      BY <2>4, <3>2
  <2>10. KindIn(tree, first) = "dir"
    <3>1. Len(at) + 1 \in Nat /\ Len(at) + 1 < Len(q)
      BY <1>1, <2>7, <2>8
    <3> QED
      BY <1>1, <2>7, <2>9, <3>1, DirsAbove
  <2>11. LinksOn(tree, first) = {}
    BY <1>1, <2>2, <2>10, FreeWhereItExists
  <2> DEFINE missed == SubSeq(joined, 1, depth + 1)
  <2>12. /\ joined \in Seq(Names) /\ Len(joined) \in Nat /\ depth \in 0..Len(joined)
         /\ depth < Len(joined)
    <3>1. joined \in Seq(Names) /\ Len(joined) \in Nat /\ depth \in 0..Len(joined)
      BY LenProperties DEF Types, TypeOK
    <3>2. Len(Remains) = Len(joined) - depth
      BY <3>1, RestIs DEF Remains
    <3> QED
      BY <1>1, <2>1, <3>1, <3>2
  <2>13. missed = Existing \o <<h>>
    <3>1. depth + 1 \in 1..Len(joined) /\ 1 \in 1..Len(joined) /\ depth + 1 \in 1..Len(joined)
          /\ (depth + 1) - 1 = depth
      BY <2>12
    <3>2. SubSeq(joined, 1, depth + 1)
            = SubSeq(joined, 1, (depth + 1) - 1) \o <<joined[depth + 1]>>
      BY <2>12, <3>1, SubSeqRecursiveSecond
    <3>3. Remains[1] = joined[depth + 1]
      <4>1. 1 \in 1..(Len(joined) - depth)
        BY <2>12
      <4> QED
        BY <2>12, <4>1, RestIs DEF Remains
    <3> QED
      BY <2>1, <3>1, <3>2, <3>3 DEF Existing
  <2>14. Place(missed) = first
    <3>1. <<h>> \in Seq(Names)
      BY <2>1
    <3>2. PlaceIn(tree, Existing \o <<h>>) = PlaceIn(tree, Existing) \o <<h>>
      BY <1>1, <2>2, <2>11, <3>1, PlaceOfLonger DEF at, Place
    <3> QED
      BY <2>2, <2>13, <3>2 DEF at, Place
  <2>15. IsPrefix(first, q)
    <3>1. Len(first) <= Len(q) /\ first = SubSeq(q, 1, Len(first))
      BY <1>1, <2>2, <2>7, <2>8, <2>9
    <3> QED
      BY <2>2, <2>7, <3>1, PrefixIs
  <2> QED
    BY <2>6, <2>7, <2>10, <2>12, <2>14, <2>15 DEF MissedIsFresh, Kind
<1> QED
  BY <1>3, <1>4

\* The gate keeps its list, and what it says of it while the file system stays
\* or the paths of the list lead where they led.
LEMMA GateStep ==
  ASSUME Types, [Next]_vars
  PROVE  /\ roots' = roots /\ deny' = deny
         /\ settled' => settled /\ (tree' = tree \/ Stay)
<1>1. CASE \E request \in Requests : Request(request)
  BY <1>1 DEF Request, gate
<1>2. CASE Resolve
  BY <1>2 DEF Resolve, gate
<1>3. ASSUME NEW at \in Seq(Names), Done(at)
      PROVE  roots' = roots /\ deny' = deny /\ (settled' => settled /\ Stay)
  BY <1>3 DEF Done, Types, TypeOK
<1>4. CASE Open
  <2>1. PICK at : at \in Canonical(place) /\ Done(at)
    BY <1>4 DEF Open
  <2> QED
    BY <2>1 DEF Done, Types, TypeOK
<1>5. CASE Write
  BY <1>3, <1>5, WriteTree, PathIs DEF Types
<1>6. CASE Mkdir
  BY <1>3, <1>6, MkdirTree, PathIs DEF Types
<1>7. CASE Unlink
  BY <1>3, <1>7, UnlinkTree DEF Types
<1>8. CASE Fail
  BY <1>8 DEF Fail, gate
<1>9. CASE Others
  <2>1. PICK crossed : Meanwhile(crossed)
    BY <1>9, OthersStep
  <2> QED
    BY <2>1 DEF Meanwhile, Types, TypeOK
<1>10. CASE UNCHANGED vars
  BY <1>10 DEF vars, gate
<1> QED
  BY <1>1, <1>2, <1>4, <1>5, <1>6, <1>7, <1>8, <1>9, <1>10 DEF Next, Others

\* A gate that is settled when it is built knows where the directories are.
LEMMA GateFollowsInit == Init => GateFollows
<1> SUFFICES ASSUME Init, settled PROVE GateFollows
  BY DEF GateFollows
<1>1. Grown(tree)
  BY TypesInit, TypeGrown DEF Types
<1>2. ASSUME NEW path \in Confines PROVE Canon(path) = Place(path)
  <2>1. CASE Canonical(path) # {}
    BY <2>1 DEF Canon
  <2>2. CASE Canonical(path) = {}
    <3>1. path \in Seq(Names) /\ \A q \in WayTo(path) : Kind(q) # "link"
      BY <2>2, ConfinesAre, PathIs DEF Init
    <3>2. LinksOn(tree, path) = {}
      BY <3>1 DEF LinksOn, WayTo, Kind
    <3> QED
      BY <1>1, <2>2, <3>1, <3>2, FreePlace DEF Canon, Place
  <2> QED
    BY <2>1, <2>2
<1>3. \A i \in DOMAIN Roots : Roots[i] \in Confines
  BY DEF Confines, Range
<1>4. \A path \in Denied : path \in Confines
  BY DEF Confines
<1> QED
  BY <1>2, <1>3, <1>4 DEF Init, GateFollows

\* It goes on knowing: what is settled are the links that lead there.
LEMMA GateFollowsNext == Types /\ GateFollows /\ [Next]_vars => GateFollows'
<1> SUFFICES ASSUME Types, GateFollows, [Next]_vars, settled' PROVE GateFollows'
  BY DEF GateFollows
<1>1. roots' = roots /\ deny' = deny /\ settled /\ (tree' = tree \/ Stay)
  BY GateStep
<1>2. ASSUME NEW path \in Confines PROVE Place(path)' = Place(path)
  BY <1>1 DEF Stay, Place
<1>3. \A i \in DOMAIN Roots : Roots[i] \in Confines
  BY DEF Confines, Range
<1>4. \A path \in Denied : path \in Confines
  BY DEF Confines
<1>5. \A i \in DOMAIN Roots : roots'[i] = Place(Roots[i])'
  BY <1>1, <1>2, <1>3 DEF GateFollows
<1>6. deny' = {Place(path)' : path \in Denied}
  BY <1>1, <1>2, <1>4 DEF GateFollows
<1> QED
  BY <1>5, <1>6 DEF GateFollows

\* Where the gate follows, what it allows is what is inside.
LEMMA AllowsIsInside ==
  ASSUME Types, GateFollows, settled, NEW at
  PROVE  Allows(at) <=> Inside(at)
BY DEF Types, GateFollows, Allows, Inside, IsUnder

-------------------------------------------------------------------------------
(***************************************************************************)
(* The invariant is kept                                                   *)
(***************************************************************************)
LEMMA InvInit == Init => IInv
<1> SUFFICES ASSUME Init PROVE IInv
  OBVIOUS
<1>1. phase = "idle"
  BY DEF Init
<1> QED
  BY <1>1, TypesInit, GateFollowsInit
     DEF IInv, MissedIsFresh, Decided, NoLinkOnWay, LeadsOn, RefusedThere, StaysInside,
         DoneThere

\* What the parts that depend on the phase say where it is none of theirs.
LEMMA InvIdle ==
  ASSUME IInv, [Next]_vars, phase' = "idle"
  PROVE  IInv'
BY TypesNext, GateFollowsNext
   DEF IInv, MissedIsFresh, Decided, NoLinkOnWay, LeadsOn, RefusedThere, StaysInside,
       DoneThere

\* Nothing is resolved yet.
LEMMA InvRequest ==
  ASSUME IInv, NEW request \in Requests, Request(request)
  PROVE  IInv'
<1>1. [Next]_vars
  BY DEF Next
<1>2. phase' = "resolve" /\ depth' = Len(joined')
  BY DEF Request
<1>3. Types'
  BY <1>1, TypesNext DEF IInv
<1>4. ~(depth' < Len(joined'))
  BY <1>2, <1>3, LenProperties DEF Types, TypeOK
<1> QED
  BY <1>1, <1>2, <1>3, <1>4, GateFollowsNext
     DEF IInv, MissedIsFresh, Decided, NoLinkOnWay, LeadsOn, RefusedThere, StaysInside,
         DoneThere

\* A turn up the path, or the decision.
LEMMA InvResolve ==
  ASSUME IInv, Resolve
  PROVE  IInv'
<1>1. [Next]_vars /\ phase = "resolve"
  BY DEF Next, Resolve
<1>2. Types /\ Types' /\ GateFollows' /\ Grown(tree) /\ MissedIsFresh
  BY <1>1, TypesNext, GateFollowsNext, TypeGrown DEF IInv, Types
<1>3. UNCHANGED <<tree, roots, deny, settled, joined, still, swapped>>
  BY DEF Resolve, gate
<1> DEFINE resolved == Place(Existing) \o Remains
<1>4. CASE Canonical(Existing) = {}
  <2>1. depth' = depth - 1 /\ phase' = "resolve"
    BY <1>1, <1>4 DEF Resolve, Existing
  <2>2. depth \in Int
    BY <1>2, LenProperties DEF Types, TypeOK
  <2>3. SubSeq(joined', 1, depth' + 1) = Existing
    BY <1>3, <2>1, <2>2 DEF Existing
  <2>4. ~(KindIn(tree', PlaceIn(tree', Existing)) = "dir")
    BY <1>3, <1>4 DEF Canonical, Place, Kind
  <2>5. MissedIsFresh'
    BY <2>3, <2>4 DEF MissedIsFresh, Place, Kind
  <2> QED
    BY <1>2, <2>1, <2>5
       DEF IInv, Decided, NoLinkOnWay, LeadsOn, RefusedThere, StaysInside, DoneThere
<1>5. CASE Canonical(Existing) # {}
  <2>1. /\ phase' = IF Allows(resolved) THEN "open" ELSE "refused"
        /\ place' = resolved
        /\ linked' = (Remains # <<>> /\ Kind(Append(Place(Existing), Head(Remains))) = "link")
    BY <1>5 DEF Resolve, Existing, Remains
  <2>2. Decided'
    BY <1>3, <2>1 DEF Decided, Allows
  <2>3. ~linked' /\ ~swapped => LinksOn(tree, resolved) = {}
    BY <1>1, <1>2, <1>5, <2>1, ResolvedIsFree DEF NoLinkOn
  <2>4. NoLinkOnWay'
    BY <1>3, <2>1, <2>3 DEF NoLinkOnWay, NoLinkOn
  <2>5. Existing \in Seq(Names) /\ Remains \in Seq(Names) /\ Existing \o Remains = joined
    BY <1>2, ResolvedIs
  <2>6. LinksOn(tree, PlaceIn(tree, joined)) = {} =>
          PlaceIn(tree, resolved) = PlaceIn(tree, joined)
    BY <1>2, <2>5, PlaceInParts DEF Place
  <2>7. LeadsOn'
    BY <1>3, <2>1, <2>6 DEF LeadsOn, Loops, Place
  <2>8. LinksOn(tree, resolved) = {} => resolved = PlaceIn(tree, joined)
    BY <1>2, <2>5, PlaceOfLonger DEF Place
  <2>9. RefusedThere'
    BY <1>3, <2>1, <2>3, <2>8 DEF RefusedThere, Place
  <2> QED
    BY <1>2, <2>1, <2>2, <2>4, <2>7, <2>9
       DEF IInv, MissedIsFresh, StaysInside, DoneThere
<1> QED
  BY <1>4, <1>5

\* Where no link is on the way the operation comes to the place that was decided
\* on, and if nothing changed it comes where the path leads.
LEMMA InvDone ==
  ASSUME IInv, [Next]_vars, phase = "open", NEW at, Done(at),
         ~linked /\ ~swapped => at = place,
         still /\ tree' = tree /\ ~Loops(joined) => at = Place(joined)
  PROVE  IInv'
<1>1. Types /\ Types' /\ GateFollows'
  BY TypesNext, GateFollowsNext DEF IInv
<1>2. /\ phase' = "done" /\ place' = at /\ (still' <=> still /\ tree' = tree)
      /\ joined' = joined /\ linked' = linked /\ swapped' = swapped
  BY <1>1 DEF Done, Types, TypeOK
<1>3. roots' = roots /\ deny' = deny
  BY <1>1, GateStep
<1>4. StaysInside'
  <2> SUFFICES ASSUME settled', ~linked, ~swapped PROVE Inside(place)'
    BY <1>2 DEF StaysInside
  <2>1. place' = place /\ Allows(place)
    BY <1>2 DEF IInv, Decided
  <2>2. Allows(place)'
    BY <1>3, <2>1 DEF Allows
  <2> QED
    BY <1>1, <2>2 DEF Types, GateFollows, Allows, Inside, IsUnder
<1>5. DoneThere'
  BY <1>2 DEF DoneThere, Loops, Place
<1> QED
  BY <1>1, <1>2, <1>4, <1>5
     DEF IInv, MissedIsFresh, Decided, NoLinkOnWay, LeadsOn, RefusedThere

\* What is opened is where the place resolved leads: itself.
LEMMA InvOpen ==
  ASSUME IInv, Open
  PROVE  IInv'
<1>1. Types /\ Grown(tree) /\ place \in Seq(Names) /\ phase = "open" /\ [Next]_vars
  BY TypeGrown DEF IInv, Types, TypeOK, Open, Next
<1>2. tree' = tree /\ Done(Place(place))
  BY DEF Open, Canonical
<1>3. ~linked /\ ~swapped => Place(place) = place
  BY <1>1, FreePlace DEF IInv, NoLinkOnWay, NoLinkOn, Place
<1>4. still /\ ~Loops(joined) => Place(place) = Place(joined)
  BY <1>1 DEF IInv, LeadsOn
<1> QED
  BY <1>1, <1>2, <1>3, <1>4, InvDone

\* What is written is where the place resolved leads: itself.
LEMMA InvWrite ==
  ASSUME IInv, Write
  PROVE  IInv'
<1>1. Types /\ Grown(tree) /\ place \in Seq(Names) /\ phase = "open" /\ [Next]_vars
  BY TypeGrown DEF IInv, Types, TypeOK, Write, Next
<1>2. Done(Place(place))
  BY DEF Write
<1>3. ~linked /\ ~swapped => Place(place) = place
  BY <1>1, FreePlace DEF IInv, NoLinkOnWay, NoLinkOn, Place
<1>4. still /\ ~Loops(joined) => Place(place) = Place(joined)
  BY <1>1 DEF IInv, LeadsOn
<1> QED
  BY <1>1, <1>2, <1>3, <1>4, InvDone

\* What is made is the place resolved.
LEMMA InvMkdir ==
  ASSUME IInv, Mkdir
  PROVE  IInv'
<1>1. Types /\ Grown(tree) /\ place \in Seq(Names) /\ phase = "open" /\ [Next]_vars
  BY TypeGrown DEF IInv, Types, TypeOK, Mkdir, Next
<1>2. Done(place) /\ Kind(place) \in {"dir", "none"} /\ place \in DOMAIN tree'
  BY <1>1, MkdirTree DEF Types
<1>3. ASSUME tree' = tree, still, ~Loops(joined) PROVE place = Place(joined)
  <2>1. KindIn(tree, place) = "dir"
    BY <1>1, <1>2, <1>3 DEF Kind, KindIn, Grown, Entries
  <2>2. Place(place) = place
    BY <1>1, <2>1, FreeWhereItExists, FreePlace DEF Place
  <2> QED
    BY <1>1, <1>3, <2>2 DEF IInv, LeadsOn
<1> QED
  BY <1>1, <1>2, <1>3, InvDone

\* What is removed is the place resolved, the link if it is one.
LEMMA InvUnlink ==
  ASSUME IInv, Unlink
  PROVE  IInv'
<1>1. Types /\ Grown(tree) /\ place \in Seq(Names) /\ phase = "open" /\ [Next]_vars
  BY TypeGrown DEF IInv, Types, TypeOK, Unlink, Next
<1>2. PICK at \in Seq(Names) :
        /\ at = Append(Place(Front(place)), Last(place))
        /\ place # <<>> /\ at \in DOMAIN tree /\ Done(at) /\ at \notin DOMAIN tree'
  BY <1>1, UnlinkTree DEF Types
<1>3. ASSUME ~linked, ~swapped PROVE at = place
  <2>1. LinksOn(tree, place) = {}
    BY <1>1, <1>3 DEF IInv, NoLinkOnWay, NoLinkOn
  <2>2. /\ Front(place) \in Seq(Names) /\ Last(place) \in Names
        /\ Append(Front(place), Last(place)) = place
    BY <1>1, <1>2, FrontIs
  <2>3. place = Front(place) \o <<Last(place)>> /\ <<Last(place)>> \in Seq(Names)
    <3> DEFINE above == Front(place)
               name == Last(place)
    <3> HIDE DEF above, name
    <3>1. above \in Seq(Names) /\ name \in Names /\ Append(above, name) = place
      BY <2>2 DEF above, name
    <3>2. Append(above, name) = above \o <<name>>
      BY <3>1, AppendIsConcat
    <3>3. <<name>> \in Seq(Names)
      BY <3>1
    <3> QED
      BY <3>1, <3>2, <3>3 DEF above, name
  <2>4. LinksOn(tree, Front(place)) \subseteq LinksOn(tree, place)
    BY <2>2, <2>3, LinksOfLonger
  <2>5. Place(Front(place)) = Front(place)
    BY <1>1, <2>1, <2>2, <2>4, FreePlace DEF Place
  <2> QED
    BY <1>2, <2>2, <2>5
<1>4. tree' # tree
  BY <1>2
<1> QED
  BY <1>1, <1>2, <1>3, <1>4, InvDone

\* What others do in the middle of a call: they cross it with a link, or make one
\* elsewhere once the path is resolved, or make no links, so paths lead where they
\* led, or remove something.
LEMMA OthersTree ==
  ASSUME IInv, Others, phase \in {"resolve", "open"}, ~swapped'
  PROVE  /\ ~swapped /\ still' = FALSE /\ UNCHANGED <<phase, joined, depth, place, linked>>
         /\ Grown(tree')
         /\ \/ Smaller(tree', tree)
            \/ Smaller(tree, tree') /\ LinksAlike(tree, tree')
            \/ phase = "open" /\ LinksOn(tree', place) \subseteq LinksOn(tree, place)
<1>1. Types /\ TypeOK /\ Grown(tree) /\ place \in Seq(Names)
  BY TypeGrown DEF IInv, Types, TypeOK
<1>2. PICK at \in Paths \ {<<>>} :
        \/ Delete(at) /\ Meanwhile(FALSE)
        \/ \E entry \in Entries : Make(at, entry) /\ Meanwhile(Crosses(at, entry))
  BY DEF Others
<1>3. ASSUME NEW crossed, Meanwhile(crossed)
      PROVE  /\ ~crossed /\ ~swapped /\ still' = FALSE
             /\ UNCHANGED <<phase, joined, depth, place, linked>>
  BY <1>3 DEF Meanwhile
<1>4. CASE Delete(at) /\ Meanwhile(FALSE)
  BY <1>1, <1>3, <1>4, DeletedTree
<1>5. ASSUME NEW entry \in Entries, Make(at, entry), Meanwhile(Crosses(at, entry))
      PROVE  /\ Grown(tree')
             /\ \/ Smaller(tree, tree') /\ LinksAlike(tree, tree')
                \/ phase = "open" /\ LinksOn(tree', place) \subseteq LinksOn(tree, place)
  <2>1. /\ Grown(tree') /\ Smaller(tree, tree')
        /\ entry.kind # "link" => LinksAlike(tree, tree')
        /\ \A path \in Seq(Names) :
             KindIn(tree', path) = "link" => path = at \/ KindIn(tree, path) = "link"
    BY <1>1, <1>5, MadeTree
  <2>2. entry.kind = "link" => phase = "open" /\ at \notin WayTo(place)
    BY <1>3, <1>5 DEF Crosses
  <2>3. ASSUME at \notin WayTo(place), NEW n \in LinksOn(tree', place)
        PROVE  n \in LinksOn(tree, place)
    <3>1. n \in 1..Len(place) /\ KindIn(tree', SubSeq(place, 1, n)) = "link"
      BY <2>3 DEF LinksOn
    <3>2. SubSeq(place, 1, n) \in Seq(Names) /\ SubSeq(place, 1, n) # at
      <4>1. n \in 0..Len(place)
        BY <1>1, <3>1, LenProperties
      <4>2. SubSeq(place, 1, n) \in WayTo(place)
        BY <3>1 DEF WayTo
      <4> QED
        BY <1>1, <2>3, <4>1, <4>2, BeginningIs
    <3> QED
      BY <2>1, <3>1, <3>2 DEF LinksOn
  <2> QED
    BY <2>1, <2>2, <2>3
<1> QED
  BY <1>2, <1>3, <1>4, <1>5

\* What the parts of the invariant say is kept through that.
LEMMA InvOthers ==
  ASSUME IInv, Others
  PROVE  IInv'
<1>1. Types /\ TypeOK /\ Grown(tree) /\ [Next]_vars
  BY TypeGrown DEF IInv, Types, Next, Others
<1>2. Types' /\ GateFollows' /\ roots' = roots /\ deny' = deny
  BY <1>1, TypesNext, GateFollowsNext, GateStep DEF IInv
<1>3. \E crossed : Meanwhile(crossed)
  BY OthersStep
<1>4. CASE phase \notin {"resolve", "open"}
  <2>1. phase' = "idle"
    BY <1>3, <1>4 DEF Meanwhile, Rest
  <2> QED
    BY <1>1, <2>1, InvIdle
<1>5. CASE phase \in {"resolve", "open"}
  <2>1. UNCHANGED <<phase, joined, depth, place, linked>> /\ still' = FALSE
    BY <1>3, <1>5 DEF Meanwhile
  <2>2. ASSUME ~swapped'
        PROVE  /\ ~swapped /\ Grown(tree')
               /\ \/ Smaller(tree', tree)
                  \/ Smaller(tree, tree') /\ LinksAlike(tree, tree')
                  \/ phase = "open" /\ LinksOn(tree', place) \subseteq LinksOn(tree, place)
    BY <1>5, <2>2, OthersTree
  <2>3. joined \in Seq(Names) /\ place \in Seq(Names) /\ Len(joined) \in Nat
        /\ depth \in 0..Len(joined)
    BY <1>1, LenProperties DEF TypeOK
  <2>4. ~swapped' => LinksOn(tree', place) \subseteq LinksOn(tree, place)
    BY <2>2, <2>3, LinksInSmaller, LinksOnAlike
  <2>5. NoLinkOnWay'
    BY <2>1, <2>2, <2>4 DEF IInv, NoLinkOnWay, NoLinkOn
  <2>6. Decided'
    BY <1>2, <2>1 DEF IInv, Decided, Allows
  <2>7. MissedIsFresh'
    <3> DEFINE missed == SubSeq(joined, 1, depth + 1)
               at == PlaceIn(tree', missed)
    <3> SUFFICES ASSUME phase = "resolve", ~swapped', depth < Len(joined), KindIn(tree', at) = "dir",
                        NEW path \in DOMAIN tree', IsPrefix(at, path),
                        KindIn(tree', path) = "link"
                 PROVE  FALSE
      BY <2>1 DEF MissedIsFresh, Place, Kind
    <3>0. /\ ~swapped /\ Grown(tree')
          /\ Smaller(tree', tree) \/ (Smaller(tree, tree') /\ LinksAlike(tree, tree'))
      BY <2>2
    <3>1. missed \in Seq(Names)
      BY <2>3, BeginningIs
    <3>2. at \in Seq(Names) /\ path \in Seq(Names)
      BY <3>0, <3>1, PlaceType, PathIs DEF Grown
    <3>3. PlaceIn(tree, missed) = at
      <4>1. CASE Smaller(tree', tree)
        BY <1>1, <3>0, <3>1, <4>1, PlaceInSmaller
      <4>2. CASE LinksAlike(tree, tree')
        BY <1>1, <3>0, <3>1, <4>2, SamePlace
      <4> QED
        BY <3>0, <4>1, <4>2
    <3> HIDE DEF at
    <3>4. KindIn(tree, path) = "link" /\ path \in DOMAIN tree
      <4>1. KindIn(tree, path) = "link"
        BY <3>0, <3>2, KindInSmaller DEF LinksAlike
      <4> QED
        BY <4>1 DEF KindIn
    <3>5. KindIn(tree, at) = "dir"
      <4>1. CASE Smaller(tree', tree)
        BY <3>0, <4>1, KindInSmaller
      <4>2. CASE ~Smaller(tree', tree)
        <5>1. at # path
          OBVIOUS
        <5>2. Len(at) <= Len(path) /\ at = SubSeq(path, 1, Len(at))
          BY <3>2, PrefixIs
        <5>3. Len(at) \in Nat /\ Len(path) \in Nat /\ Len(at) # Len(path)
          BY <3>2, <5>1, <5>2, SubSeqFull, LenProperties
        <5>4. Len(at) < Len(path)
          BY <5>2, <5>3
        <5> QED
          BY <1>1, <3>4, <5>2, <5>3, <5>4, DirsAbove
      <4> QED
        BY <4>1, <4>2
    <3> QED
      BY <3>0, <3>3, <3>4, <3>5 DEF IInv, MissedIsFresh, Place, Kind
  <2> QED
    BY <1>2, <1>5, <2>1, <2>5, <2>6, <2>7
       DEF IInv, LeadsOn, RefusedThere, StaysInside, DoneThere
<1> QED
  BY <1>4, <1>5

\* Every step keeps the invariant.
LEMMA InvNext == IInv /\ [Next]_vars => IInv'
<1> SUFFICES ASSUME IInv, [Next]_vars PROVE IInv'
  OBVIOUS
<1>1. CASE Fail
  <2>1. phase' = "idle"
    BY <1>1 DEF Fail, Rest
  <2> QED
    BY <2>1, InvIdle
<1>2. CASE UNCHANGED vars
  BY <1>2 DEF vars, gate, call, past, IInv, Types, TypeOK, Kind, GateFollows, MissedIsFresh, Decided,
     Allows, NoLinkOnWay, NoLinkOn, LeadsOn, Loops, RefusedThere, StaysInside, Inside,
     DoneThere, Place
<1> QED
  BY <1>1, <1>2, InvRequest, InvResolve, InvOpen, InvWrite, InvMkdir, InvUnlink, InvOthers
     DEF Next, Others

\* An operation comes to a place under a root and under no denied directory,
\* whatever files and directories come and go between the calls that resolve its
\* path and whatever links go, unless the gate was not settled, a link that led
\* nowhere followed the part that exists, or a link crossed the call (StaysInside).
THEOREM InsideAlways == Spec => []StaysInside
<1>1. IInv => StaysInside
  BY DEF IInv
<1> QED
  BY <1>1, InvInit, InvNext, PTL DEF Spec

\* An operation is done where the path asked for leads when nothing changed
\* meanwhile, and nothing inside is refused, whatever changed, but for the same
\* three cases (GateIsExact).
THEOREM GateExact == Spec => []GateIsExact
<1>1. IInv => GateIsExact
  <2> SUFFICES ASSUME IInv PROVE GateIsExact
    OBVIOUS
  <2>1. phase = "done" /\ still /\ ~Loops(joined) => place = Place(joined)
    BY DEF IInv, DoneThere
  <2>2. phase = "refused" /\ settled /\ ~linked /\ ~swapped => ~Inside(Place(joined))
    BY AllowsIsInside DEF IInv, RefusedThere, Decided
  <2> QED
    BY <2>1, <2>2 DEF GateIsExact
<1> QED
  BY <1>1, InvInit, InvNext, PTL DEF Spec
===============================================================================
