------------------------------ MODULE SharedLemmas ------------------------------
(***************************************************************************)
(* Induction and recursion over the natural numbers, in the form the       *)
(* proofs of the other modules use them: with a set for the induction      *)
(* hypothesis and a function for the step.                                 *)
(***************************************************************************)
EXTENDS Integers, SequencesExt, WellFoundedInduction, SequenceTheorems, TLAPS

\* A set of numbers that has 0, and with each number the next, has them all.
LEMMA SetInduction ==
  ASSUME NEW S, 0 \in S, \A n \in Nat : n \in S => n + 1 \in S
  PROVE  \A n \in Nat : n \in S
<1> DEFINE Less == OpToRel(<, Nat)
           Rest == Nat \ S
<1>1. IsWellFoundedOn(Less, Nat)
  BY NatLessThanWellFounded
<1>2. SUFFICES ASSUME Rest # {} PROVE FALSE
  OBVIOUS
<1>3. PICK x \in Rest : \A y \in Rest : ~(<<y, x>> \in Less)
  <2>1. Rest \subseteq Nat
    OBVIOUS
  <2> HIDE DEF Less, Rest
  <2> QED
    BY <1>1, <1>2, <2>1, WFMin
<1>4. x \in Nat /\ x \notin S /\ x # 0
  OBVIOUS
<1>5. x - 1 \in Nat /\ x - 1 < x /\ (x - 1) + 1 = x
  BY <1>4
<1>6. <<x - 1, x>> \in Less
  BY <1>4, <1>5 DEF OpToRel
<1>7. x - 1 \in S
  BY <1>3, <1>5, <1>6
<1> QED
  BY <1>4, <1>5, <1>7

\* Numbers have a least one.
LEMMA LeastOf ==
  ASSUME NEW S, S \subseteq Nat, S # {}
  PROVE  \E m \in S : \A n \in S : m <= n
<1> DEFINE Less == OpToRel(<, Nat)
<1>1. IsWellFoundedOn(Less, Nat)
  BY NatLessThanWellFounded
<1> HIDE DEF Less
<1>2. PICK m \in S : \A n \in S : ~(<<n, m>> \in Less)
  BY <1>1, WFMin
<1> USE DEF Less
<1>3. ASSUME NEW n \in S PROVE m <= n
  <2>1. ~(n < m)
    BY <1>2 DEF OpToRel
  <2> QED
    BY <2>1
<1> QED
  BY <1>2, <1>3

\* The values from a on, each made by a step from the one before.
Iterates(S, a, step, last) ==
  {f \in [0..last -> S] : f[0] = a /\ \A n \in 1..last : f[n] = step[n][f[n - 1]]}

\* There are such values, as far as one likes.
LEMMA Iteration ==
  ASSUME NEW S, NEW a \in S, NEW step \in [Nat -> [S -> S]], NEW last \in Nat
  PROVE  Iterates(S, a, step, last) # {}
<1> DEFINE Made(k, f) == f[0] = a /\ \A n \in 1..k : f[n] = step[n][f[n - 1]]
           D == {k \in Nat : \E f \in [0..k -> S] : Made(k, f)}
<1>1. 0 \in D
  <2>1. [n \in 0..0 |-> a] \in [0..0 -> S] /\ Made(0, [n \in 0..0 |-> a])
    OBVIOUS
  <2> QED
    BY <2>1
<1>2. ASSUME NEW k \in Nat, k \in D PROVE k + 1 \in D
  <2>1. PICK f \in [0..k -> S] : Made(k, f)
    BY <1>2
  <2> DEFINE h == [n \in 0..(k + 1) |-> IF n = k + 1 THEN step[k + 1][f[k]] ELSE f[n]]
  <2>2. f[k] \in S /\ step[k + 1][f[k]] \in S
    OBVIOUS
  <2>3. h \in [0..(k + 1) -> S]
    BY <2>2
  <2>4. h[0] = a
    BY <2>1
  <2>5. ASSUME NEW n \in 1..(k + 1) PROVE h[n] = step[n][h[n - 1]]
    <3>1. CASE n = k + 1
      <4>1. h[n - 1] = f[k]
        BY <3>1
      <4> QED
        BY <3>1, <4>1
    <3>2. CASE n # k + 1
      <4>1. n \in 1..k /\ h[n - 1] = f[n - 1] /\ h[n] = f[n]
        BY <3>2
      <4> QED
        BY <2>1, <4>1
    <3> QED
      BY <3>1, <3>2
  <2>6. Made(k + 1, h)
    BY <2>4, <2>5
  <2>7. k + 1 \in Nat
    OBVIOUS
  <2> HIDE DEF h, Made
  <2> QED
    BY <2>3, <2>6, <2>7
<1>3. \A k \in Nat : k \in D
  <2> HIDE DEF D
  <2> QED
    BY <1>1, <1>2, SetInduction
<1> HIDE DEF Made
<1>4. PICK f \in [0..last -> S] : Made(last, f)
  BY <1>3
<1>5. f \in Iterates(S, a, step, last)
  BY <1>4 DEF Iterates, Made
<1> QED
  BY <1>5

\* And what is defined by the same steps has the same values.
LEMMA Sole ==
  ASSUME NEW S, NEW a \in S, NEW step, NEW last \in Nat,
         NEW f \in Iterates(S, a, step, last),
         NEW g, g[0] = a,
         \A n \in 1..last : g[n - 1] \in S => g[n] = step[n][g[n - 1]]
  PROVE  \A n \in 0..last : g[n] = f[n]
<1> DEFINE Same == {n \in Nat : n <= last => g[n] = f[n]}
<1>1. /\ f \in [0..last -> S] /\ f[0] = a
      /\ \A n \in 1..last : f[n] = step[n][f[n - 1]]
  BY DEF Iterates
<1>2. 0 \in Same
  BY <1>1
<1>3. ASSUME NEW n \in Nat, n \in Same PROVE n + 1 \in Same
  <2>1. CASE n + 1 <= last
    <3>1. n + 1 \in 1..last /\ n \in 0..last /\ (n + 1) - 1 = n /\ n <= last
      BY <2>1
    <3>2. g[n] = f[n] /\ f[n] \in S
      BY <1>1, <1>3, <3>1
    <3>3. g[n + 1] = step[n + 1][g[n]] /\ f[n + 1] = step[n + 1][f[n]]
      BY <1>1, <3>1, <3>2
    <3> QED
      BY <3>2, <3>3
  <2> QED
    BY <2>1
<1>4. \A n \in Nat : n \in Same
  <2> HIDE DEF Same
  <2> QED
    BY <1>2, <1>3, SetInduction
<1> QED
  BY <1>4

-------------------------------------------------------------------------------
(***************************************************************************)
(* Beginnings of a sequence                                                *)
(***************************************************************************)
\* A beginning of a sequence, element by element.
LEMMA BeginningIs ==
  ASSUME NEW S, NEW p \in Seq(S), NEW m \in 0..Len(p)
  PROVE  /\ SubSeq(p, 1, m) \in Seq(S)
         /\ Len(SubSeq(p, 1, m)) = m
         /\ \A i \in 1..m : SubSeq(p, 1, m)[i] = p[i]
<1>1. \A i \in 1..m : p[i] \in S
  BY ElementOfSeq
<1> QED
  BY <1>1, SubSeqProperties

\* A sequence, but for its last element.
LEMMA FrontIs ==
  ASSUME NEW S, NEW p \in Seq(S), p # <<>>
  PROVE  /\ Len(p) \in Nat \ {0}
         /\ Front(p) \in Seq(S)
         /\ Front(p) = SubSeq(p, 1, Len(p) - 1)
         /\ Len(Front(p)) = Len(p) - 1
         /\ Last(p) \in S
         /\ Append(Front(p), Last(p)) = p
<1>1. Len(p) \in Nat \ {0} /\ Len(p) - 1 \in 0..Len(p)
  BY EmptySeq
<1>2. Front(p) = SubSeq(p, 1, Len(p) - 1)
  BY DEF Front
<1>3. /\ Front(p) \in Seq(S) /\ Len(Front(p)) = Len(p) - 1
      /\ \A i \in 1..(Len(p) - 1) : Front(p)[i] = p[i]
  <2> DEFINE m == Len(p) - 1
  <2>1. m \in 0..Len(p)
    BY <1>1
  <2> HIDE DEF m
  <2>2. /\ SubSeq(p, 1, m) \in Seq(S) /\ Len(SubSeq(p, 1, m)) = m
        /\ \A i \in 1..m : SubSeq(p, 1, m)[i] = p[i]
    BY <2>1, BeginningIs
  <2> QED
    BY <1>2, <2>2 DEF m
<1>4. Last(p) = p[Len(p)] /\ Last(p) \in S
  BY <1>1, ElementOfSeq DEF Last
<1> DEFINE q == Append(Front(p), Last(p))
<1>5. /\ q \in Seq(S) /\ Len(q) = Len(p)
      /\ \A i \in 1..(Len(p) - 1) : q[i] = Front(p)[i]
      /\ q[Len(p)] = Last(p)
  BY <1>1, <1>3, <1>4, AppendProperties
<1>6. \A i \in 1..Len(q) : q[i] = p[i]
  BY <1>1, <1>3, <1>4, <1>5
<1>7. q = p
  <2> HIDE DEF q
  <2> QED
    BY <1>5, <1>6, SeqEqual
<1> QED
  BY <1>1, <1>2, <1>3, <1>4, <1>7
===============================================================================
