------------------------------- MODULE Loops --------------------------------
(***************************************************************************)
(* What a loop leaves.  Loop(p, x, n) starts from x and makes the rounds   *)
(* 1 .. n, of which the round i takes r to Round(p, r, i); p is whatever   *)
(* stays the same meanwhile.  The bodies of the loops of the kernel are    *)
(* put in for Round, and what is true before every round for Good, by an   *)
(* INSTANCE for each loop: the induction theorems of the library, which    *)
(* take a predicate as a parameter, are of no use to the provers.          *)
(***************************************************************************)
EXTENDS Naturals, WellFoundedInduction, TLAPS

CONSTANTS Round(_, _, _), Good(_, _, _)

Loop(p, x, n) ==
  LET f[i \in 0 .. n] == IF i = 0 THEN x ELSE Round(p, f[i - 1], i) IN f[n]

-----------------------------------------------------------------------------
\* < is a well-founded relation on the natural numbers.
LEMMA NaturalsWellFounded ==
  \E R : /\ IsWellFoundedOn(R, Nat)
         /\ \A k \in Nat, n \in Nat : k < n => <<k, n>> \in R
<1>1. IsWellFoundedOn(OpToRel(<, Nat), Nat)
  BY NatLessThanWellFounded
<1>2. \A k \in Nat, n \in Nat : k < n => <<k, n>> \in OpToRel(<, Nat)
  BY DEF OpToRel
<1> QED BY <1>1, <1>2, Zenon

\* A set of natural numbers that is not empty has a least element.
LEMMA LeastNatural ==
  ASSUME NEW T, T \subseteq Nat, T # {}
  PROVE  \E n \in T : \A k \in T : n <= k
<1>1. PICK R : /\ IsWellFoundedOn(R, Nat)
               /\ \A k \in Nat, n \in Nat : k < n => <<k, n>> \in R
  BY NaturalsWellFounded
<1>2. PICK S : S = Nat
  OBVIOUS
<1>3. IsWellFoundedOn(R, S) /\ T \subseteq S
  BY <1>1, <1>2, Zenon
<1>4. PICK n \in T : \A k \in T : ~(<<k, n>> \in R)
  <2> HIDE <1>1
  <2> QED BY <1>3, WFMin, Zenon
<1>5. ASSUME NEW k \in T PROVE n <= k
  <2>1. k \in Nat /\ n \in Nat
    OBVIOUS
  <2>2. ~(k < n)
    BY <1>1, <1>4, <2>1, Zenon
  <2> QED BY <2>1, <2>2
<1> QED BY <1>5

\* A set with 0 and with the successor of every number in it has every number.
LEMMA NaturalInduction ==
  ASSUME NEW S, 0 \in S, \A n \in Nat : n \in S => n + 1 \in S
  PROVE  Nat \subseteq S
<1> SUFFICES ASSUME ~(Nat \subseteq S) PROVE FALSE
  OBVIOUS
<1> DEFINE T == {n \in Nat : n \notin S}
<1>1. T \subseteq Nat /\ T # {}
  OBVIOUS
<1> HIDE DEF T
<1>2. PICK n \in T : \A k \in T : n <= k
  BY <1>1, LeastNatural
<1>3. n \in Nat /\ n \notin S
  BY <1>2 DEF T
<1>4. n # 0 /\ n - 1 \in Nat
  BY <1>3
<1>5. n - 1 \notin T
  BY <1>1, <1>2, <1>4
<1>6. n - 1 \in S
  BY <1>4, <1>5 DEF T
<1> QED BY <1>3, <1>4, <1>6
-----------------------------------------------------------------------------
\* The function that a loop defines by recursion.
IsTrace(f, p, x, n) ==
  f = [i \in 0 .. n |-> IF i = 0 THEN x ELSE Round(p, f[i - 1], i)]

\* There is such a function: it can be continued by one round.
LEMMA TraceExists ==
  ASSUME NEW p, NEW x, NEW n \in Nat
  PROVE  \E f : IsTrace(f, p, x, n)
<1> DEFINE F(f, m) == [i \in 0 .. m |-> IF i = 0 THEN x ELSE Round(p, f[i - 1], i)]
           S == {m \in Nat : \E f : f = F(f, m)}
<1>1. 0 \in S
  <2> DEFINE f == [i \in 0 .. 0 |-> x]
  <2>1. F(f, 0) = f
    OBVIOUS
  <2>2. \E g : g = F(g, 0)
    <3> HIDE DEF F, f
    <3> QED BY <2>1
  <2> HIDE DEF F
  <2> QED BY <2>2
<1>2. ASSUME NEW m \in Nat, m \in S PROVE m + 1 \in S
  <2>1. PICK f : f = F(f, m)
    BY <1>2
  <2> DEFINE g == [i \in 0 .. m + 1 |->
                     IF i <= m THEN f[i] ELSE Round(p, f[m], m + 1)]
  <2>2. ASSUME NEW i \in 0 .. m + 1
        PROVE  g[i] = IF i = 0 THEN x ELSE Round(p, g[i - 1], i)
    <3>1. CASE i <= m
      <4>1. i \in 0 .. m /\ g[i] = f[i]
        BY <3>1
      <4>2. f[i] = IF i = 0 THEN x ELSE Round(p, f[i - 1], i)
        <5>1. f[i] = F(f, m)[i]
          BY <2>1, Zenon
        <5> QED BY <4>1, <5>1
      <4>3. i # 0 => i - 1 \in 0 .. m + 1 /\ i - 1 <= m /\ g[i - 1] = f[i - 1]
        BY <3>1
      <4> QED BY <4>1, <4>2, <4>3
    <3>2. CASE i = m + 1
      <4>1. i # 0 /\ i - 1 = m /\ ~(i <= m) /\ m \in 0 .. m + 1
        BY <3>2
      <4>2. g[m] = f[m] /\ g[i] = Round(p, f[m], i)
        BY <3>2, <4>1
      <4> QED BY <4>1, <4>2
    <3> QED BY <3>1, <3>2
  <2>3. g = F(g, m + 1)
    <3>1. F(g, m + 1) = [i \in 0 .. m + 1 |-> g[i]]
      BY <2>2
    <3> QED BY <3>1
  <2>4. \E h : h = F(h, m + 1)
    <3> HIDE DEF F, g
    <3> QED BY <2>3
  <2> HIDE DEF F
  <2> QED BY <2>4
<1> HIDE DEF S
<1>3. Nat \subseteq S
  BY <1>1, <1>2, NaturalInduction
<1>4. n \in S
  BY <1>3
<1>5. PICK f : f = F(f, n)
  BY <1>4 DEF S
<1>6. IsTrace(f, p, x, n)
  BY <1>5 DEF IsTrace
<1> QED BY <1>6

\* What holds at the start, and after a round when it held before it, holds at
\* the end.
LEMMA LoopKeeps ==
  ASSUME NEW p, NEW x, NEW n \in Nat, Good(p, x, 0),
         \A i \in 1 .. n : \A r : Good(p, r, i - 1) => Good(p, Round(p, r, i), i)
  PROVE  Good(p, Loop(p, x, n), n)
<1> DEFINE F(f) == [i \in 0 .. n |-> IF i = 0 THEN x ELSE Round(p, f[i - 1], i)]
           f == CHOOSE f : f = F(f)
           S == {m \in Nat : m <= n => Good(p, f[m], m)}
<1>1. f = F(f)
  <2>1. \E g : g = F(g)
    <3>1. PICK g : IsTrace(g, p, x, n)
      BY TraceExists
    <3>2. g = F(g)
      BY <3>1 DEF IsTrace
    <3> HIDE DEF F
    <3> QED BY <3>2
  <2> HIDE DEF F
  <2> QED BY <2>1, Zenon
<1>2. Loop(p, x, n) = f[n]
  BY DEF Loop
<1> HIDE DEF f
<1>3. ASSUME NEW i \in 0 .. n
      PROVE  f[i] = IF i = 0 THEN x ELSE Round(p, f[i - 1], i)
  <2>1. f[i] = F(f)[i]
    BY <1>1, Zenon
  <2> QED BY <2>1
<1>4. 0 \in S
  BY <1>3
<1>5. ASSUME NEW m \in Nat, m \in S PROVE m + 1 \in S
  <2> SUFFICES ASSUME m + 1 <= n PROVE Good(p, f[m + 1], m + 1)
    OBVIOUS
  <2>1. m <= n /\ m + 1 \in 1 .. n /\ m + 1 \in 0 .. n /\ (m + 1) - 1 = m /\ m + 1 # 0
    OBVIOUS
  <2>2. Good(p, f[m], m)
    BY <1>5, <2>1
  <2>3. f[m + 1] = Round(p, f[m], m + 1)
    BY <1>3, <2>1
  <2> QED BY <2>1, <2>2, <2>3
<1> HIDE DEF S
<1>6. Nat \subseteq S
  BY <1>4, <1>5, NaturalInduction
<1> QED BY <1>2, <1>6 DEF S
=============================================================================
