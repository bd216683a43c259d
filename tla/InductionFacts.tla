--------------------------- MODULE InductionFacts ---------------------------
(***************************************************************************)
(* Induction over the naturals, in the form of a set that is closed under  *)
(* the successor, and what follows from it: a function defined by          *)
(* recursion exists, and a bounded set of numbers can be put in order.     *)
(***************************************************************************)
EXTENDS WellFoundedInduction, TLAPS

Less == {p \in Nat \X Nat : p[1] < p[2]}

LEMMA LessWellFounded == IsWellFoundedOn(Less, Nat)
BY NatLessThanWellFounded, Zenon DEF OpToRel, Less

\* A set of numbers has a least one.
LEMMA LeastNumber ==
    ASSUME NEW T \in SUBSET Nat, T # {}
    PROVE  \E m \in T : \A k \in T : m <= k
<1>1. PICK m \in T : \A k \in T : <<k, m>> \notin Less
  BY LessWellFounded, WFMin
<1>2. ASSUME NEW k \in T
      PROVE  m <= k
  <2>1. m \in Nat /\ k \in Nat /\ <<k, m>> \notin Less
    BY <1>1
  <2>2. ~(k < m)
    BY <2>1 DEF Less
  <2>3. QED
    BY <2>1, <2>2
<1>3. QED
  BY <1>2

\* A set that holds 0 and with each number the next holds them all.
LEMMA Induction ==
    ASSUME NEW T, 0 \in T, \A n \in Nat : n \in T => n + 1 \in T
    PROVE  \A n \in Nat : n \in T
<1> SUFFICES ASSUME NEW x \in Nat, x \notin T PROVE FALSE
  OBVIOUS
<1> DEFINE out == {n \in Nat : n \notin T}
<1>1. out \in SUBSET Nat /\ x \in out
  OBVIOUS
<1>2. PICK m \in out : \A k \in out : m <= k
  <2> HIDE DEF out
  <2>1. QED
    BY <1>1, LeastNumber
<1>3. m \in Nat \ {0} /\ m \notin T
  OBVIOUS
<1>4. m - 1 \in Nat /\ m - 1 + 1 = m /\ ~(m <= m - 1)
  BY <1>3
<1>5. m - 1 \in T
  BY <1>2, <1>4
<1>6. QED
  BY <1>3, <1>4, <1>5

\* f starts with base, and each later value is a step from the one before it.
Stepwise(f, n, S, base, step) ==
    /\ f \in [0..n -> S]
    /\ f[0] = base
    /\ \A i \in 1..n : f[i] = step[i][f[i - 1]]

\* A function on 0..n is defined by its first value and its steps.
LEMMA Recursion ==
    ASSUME NEW n \in Nat, NEW S, NEW base \in S, NEW step \in [1..n -> [S -> S]]
    PROVE  \E f : Stepwise(f, n, S, base, step)
<1> DEFINE Good(f, k) == /\ f[0] = base
                         /\ \A i \in 1..k : f[i] = step[i][f[i - 1]]
           T == {k \in Nat : k <= n => \E f \in [0..k -> S] : Good(f, k)}
<1>1. 0 \in T
  <2>1. [i \in 0..0 |-> base] \in [0..0 -> S] /\ Good([i \in 0..0 |-> base], 0)
    OBVIOUS
  <2>2. QED
    BY <2>1
<1>2. ASSUME NEW k \in Nat, k \in T
      PROVE  k + 1 \in T
  <2> SUFFICES ASSUME k + 1 <= n
               PROVE  \E f \in [0..k + 1 -> S] : Good(f, k + 1)
    OBVIOUS
  <2>1. PICK f \in [0..k -> S] : Good(f, k)
    BY <1>2
  <2> DEFINE g == [i \in 0..k + 1 |-> IF i = k + 1 THEN step[k + 1][f[k]] ELSE f[i]]
  <2>2. f[k] \in S /\ k + 1 \in 1..n
    OBVIOUS
  <2>3. step[k + 1][f[k]] \in S
    BY <2>2
  <2>4. g \in [0..k + 1 -> S]
    BY <2>3
  <2>5. \A i \in 0..k : g[i] = f[i]
    OBVIOUS
  <2>6. g[k + 1] = step[k + 1][g[k]]
    <3>1. g[k] = f[k] /\ k + 1 \in 0..k + 1
      BY <2>5
    <3>2. g[k + 1] = step[k + 1][f[k]]
      BY <3>1
    <3> HIDE DEF g
    <3>3. QED
      BY <3>1, <3>2
  <2>7. Good(g, k + 1)
    <3>1. g[0] = base
      BY <2>1, <2>5
    <3>2. ASSUME NEW i \in 1..k + 1
          PROVE  g[i] = step[i][g[i - 1]]
      <4>1. CASE i = k + 1
        BY <2>6, <4>1
      <4>2. CASE i # k + 1
        <5>1. i \in 1..k /\ i \in 0..k /\ i - 1 \in 0..k
          BY <4>2
        <5>2. f[i] = step[i][f[i - 1]]
          BY <2>1, <5>1
        <5>3. QED
          BY <2>5, <5>1, <5>2
      <4>3. QED
        BY <4>1, <4>2
    <3> HIDE DEF g
    <3>3. QED
      BY <3>1, <3>2
  <2>8. QED
    BY <2>4, <2>7
<1>3. n \in T
  <2> HIDE DEF T
  <2>1. QED
    BY <1>1, <1>2, Induction
<1>4. QED
  BY <1>3 DEF Stepwise

\* f holds the m elements of S in ascending order.
Lists(S, m, f) ==
    /\ f \in [1..m -> S]
    /\ \A u \in S : \E i \in 1..m : f[i] = u
    /\ \A i, j \in 1..m : i < j => f[i] < f[j]

\* The elements of a set of numbers up to n have an ascending list.
LEMMA InOrder ==
    ASSUME NEW n \in Nat, NEW U \in SUBSET (1..n)
    PROVE  \E m \in 0..n : \E f : Lists(U, m, f)
<1> USE DEF Lists
<1> DEFINE T == {k \in Nat : \A S \in SUBSET (1..k) : \E m \in 0..k : \E f : Lists(S, m, f)}
<1>1. 0 \in T
  <2>1. ASSUME NEW S \in SUBSET (1..0)
        PROVE  Lists(S, 0, [i \in 1..0 |-> 0])
    OBVIOUS
  <2> HIDE DEF Lists
  <2>2. QED
    BY <2>1
<1>2. ASSUME NEW k \in Nat, k \in T
      PROVE  k + 1 \in T
  <2> SUFFICES ASSUME NEW S \in SUBSET (1..k + 1)
               PROVE  \E m \in 0..k + 1 : \E f : Lists(S, m, f)
    OBVIOUS
  <2> DEFINE R == S \ {k + 1}
  <2>1. R \in SUBSET (1..k)
    OBVIOUS
  <2>2. PICK m \in 0..k : \E f : Lists(R, m, f)
    <3> HIDE DEF Lists, R
    <3>1. QED
      BY <1>2, <2>1
  <2>3. PICK f : Lists(R, m, f)
    BY <2>2
  <2>4. CASE k + 1 \notin S
    <3>1. R = S
      BY <2>4
    <3> HIDE DEF Lists, R
    <3>2. QED
      BY <2>3, <3>1
  <2>5. CASE k + 1 \in S
    <3> DEFINE g == [i \in 1..m + 1 |-> IF i = m + 1 THEN k + 1 ELSE f[i]]
    <3>1. g[m + 1] = k + 1
      OBVIOUS
    <3>2. \A i \in 1..m + 1 : i # m + 1 => i \in 1..m /\ g[i] = f[i] /\ f[i] \in R
      BY <2>3
    <3>3. g \in [1..m + 1 -> S]
      BY <2>5, <3>2
    <3>4. \A u \in S : \E i \in 1..m + 1 : g[i] = u
      <4>1. ASSUME NEW u \in S, u # k + 1
            PROVE  \E i \in 1..m + 1 : g[i] = u
        <5>1. PICK i \in 1..m : f[i] = u
          BY <2>3, <4>1
        <5>2. i \in 1..m + 1 /\ g[i] = u
          BY <5>1
        <5>3. QED
          BY <5>2
      <4>2. m + 1 \in 1..m + 1
        OBVIOUS
      <4> HIDE DEF g
      <4>3. QED
        BY <3>1, <4>1, <4>2
    <3>5. ASSUME NEW i \in 1..m + 1, NEW j \in 1..m + 1, i < j
          PROVE  g[i] < g[j]
      <4>0. i # m + 1
        BY <3>5
      <4>1. i \in 1..m /\ g[i] = f[i] /\ f[i] \in 1..k
        <5>1. i \in 1..m /\ g[i] = f[i] /\ f[i] \in R
          BY <3>2, <4>0
        <5> HIDE DEF g, R
        <5>2. QED
          BY <2>1, <5>1
      <4>2. CASE j = m + 1
        BY <3>1, <4>1, <4>2
      <4>3. CASE j # m + 1
        <5>1. j \in 1..m /\ g[j] = f[j]
          BY <3>2, <4>3
        <5>2. f[i] < f[j]
          BY <2>3, <3>5, <4>1, <5>1
        <5>3. QED
          BY <4>1, <5>1, <5>2
      <4>4. QED
        BY <4>2, <4>3
    <3> HIDE DEF g
    <3>6. Lists(S, m + 1, g)
      BY <3>3, <3>4, <3>5
    <3>7. m + 1 \in 0..k + 1
      OBVIOUS
    <3> HIDE DEF Lists
    <3>8. QED
      BY <3>6, <3>7
  <2>6. QED
    BY <2>4, <2>5
<1>3. n \in T
  <2> HIDE DEF T
  <2>1. QED
    BY <1>1, <1>2, Induction
<1> HIDE DEF Lists
<1>4. QED
  BY <1>3
=============================================================================
