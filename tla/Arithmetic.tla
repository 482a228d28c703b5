----------------------------- MODULE Arithmetic -----------------------------
(***************************************************************************)
(* What the proofs need to know of counters and indices that wrap, and of  *)
(* induction over the natural numbers, in a form that speaks of a set and  *)
(* not of a predicate.                                                     *)
(***************************************************************************)
EXTENDS Integers, WellFoundedInduction, TLAPS

\* Division with remainder.
LEMMA Division ==
    ASSUME NEW a \in Nat, NEW n \in Nat, n > 0
    PROVE  /\ a % n \in 0 .. n - 1
           /\ a \div n \in Nat
           /\ a = n * (a \div n) + (a % n)
OBVIOUS

\* Two multiples of n do not lie strictly less than n apart.
LEMMA MultiplesApart ==
    ASSUME NEW x \in Int, NEW y \in Int, NEW n \in Nat, n > 0,
           n * x - n * y \in 1 .. n - 1
    PROVE  FALSE
<1>1. n * (x - y) = n * x - n * y
  OBVIOUS
<1>2. CASE x - y <= 0
  <2>1. n * (x - y) <= 0
    BY <1>2
  <2> QED BY <2>1, <1>1
<1>3. CASE x - y >= 1
  <2>1. n * (x - y) >= n
    BY <1>3
  <2> QED BY <2>1, <1>1
<1> QED BY <1>2, <1>3

\* The remainder is determined by any division that leaves one.
LEMMA RemainderUnique ==
    ASSUME NEW a \in Nat, NEW n \in Nat, n > 0,
           NEW q \in Nat, NEW r \in 0 .. n - 1, a = n * q + r
    PROVE  a % n = r
<1> DEFINE p == a \div n
           s == a % n
<1>1. s \in 0 .. n - 1 /\ p \in Nat /\ a = n * p + s
  BY Division
<1> SUFFICES ASSUME s # r PROVE FALSE
  OBVIOUS
<1> HIDE DEF p, s
<1>2. n * p \in Int /\ n * q \in Int
  BY <1>1
<1>3. CASE s < r
  <2>1. n * p - n * q \in 1 .. n - 1
    BY <1>1, <1>2, <1>3
  <2> QED BY <2>1, <1>1, MultiplesApart
<1>4. CASE s > r
  <2>1. n * q - n * p \in 1 .. n - 1
    BY <1>1, <1>2, <1>4
  <2> QED BY <2>1, <1>1, MultiplesApart
<1> QED BY <1>1, <1>3, <1>4

\* A counter may wrap before or after something is added to it.
LEMMA ModAbsorbs ==
    ASSUME NEW a \in Nat, NEW b \in Nat, NEW n \in Nat, n > 0
    PROVE  ((a % n) + b) % n = (a + b) % n
<1> DEFINE k == a \div n
           r == a % n
           q == (r + b) \div n
           s == (r + b) % n
<1>1. r \in 0 .. n - 1 /\ k \in Nat /\ a = n * k + r
  BY Division
<1>2. s \in 0 .. n - 1 /\ q \in Nat /\ r + b = n * q + s
  BY <1>1, Division
<1> HIDE DEF k, r, q, s
<1>3. n * (k + q) = n * k + n * q /\ n * k \in Nat /\ n * q \in Nat
  BY <1>1, <1>2
<1>4. a + b = n * (k + q) + s
  BY <1>1, <1>2, <1>3
<1> DEFINE t == k + q
<1>5. t \in Nat /\ a + b \in Nat /\ a + b = n * t + s
  BY <1>1, <1>2, <1>4
<1> HIDE DEF t
<1>6. (a + b) % n = s
  BY <1>2, <1>5, RemainderUnique
<1> QED BY <1>6 DEF s, r

-----------------------------------------------------------------------------
\* A set of natural numbers has a least element.
LEMMA LeastNatural ==
    ASSUME NEW T, T \subseteq Nat, T # {}
    PROVE  \E m \in T : \A n \in T : m <= n
<1> DEFINE R == {ss \in Nat \X Nat : ss[1] < ss[2]}
<1>1. IsWellFoundedOn(R, Nat)
  BY NatLessThanWellFounded, Zenon DEF OpToRel
<1> HIDE DEF R
<1>2. PICK m \in T : \A n \in T : ~(<<n, m>> \in R)
  BY <1>1, WFMin
<1>3. ASSUME NEW n \in T PROVE m <= n
  <2>1. m \in Nat /\ n \in Nat
    OBVIOUS
  <2>2. <<n, m>> \in R <=> n < m
    BY <2>1 DEF R
  <2>3. ~(n < m)
    BY <1>2, <2>2
  <2> QED BY <2>1, <2>3
<1> QED BY <1>3

\* A set that contains 0, and the successor of each of its numbers, contains all.
LEMMA SetInduction ==
    ASSUME NEW S, 0 \in S, \A n \in Nat : n \in S => n + 1 \in S
    PROVE  Nat \subseteq S
<1> DEFINE T == Nat \ S
<1> SUFFICES ASSUME T # {} PROVE FALSE
  OBVIOUS
<1>1. PICK m \in T : \A n \in T : m <= n
  BY LeastNatural
<1>2. m # 0 /\ m - 1 \in Nat /\ m - 1 \notin T
  BY <1>1
<1> QED BY <1>1, <1>2

=============================================================================
