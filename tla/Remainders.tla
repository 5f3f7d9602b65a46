------------------------------ MODULE Remainders -----------------------------
(* Quotients and remainders, for the proofs about tickets and turns. *)
EXTENDS Integers, TLAPS

\* A multiple of c is at least c.
LEMMA Multiple ==
  ASSUME NEW c \in Nat \ {0}, NEW d \in Nat \ {0}
  PROVE  c * d >= c
  OBVIOUS

\* Quotient and remainder.
LEMMA DivMod ==
  ASSUME NEW c \in Nat \ {0}, NEW x \in Nat
  PROVE  /\ x = c * (x \div c) + (x % c)
         /\ x % c \in 0..c-1 /\ x \div c \in Nat
  OBVIOUS

\* They are unique.
LEMMA UniqueDivMod ==
  ASSUME NEW c \in Nat \ {0}, NEW q \in Int, NEW p \in Int,
         NEW r \in 0..c-1, NEW s \in 0..c-1, c * q + r = c * p + s
  PROVE  q = p /\ r = s
<1>1. c * (q - p) = s - r
  OBVIOUS
<1>2. ~(q - p >= 1)
  <2> SUFFICES ASSUME q - p \in Nat \ {0} PROVE FALSE
    OBVIOUS
  <2>1. c * (q - p) >= c
    BY Multiple
  <2> QED BY <2>1, <1>1
<1>3. ~(p - q >= 1)
  <2> SUFFICES ASSUME p - q \in Nat \ {0} PROVE FALSE
    OBVIOUS
  <2>1. c * (p - q) >= c
    BY Multiple
  <2>2. c * (p - q) = r - s
    BY <1>1
  <2> QED BY <2>1, <2>2
<1>4. q = p
  BY <1>2, <1>3
<1> QED BY <1>4

\* A multiple of c more changes the quotient only.
LEMMA ShiftDivMod ==
  ASSUME NEW c \in Nat \ {0}, NEW b \in Nat, NEW m \in Nat
  PROVE  (b + c * m) % c = b % c /\ (b + c * m) \div c = (b \div c) + m
<1> DEFINE a == b + c * m
           q == a \div c
           r == a % c
           p == b \div c
           s == b % c
           w == p + m
<1>0. a \in Nat
  OBVIOUS
<1> HIDE DEF a
<1>1. q \in Int /\ r \in 0..c-1 /\ p \in Int /\ s \in 0..c-1
  BY <1>0, DivMod
<1>2. a = c * q + r /\ b = c * p + s
  BY <1>0, DivMod
<1> HIDE DEF q, r, p, s
<1>3. w \in Int /\ c * w = c * p + c * m
  BY <1>1
<1>4. c * q + r = c * w + s
  BY <1>1, <1>2, <1>3 DEF w, a
<1> HIDE DEF w
<1>5. q = w /\ r = s
  <2> w \in Int
    BY <1>3
  <2> QED BY <1>1, <1>4, UniqueDivMod
<1> QED BY <1>5 DEF a, q, r, p, s, w

\* Of numbers that are less than c ahead of x, the remainders tell the distance.
LEMMA Distance ==
  ASSUME NEW c \in Nat \ {0}, NEW x \in Nat, NEW n \in x..x+c-1
  PROVE  (n - (x % c)) % c = n - x
<1> DEFINE p == x \div c
           y == n - (x % c)
           q == y \div c
           r == y % c
           d == n - x
<1>1. x = c * p + (x % c) /\ x % c \in 0..c-1 /\ p \in Nat
  BY DivMod
<1>2. y \in Nat /\ d \in 0..c-1 /\ y = c * p + d
  BY <1>1
<1> HIDE DEF y
<1>3. y = c * q + r /\ r \in 0..c-1 /\ q \in Nat
  BY <1>2, DivMod
<1> HIDE DEF p, q, r, d
<1>4. r = d
  <2>1. q \in Int /\ p \in Int /\ c * q + r = c * p + d /\ r \in 0..c-1 /\ d \in 0..c-1
    BY <1>1, <1>2, <1>3
  <2> QED BY Zenon, <2>1, UniqueDivMod
<1> QED BY <1>4 DEF y, r, d

\* A remainder is its own remainder.
LEMMA Remainder ==
  ASSUME NEW c \in Nat \ {0}, NEW r \in 0..c-1
  PROVE  r % c = r
<1> DEFINE q == r \div c
           s == r % c
<1>1. r = c * q + s /\ s \in 0..c-1 /\ q \in Nat
  <2>1. r \in Nat
    OBVIOUS
  <2> QED BY Zenon, <2>1, DivMod
<1> HIDE DEF q, s
<1>2. q = 0
  <2> SUFFICES ASSUME q \in Nat \ {0} PROVE FALSE
    BY <1>1
  <2>1. c * q >= c
    BY Multiple
  <2> QED BY <2>1, <1>1
<1>3. s = r
  BY <1>1, <1>2
<1> QED BY <1>3 DEF s

\* The remainder of any integer.
LEMMA RemainderType ==
  ASSUME NEW c \in Nat \ {0}, NEW x \in Int
  PROVE  x % c \in 0..c-1
  OBVIOUS

\* Among c consecutive numbers there is one with the remainder of n.
LEMMA SomeOf ==
  ASSUME NEW c \in Nat \ {0}, NEW x \in Nat, NEW n \in Nat
  PROVE  \E v \in x+1..x+c : v % c = n % c
<1> DEFINE y == x + 1
           p == y \div c
           r == y % c
           s == n % c
           q == IF s >= r THEN p ELSE p + 1
           v == s + c * q
<1>1. /\ y \in Nat /\ y = c * p + r /\ r \in 0..c-1 /\ p \in Nat
      /\ s \in 0..c-1
  <2>1. y \in Nat
    OBVIOUS
  <2> HIDE DEF y
  <2> QED BY <2>1, DivMod
<1> HIDE DEF p, r, s
<1>2. q \in Nat /\ c * q = c * p + (IF s >= r THEN 0 ELSE c)
  BY <1>1
<1>3. v \in x+1..x+c
  BY <1>1, <1>2
<1> HIDE DEF q
<1>4. v % c = s % c
  <2>1. s \in Nat /\ q \in Nat
    BY <1>1, <1>2
  <2> QED BY Zenon, <2>1, ShiftDivMod
<1>5. s % c = s
  BY <1>1, Remainder
<1> QED BY <1>3, <1>4, <1>5 DEF s
=============================================================================
