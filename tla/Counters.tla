------------------------------ MODULE Counters ------------------------------
(***************************************************************************)
(* Facts about counters that run round a buffer of size s (pipe.c: nread,  *)
(* nwrite; console.c: input.r, w, e) and wrap around at u, a multiple of s *)
(* (2^32 in the code).                                                     *)
(***************************************************************************)
EXTENDS Integers, TLAPS

(* Division with remainder. *)
LEMMA DivMod ==
  \A m, a \in Int : m > 0 => /\ a \div m \in Int /\ a % m \in Int
                             /\ a = (a \div m) * m + (a % m)
                             /\ 0 <= a % m /\ a % m < m
BY SMT

(* The remainder is the only one in its range. *)
LEMMA ModUnique ==
  ASSUME NEW m \in Int, m > 0, NEW d \in Int, NEW r \in Int, 0 <= r, r < m
  PROVE  (d * m + r) % m = r
OBVIOUS

(* Multiples of the divisor do not matter. *)
LEMMA ModAdd ==
  ASSUME NEW m \in Int, m > 0, NEW a \in Int, NEW d \in Int
  PROVE  (a + d * m) % m = a % m
<1>1. PICK e \in Int, r \in Int : a = e * m + r /\ r = a % m /\ 0 <= r /\ r < m
  BY DivMod, Zenon
<1>2. a + d * m = (e + d) * m + r
  BY <1>1
<1> QED  BY <1>1, <1>2, ModUnique

(* A counter names a place in the buffer. *)
LEMMA Place ==
  ASSUME NEW s \in Nat \ {0}, NEW a \in Nat PROVE a % s \in 0 .. s - 1
BY DivMod

(* Counters less than the size of the buffer apart name distinct places. *)
LEMMA DistinctPlaces ==
  ASSUME NEW s \in Nat \ {0}, NEW a \in Nat, NEW b \in Nat, a < b, b < a + s
  PROVE  a % s # b % s
<1> SUFFICES ASSUME a % s = b % s PROVE FALSE
  OBVIOUS
<1>0. s \in Int /\ s > 0 /\ a \in Int /\ b \in Int
  OBVIOUS
<1>1. PICK d \in Int, r \in Int : a = d * s + r /\ r = a % s /\ 0 <= r /\ r < s
  BY <1>0, DivMod, Zenon
<1>2. PICK e \in Int : b = e * s + r
  <2>1. b \div s \in Int /\ b = (b \div s) * s + (b % s)
    BY DivMod
  <2> QED  BY <1>1, <2>1, Zenon
<1> DEFINE f == e - d
<1>3. f \in Int /\ b - a = f * s
  BY <1>1, <1>2
<1> HIDE DEF f
<1>4. 0 < f * s /\ f * s < s
  BY <1>3
<1>5. f = 0
  BY <1>3, <1>4
<1> QED  BY <1>4, <1>5

(* A counter that wraps goes on at the same place in the buffer. *)
LEMMA SamePlace ==
  ASSUME NEW s \in Nat \ {0}, NEW u \in Nat, u % s = 0, NEW a \in Nat
  PROVE  (a + u) % s = a % s
<1>1. PICK d \in Int : u = d * s
  <2>1. u = (u \div s) * s + (u % s) /\ u \div s \in Int
    BY DivMod
  <2>2. u = (u \div s) * s
    BY <2>1
  <2> QED  BY <2>1, <2>2
<1>2. s \in Int /\ s > 0 /\ a \in Int
  OBVIOUS
<1>3. (a + d * s) % s = a % s
  BY <1>2, ModAdd, Zenon
<1> QED  BY <1>1, <1>3

(* Counting up from a, by no more than once around. *)
LEMMA WrapIs ==
  ASSUME NEW u \in Nat, NEW a \in 0 .. u - 1, NEW k \in 0 .. u
  PROVE  (a + k) % u = IF a + k < u THEN a + k ELSE a + k - u
<1>1. CASE a + k < u
  <2>1. (0 * u + (a + k)) % u = a + k
    BY <1>1, ModUnique
  <2> QED  BY <1>1, <2>1
<1>2. CASE a + k >= u
  <2>1. a + k = 1 * u + (a + k - u)
    OBVIOUS
  <2>2. (1 * u + (a + k - u)) % u = a + k - u
    BY <1>2, ModUnique
  <2> QED  BY <1>2, <2>1, <2>2
<1> QED  BY <1>1, <1>2

(* How far a is ahead of b. *)
LEMMA DistanceIs ==
  ASSUME NEW u \in Nat, NEW a \in 0 .. u - 1, NEW b \in 0 .. u - 1
  PROVE  (a + u - b) % u = IF b <= a THEN a - b ELSE a + u - b
<1>1. a + u - b = a + (u - b) /\ u - b \in 0 .. u
  OBVIOUS
<1>2. (a + (u - b)) % u = IF a + (u - b) < u THEN a + (u - b) ELSE a + (u - b) - u
  BY <1>1, WrapIs
<1> QED  BY <1>1, <1>2
=============================================================================
