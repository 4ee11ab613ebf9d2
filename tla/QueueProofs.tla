---------------------------- MODULE QueueProofs ----------------------------
(***************************************************************************)
(* Proofs about Queue, for every power of two as the smallest length and   *)
(* for queues of any size. The first part is about numbers: recursive      *)
(* functions exist, and masking is a modulus.                              *)
(***************************************************************************)
EXTENDS Queue, FiniteSetTheorems, SequenceTheorems, WellFoundedInduction, TLAPS

LEMMA Least ==
  ASSUME NEW T \in SUBSET Nat, T # {}
  PROVE  \E m \in T : \A n \in T : m <= n
<1>1. PICK x \in T : \A y \in T : ~ (<<y, x>> \in OpToRel(<,Nat))
  BY NatLessThanWellFounded, WFMin
<1>2. \A y \in T : ~ (y < x)
  BY <1>1 DEF OpToRel
<1> QED
  BY <1>2

LEMMA Induct ==
  ASSUME NEW T \in SUBSET Nat, 0 \in T, \A n \in T : n + 1 \in T
  PROVE  T = Nat
<1> SUFFICES ASSUME Nat \ T # {} PROVE FALSE
  OBVIOUS
<1>1. PICK m \in Nat \ T : \A n \in Nat \ T : m <= n
  BY Least
<1>2. m # 0 /\ m - 1 \in Nat
  BY <1>1
<1>3. m - 1 \in T
  BY <1>1, <1>2
<1>4. (m - 1) + 1 \in T
  BY <1>3
<1> QED
  BY <1>1, <1>4

Decreasing(r) == r \in [Nat -> Nat] /\ \A n \in Nat \ {0} : r[n] < n

(* The functions that compute a value from an argument and another value. *)
Computation(S) == [Nat \X S -> S]

(* h computes its value for every i <= n, but 0, from that for r[i] < i. *)
Computes(h, n, c, g, r) ==
  h[0] = c /\ \A i \in 1..n : h[i] = g[<<i, h[r[i]]>>]

(* The values up to n are determined. *)
LEMMA Determined ==
  ASSUME NEW c, NEW g, NEW r, Decreasing(r),
         NEW n \in Nat, NEW m \in Nat, n <= m, NEW h, NEW k,
         Computes(h, n, c, g, r), Computes(k, m, c, g, r)
  PROVE  \A j \in 0..n : h[j] = k[j]
<1> USE DEF Decreasing
<1> DEFINE Differ == {i \in Nat : i <= n /\ h[i] # k[i]}
<1>1. Differ = {}
  <2> SUFFICES ASSUME Differ # {} PROVE FALSE
    OBVIOUS
  <2>1. Differ \in SUBSET Nat
    OBVIOUS
  <2>2. PICK i \in Differ : \A d \in Differ : i <= d
    <3> HIDE DEF Differ
    <3> QED
      BY <2>1, Least
  <2>3. i \in Nat /\ i <= n /\ i <= m /\ h[i] # k[i]
    BY <2>2
  <2>4. i # 0
    BY <2>3 DEF Computes
  <2>5. r[i] \in Nat /\ r[i] < i
    BY <2>3, <2>4
  <2>6. r[i] \notin Differ
    <3> HIDE DEF Differ
    <3> QED
      BY <2>2, <2>5, <2>3
  <2>7. h[r[i]] = k[r[i]]
    BY <2>6, <2>5, <2>3
  <2>8. i \in 1..n /\ i \in 1..m
    BY <2>3, <2>4
  <2>9. h[i] = g[<<i, h[r[i]]>>] /\ k[i] = g[<<i, k[r[i]]>>]
    BY <2>8 DEF Computes
  <2> QED
    BY <2>3, <2>7, <2>9
<1> QED
  BY <1>1

LEMMA Recursion ==
  ASSUME NEW S, NEW c \in S, NEW g \in Computation(S),
         NEW r, Decreasing(r)
  PROVE  \E f \in [Nat -> S] :
           f[0] = c /\ \A n \in Nat \ {0} : f[n] = g[<<n, f[r[n]]>>]
<1> USE DEF Decreasing, Computation
<1> DEFINE T == {n \in Nat : \E h \in [0..n -> S] : Computes(h, n, c, g, r)}
<1>1. 0 \in T
  <2> DEFINE h0 == [i \in 0..0 |-> c]
  <2>1. h0 \in [0..0 -> S] /\ h0[0] = c /\ 1..0 = {}
    OBVIOUS
  <2>2. Computes(h0, 0, c, g, r)
    BY <2>1 DEF Computes
  <2> QED
    BY <2>1, <2>2
<1>2. ASSUME NEW n \in T PROVE n + 1 \in T
  <2>1. PICK h \in [0..n -> S] : Computes(h, n, c, g, r)
    OBVIOUS
  <2>2. n \in Nat /\ n + 1 \in Nat \ {0} /\ r[n + 1] \in 0..n
    OBVIOUS
  <2> DEFINE v == g[<<n + 1, h[r[n + 1]]>>]
             k == [i \in 0..(n + 1) |-> IF i = n + 1 THEN v ELSE h[i]]
  <2>3. h[r[n + 1]] \in S
    BY <2>1, <2>2
  <2>4. v \in S
    BY <2>2, <2>3
  <2>5. k \in [0..(n + 1) -> S]
    <3> HIDE DEF v
    <3> QED
      BY <2>1, <2>2, <2>4
  <2>6. k[0] = c
    BY <2>1, <2>2 DEF Computes
  <2>7. ASSUME NEW i \in 1..(n + 1) PROVE k[i] = g[<<i, k[r[i]]>>]
    <3>1. i \in Nat \ {0} /\ r[i] \in Nat /\ r[i] < i
      BY <2>2
    <3> DEFINE p == r[i]
    <3>2. k[p] = h[p]
      <4>1. p \in 0..(n + 1) /\ p # n + 1
        <5>1. n \in Nat /\ p \in Nat /\ p < i /\ i <= n + 1 /\ i \in Nat
          BY <2>2, <3>1
        <5> HIDE DEF p
        <5> QED
          BY <5>1
      <4> HIDE DEF p, v
      <4> QED
        BY <4>1
    <3>3. CASE i = n + 1
      <4>1. k[i] = v
        BY <2>2, <3>3
      <4> QED
        BY <3>2, <3>3, <4>1
    <3>4. CASE i # n + 1
      <4>1. i \in 1..n /\ k[i] = h[i]
        BY <2>2, <3>4
      <4>2. h[i] = g[<<i, h[r[i]]>>]
        BY <2>1, <4>1 DEF Computes
      <4> QED
        BY <3>2, <4>1, <4>2
    <3> QED
      BY <3>3, <3>4
  <2> HIDE DEF k
  <2>8. Computes(k, n + 1, c, g, r)
    BY <2>6, <2>7 DEF Computes
  <2> QED
    BY <2>2, <2>5, <2>8
<1>3. T \in SUBSET Nat
  OBVIOUS
<1>4. T = Nat
  <2> HIDE DEF T
  <2> QED
    BY <1>1, <1>2, <1>3, Induct
<1> DEFINE H(n) == CHOOSE h \in [0..n -> S] : Computes(h, n, c, g, r)
           f == [n \in Nat |-> H(n)[n]]
<1>5. ASSUME NEW n \in Nat PROVE H(n) \in [0..n -> S] /\ Computes(H(n), n, c, g, r)
  <2>1. \E h \in [0..n -> S] : Computes(h, n, c, g, r)
    BY <1>4
  <2> QED
    BY <2>1
<1> HIDE DEF H
<1>6. ASSUME NEW n \in Nat, NEW i \in 0..n PROVE H(n)[i] = f[i]
  <2>1. i \in Nat /\ i <= n /\ i \in 0..i /\ f[i] = H(i)[i]
    OBVIOUS
  <2>2. Computes(H(n), n, c, g, r) /\ Computes(H(i), i, c, g, r)
    BY <1>5, <2>1
  <2>3. H(i)[i] = H(n)[i]
    BY <2>1, <2>2, Determined
  <2> QED
    BY <2>1, <2>3
<1>7. f \in [Nat -> S] /\ f[0] = c
  <2>1. \A n \in Nat : H(n)[n] \in S
    BY <1>5
  <2>2. H(0)[0] = c
    BY <1>5 DEF Computes
  <2> QED
    BY <2>1, <2>2
<1>8. ASSUME NEW n \in Nat \ {0} PROVE f[n] = g[<<n, f[r[n]]>>]
  <2>1. Computes(H(n), n, c, g, r) /\ n \in 1..n /\ r[n] \in 0..n /\ n \in 0..n
    BY <1>5
  <2>2. H(n)[n] = g[<<n, H(n)[r[n]]>>]
    BY <2>1 DEF Computes
  <2>3. H(n)[n] = f[n] /\ H(n)[r[n]] = f[r[n]]
    <3> HIDE DEF f
    <3> QED
      BY <2>1, <1>6
  <2> QED
    BY <2>2, <2>3
<1> QED
  <2> HIDE DEF f
  <2> QED
    BY <1>7, <1>8

LEMMA Pow2Def ==
  /\ Pow2 \in [Nat -> Nat]
  /\ Pow2[0] = 1
  /\ \A n \in Nat : Pow2[n + 1] = 2 * Pow2[n]
<1> DEFINE S == Nat
           c == 1
           g == [p \in Nat \X Nat |-> 2 * p[2]]
           r == [n \in Nat |-> IF n = 0 THEN 0 ELSE n - 1]
           Def(f) == [n \in Nat |-> IF n = 0 THEN 1 ELSE 2 * f[n - 1]]
<1>1. g \in Computation(S) /\ Decreasing(r) /\ c \in S
  BY DEF Computation, Decreasing
<1>2. PICK f \in [Nat -> S] :
        f[0] = c /\ \A n \in Nat \ {0} : f[n] = g[<<n, f[r[n]]>>]
  <2> HIDE DEF S, g, r, c
  <2> QED
    BY <1>1, Recursion
<1>3. f = Def(f)
  <2>1. ASSUME NEW n \in Nat \ {0} PROVE f[n] = 2 * f[n - 1]
    <3>1. r[n] = n - 1 /\ n - 1 \in Nat /\ f[n - 1] \in Nat
      OBVIOUS
    <3>2. f[n] = g[<<n, f[n - 1]>>]
      <4> HIDE DEF g, r
      <4> QED
        BY <1>2, <3>1
    <3>3. \A v \in Nat : g[<<n, v>>] = 2 * v
      OBVIOUS
    <3> HIDE DEF g
    <3> QED
      BY <3>1, <3>2, <3>3
  <2>2. \A n \in Nat : f[n] = Def(f)[n]
    <3> HIDE DEF g, r
    <3> QED
      BY <1>2, <2>1
  <2>3. Def(f) = [n \in Nat |-> Def(f)[n]] /\ f = [n \in Nat |-> f[n]]
    OBVIOUS
  <2> HIDE DEF Def
  <2> QED
    BY <2>2, <2>3, Zenon
<1>4. Pow2 = Def(Pow2)
  BY <1>3, Zenon DEF Pow2
<1>5. ASSUME NEW n \in Nat PROVE Pow2[n + 1] = 2 * Pow2[n]
  BY <1>4
<1>6. Pow2[0] = 1
  BY <1>4
<1> DEFINE T == {n \in Nat : Pow2[n] \in Nat}
<1>7. T = Nat
  <2>1. T \in SUBSET Nat /\ 0 \in T /\ \A n \in T : n + 1 \in T
    BY <1>5, <1>6
  <2> HIDE DEF T
  <2> QED
    BY <2>1, Induct
<1>8. Pow2 \in [Nat -> Nat]
  BY <1>4, <1>7
<1> QED
  BY <1>5, <1>6, <1>8

Bit(x, y) == IF x % 2 = 1 /\ y % 2 = 1 THEN 1 ELSE 0

LEMMA Half ==
  ASSUME NEW x \in Nat
  PROVE  /\ x \div 2 \in Nat
         /\ x # 0 => x \div 2 < x
         /\ x = 2 * (x \div 2) + (x % 2)
         /\ x % 2 \in {0, 1}
<1>1. x \div 2 \in Nat /\ x % 2 \in 0..1 /\ x = 2 * (x \div 2) + (x % 2)
  OBVIOUS
<1>2. x # 0 => x \div 2 < x
  BY <1>1
<1> QED
  BY <1>1, <1>2

LEMMA AndDef ==
  /\ And \in [Nat -> [Nat -> Nat]]
  /\ \A y \in Nat : And[0][y] = 0
  /\ \A x \in Nat \ {0}, y \in Nat :
       And[x][y] = Bit(x, y) + 2 * And[x \div 2][y \div 2]
<1> DEFINE S == [Nat -> Nat]
           c == [y \in Nat |-> 0]
           G(x, h) == [y \in Nat |-> Bit(x, y) + 2 * h[y \div 2]]
           g == [p \in Nat \X S |-> G(p[1], p[2])]
           r == [n \in Nat |-> n \div 2]
           Def(f) == [x \in Nat |-> [y \in Nat |->
             IF x = 0 THEN 0
             ELSE (IF x % 2 = 1 /\ y % 2 = 1 THEN 1 ELSE 0) + 2 * f[x \div 2][y \div 2]]]
<1>1. c \in S /\ g \in Computation(S) /\ Decreasing(r)
  <2>1. \A x, y : Bit(x, y) \in Nat
    BY DEF Bit
  <2>2. ASSUME NEW x \in Nat, NEW h \in S PROVE G(x, h) \in S
    BY <2>1, Half
  <2>3. g \in Computation(S)
    <3> HIDE DEF G, S
    <3> QED
      BY <2>2 DEF Computation
  <2> QED
    BY <2>3, Half DEF Decreasing
<1>2. PICK f \in [Nat -> S] :
        f[0] = c /\ \A n \in Nat \ {0} : f[n] = g[<<n, f[r[n]]>>]
  <2> HIDE DEF S, c, g, r
  <2> QED
    BY <1>1, Recursion
<1>3. f = Def(f)
  <2>1. ASSUME NEW x \in Nat \ {0} PROVE f[x] = G(x, f[x \div 2])
    <3>1. r[x] = x \div 2 /\ x \div 2 \in Nat /\ f[x \div 2] \in S
      BY Half
    <3>2. f[x] = g[<<x, f[x \div 2]>>]
      <4> HIDE DEF g, r
      <4> QED
        BY <1>2, <3>1
    <3>3. \A h \in S : g[<<x, h>>] = G(x, h)
      <4> HIDE DEF G, S
      <4> QED
        OBVIOUS
    <3> HIDE DEF g, G, S
    <3> QED
      BY <3>1, <3>2, <3>3
  <2>2. \A x \in Nat \ {0} : f[x] = Def(f)[x]
    <3> HIDE DEF g, r
    <3> QED
      BY <2>1 DEF Bit
  <2>3. f[0] = Def(f)[0]
    <3> HIDE DEF g, r
    <3> QED
      BY <1>2
  <2>4. Def(f) = [x \in Nat |-> Def(f)[x]] /\ f = [x \in Nat |-> f[x]]
    <3> HIDE DEF g, r
    <3> QED
      BY <1>2
  <2>5. \A x \in Nat : f[x] = Def(f)[x]
    <3> HIDE DEF Def, g, r
    <3> QED
      BY <2>2, <2>3
  <2> HIDE DEF Def
  <2> QED
    BY <2>4, <2>5, Zenon
<1>4. And = Def(And)
  BY <1>3, Zenon DEF And
<1>5. ASSUME NEW x \in Nat, NEW y \in Nat
      PROVE  And[x][y] = IF x = 0 THEN 0 ELSE Bit(x, y) + 2 * And[x \div 2][y \div 2]
  <2>1. Def(And)[x][y] = IF x = 0 THEN 0 ELSE Bit(x, y) + 2 * And[x \div 2][y \div 2]
    BY DEF Bit
  <2> HIDE DEF Def
  <2> QED
    BY <1>4, <2>1, Zenon
<1>6. And = [x \in Nat |-> And[x]] /\ \A x \in Nat : And[x] = [y \in Nat |-> And[x][y]]
  <2>1. Def(And) = [x \in Nat |-> Def(And)[x]]
        /\ \A x \in Nat : Def(And)[x] = [y \in Nat |-> Def(And)[x][y]]
    OBVIOUS
  <2> HIDE DEF Def
  <2> QED
    BY <1>4, <2>1, Zenon
<1> HIDE DEF S, c, g, r, G, Def
<1> DEFINE T == {x \in Nat : \E y \in Nat : And[x][y] \notin Nat}
<1>7. T = {}
  <2> SUFFICES ASSUME T # {} PROVE FALSE
    OBVIOUS
  <2>1. T \in SUBSET Nat
    OBVIOUS
  <2>2. PICK x \in T : \A n \in T : x <= n
    <3> HIDE DEF T
    <3> QED
      BY <2>1, Least
  <2>3. PICK y \in Nat : x \in Nat /\ And[x][y] \notin Nat
    BY <2>2
  <2>4. x # 0
    BY <2>3, <1>5
  <2>5. x \div 2 < x /\ x \div 2 \in Nat /\ y \div 2 \in Nat
    BY <2>3, <2>4, Half
  <2>6. x \div 2 \notin T
    <3> HIDE DEF T
    <3> QED
      BY <2>2, <2>3, <2>5
  <2>7. And[x \div 2][y \div 2] \in Nat
    BY <2>5, <2>6
  <2>8. And[x][y] = Bit(x, y) + 2 * And[x \div 2][y \div 2]
    BY <1>5, <2>3, <2>4
  <2>9. Bit(x, y) \in Nat
    BY DEF Bit
  <2> QED
    BY <2>3, <2>7, <2>8, <2>9
<1>8. And \in [Nat -> [Nat -> Nat]]
  <2>1. \A x \in Nat : And[x] \in [Nat -> Nat]
    BY <1>6, <1>7
  <2> QED
    BY <1>6, <2>1
<1> QED
  BY <1>5, <1>8

-----------------------------------------------------------------------------
(* Powers of two. *)

LEMMA PowersGrow == \A k \in Nat : Pow2[k] \in Nat /\ Pow2[k] > k
<1> DEFINE T == {k \in Nat : Pow2[k] > k}
<1>1. \A k \in Nat : Pow2[k] \in Nat
  BY Pow2Def
<1>2. 0 \in T
  BY Pow2Def
<1>3. ASSUME NEW k \in T PROVE k + 1 \in T
  BY <1>1, Pow2Def
<1>4. T \in SUBSET Nat
  OBVIOUS
<1>5. T = Nat
  <2> HIDE DEF T
  <2> QED
    BY <1>2, <1>3, <1>4, Induct
<1> QED
  BY <1>1, <1>5

LEMMA PowersMonotone == \A k \in Nat, j \in Nat : Pow2[k] <= Pow2[k + j]
<1> SUFFICES ASSUME NEW k \in Nat PROVE \A j \in Nat : Pow2[k] <= Pow2[k + j]
  OBVIOUS
<1> DEFINE T == {j \in Nat : Pow2[k] <= Pow2[k + j]}
<1>1. 0 \in T
  BY PowersGrow
<1>2. ASSUME NEW j \in T PROVE j + 1 \in T
  <2>1. Pow2[(k + j) + 1] = 2 * Pow2[k + j] /\ Pow2[k + j] \in Nat /\ Pow2[k] \in Nat
    BY Pow2Def, PowersGrow
  <2>2. (k + j) + 1 = k + (j + 1)
    OBVIOUS
  <2> QED
    BY <2>1, <2>2
<1>3. T \in SUBSET Nat
  OBVIOUS
<1>4. T = Nat
  <2> HIDE DEF T
  <2> QED
    BY <1>1, <1>2, <1>3, Induct
<1> QED
  BY <1>4

LEMMA Power == \A n \in Nat : IsPow2(n) <=> \E k \in Nat : n = Pow2[k]
BY PowersGrow DEF IsPow2

LEMMA PowerDouble ==
  ASSUME NEW n \in Nat, IsPow2(n)
  PROVE  IsPow2(2 * n)
BY Power, Pow2Def

LEMMA PowerHalf ==
  ASSUME NEW n \in Nat, IsPow2(n), n > 1
  PROVE  \E h \in Nat : n = 2 * h /\ IsPow2(h)
<1>1. PICK k \in Nat : n = Pow2[k]
  BY Power
<1>2. k # 0 /\ k - 1 \in Nat
  BY <1>1, Pow2Def
<1>3. Pow2[(k - 1) + 1] = 2 * Pow2[k - 1] /\ Pow2[k - 1] \in Nat
  BY <1>2, Pow2Def
<1> QED
  BY <1>1, <1>2, <1>3, Power

(* Between two powers of two there is a factor of two. *)
LEMMA PowerGap ==
  ASSUME NEW m \in Nat, NEW n \in Nat, IsPow2(m), IsPow2(n), m < n
  PROVE  2 * m <= n
<1>1. PICK k \in Nat : m = Pow2[k]
  BY Power
<1>2. PICK l \in Nat : n = Pow2[l]
  BY Power
<1>3. k < l
  <2> SUFFICES ASSUME l <= k PROVE FALSE
    OBVIOUS
  <2>1. k - l \in Nat /\ l + (k - l) = k
    OBVIOUS
  <2>2. Pow2[l] <= Pow2[k]
    BY <2>1, PowersMonotone
  <2> QED
    BY <1>1, <1>2, <2>2
<1>4. l - (k + 1) \in Nat /\ (k + 1) + (l - (k + 1)) = l /\ k + 1 \in Nat
  BY <1>3
<1>5. Pow2[k + 1] <= Pow2[l]
  BY <1>4, PowersMonotone
<1> QED
  BY <1>1, <1>2, <1>5, Pow2Def

-----------------------------------------------------------------------------
(* Masking with a power of two less one is the modulus, of the numbers that
   are less than twice the power.                                          *)

Mod(x, n) == IF x < n THEN x ELSE x - n

Masks(n) == \A x \in 0..(2 * n - 1) : And[x][n - 1] = Mod(x, n)

LEMMA MasksOne == Masks(1)
<1> SUFFICES ASSUME NEW x \in 0..1, NEW y \in Nat, y = 0
             PROVE  And[x][y] = 0
  BY DEF Masks, Mod
<1>1. CASE x = 0
  BY <1>1, AndDef
<1>2. CASE x # 0
  <2>1. And[x][y] = Bit(x, y) + 2 * And[x \div 2][y \div 2]
    BY <1>2, AndDef
  <2>2. x \div 2 = 0 /\ y \div 2 = y /\ Bit(x, y) = 0
    BY <1>2 DEF Bit
  <2>3. And[0][y] = 0
    BY AndDef
  <2> QED
    BY <2>1, <2>2, <2>3
<1> QED
  BY <1>1, <1>2

LEMMA MasksDouble ==
  ASSUME NEW n \in Nat \ {0}, Masks(n)
  PROVE  Masks(2 * n)
<1> SUFFICES ASSUME NEW x \in 0..(2 * (2 * n) - 1)
             PROVE  And[x][2 * n - 1] = Mod(x, 2 * n)
  BY DEF Masks
<1> DEFINE y == 2 * n - 1
           d == x \div 2
           b == x % 2
<1>1. y \in Nat /\ y % 2 = 1 /\ y \div 2 = n - 1
  OBVIOUS
<1>2. d \in Nat /\ x = 2 * d + b /\ b \in {0, 1}
  BY Half
<1>3. CASE x = 0
  <2>1. And[0][y] = 0
    <3> HIDE DEF y
    <3> QED
      BY <1>1, AndDef
  <2> HIDE DEF y
  <2> QED
    BY <1>3, <2>1 DEF Mod, y
<1>4. CASE x # 0
  <2>1. And[x][y] = Bit(x, y) + 2 * And[d][n - 1]
    <3>1. And[x][y] = Bit(x, y) + 2 * And[d][y \div 2]
      <4>1. x \in Nat \ {0}
        BY <1>4
      <4> HIDE DEF y
      <4> QED
        BY <1>1, <4>1, AndDef
    <3> HIDE DEF y, d
    <3> QED
      BY <1>1, <3>1
  <2>2. Bit(x, y) = b
    BY <1>1, <1>2 DEF Bit
  <2> HIDE DEF y, d, b
  <2>3. d \in 0..(2 * n - 1)
    BY <1>2
  <2>4. And[d][n - 1] = Mod(d, n)
    BY <2>3 DEF Masks
  <2>5. And[x][y] = b + 2 * Mod(d, n)
    BY <2>1, <2>2, <2>4
  <2>6. b + 2 * Mod(d, n) = Mod(x, 2 * n)
    BY <1>2 DEF Mod
  <2> QED
    BY <2>5, <2>6 DEF y
<1> QED
  BY <1>3, <1>4

LEMMA Masking == \A n \in Nat : IsPow2(n) => Masks(n)
<1> DEFINE T == {k \in Nat : Masks(Pow2[k])}
<1>1. 0 \in T
  BY MasksOne, Pow2Def
<1>2. ASSUME NEW k \in T PROVE k + 1 \in T
  <2>1. Pow2[k] \in Nat \ {0}
    BY PowersGrow
  <2>2. Masks(2 * Pow2[k])
    BY <2>1, MasksDouble
  <2> QED
    BY <2>2, Pow2Def
<1>3. T \in SUBSET Nat
  OBVIOUS
<1>4. T = Nat
  <2> HIDE DEF T
  <2> QED
    BY <1>1, <1>2, <1>3, Induct
<1> QED
  BY <1>4, Power

-----------------------------------------------------------------------------
(* A buffer of c elements from slot h on, cyclically; t is the slot after the
   last of them. The slots are numbered from h on to say which are in use.  *)

Offset(i, h, n) == IF i >= h THEN i - h ELSE (i - h) + n

Ring(b, h, t, c) ==
  /\ IsPow2(Size(b)) /\ Size(b) >= MinLen /\ Size(b) \in Nat
  /\ b \in [0..(Size(b) - 1) -> Elem \cup {None}]
  /\ h \in 0..(Size(b) - 1)
  /\ c \in 0..Size(b)
  /\ t = Mod(h + c, Size(b))
  /\ \A i \in 0..(Size(b) - 1) : b[i] # None <=> Offset(i, h, Size(b)) < c

Contents(b, h, c) == [i \in 1..c |-> b[Mod((h + i) - 1, Size(b))]]

Stored(b, i, e) == [b EXCEPT ![i] = e]

(* The inductive invariant. *)
IInv ==
  /\ Ring(buf, head, tail, count)
  /\ NotTooLarge
  /\ ret \in Elem \cup {None}

LEMMA SizeIs ==
  ASSUME NEW n \in Nat, NEW X, NEW b \in [0..(n - 1) -> X]
  PROVE  Size(b) = n
<1>1. DOMAIN b = 0..(n - 1)
  OBVIOUS
<1>2. Cardinality(0..(n - 1)) = n
  BY FS_Interval
<1> QED
  BY <1>1, <1>2 DEF Size

(* What a ring of the code computes by masking. *)
LEMMA WrapIsMod ==
  ASSUME NEW b, NEW x \in Nat, Size(b) \in Nat, IsPow2(Size(b)), x < 2 * Size(b)
  PROVE  Wrap(x, b) = Mod(x, Size(b))
BY Masking DEF Masks, Wrap

(* The element that is j places from the head. *)
LEMMA RingAt ==
  ASSUME NEW b, NEW h, NEW t, NEW c, Ring(b, h, t, c), NEW j \in Nat, j < c
  PROVE  /\ Mod(h + j, Size(b)) \in 0..(Size(b) - 1)
         /\ b[Mod(h + j, Size(b))] \in Elem
<1> DEFINE n == Size(b)
           i == Mod(h + j, n)
<1>1. n \in Nat /\ h \in 0..(n - 1) /\ c \in 0..n
  BY DEF Ring
<1>2. i \in 0..(n - 1) /\ Offset(i, h, n) = j
  BY <1>1 DEF Mod, Offset
<1>3. b[i] # None /\ b[i] \in Elem \cup {None}
  <2> HIDE DEF i
  <2> QED
    BY <1>2 DEF Ring
<1> QED
  BY <1>2, <1>3

LEMMA SeqIs ==
  ASSUME NEW X, NEW n \in Nat, NEW s, s = [i \in 1..n |-> s[i]],
         \A i \in 1..n : s[i] \in X
  PROVE  s \in Seq(X) /\ Len(s) = n
<1>1. s \in [1..n -> X]
  OBVIOUS
<1> QED
  BY <1>1

(* resize keeps the elements, in order, and moves them to the start. *)
LEMMA CopiedIs ==
  ASSUME NEW b, NEW h, NEW t, NEW c, Ring(b, h, t, c), c > 0
  PROVE  Copied(b, h, t) = Contents(b, h, c)
<1> DEFINE n == Size(b)
<1>1. n \in Nat /\ h \in 0..(n - 1) /\ c \in 1..n /\ t = Mod(h + c, n)
  BY DEF Ring
<1> HIDE DEF n
<1>2. CASE t > h
  <2>1. t = h + c /\ h + c < n /\ t - h = c
    BY <1>1, <1>2 DEF Mod
  <2>2. ASSUME NEW i \in 1..c PROVE Mod((h + i) - 1, n) = (h + i) - 1
    BY <1>1, <2>1 DEF Mod
  <2>3. Copied(b, h, t) = Slice(b, h, t)
    BY <1>2 DEF Copied
  <2>4. Slice(b, h, t) = [i \in 1..c |-> b[(h + i) - 1]]
    BY <1>1, <2>1 DEF Slice
  <2> QED
    BY <2>2, <2>3, <2>4 DEF Contents, n
<1>3. CASE ~ (t > h)
  <2> DEFINE first == Slice(b, h, n)
             second == Slice(b, 0, t)
  <2>1. t = (h + c) - n /\ t \in 0..h /\ c = (n - h) + t /\ n - h \in Nat
    BY <1>1, <1>3 DEF Mod
  <2> DEFINE X == {b[i] : i \in 0..(n - 1)}
  <2>0. \A i \in 0..(n - 1) : b[i] \in X
    OBVIOUS
  <2> HIDE DEF X
  <2>2. first \in Seq(X) /\ Len(first) = n - h /\ \A i \in 1..(n - h) : first[i] = b[(h + i) - 1]
    <3> DEFINE m == n - h
    <3>1. m \in Nat
      BY <2>1
    <3>2. first = [i \in 1..m |-> first[i]] /\ \A i \in 1..m : first[i] = b[(h + i) - 1]
      BY <1>1 DEF Slice
    <3> HIDE DEF first
    <3>3. ASSUME NEW i \in 1..m PROVE first[i] \in X
      <4>1. (h + i) - 1 \in 0..(n - 1)
        BY <1>1, <3>1
      <4> HIDE DEF m
      <4> QED
        BY <2>0, <3>2, <4>1
    <3> HIDE DEF m
    <3>4. first \in Seq(X) /\ Len(first) = m
      BY <3>1, <3>2, <3>3, SeqIs
    <3> QED
      BY <3>2, <3>4 DEF m
  <2>3. second \in Seq(X) /\ Len(second) = t /\ \A i \in 1..t : second[i] = b[i - 1]
    <3>1. second = [i \in 1..t |-> second[i]] /\ \A i \in 1..t : second[i] = b[i - 1]
      BY <1>1, <2>1 DEF Slice
    <3> HIDE DEF second
    <3>2. ASSUME NEW i \in 1..t PROVE second[i] \in X
      <4>1. i - 1 \in 0..(n - 1)
        BY <1>1, <2>1
      <4> QED
        BY <2>0, <3>1, <4>1
    <3>3. t \in Nat
      BY <1>1, <2>1
    <3>4. second \in Seq(X) /\ Len(second) = t
      BY <3>1, <3>2, <3>3, SeqIs
    <3> QED
      BY <3>1, <3>4
  <2> HIDE DEF first, second
  <2>4. Copied(b, h, t) = first \o second
    BY <1>3 DEF Copied, first, second, n
  <2>5. /\ first \o second \in Seq(X)
        /\ Len(first \o second) = c
        /\ \A i \in 1..c : (first \o second)[i] =
             IF i <= n - h THEN first[i] ELSE second[i - (n - h)]
    <3>1. /\ first \o second \in Seq(X)
          /\ Len(first \o second) = Len(first) + Len(second)
          /\ \A i \in 1..(Len(first) + Len(second)) : (first \o second)[i] =
               IF i <= Len(first) THEN first[i] ELSE second[i - Len(first)]
      BY <2>2, <2>3, ConcatProperties
    <3> QED
      BY <2>1, <2>2, <2>3, <3>1
  <2>6. ASSUME NEW i \in 1..c
        PROVE  (first \o second)[i] = b[Mod((h + i) - 1, n)]
    <3>1. CASE i <= n - h
      <4>1. (first \o second)[i] = first[i]
        BY <2>5, <3>1
      <4>2. Mod((h + i) - 1, n) = (h + i) - 1
        BY <1>1, <2>1, <3>1 DEF Mod
      <4>3. i \in 1..(n - h)
        BY <2>1, <3>1
      <4>4. first[i] = b[(h + i) - 1]
        BY <2>2, <4>3
      <4> QED
        BY <4>1, <4>2, <4>4
    <3>2. CASE i > n - h
      <4>1. (first \o second)[i] = second[i - (n - h)] /\ i - (n - h) \in 1..t
        <5>1. (first \o second)[i] = second[i - (n - h)]
          <6>1. ~ (i <= n - h)
            BY <1>1, <3>2
          <6> QED
            BY <2>5, <6>1
        <5> DEFINE m == n - h
        <5>2. m \in Nat /\ t \in Nat /\ c = m + t /\ i > m
          BY <1>1, <2>1, <3>2
        <5> HIDE DEF m
        <5>3. i - m \in 1..t
          BY <5>2
        <5> QED
          BY <5>1, <5>3 DEF m
      <4>2. Mod((h + i) - 1, n) = (i - (n - h)) - 1
        BY <1>1, <2>1, <3>2 DEF Mod
      <4> QED
        BY <2>3, <4>1, <4>2
    <3>3. i <= n - h \/ i > n - h
      BY <1>1
    <3> QED
      BY <3>1, <3>2, <3>3
  <2>7. first \o second = [i \in 1..c |-> (first \o second)[i]]
    <3> DEFINE s == first \o second
    <3> HIDE DEF s
    <3>1. s \in Seq(X) /\ Len(s) = c
      BY <2>5 DEF s
    <3>2. s \in [1..c -> X]
      BY <3>1, LenProperties
    <3> QED
      BY <3>2 DEF s
  <2> QED
    BY <2>4, <2>6, <2>7 DEF Contents, n
<1> QED
  BY <1>2, <1>3

LEMMA ResizeRing ==
  ASSUME NEW b, NEW h, NEW t, NEW c, Ring(b, h, t, c), c > 0,
         IsPow2(2 * c), 2 * c >= MinLen
  PROVE  LET r == Resized(b, h, t, c) IN
         /\ Size(r) = 2 * c
         /\ Ring(r, 0, c, c)
         /\ Contents(r, 0, c) = Contents(b, h, c)
<1> DEFINE r == Resized(b, h, t, c)
           s == Contents(b, h, c)
           X == Elem \cup {None}
<1>1. Size(b) \in Nat /\ h \in 0..(Size(b) - 1) /\ c \in 1..Size(b)
  BY DEF Ring
<1>2. ASSUME NEW i \in 1..c PROVE s[i] \in Elem
  <2>1. i - 1 \in Nat /\ i - 1 < c /\ h + (i - 1) = (h + i) - 1
    BY <1>1
  <2>2. b[Mod(h + (i - 1), Size(b))] \in Elem
    BY <2>1, RingAt
  <2> QED
    BY <2>1, <2>2 DEF Contents
<1>3. Len(s) = c
  BY <1>1 DEF Contents
<1>4. r = [i \in 0..(2 * c - 1) |-> IF i < c THEN s[i + 1] ELSE None]
  BY <1>3, CopiedIs DEF Resized
<1> HIDE DEF r, s
<1>5. r \in [0..(2 * c - 1) -> X]
  <2>1. ASSUME NEW i \in 0..(2 * c - 1) PROVE (IF i < c THEN s[i + 1] ELSE None) \in X
    BY <1>1, <1>2
  <2> QED
    BY <1>4, <2>1
<1>6. Size(r) = 2 * c
  <2> DEFINE m == 2 * c
  <2>1. m \in Nat /\ r \in [0..(m - 1) -> X]
    BY <1>1, <1>5
  <2> HIDE DEF m
  <2>2. Size(r) = m
    BY <2>1, SizeIs
  <2> QED
    BY <2>2 DEF m
<1>7. ASSUME NEW i \in 0..(2 * c - 1)
      PROVE  r[i] # None <=> Offset(i, 0, 2 * c) < c
  <2>1. Offset(i, 0, 2 * c) = i
    BY <1>1 DEF Offset
  <2>2. CASE i < c
    <3>1. i + 1 \in 1..c /\ r[i] = s[i + 1]
      BY <1>1, <1>4, <2>2
    <3> QED
      BY <1>2, <2>1, <2>2, <3>1, QueueAssumption
  <2>3. CASE ~ (i < c)
    BY <1>4, <2>1, <2>3
  <2> QED
    BY <2>2, <2>3
<1>8. c = Mod(0 + c, 2 * c)
  BY <1>1 DEF Mod
<1>9. Ring(r, 0, c, c)
  BY <1>1, <1>5, <1>6, <1>7, <1>8 DEF Ring
<1>10. Contents(r, 0, c) = s
  <2>1. ASSUME NEW i \in 1..c PROVE r[Mod((0 + i) - 1, 2 * c)] = s[i]
    <3>1. Mod((0 + i) - 1, 2 * c) = i - 1 /\ i - 1 \in 0..(2 * c - 1) /\ i - 1 < c
      BY <1>1 DEF Mod
    <3>2. r[i - 1] = s[(i - 1) + 1] /\ (i - 1) + 1 = i
      BY <1>4, <3>1
    <3> QED
      BY <3>1, <3>2
  <2>2. s = [i \in 1..c |-> s[i]]
    BY DEF s, Contents
  <2> QED
    BY <1>6, <2>1, <2>2 DEF Contents
<1> QED
  BY <1>6, <1>9, <1>10 DEF r, s

LEMMA PutRing ==
  ASSUME NEW b, NEW h, NEW t, NEW c, Ring(b, h, t, c), c # Size(b), NEW e, e \in Elem
  PROVE  LET p == Stored(b, t, e) IN
         /\ Size(p) = Size(b)
         /\ Ring(p, h, Wrap(t + 1, b), c + 1)
         /\ Contents(p, h, c + 1) = Append(Contents(b, h, c), e)
<1> DEFINE p == Stored(b, t, e)
           n == Size(b)
           X == Elem \cup {None}
<1>1. n \in Nat /\ h \in 0..(n - 1) /\ c \in 0..(n - 1) /\ t = Mod(h + c, n)
      /\ b \in [0..(n - 1) -> X] /\ IsPow2(n) /\ n >= MinLen
  BY DEF Ring
<1>2. t \in 0..(n - 1) /\ Offset(t, h, n) = c
  BY <1>1 DEF Mod, Offset
<1>3. p \in [0..(n - 1) -> X] /\ p[t] = e
      /\ \A i \in 0..(n - 1) : i # t => p[i] = b[i]
  <2> HIDE DEF n
  <2> QED
    BY <1>1, <1>2 DEF Stored
<1>4. Size(p) = n
  BY <1>1, <1>3, SizeIs
<1> HIDE DEF p, n
<1>5. Wrap(t + 1, b) = Mod(h + (c + 1), n)
  <2>1. Wrap(t + 1, b) = Mod(t + 1, n)
    BY <1>1, <1>2, WrapIsMod DEF n
  <2>2. Mod(t + 1, n) = Mod(h + (c + 1), n)
    BY <1>1, <1>2 DEF Mod
  <2> QED
    BY <2>1, <2>2
<1>6. ASSUME NEW i \in 0..(n - 1)
      PROVE  p[i] # None <=> Offset(i, h, n) < c + 1
  <2>1. CASE i = t
    BY <1>2, <1>1, <1>3, <2>1, QueueAssumption
  <2>2. CASE i # t
    <3>1. Offset(i, h, n) # c /\ Offset(i, h, n) \in Nat
      BY <1>1, <1>2, <2>2 DEF Offset
    <3>2. b[i] # None <=> Offset(i, h, n) < c
      BY DEF Ring, n
    <3> QED
      BY <1>1, <1>3, <2>2, <3>1, <3>2
  <2> QED
    BY <2>1, <2>2
<1>7. Ring(p, h, Wrap(t + 1, b), c + 1)
  BY <1>1, <1>3, <1>4, <1>5, <1>6 DEF Ring
<1>8. Contents(p, h, c + 1) = Append(Contents(b, h, c), e)
  <2> DEFINE s == Contents(b, h, c)
  <2>1. s = [i \in 1..c |-> b[Mod((h + i) - 1, n)]]
    BY DEF Contents, n
  <2>2. ASSUME NEW i \in 1..c
        PROVE  b[Mod((h + i) - 1, n)] \in X
               /\ p[Mod((h + i) - 1, n)] = b[Mod((h + i) - 1, n)]
    <3>1. Mod((h + i) - 1, n) \in 0..(n - 1) /\ Mod((h + i) - 1, n) # t
      BY <1>1 DEF Mod
    <3> QED
      BY <1>1, <1>3, <3>1
  <2>3. s \in Seq(X) /\ Len(s) = c
    <3>1. c \in Nat /\ s = [i \in 1..c |-> s[i]]
      BY <1>1, <2>1
    <3>2. \A i \in 1..c : s[i] \in X
      BY <2>1, <2>2
    <3> HIDE DEF s, X
    <3> QED
      BY <3>1, <3>2, SeqIs
  <2>4. Append(s, e) = [i \in 1..(c + 1) |-> IF i = c + 1 THEN e ELSE s[i]]
    <3> HIDE DEF s
    <3>1. /\ Append(s, e) \in Seq(X) /\ Len(Append(s, e)) = c + 1
          /\ \A i \in 1..(c + 1) : Append(s, e)[i] = IF i = c + 1 THEN e ELSE s[i]
      BY <2>3, AppendProperties
    <3>2. Append(s, e) \in [1..(c + 1) -> X]
      BY <3>1, LenProperties
    <3> QED
      BY <3>1, <3>2
  <2>5. ASSUME NEW i \in 1..(c + 1)
        PROVE  p[Mod((h + i) - 1, n)] = IF i = c + 1 THEN e ELSE s[i]
    <3>1. CASE i = c + 1
      BY <1>1, <1>3, <3>1
    <3>2. CASE i # c + 1
      <4>1. i \in 1..c
        BY <1>1, <3>2
      <4> HIDE DEF s
      <4> QED
        BY <2>1, <2>2, <3>2, <4>1
    <3> QED
      BY <3>1, <3>2
  <2>6. Contents(p, h, c + 1) = [i \in 1..(c + 1) |-> p[Mod((h + i) - 1, n)]]
    BY <1>4 DEF Contents
  <2> HIDE DEF s
  <2>7. Contents(p, h, c + 1) = Append(s, e)
    BY <2>4, <2>5, <2>6
  <2> QED
    BY <2>7 DEF s
<1> QED
  BY <1>4, <1>7, <1>8 DEF p, n

LEMMA TakeRing ==
  ASSUME NEW b, NEW h, NEW t, NEW c, Ring(b, h, t, c), c > 0
  PROVE  LET p == [b EXCEPT ![h] = None] IN
         /\ Size(p) = Size(b)
         /\ Ring(p, Wrap(h + 1, b), t, c - 1)
         /\ b[h] \in Elem
         /\ Contents(b, h, c) # <<>>
         /\ Head(Contents(b, h, c)) = b[h]
         /\ Contents(p, Wrap(h + 1, b), c - 1) = Tail(Contents(b, h, c))
<1> DEFINE p == [b EXCEPT ![h] = None]
           k == Wrap(h + 1, b)
           n == Size(b)
           X == Elem \cup {None}
<1>1. n \in Nat /\ h \in 0..(n - 1) /\ c \in 1..n /\ t = Mod(h + c, n)
      /\ b \in [0..(n - 1) -> X] /\ IsPow2(n) /\ n >= MinLen
  BY DEF Ring
<1>2. p \in [0..(n - 1) -> X] /\ p[h] = None
      /\ \A i \in 0..(n - 1) : i # h => p[i] = b[i]
  <2> HIDE DEF n
  <2> QED
    BY <1>1
<1>3. Size(p) = n
  BY <1>1, <1>2, SizeIs
<1>4. k = Mod(h + 1, n)
  BY <1>1, WrapIsMod
<1>5. Mod(h + 0, n) = h
  BY <1>1 DEF Mod
<1>6. b[h] \in Elem
  BY <1>1, <1>5, RingAt
<1> HIDE DEF p, n, k
<1>7. k \in 0..(n - 1) /\ t = Mod(k + (c - 1), n)
  BY <1>1, <1>4 DEF Mod
<1>8. ASSUME NEW i \in 0..(n - 1)
      PROVE  p[i] # None <=> Offset(i, k, n) < c - 1
  <2>1. CASE i = h
    <3>1. Offset(i, k, n) = n - 1
      BY <1>1, <1>4, <2>1 DEF Mod, Offset
    <3> QED
      BY <1>1, <1>2, <2>1, <3>1
  <2>2. CASE i # h
    <3>1. Offset(i, k, n) = Offset(i, h, n) - 1 /\ Offset(i, h, n) \in Nat
      BY <1>1, <1>4, <2>2 DEF Mod, Offset
    <3>2. b[i] # None <=> Offset(i, h, n) < c
      BY DEF Ring, n
    <3> QED
      BY <1>1, <1>2, <2>2, <3>1, <3>2
  <2> QED
    BY <2>1, <2>2
<1>9. Ring(p, k, t, c - 1)
  BY <1>1, <1>2, <1>3, <1>7, <1>8 DEF Ring
<1> DEFINE s == Contents(b, h, c)
<1>10. s = [i \in 1..c |-> b[Mod((h + i) - 1, n)]]
  BY DEF Contents, n
<1>11. ASSUME NEW i \in 1..c PROVE Mod((h + i) - 1, n) \in 0..(n - 1)
  BY <1>1 DEF Mod
<1>12. s \in Seq(X) /\ Len(s) = c
  <2>1. c \in Nat /\ s = [i \in 1..c |-> s[i]]
    BY <1>1, <1>10
  <2>2. ASSUME NEW i \in 1..c PROVE s[i] \in X
    <3>1. s[i] = b[Mod((h + i) - 1, n)]
      BY <1>10
    <3> QED
      BY <1>1, <1>11, <3>1
  <2> HIDE DEF s, X
  <2> QED
    BY <2>1, <2>2, SeqIs
<1>13. s[1] = b[h]
  BY <1>1, <1>10, <1>5
<1> HIDE DEF s
<1>14. s # <<>> /\ Head(s) = b[h] /\ Tail(s) = [i \in 1..(c - 1) |-> s[i + 1]]
  <2>1. s # <<>>
    BY <1>1, <1>12
  <2>2. Head(s) = b[h]
    BY <1>12, <1>13, <2>1
  <2>3. /\ Tail(s) \in Seq(X) /\ Len(Tail(s)) = c - 1
        /\ \A i \in 1..Len(Tail(s)) : Tail(s)[i] = s[i + 1]
    BY <1>12, <2>1, HeadTailProperties
  <2>4. Tail(s) \in [1..(c - 1) -> X]
    BY <2>3, LenProperties
  <2> QED
    BY <2>1, <2>2, <2>3, <2>4
<1>15. ASSUME NEW i \in 1..(c - 1) PROVE p[Mod((k + i) - 1, n)] = s[i + 1]
  <2>1. Mod((k + i) - 1, n) = Mod((h + (i + 1)) - 1, n) /\ i + 1 \in 1..c
    BY <1>1, <1>4 DEF Mod
  <2>2. Mod((h + (i + 1)) - 1, n) # h
    BY <1>1 DEF Mod
  <2> QED
    BY <1>2, <1>10, <1>11, <2>1, <2>2
<1>16. Contents(p, k, c - 1) = [i \in 1..(c - 1) |-> p[Mod((k + i) - 1, n)]]
  BY <1>3 DEF Contents
<1>17. Contents(p, k, c - 1) = Tail(s)
  BY <1>14, <1>15, <1>16
<1> QED
  BY <1>3, <1>6, <1>9, <1>14, <1>17 DEF p, n, k, s

-----------------------------------------------------------------------------
(* Every step keeps the ring, and does to its contents what Fifo says. *)

(* A buffer that is larger than the smallest can be halved twice. *)
LEMMA Halves ==
  ASSUME NEW n \in Nat, IsPow2(n), n > MinLen
  PROVE  \E q \in Nat \ {0} : n = 4 * q /\ IsPow2(2 * q) /\ 2 * q >= MinLen
<1>1. MinLen \in Nat /\ MinLen > 1 /\ IsPow2(MinLen)
  BY QueueAssumption
<1>2. 2 * MinLen <= n
  BY <1>1, PowerGap
<1>3. PICK m \in Nat : n = 2 * m /\ IsPow2(m)
  BY <1>1, PowerHalf
<1>4. m >= MinLen /\ m > 1
  BY <1>1, <1>2, <1>3
<1>5. PICK q \in Nat : m = 2 * q /\ IsPow2(q)
  BY <1>3, <1>4, PowerHalf
<1> QED
  BY <1>3, <1>4, <1>5

LEMMA InitRing ==
  ASSUME Init
  PROVE  IInv /\ Contents(buf, head, count) = <<>>
<1>1. MinLen \in Nat /\ MinLen > 1 /\ IsPow2(MinLen)
  BY QueueAssumption
<1>2. buf \in [0..(MinLen - 1) -> Elem \cup {None}]
      /\ \A i \in 0..(MinLen - 1) : buf[i] = None
  BY DEF Init
<1>3. Size(buf) = MinLen
  BY <1>1, <1>2, SizeIs
<1>4. head = 0 /\ tail = 0 /\ count = 0 /\ ret = None
  BY DEF Init
<1>5. ASSUME NEW i \in 0..(MinLen - 1) PROVE ~ (Offset(i, 0, MinLen) < 0)
  BY <1>1 DEF Offset
<1>6. Mod(0 + 0, MinLen) = 0
  BY <1>1 DEF Mod
<1>7. Ring(buf, head, tail, count)
  BY <1>1, <1>2, <1>3, <1>4, <1>5, <1>6 DEF Ring
<1>8. NotTooLarge
  BY <1>1, <1>3 DEF NotTooLarge
<1>9. Contents(buf, head, count) = <<>>
  BY <1>4 DEF Contents
<1> QED
  BY <1>4, <1>7, <1>8, <1>9 DEF IInv

LEMMA AddStep ==
  ASSUME IInv, NEW e \in Elem, Add(e)
  PROVE  /\ IInv'
         /\ Contents(buf, head, count)' = Append(Contents(buf, head, count), e)
         /\ ret' = ret
<1> DEFINE c == count
<1>1. Ring(buf, head, tail, c) /\ ret \in Elem \cup {None} /\ c \in Nat
      /\ c <= Size(buf) /\ Size(buf) \in Nat /\ IsPow2(Size(buf)) /\ Size(buf) >= MinLen
      /\ MinLen \in Nat /\ MinLen > 1
  BY QueueAssumption DEF IInv, Ring
<1>2. CASE c # Size(buf) /\ Put(buf, tail, e) /\ UNCHANGED head
  <2>1. buf' = Stored(buf, tail, e) /\ tail' = Wrap(tail + 1, buf)
        /\ count' = c + 1 /\ head' = head /\ ret' = ret
    BY <1>2 DEF Put, Stored
  <2>2. /\ Size(buf') = Size(buf)
        /\ Ring(buf', head', tail', count')
        /\ Contents(buf', head', count') = Append(Contents(buf, head, c), e)
    BY <1>1, <1>2, <2>1, PutRing
  <2>3. NotTooLarge'
    BY <1>1, <2>1, <2>2 DEF IInv, NotTooLarge
  <2> QED
    BY <1>1, <2>1, <2>2, <2>3 DEF IInv
<1>3. CASE c = Size(buf) /\ Put(Resized(buf, head, tail, c), c, e) /\ head' = 0
  <2> DEFINE r == Resized(buf, head, tail, c)
  <2>1. IsPow2(2 * c) /\ 2 * c >= MinLen /\ c > 0
    BY <1>1, <1>3, PowerDouble
  <2>2. /\ Size(r) = 2 * c
        /\ Ring(r, 0, c, c)
        /\ Contents(r, 0, c) = Contents(buf, head, c)
    BY <1>1, <2>1, ResizeRing
  <2> HIDE DEF r
  <2>3. buf' = Stored(r, c, e) /\ tail' = Wrap(c + 1, r)
        /\ count' = c + 1 /\ head' = 0 /\ ret' = ret
    BY <1>3 DEF Put, Stored, r
  <2>4. c # Size(r)
    BY <1>1, <2>1, <2>2
  <2>5. /\ Size(buf') = Size(r)
        /\ Ring(buf', head', tail', count')
        /\ Contents(buf', head', count') = Append(Contents(r, 0, c), e)
    BY <2>2, <2>3, <2>4, PutRing
  <2>6. NotTooLarge'
    BY <1>1, <2>1, <2>2, <2>3, <2>5 DEF NotTooLarge
  <2> QED
    BY <1>1, <2>2, <2>3, <2>5, <2>6 DEF IInv
<1> QED
  BY <1>2, <1>3 DEF Add

LEMMA RemoveStep ==
  ASSUME IInv, Remove
  PROVE  /\ IInv'
         /\ Contents(buf, head, count) # <<>>
         /\ ret' = Head(Contents(buf, head, count))
         /\ Contents(buf, head, count)' = Tail(Contents(buf, head, count))
<1> DEFINE b == [buf EXCEPT ![head] = None]
           h == Wrap(head + 1, buf)
           n == count - 1
           s == Contents(buf, head, count)
<1>1. Ring(buf, head, tail, count) /\ count \in Nat
      /\ Size(buf) \in Nat /\ IsPow2(Size(buf))
      /\ MinLen \in Nat /\ MinLen > 1
  BY QueueAssumption DEF IInv, Ring
<1>2. count > 0 /\ ret' = buf[head] /\ count' = n
  BY DEF Remove
<1>3. /\ Size(b) = Size(buf)
      /\ Ring(b, h, tail, n)
      /\ buf[head] \in Elem
      /\ s # <<>>
      /\ Head(s) = buf[head]
      /\ Contents(b, h, n) = Tail(s)
  BY <1>1, <1>2, TakeRing
<1>4. \/ ~ Quarter(n, b) /\ buf' = b /\ head' = h /\ tail' = tail
      \/ Quarter(n, b) /\ buf' = Resized(b, h, tail, n) /\ head' = 0 /\ tail' = n
  BY DEF Remove
<1> HIDE DEF b, h, s
<1>5. CASE ~ Quarter(n, b) /\ buf' = b /\ head' = h /\ tail' = tail
  <2>1. NotTooLarge'
    <3> SUFFICES ASSUME Size(b) > MinLen PROVE 4 * n > Size(b)
      BY <1>2, <1>5 DEF NotTooLarge
    <3>1. 4 * count > Size(buf) /\ 4 * n # Size(b)
      BY <1>3, <1>5 DEF IInv, NotTooLarge, Quarter
    <3>2. PICK q \in Nat : Size(b) = 4 * q
      BY <1>1, <1>3, Halves
    <3> QED
      BY <1>1, <1>3, <3>1, <3>2
  <2> QED
    BY <1>2, <1>3, <1>5, <2>1 DEF IInv, s
<1>6. CASE Quarter(n, b) /\ buf' = Resized(b, h, tail, n) /\ head' = 0 /\ tail' = n
  <2>1. Size(b) > MinLen /\ 4 * n = Size(b)
    BY <1>6 DEF Quarter
  <2>2. PICK q \in Nat \ {0} : Size(b) = 4 * q /\ IsPow2(2 * q) /\ 2 * q >= MinLen
    BY <1>1, <1>3, <2>1, Halves
  <2>3. n = q
    BY <1>1, <2>1, <2>2
  <2> HIDE DEF n
  <2>4. n > 0 /\ IsPow2(2 * n) /\ 2 * n >= MinLen
    BY <2>2, <2>3
  <2>5. /\ Size(buf') = 2 * n
        /\ Ring(buf', 0, n, n)
        /\ Contents(buf', 0, n) = Contents(b, h, n)
    BY <1>3, <1>6, <2>4, ResizeRing
  <2>6. NotTooLarge'
    BY <1>2, <2>2, <2>3, <2>5 DEF NotTooLarge
  <2> QED
    BY <1>2, <1>3, <1>6, <2>5, <2>6 DEF IInv, s
<1> QED
  BY <1>4, <1>5, <1>6

LEMMA NextStep ==
  ASSUME IInv, [Next]_vars
  PROVE  IInv'
<1>1. CASE Remove
  BY <1>1, RemoveStep
<1>2. CASE RemoveEmpty
  <2>1. buf' = buf /\ head' = head /\ tail' = tail /\ count' = count /\ ret' = None
    BY <1>2 DEF RemoveEmpty
  <2> QED
    BY <2>1 DEF IInv, NotTooLarge
<1>3. CASE \E e \in Elem : Add(e)
  BY <1>3, AddStep
<1>4. CASE UNCHANGED vars
  BY <1>4 DEF IInv, NotTooLarge, vars
<1> QED
  BY <1>1, <1>2, <1>3, <1>4 DEF Next

LEMMA Inductive == Spec => []IInv
<1>1. Init => IInv
  BY InitRing
<1>2. IInv /\ [Next]_vars => IInv'
  BY NextStep
<1> QED
  BY <1>1, <1>2, PTL DEF Spec

LEMMA RingTypes == IInv => TypeOK
<1> SUFFICES ASSUME IInv PROVE TypeOK
  OBVIOUS
<1>1. Ring(buf, head, tail, count)
  BY DEF IInv
<1>2. DOMAIN buf = 0..(Size(buf) - 1)
  BY <1>1 DEF Ring
<1>3. tail \in 0..(Size(buf) - 1)
  <2>1. Size(buf) >= MinLen /\ MinLen \in Nat /\ MinLen > 1
    BY <1>1, QueueAssumption DEF Ring
  <2> QED
    BY <1>1, <2>1 DEF Ring, Mod
<1> QED
  BY <1>1, <1>2, <1>3 DEF IInv, Ring, TypeOK

(* The buffer keeps a length that masking works with, whatever is added and
   removed: every power of two that resize can reach.                      *)
THEOREM TypeCorrect == Spec => []TypeOK
BY Inductive, RingTypes, PTL

(* A shrinking buffer stays at least a quarter full: the length is a multiple
   of four when Remove tests it, so that the quarter is never jumped over.  *)
THEOREM StaysSmall == Spec => []NotTooLarge
<1>1. IInv => NotTooLarge
  BY DEF IInv
<1> QED
  BY <1>1, Inductive, PTL

LEMMA RingLive == IInv => OnlyLiveSlots
<1> SUFFICES ASSUME IInv PROVE OnlyLiveSlots
  OBVIOUS
<1> DEFINE n == Size(buf)
<1>1. Ring(buf, head, tail, count)
  BY DEF IInv
<1>2. n \in Nat \ {0} /\ head \in 0..(n - 1) /\ count \in 0..n /\ DOMAIN buf = 0..(n - 1)
  BY <1>1 DEF Ring
<1>3. \A i \in 0..(n - 1) : buf[i] # None <=> Offset(i, head, n) < count
  BY <1>1 DEF Ring
<1> HIDE DEF n
<1>4. ASSUME NEW j \in 0..(count - 1) PROVE (head + j) % n = Mod(head + j, n)
  BY <1>2 DEF Mod
<1>5. ASSUME NEW i \in 0..(n - 1), buf[i] # None
      PROVE  \E j \in 0..(count - 1) : i = (head + j) % n
  <2> DEFINE j == Offset(i, head, n)
  <2>1. j \in 0..(count - 1)
    BY <1>2, <1>3, <1>5 DEF Offset
  <2>2. i = Mod(head + j, n)
    BY <1>2 DEF Mod, Offset
  <2> QED
    BY <1>4, <2>1, <2>2
<1>6. ASSUME NEW j \in 0..(count - 1)
      PROVE  (head + j) % n \in 0..(n - 1) /\ buf[(head + j) % n] # None
  <2> DEFINE i == Mod(head + j, n)
  <2>1. i \in 0..(n - 1) /\ Offset(i, head, n) = j
    BY <1>2 DEF Mod, Offset
  <2>2. j < count
    BY <1>2
  <2> HIDE DEF i
  <2>3. buf[i] # None
    BY <1>3, <2>1, <2>2
  <2> QED
    BY <1>4, <2>1, <2>3 DEF i
<1> QED
  BY <1>2, <1>5, <1>6 DEF OnlyLiveSlots, n

(* No slot outside the queue holds an element: removed elements are let go. *)
THEOREM LiveSlots == Spec => []OnlyLiveSlots
BY Inductive, RingLive, PTL

LEMMA ItemsAre == IInv => Items = Contents(buf, head, count)
<1> SUFFICES ASSUME IInv PROVE Items = Contents(buf, head, count)
  OBVIOUS
<1> DEFINE n == Size(buf)
<1>1. n \in Nat /\ IsPow2(n) /\ head \in 0..(n - 1) /\ count \in 0..n
  BY DEF IInv, Ring
<1>2. ASSUME NEW i \in 1..count
      PROVE  Get(i - 1) = buf[Mod((head + i) - 1, n)]
  <2>1. Get(i - 1) = buf[Wrap(head + (i - 1), buf)]
    BY <1>1 DEF Get
  <2>2. head + (i - 1) \in Nat /\ head + (i - 1) < 2 * n /\ head + (i - 1) = (head + i) - 1
    BY <1>1
  <2>3. Wrap(head + (i - 1), buf) = Mod(head + (i - 1), n)
    BY <1>1, <2>2, WrapIsMod
  <2> QED
    BY <2>1, <2>2, <2>3
<1> QED
  BY <1>2 DEF Items, Contents

LEMMA InitRefines == Init => Abstract!Init
<1> SUFFICES ASSUME Init PROVE Abstract!Init
  OBVIOUS
<1>1. Items = <<>>
  BY InitRing, ItemsAre
<1> QED
  BY <1>1 DEF Init, Abstract!Init

LEMMA NextRefines ==
  ASSUME IInv, [Next]_vars
  PROVE  [Abstract!Next]_<<Items, ret>>
<1>1. Items = Contents(buf, head, count)
  BY ItemsAre
<1>2. Items' = Contents(buf, head, count)'
  <2>1. (IInv => Items = Contents(buf, head, count))'
    BY ItemsAre, PTL
  <2> QED
    BY <2>1, NextStep
<1>3. CASE Remove
  <2>1. Abstract!Remove
    BY <1>1, <1>2, <1>3, RemoveStep DEF Abstract!Remove
  <2> QED
    BY <2>1 DEF Abstract!Next
<1>4. CASE RemoveEmpty
  <2>1. buf' = buf /\ head' = head /\ count' = count /\ ret' = None /\ count <= 0
    BY <1>4 DEF RemoveEmpty
  <2>2. Items' = Items
    BY <1>1, <1>2, <2>1
  <2>3. Items = <<>>
    <3>1. count = 0
      BY <2>1 DEF IInv, Ring
    <3> QED
      BY <1>1, <3>1 DEF Contents
  <2>4. Abstract!RemoveEmpty
    BY <2>1, <2>2, <2>3 DEF Abstract!RemoveEmpty
  <2> QED
    BY <2>4 DEF Abstract!Next
<1>5. ASSUME NEW e \in Elem, Add(e)
      PROVE  Abstract!Next
  <2>1. Abstract!Add(e)
    BY <1>1, <1>2, <1>5, AddStep DEF Abstract!Add
  <2> QED
    BY <2>1 DEF Abstract!Next
<1>6. CASE UNCHANGED vars
  BY <1>1, <1>2, <1>6 DEF vars
<1> QED
  BY <1>3, <1>4, <1>5, <1>6 DEF Next

(* The ring buffer is a FIFO sequence, across every growth and shrinking. *)
THEOREM Refinement == Spec => RefinesFifo
<1>1. Init => Abstract!Init
  BY InitRefines
<1>2. IInv /\ [Next]_vars => [Abstract!Next]_<<Items, ret>>
  BY NextRefines
<1> QED
  BY <1>1, <1>2, Inductive, PTL DEF Spec, RefinesFifo, Abstract!Spec
=============================================================================
