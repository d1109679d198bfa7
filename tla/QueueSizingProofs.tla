------------------------- MODULE QueueSizingProofs -------------------------
(***************************************************************************)
(* What the rounding of a size computes, for every size and every width of *)
(* the machine's integers.  The provers have no induction over numbers;    *)
(* here it comes from the pigeonhole principle for finite sets, and what   *)
(* 2^n is from the number of subsets of a set.                             *)
(***************************************************************************)
EXTENDS QueueSizing, FiniteSetTheorems, TLAPS

-----------------------------------------------------------------------------
(* Induction over numbers, powers of two, and recursion by halving.        *)

\* If some number were missing from S, the numbers up to it that S has would
\* all have a successor among them, and 0 would be the successor of none.
LEMMA NatSet ==
  ASSUME NEW S, 0 \in S, \A n \in Nat : n \in S => n + 1 \in S
  PROVE  Nat \subseteq S
<1> SUFFICES ASSUME NEW k \in Nat, k \notin S PROVE FALSE
  OBVIOUS
<1> DEFINE T == {n \in 0..k : n \in S}
           U == T \ {0}
           f == [n \in T |-> n + 1]
<1>1. IsFiniteSet(T)
  <2>1. IsFiniteSet(0..k) /\ T \in SUBSET (0..k)
    BY FS_Interval
  <2> HIDE DEF T
  <2>2. QED
    BY <2>1, FS_Subset
<1>2. 0 \in T
  OBVIOUS
<1>3. IsFiniteSet(U) /\ Cardinality(U) < Cardinality(T)
  <2>1. IsFiniteSet(U) /\ Cardinality(U) = Cardinality(T) - 1
    BY <1>1, <1>2, FS_RemoveElement
  <2>2. Cardinality(T) \in Nat
    BY <1>1, FS_CardinalityType
  <2>3. QED
    BY <2>1, <2>2
<1>4. f \in [T -> U]
  <2>1. ASSUME NEW n \in T PROVE n + 1 \in U
    BY <2>1
  <2>2. QED
    BY <2>1
<1>5. \E x, y \in T : x # y /\ f[x] = f[y]
  <2> HIDE DEF T, U, f
  <2>1. QED
    BY <1>1, <1>3, <1>4, FS_PigeonHole
<1>6. QED
  BY <1>5

\* 2^n counts the subsets of a set of n elements, those with and those without
\* its last element.
LEMMA Pow == 2^0 = 1 /\ \A n \in Nat : 2^n \in Nat /\ 2^(n+1) = 2^n + 2^n
<1>1. ASSUME NEW n \in Nat PROVE Cardinality(SUBSET (1..n)) = 2^n /\ IsFiniteSet(SUBSET (1..n)) /\ 2^n \in Nat
  <2>1. IsFiniteSet(1..n) /\ Cardinality(1..n) = n
    BY FS_Interval
  <2>2. Cardinality(SUBSET (1..n)) = 2^Cardinality(1..n) /\ IsFiniteSet(SUBSET (1..n))
    BY <2>1, FS_SUBSET
  <2>3. Cardinality(SUBSET (1..n)) \in Nat
    BY <2>2, FS_CardinalityType
  <2>4. QED
    BY <2>1, <2>2, <2>3
<1>2. 2^0 = 1
  <2>1. Cardinality(SUBSET (1..0)) = 2^0
    BY <1>1
  <2>2. SUBSET (1..0) = {{}}
    OBVIOUS
  <2>3. QED
    BY <2>1, <2>2, FS_Singleton
<1>3. ASSUME NEW n \in Nat PROVE 2^(n+1) = 2^n + 2^n
  <2> DEFINE A == SUBSET (1..n)
             B == {T \in SUBSET (1..(n+1)) : n + 1 \in T}
             f == [T \in A |-> T \cup {n+1}]
  <2>1. f \in Bijection(A, B)
    <3>1. ASSUME NEW T \in A PROVE T \cup {n+1} \in B /\ n + 1 \notin T
      BY <3>1
    <3>2. ASSUME NEW T \in B PROVE \E V \in A : f[V] = T
      <4>1. T \ {n+1} \in A
        BY <3>2
      <4>2. (T \ {n+1}) \cup {n+1} = T
        BY <3>2
      <4>3. QED
        BY <4>1, <4>2
    <3>3. ASSUME NEW T \in A, NEW V \in A, f[T] = f[V] PROVE T = V
      BY <3>1, <3>3
    <3>4. f \in [A -> B]
      BY <3>1
    <3> HIDE DEF A, B, f
    <3>5. f \in Injection(A, B)
      BY <3>3, <3>4 DEF Injection, IsInjective
    <3>6. f \in Surjection(A, B)
      BY <3>2, <3>4 DEF Surjection
    <3>7. QED
      BY <3>5, <3>6 DEF Bijection
  <2>2. IsFiniteSet(A) /\ Cardinality(A) = 2^n /\ 2^n \in Nat
    BY <1>1
  <2>3. IsFiniteSet(B) /\ Cardinality(B) = 2^n
    BY <2>1, <2>2, FS_Bijection DEF ExistsBijection
  <2>4. A \cup B = SUBSET (1..(n+1)) /\ A \cap B = {}
    <3>1. A \subseteq SUBSET (1..(n+1))
      OBVIOUS
    <3>2. ASSUME NEW T \in SUBSET (1..(n+1)), n + 1 \notin T PROVE T \in A
      BY <3>2
    <3>3. QED
      BY <3>1, <3>2
  <2>5. Cardinality(A \cup B) = Cardinality(A) + Cardinality(B) - Cardinality(A \cap B)
    BY <2>2, <2>3, FS_Union
  <2>6. Cardinality(A \cap B) = 0
    BY <2>4, FS_EmptySet
  <2>7. Cardinality(SUBSET (1..(n+1))) = 2^(n+1)
    BY <1>1
  <2> HIDE DEF A, B
  <2>8. PICK c \in Nat : c = 2^n
    BY <2>2
  <2>9. Cardinality(A \cup B) = c + c
    BY <2>2, <2>3, <2>5, <2>6, <2>8
  <2>10. QED
    BY <2>4, <2>7, <2>8, <2>9
<1>4. QED
  BY <1>1, <1>2, <1>3

\* Powers of two are not 0 and at least as large as their exponents.
LEMMA PowPositive == \A n \in Nat : 2^n # 0
<1> DEFINE S == {n \in Nat : 2^n # 0}
<1>1. 0 \in S
  BY Pow
<1>2. ASSUME NEW n \in Nat, n \in S PROVE n + 1 \in S
  <2> DEFINE x == 2^n
             y == 2^(n + 1)
  <2>1. x \in Nat /\ x # 0 /\ y = x + x
    BY <1>2, Pow
  <2> HIDE DEF x, y
  <2>2. y # 0
    BY <2>1
  <2>3. QED
    BY <2>2 DEF y
<1>3. Nat \subseteq S
  <2> HIDE DEF S
  <2>1. QED
    BY <1>1, <1>2, NatSet
<1>4. QED
  BY <1>3

LEMMA PowAbove == \A n \in Nat : n <= 2^n
<1> DEFINE S == {n \in Nat : n <= 2^n}
<1>1. 0 \in S
  BY Pow
<1>2. ASSUME NEW n \in Nat, n \in S PROVE n + 1 \in S
  <2> DEFINE x == 2^n
             y == 2^(n + 1)
  <2>1. x \in Nat /\ x # 0 /\ n <= x /\ y = x + x
    BY <1>2, Pow, PowPositive
  <2> HIDE DEF x, y
  <2>2. n + 1 <= y
    BY <2>1
  <2>3. QED
    BY <2>2 DEF y
<1>3. Nat \subseteq S
  <2> HIDE DEF S
  <2>1. QED
    BY <1>1, <1>2, NatSet
<1>4. QED
  BY <1>3

\* The same with all smaller numbers to rely on.
LEMMA NatSetBelow ==
  ASSUME NEW S, \A n \in Nat : (\A m \in Nat : m < n => m \in S) => n \in S
  PROVE  Nat \subseteq S
<1> DEFINE T == {n \in Nat : \A m \in Nat : m < n => m \in S}
<1>1. 0 \in T
  OBVIOUS
<1>2. ASSUME NEW n \in Nat, n \in T PROVE n + 1 \in T
  <2>1. n \in S /\ \A m \in Nat : m < n => m \in S
    BY <1>2
  <2>2. ASSUME NEW m \in Nat, m < n + 1 PROVE m \in S
    <3>1. m < n \/ m = n
      BY <2>2
    <3>2. QED
      BY <2>1, <3>1
  <2>3. QED
    BY <2>2
<1>3. Nat \subseteq T
  <2> HIDE DEF T
  <2>1. QED
    BY <1>1, <1>2, NatSet
<1>4. QED
  BY <1>3

\* What halving a number makes of it.
LEMMA Halved ==
  ASSUME NEW i \in Nat
  PROVE  /\ i \div 2 \in Nat /\ i % 2 \in {0, 1} /\ i = 2 * (i \div 2) + (i % 2)
         /\ i # 0 => i \div 2 < i
OBVIOUS

\* g is defined by halving on 0..n: its value at 0 is z, and its value at i comes
\* by step from i and its value at i \div 2.
ByHalving(g, n, V, z, step) ==
  /\ g \in [0..n -> V]
  /\ g[0] = z
  /\ \A i \in 1..n : g[i] = step[<<i, g[i \div 2]>>]

\* step maps numbers and members of V to members of V, and so is z.
StaysIn(V, z, step) == z \in V /\ \A i \in Nat, v \in V : step[<<i, v>>] \in V

\* Two such functions agree wherever both are defined.
LEMMA HalvingUnique ==
  ASSUME NEW V, NEW z, NEW step, NEW m \in Nat, NEW n \in Nat, NEW g, NEW h,
         ByHalving(g, m, V, z, step), ByHalving(h, n, V, z, step),
         NEW i \in Nat, i <= m, i <= n
  PROVE  g[i] = h[i]
<1> DEFINE S == {j \in Nat : j <= m /\ j <= n => g[j] = h[j]}
<1>1. ASSUME NEW j \in Nat, \A k \in Nat : k < j => k \in S PROVE j \in S
  <2>1. CASE j = 0
    BY <2>1 DEF ByHalving
  <2>2. CASE j # 0 /\ j <= m /\ j <= n
    <3>1. j \div 2 \in Nat /\ j \div 2 < j
      BY <2>2, Halved
    <3>2. j \div 2 \in S
      BY <1>1, <3>1
    <3>3. g[j \div 2] = h[j \div 2]
      BY <2>2, <3>1, <3>2
    <3>4. j \in 1..m /\ j \in 1..n
      BY <2>2
    <3>5. g[j] = step[<<j, g[j \div 2]>>] /\ h[j] = step[<<j, h[j \div 2]>>]
      BY <3>4 DEF ByHalving
    <3>6. QED
      BY <3>3, <3>5
  <2>3. QED
    BY <2>1, <2>2
<1>2. Nat \subseteq S
  <2> HIDE DEF S
  <2>1. QED
    BY <1>1, NatSetBelow
<1>3. QED
  BY <1>2

\* Such a function can be continued by one number.
LEMMA HalvingNext ==
  ASSUME NEW V, NEW z, NEW step, StaysIn(V, z, step), NEW m \in Nat,
         NEW g, ByHalving(g, m, V, z, step)
  PROVE  \E h : ByHalving(h, m + 1, V, z, step)
<1> DEFINE w == step[<<m + 1, g[(m + 1) \div 2]>>]
           h == [i \in 0..(m + 1) |-> IF i = m + 1 THEN w ELSE g[i]]
<1>1. (m + 1) \div 2 \in 0..m
  BY Halved
<1>2. w \in V
  BY <1>1 DEF ByHalving, StaysIn
<1>3. h \in [0..(m + 1) -> V]
  <2> HIDE DEF w
  <2>1. \A i \in 0..m : g[i] \in V
    BY DEF ByHalving
  <2>2. QED
    BY <1>2, <2>1
<1>4. h[0] = z /\ h[m + 1] = w /\ \A i \in 0..m : h[i] = g[i]
  <2> HIDE DEF w
  <2>1. QED
    BY DEF ByHalving
<1>5. ASSUME NEW i \in 1..(m + 1) PROVE h[i] = step[<<i, h[i \div 2]>>]
  <2> HIDE DEF h
  <2>1. i \div 2 \in 0..m
    BY Halved
  <2>2. h[i \div 2] = g[i \div 2]
    BY <1>4, <2>1
  <2>3. CASE i = m + 1
    BY <1>4, <2>2, <2>3
  <2>4. CASE i # m + 1
    <3>1. i \in 1..m /\ i \in 0..m
      BY <2>4
    <3>2. g[i] = step[<<i, g[i \div 2]>>]
      BY <3>1 DEF ByHalving
    <3>3. QED
      BY <1>4, <2>2, <3>1, <3>2
  <2>5. QED
    BY <2>3, <2>4
<1>6. ByHalving(h, m + 1, V, z, step)
  <2> HIDE DEF h
  <2>1. QED
    BY <1>3, <1>4, <1>5 DEF ByHalving
<1>7. QED
  BY <1>6

\* There is a function on all numbers that is defined by halving.
LEMMA HalvingFunction ==
  ASSUME NEW V, NEW z, NEW step, StaysIn(V, z, step)
  PROVE  \E f \in [Nat -> V] :
           f[0] = z /\ \A i \in Nat \ {0} : f[i] = step[<<i, f[i \div 2]>>]
<1> DEFINE S == {m \in Nat : \E g : ByHalving(g, m, V, z, step)}
<1>1. 0 \in S
  <2>1. ByHalving([i \in 0..0 |-> z], 0, V, z, step)
    BY DEF ByHalving, StaysIn
  <2>2. QED
    BY <2>1
<1>2. ASSUME NEW m \in Nat, m \in S PROVE m + 1 \in S
  BY <1>2, HalvingNext
<1>3. Nat \subseteq S
  <2> HIDE DEF S
  <2>1. QED
    BY <1>1, <1>2, NatSet
<1> DEFINE G == [n \in Nat |-> CHOOSE g : ByHalving(g, n, V, z, step)]
           f == [n \in Nat |-> G[n][n]]
<1>4. ASSUME NEW n \in Nat PROVE ByHalving(G[n], n, V, z, step)
  <2>1. \E g : ByHalving(g, n, V, z, step)
    BY <1>3
  <2>2. ByHalving(CHOOSE g : ByHalving(g, n, V, z, step), n, V, z, step)
    BY <2>1
  <2>3. QED
    BY <2>2
<1> HIDE DEF G
<1>5. f \in [Nat -> V]
  <2>1. ASSUME NEW n \in Nat PROVE G[n][n] \in V
    <3>1. n \in 0..n
      OBVIOUS
    <3>2. QED
      BY <1>4, <3>1 DEF ByHalving
  <2>2. QED
    BY <2>1
<1>6. f[0] = z
  BY <1>4 DEF ByHalving
<1>7. ASSUME NEW i \in Nat \ {0} PROVE f[i] = step[<<i, f[i \div 2]>>]
  <2>1. i \in 1..i /\ i \div 2 \in Nat /\ i \div 2 <= i
    BY Halved
  <2>2. G[i][i] = step[<<i, G[i][i \div 2]>>]
    BY <1>4, <2>1 DEF ByHalving
  <2>3. G[i][i \div 2] = G[i \div 2][i \div 2]
    <3> DEFINE j == i \div 2
    <3>1. ByHalving(G[i], i, V, z, step) /\ ByHalving(G[j], j, V, z, step)
      BY <1>4, <2>1
    <3>2. j \in Nat /\ i \in Nat /\ j <= i /\ j <= j
      BY <2>1
    <3> HIDE DEF j
    <3>3. G[i][j] = G[j][j]
      BY <3>1, <3>2, HalvingUnique, SMT
    <3>4. QED
      BY <3>3 DEF j
  <2>4. QED
    BY <2>1, <2>2, <2>3
<1> HIDE DEF f
<1>8. QED
  BY <1>5, <1>6, <1>7

-----------------------------------------------------------------------------
(* Fls: how often a number can be halved.                                  *)

\* Halvings is the function its definition describes.
LEMMA HalvingsIs ==
  /\ Halvings \in [Nat -> Nat] /\ Halvings[0] = 0
  /\ \A i \in Nat \ {0} : Halvings[i] = Halvings[i \div 2] + 1
<1> DEFINE step == [x \in Nat \X Nat |-> x[2] + 1]
<1>1. PICK f \in [Nat -> Nat] :
        f[0] = 0 /\ \A i \in Nat \ {0} : f[i] = step[<<i, f[i \div 2]>>]
  <2> DEFINE V == Nat
             z == 0
  <2>1. StaysIn(V, z, step)
    BY DEF StaysIn
  <2> HIDE DEF step, V, z
  <2>2. \E f \in [Nat -> V] :
          f[0] = z /\ \A i \in Nat \ {0} : f[i] = step[<<i, f[i \div 2]>>]
    BY <2>1, HalvingFunction
  <2>3. QED
    BY <2>2 DEF V, z
<1>2. ASSUME NEW i \in Nat \ {0} PROVE f[i] = f[i \div 2] + 1
  BY <1>1, Halved
<1>3. f = [i \in Nat |-> IF i = 0 THEN 0 ELSE f[i \div 2] + 1]
  BY <1>1, <1>2
<1>4. Halvings = [i \in Nat |-> IF i = 0 THEN 0 ELSE Halvings[i \div 2] + 1]
  BY <1>3 DEF Halvings
<1> DEFINE S == {n \in Nat : Halvings[n] \in Nat}
<1>5. /\ Halvings[0] = 0
      /\ \A i \in Nat \ {0} : Halvings[i] = Halvings[i \div 2] + 1
  BY <1>4
<1>6. ASSUME NEW n \in Nat, \A m \in Nat : m < n => m \in S PROVE n \in S
  <2>1. CASE n = 0
    BY <1>5, <2>1
  <2>2. CASE n # 0
    <3>1. n \div 2 \in Nat /\ n \div 2 < n
      BY <2>2, Halved
    <3>2. Halvings[n \div 2] \in Nat
      BY <1>6, <3>1
    <3>3. QED
      BY <1>5, <2>2, <3>2
  <2>3. QED
    BY <2>1, <2>2
<1>7. Nat \subseteq S
  <2> HIDE DEF S
  <2>1. QED
    BY <1>6, NatSetBelow
<1>8. Halvings \in [Nat -> Nat]
  <2>1. \A n \in Nat : Halvings[n] \in Nat
    BY <1>7
  <2>2. \E g : Halvings = [n \in Nat |-> g[n]]
    BY <1>4
  <2>3. QED
    BY <1>4, <2>1
<1>9. QED
  BY <1>5, <1>8

\* The highest bit of s, counted from 1, is number Halvings[s].
LEMMA HalvingsBound ==
  ASSUME NEW s \in Nat \ {0}
  PROVE  /\ Halvings[s] \in Nat \ {0}
         /\ 2^(Halvings[s] - 1) <= s
         /\ s < 2^Halvings[s]
<1> DEFINE Bound(i) == /\ Halvings[i] \in Nat \ {0}
                       /\ 2^(Halvings[i] - 1) <= i
                       /\ i < 2^Halvings[i]
           S == {i \in Nat : i # 0 => Bound(i)}
<1>1. ASSUME NEW i \in Nat, \A m \in Nat : m < i => m \in S PROVE i \in S
  <2>1. CASE i = 1
    <3>1. Halvings[1] = 1
      <4>1. 1 \div 2 = 0
        OBVIOUS
      <4>2. QED
        BY <4>1, HalvingsIs
    <3>2. 2^0 = 1 /\ 2^1 = 2
      <4>1. 2^(0 + 1) = 2^0 + 2^0
        BY Pow
      <4>2. QED
        BY <4>1, Pow
    <3>3. Bound(1)
      BY <3>1, <3>2
    <3>4. QED
      BY <2>1, <3>3
  <2>2. CASE i # 0 /\ i # 1
    <3> DEFINE j == i \div 2
               h == Halvings[j]
    <3>1. j \in Nat /\ j # 0 /\ j < i /\ 2 * j <= i /\ i <= 2 * j + 1
      BY <2>2
    <3>2. Bound(j)
      BY <1>1, <3>1
    <3>3. h \in Nat \ {0} /\ 2^(h - 1) <= j /\ j < 2^h
      BY <3>2
    <3>4. Halvings[i] = h + 1
      BY <2>2, HalvingsIs
    <3> HIDE DEF j, h
    <3> DEFINE b == h - 1
    <3>5. b \in Nat /\ h = b + 1
      BY <3>3
    <3> HIDE DEF b
    <3>6. 2^b \in Nat /\ 2^h \in Nat /\ 2^(b + 1) = 2^b + 2^b /\ 2^(h + 1) = 2^h + 2^h
      BY <3>3, <3>5, Pow
    <3>7. 2^h = 2^b + 2^b
      BY <3>5, <3>6
    <3>8. 2^b <= j
      BY <3>3, <3>5
    <3> DEFINE x == 2^b
               y == 2^h
               w == 2^(h + 1)
    <3>9. /\ x \in Nat /\ y \in Nat /\ y = x + x /\ w = y + y
          /\ x <= j /\ j < y
      BY <3>3, <3>6, <3>7, <3>8
    <3> HIDE DEF x, y, w
    <3>10. y <= i /\ i < w
      BY <3>1, <3>9
    <3>11. 2^h <= i /\ i < 2^(h + 1) /\ h + 1 \in Nat \ {0} /\ h + 1 - 1 = h
      BY <3>3, <3>10 DEF y, w
    <3>12. Bound(i)
      <4>1. Halvings[i] - 1 = h
        BY <3>3, <3>4
      <4>2. 2^(Halvings[i] - 1) <= i
        BY <3>11, <4>1
      <4>3. i < 2^Halvings[i]
        BY <3>4, <3>11
      <4>4. QED
        BY <3>4, <3>11, <4>2, <4>3
    <3>13. QED
      BY <3>12
  <2>3. QED
    BY <2>1, <2>2
<1>2. Nat \subseteq S
  <2> HIDE DEF S
  <2>1. QED
    BY <1>1, NatSetBelow
<1>3. QED
  BY <1>2

-----------------------------------------------------------------------------
(* IsPowerOfTwo: the bits of a number and of the number before it.         *)

\* The numbers of B one higher, and 0 if i is odd.
Doubled(i, B) == {k + 1 : k \in B} \cup (IF i % 2 = 1 THEN {0} ELSE {})

\* Bits is the function its definition describes.
LEMMA BitsIs ==
  /\ Bits \in [Nat -> SUBSET Nat] /\ Bits[0] = {}
  /\ \A i \in Nat \ {0} : Bits[i] = Doubled(i, Bits[i \div 2])
<1> DEFINE step == [x \in Nat \X SUBSET Nat |-> Doubled(x[1], x[2])]
<1>1. PICK f \in [Nat -> SUBSET Nat] :
        f[0] = {} /\ \A i \in Nat \ {0} : f[i] = step[<<i, f[i \div 2]>>]
  <2> DEFINE V == SUBSET Nat
             z == {}
  <2>1. StaysIn(V, z, step)
    <3>1. ASSUME NEW i \in Nat, NEW v \in SUBSET Nat
          PROVE  Doubled(i, v) \in SUBSET Nat /\ step[<<i, v>>] = Doubled(i, v)
      <4>1. Doubled(i, v) \in SUBSET Nat
        BY DEF Doubled
      <4>2. <<i, v>> \in Nat \X SUBSET Nat
        OBVIOUS
      <4>3. QED
        BY <4>1, <4>2
    <3> HIDE DEF step
    <3>2. QED
      BY <3>1 DEF StaysIn
  <2> HIDE DEF step, V, z
  <2>2. \E f \in [Nat -> V] :
          f[0] = z /\ \A i \in Nat \ {0} : f[i] = step[<<i, f[i \div 2]>>]
    BY <2>1, HalvingFunction
  <2>3. QED
    BY <2>2 DEF V, z
<1>2. ASSUME NEW i \in Nat \ {0} PROVE f[i] = Doubled(i, f[i \div 2])
  BY <1>1, Halved
<1>3. f = [n \in Nat |-> IF n = 0 THEN {} ELSE Doubled(n, f[n \div 2])]
  BY <1>1, <1>2
<1>4. f = [n \in Nat |->
             IF n = 0 THEN {}
             ELSE {k + 1 : k \in f[n \div 2]} \cup (IF n % 2 = 1 THEN {0} ELSE {})]
  BY <1>3 DEF Doubled
<1>5. Bits = [n \in Nat |->
             IF n = 0 THEN {}
             ELSE {k + 1 : k \in Bits[n \div 2]} \cup (IF n % 2 = 1 THEN {0} ELSE {})]
  BY <1>4 DEF Bits
<1>6. Bits = [n \in Nat |-> IF n = 0 THEN {} ELSE Doubled(n, Bits[n \div 2])]
  BY <1>5 DEF Doubled
<1>7. Bits[0] = {} /\ \A i \in Nat \ {0} : Bits[i] = Doubled(i, Bits[i \div 2])
  BY <1>6
<1> DEFINE S == {n \in Nat : Bits[n] \in SUBSET Nat}
<1>8. ASSUME NEW n \in Nat, \A m \in Nat : m < n => m \in S PROVE n \in S
  <2>1. CASE n = 0
    BY <1>7, <2>1
  <2>2. CASE n # 0
    <3>1. n \div 2 \in Nat /\ n \div 2 < n
      BY <2>2, Halved
    <3>2. Bits[n \div 2] \in SUBSET Nat
      BY <1>8, <3>1
    <3>3. Doubled(n, Bits[n \div 2]) \in SUBSET Nat
      BY <3>2 DEF Doubled
    <3>4. QED
      BY <1>7, <2>2, <3>3
  <2>3. QED
    BY <2>1, <2>2
<1>9. Nat \subseteq S
  <2> HIDE DEF S
  <2>1. QED
    BY <1>8, NatSetBelow
<1>10. Bits \in [Nat -> SUBSET Nat]
  <2>1. \A n \in Nat : Bits[n] \in SUBSET Nat
    BY <1>9
  <2>2. QED
    BY <1>6, <2>1
<1>11. QED
  BY <1>7, <1>10

\* A number that is not 0 has a bit that is set.
LEMMA SomeBit ==
  ASSUME NEW n \in Nat \ {0}
  PROVE  Bits[n] # {}
<1> DEFINE S == {i \in Nat : i # 0 => Bits[i] # {}}
<1>1. ASSUME NEW i \in Nat, \A m \in Nat : m < i => m \in S PROVE i \in S
  <2>1. CASE i = 1
    <3>1. Bits[1] = Doubled(1, Bits[1 \div 2])
      BY BitsIs
    <3>2. QED
      BY <2>1, <3>1 DEF Doubled
  <2>2. CASE i # 0 /\ i # 1
    <3>1. i \div 2 \in Nat /\ i \div 2 # 0 /\ i \div 2 < i
      BY <2>2
    <3>2. PICK k : k \in Bits[i \div 2]
      BY <1>1, <3>1
    <3>3. Bits[i] = Doubled(i, Bits[i \div 2])
      BY <2>2, BitsIs
    <3>4. k + 1 \in Bits[i]
      BY <3>2, <3>3 DEF Doubled
    <3>5. QED
      BY <3>4
  <2>3. QED
    BY <2>1, <2>2
<1>2. Nat \subseteq S
  <2> HIDE DEF S
  <2>1. QED
    BY <1>1, NatSetBelow
<1>3. QED
  BY <1>2

\* Only a power of two passes the test of IsPowerOfTwo.
LEMMA PowersOfTwo ==
  ASSUME NEW n \in Nat, IsPowerOfTwo(n)
  PROVE  \E k \in Nat : n = 2^k
<1> DEFINE S == {i \in Nat : IsPowerOfTwo(i) => \E k \in Nat : i = 2^k}
<1>1. ASSUME NEW i \in Nat, \A m \in Nat : m < i => m \in S PROVE i \in S
  <2>1. CASE i = 0
    BY <2>1 DEF IsPowerOfTwo
  <2>2. CASE i = 1
    BY <2>2, Pow
  <2>3. CASE i # 0 /\ i # 1 /\ IsPowerOfTwo(i) /\ i % 2 = 0
    <3> DEFINE j == i \div 2
    <3>1. /\ j \in Nat /\ j # 0 /\ j < i /\ i = j + j /\ j - 1 \in Nat
          /\ (i - 1) \div 2 = j - 1 /\ (i - 1) % 2 = 1 /\ i - 1 \in Nat \ {0}
      BY <2>3
    <3>2. Bits[i] = Doubled(i, Bits[j]) /\ Bits[i - 1] = Doubled(i - 1, Bits[j - 1])
      BY <2>3, <3>1, BitsIs
    <3> HIDE DEF j
    <3>3. ASSUME NEW k, k \in Bits[j], k \in Bits[j - 1] PROVE FALSE
      <4>1. k + 1 \in Bits[i] /\ k + 1 \in Bits[i - 1]
        BY <3>2, <3>3 DEF Doubled
      <4>2. QED
        BY <2>3, <4>1 DEF IsPowerOfTwo
    <3>4. IsPowerOfTwo(j)
      BY <3>1, <3>3 DEF IsPowerOfTwo
    <3>5. PICK k \in Nat : j = 2^k
      BY <1>1, <3>1, <3>4
    <3>6. 2^(k + 1) = 2^k + 2^k
      BY Pow
    <3>7. i = 2^(k + 1)
      BY <3>1, <3>5, <3>6
    <3>8. QED
      BY <3>7
  <2>4. CASE i # 0 /\ i # 1 /\ IsPowerOfTwo(i) /\ i % 2 = 1
    <3> DEFINE j == i \div 2
    <3>1. /\ j \in Nat \ {0}
          /\ (i - 1) \div 2 = j /\ i - 1 \in Nat \ {0}
      BY <2>4
    <3>2. Bits[i] = Doubled(i, Bits[j]) /\ Bits[i - 1] = Doubled(i - 1, Bits[j])
      BY <2>4, <3>1, BitsIs
    <3> HIDE DEF j
    <3>3. PICK k : k \in Bits[j]
      BY <3>1, SomeBit
    <3>4. k + 1 \in Bits[i] /\ k + 1 \in Bits[i - 1]
      BY <3>2, <3>3 DEF Doubled
    <3>5. QED
      BY <2>4, <3>4 DEF IsPowerOfTwo
  <2>5. QED
    BY <2>1, <2>2, <2>3, <2>4, Halved
<1>2. Nat \subseteq S
  <2> HIDE DEF S
  <2>1. QED
    BY <1>1, NatSetBelow
<1>3. QED
  BY <1>2

-----------------------------------------------------------------------------
(* RoundupPowofTwo in the machine's integers.                              *)

\* int has at least two values, and size_t at least twice as many.
LEMMA Widths ==
  /\ IntMod \in Nat \ {0} /\ SizeMod \in Nat \ {0}
  /\ IntMod \div 2 \in Nat \ {0} /\ IntMod = 2 * (IntMod \div 2)
  /\ 2 * IntMod <= SizeMod
<1>1. /\ IntMod \in Nat \ {0} /\ SizeMod \in Nat \ {0}
      /\ IntMod % 2 = 0 /\ SizeMod % IntMod = 0 /\ IntMod < SizeMod
  BY MachineAssumption
<1>2. IntMod \div 2 \in Nat \ {0} /\ IntMod = 2 * (IntMod \div 2)
  BY <1>1
<1>3. 2 * IntMod <= SizeMod
  <2> SUFFICES ASSUME SizeMod < 2 * IntMod PROVE FALSE
    BY <1>1
  <2>1. 0 < SizeMod - IntMod /\ SizeMod - IntMod < IntMod
    BY <1>1
  <2>2. SizeMod % IntMod = SizeMod - IntMod
    BY <1>1, <2>1
  <2>3. QED
    BY <1>1, <2>1, <2>2
<1>4. QED
  BY <1>1, <1>2, <1>3

\* The conversion of half a size to int keeps it or makes it negative, as long
\* as the size is in the range of Fls.
LEMMA SignedIs ==
  ASSUME NEW x \in Nat
  PROVE  /\ Signed(x) \in Int /\ Signed(x) < IntMod \div 2
         /\ x < IntMod /\ Signed(x) >= 0 => Signed(x) = x
<1> DEFINE u == x % IntMod
           m == IntMod \div 2
<1>1. u \in Nat /\ u < IntMod /\ m \in Nat \ {0} /\ IntMod = 2 * m
  BY Widths
<1>2. x < IntMod => u = x
  BY Widths
<1>3. Signed(x) = IF u < m THEN u ELSE u - IntMod
  BY DEF Signed
<1> HIDE DEF u, m
<1>4. QED
  BY <1>1, <1>2, <1>3, Widths DEF m

\* A size whose bits Fls can count rounds to a power of two that fits a size_t.
LEMMA FlsFits ==
  ASSUME NEW n \in Nat, ~Spins(n)
  PROVE  /\ Fls(n) \in Nat /\ 2^Fls(n) \in Nat \ {0}
         /\ Unsigned(2^Fls(n)) = 2^Fls(n)
<1>1. \A k \in Nat : 2^k \in Nat /\ 2^(k + 1) = 2^k + 2^k
  BY Pow
<1>2. 2^0 = 1 /\ 2^1 = 2
  <2>1. 2^(0 + 1) = 2^0 + 2^0
    BY <1>1
  <2>2. QED
    BY <2>1, Pow
<1>3. ASSUME NEW x \in Nat \ {0}, x < SizeMod PROVE Unsigned(x) = x
  BY <1>3, Widths DEF Unsigned
<1>4. CASE n = 0
  BY <1>2, <1>3, <1>4, Widths DEF Fls
<1>5. CASE n # 0
  <2> DEFINE s == Signed(n \div 2)
  <2>1. n \div 2 \in Nat
    OBVIOUS
  <2>2. s \in Nat /\ s < IntMod \div 2 /\ Fls(n) = Halvings[s] + 1
    BY <1>5, <2>1, SignedIs DEF Spins, Fls
  <2> HIDE DEF s
  <2>3. CASE s = 0
    <3>1. Fls(n) = 1
      BY <2>2, <2>3, HalvingsIs
    <3>2. QED
      BY <1>2, <1>3, <3>1, Widths
  <2>4. CASE s # 0
    <3> DEFINE h == Halvings[s]
               b == h - 1
    <3>1. b \in Nat /\ h = b + 1 /\ h \in Nat /\ 2^b <= s
      BY <2>2, <2>4, HalvingsBound
    <3>2. Fls(n) = h + 1
      BY <2>2
    <3> HIDE DEF b, h
    <3> DEFINE x == 2^b
               y == 2^h
               w == 2^(h + 1)
    <3>3. x \in Nat /\ y = x + x /\ w = y + y /\ x <= s
      BY <1>1, <3>1
    <3>4. x # 0
      BY <3>1, PowPositive
    <3> HIDE DEF x, y, w
    <3>5. w \in Nat \ {0} /\ w < SizeMod
      BY <2>2, <3>3, <3>4, Widths
    <3>6. Unsigned(w) = w
      BY <1>3, <3>5
    <3>7. Fls(n) \in Nat /\ 2^Fls(n) = w
      BY <3>1, <3>2 DEF w
    <3>8. QED
      BY <3>5, <3>6, <3>7
  <2>5. QED
    BY <2>3, <2>4
<1>6. QED
  BY <1>4, <1>5

\* What CreateInstance and GetInstance go on with is never 0: the check for 0
\* that follows the rounding does not fire.
THEOREM RoundedPositive ==
  ASSUME NEW n \in Nat \ {0}, Rounds(n)
  PROVE  Rounded(n) \in Nat \ {0}
<1>1. CASE IsPowerOfTwo(n)
  BY <1>1 DEF Rounded
<1>2. CASE ~IsPowerOfTwo(n)
  <2>1. n - 1 \in Nat /\ ~Spins(n - 1)
    BY <1>2 DEF Rounds
  <2>2. QED
    BY <1>2, <2>1, FlsFits DEF Rounded, RoundupPowofTwo
<1>3. QED
  BY <1>1, <1>2

\* In the range of Fls a size is rounded to the least power of two that holds it.
THEOREM RoundedIs ==
  ASSUME NEW n \in Nat \ {0}, Rounds(n), n <= 2 * IntMod
  PROVE  /\ \E k \in 0..Rounded(n) : Rounded(n) = 2^k
         /\ n <= Rounded(n) /\ Rounded(n) < 2 * n
<1>1. Rounded(n) \in Nat \ {0}
  BY RoundedPositive
<1>2. ASSUME NEW k \in Nat, Rounded(n) = 2^k PROVE \E j \in 0..Rounded(n) : Rounded(n) = 2^j
  <2>1. k <= 2^k
    BY PowAbove
  <2>2. k \in 0..Rounded(n)
    BY <1>1, <1>2, <2>1
  <2>3. QED
    BY <1>2, <2>2
<1>3. CASE IsPowerOfTwo(n)
  <2>1. Rounded(n) = n
    BY <1>3 DEF Rounded
  <2>2. PICK k \in Nat : n = 2^k
    BY <1>3, PowersOfTwo
  <2>3. QED
    BY <1>2, <2>1, <2>2
<1>4. CASE ~IsPowerOfTwo(n)
  <2> DEFINE i == n - 1
  <2>1. i \in Nat \ {0} /\ n = i + 1
    <3>1. IsPowerOfTwo(1)
      BY BitsIs DEF IsPowerOfTwo
    <3>2. QED
      BY <1>4, <3>1
  <2>2. ~Spins(i) /\ i < 2 * IntMod
    BY <1>4, Widths DEF Rounds
  <2>3. Rounded(n) = Unsigned(2^Fls(i))
    BY <1>4 DEF Rounded, RoundupPowofTwo
  <2> HIDE DEF i
  <2>4. Fls(i) \in Nat /\ Rounded(n) = 2^Fls(i)
    BY <2>1, <2>2, <2>3, FlsFits
  <2>5. i \div 2 \in Nat /\ i \div 2 < IntMod
    BY <2>1, <2>2, Widths
  <2>6. Signed(i \div 2) = i \div 2
    BY <2>1, <2>2, <2>5, SignedIs DEF Spins
  <2>7. Fls(i) = Halvings[i]
    BY <2>1, <2>6, HalvingsIs DEF Fls
  <2> DEFINE b == Halvings[i] - 1
  <2>8. b \in Nat /\ Fls(i) = b + 1 /\ 2^b <= i /\ i < 2^Fls(i)
    BY <2>1, <2>7, HalvingsBound
  <2> HIDE DEF b
  <2>9. 2^b \in Nat /\ 2^(b + 1) = 2^b + 2^b
    BY <2>8, Pow
  <2>10. Rounded(n) = 2^b + 2^b
    BY <2>4, <2>8, <2>9
  <2>11. i < Rounded(n)
    BY <2>4, <2>8
  <2>12. n <= Rounded(n) /\ Rounded(n) < 2 * n
    BY <1>1, <2>1, <2>8, <2>9, <2>10, <2>11
  <2>13. QED
    BY <1>2, <2>4, <2>12
<1>5. QED
  BY <1>3, <1>4
=============================================================================
