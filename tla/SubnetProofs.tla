--------------------------- MODULE SubnetProofs ---------------------------
(***************************************************************************)
(* The subnet planner, for every number of address bits, every limit on    *)
(* the leaves, every set of notes and every budget of bytes: what          *)
(* validatePartition accepts is a partition of the root, every plan is     *)
(* one, and the commands edit a tree of prefixes whose leaves always       *)
(* partition their block.                                                  *)
(***************************************************************************)
EXTENDS Subnet, Integers, FiniteSetTheorems, FunctionTheorems,
        SequenceTheorems, WellFoundedInduction, TLAPS

-----------------------------------------------------------------------------
(* Powers of two                                                           *)

\* A set of natural numbers has a least one.
LEMMA LeastOne ==
    ASSUME NEW S \in SUBSET Nat, S # {}
    PROVE  \E m \in S : \A n \in S : m <= n
  <1>1. PICK m \in S : \A n \in S : ~ (<<n, m>> \in OpToRel(<, Nat))
    BY NatLessThanWellFounded, WFMin
  <1>2. \A n \in S : m <= n
    <2> SUFFICES ASSUME NEW n \in S PROVE ~(n < m)
      OBVIOUS
    <2>1. <<n, m>> \in Nat \X Nat
      OBVIOUS
    <2> QED  BY <1>1, <2>1 DEF OpToRel
  <1> QED  BY <1>2

\* A set of n elements has 2^n subsets; that is where the laws of 2^n come from.
LEMMA PowerOfZero == 2^0 = 1
  <1>1. Cardinality(SUBSET {}) = 2^Cardinality({})
    BY FS_EmptySet, FS_SUBSET
  <1>2. SUBSET {} = {{}}
    OBVIOUS
  <1>3. Cardinality({{}}) = 1
    BY FS_Singleton
  <1> QED  BY <1>1, <1>2, <1>3, FS_EmptySet

\* A new element is in half of the subsets.
LEMMA PowerOfSucc ==
    ASSUME NEW n \in Nat
    PROVE  2^n \in Nat /\ 2^(n + 1) = 2 * 2^n
  <1> DEFINE S == SUBSET (1..n)
             With == {A \cup {n + 1} : A \in S}
             f == [A \in S |-> A \cup {n + 1}]
  <1>1. IsFiniteSet(S) /\ Cardinality(S) = 2^n /\ Cardinality(SUBSET (1..(n + 1))) = 2^(n + 1)
    <2>1. /\ IsFiniteSet(1..n) /\ Cardinality(1..n) = n
          /\ IsFiniteSet(1..(n + 1)) /\ Cardinality(1..(n + 1)) = n + 1
      BY FS_Interval
    <2>2. IsFiniteSet(S) /\ Cardinality(S) = 2^Cardinality(1..n)
      BY <2>1, FS_SUBSET
    <2>3. Cardinality(SUBSET (1..(n + 1))) = 2^Cardinality(1..(n + 1))
      BY <2>1, FS_SUBSET
    <2> QED  BY <2>1, <2>2, <2>3
  <1>2. 2^n \in Nat
    BY <1>1, FS_CardinalityType
  <1>3. IsFiniteSet(With) /\ Cardinality(With) = 2^n
    <2>1. f \in [S -> With] /\ \A A \in With : \E B \in S : f[B] = A
      OBVIOUS
    <2>2. ASSUME NEW A \in S, NEW B \in S, f[A] = f[B]
          PROVE  A = B
      <3>1. A \cup {n + 1} = B \cup {n + 1} /\ n + 1 \notin A /\ n + 1 \notin B
        BY <2>2
      <3>2. A = (A \cup {n + 1}) \ {n + 1} /\ B = (B \cup {n + 1}) \ {n + 1}
        BY <3>1
      <3> QED  BY <3>1, <3>2
    <2>3. f \in Bijection(S, With)
      BY <2>1, <2>2, Fun_IsBij
    <2>4. ExistsBijection(S, With)
      BY <2>3 DEF ExistsBijection
    <2> QED  BY <1>1, <2>4, FS_Bijection
  <1>4. S \cup With = SUBSET (1..(n + 1)) /\ S \cap With = {}
    <2>1. 1..(n + 1) = (1..n) \cup {n + 1} /\ n + 1 \notin 1..n
      OBVIOUS
    <2>2. S \cap With = {}
      BY <2>1
    <2>3. S \cup With \subseteq SUBSET (1..(n + 1))
      BY <2>1
    <2>4. ASSUME NEW A \in SUBSET (1..(n + 1)), A \notin S
          PROVE  A \in With
      <3>1. n + 1 \in A /\ A \ {n + 1} \in S
        BY <2>1, <2>4
      <3>2. A = (A \ {n + 1}) \cup {n + 1}
        BY <3>1
      <3> QED  BY <3>1, <3>2
    <2> QED  BY <2>2, <2>3, <2>4
  <1>5. Cardinality(S \cup With) = Cardinality(S) + Cardinality(With) - Cardinality(S \cap With)
    BY <1>1, <1>3, FS_Union
  <1>6. 2^(n + 1) = 2^n + 2^n - 0
    BY <1>1, <1>3, <1>4, <1>5, FS_EmptySet
  <1> QED  BY <1>2, <1>6

\* Powers of two are positive, and add up in the exponent.
LEMMA PowerPositive ==
    ASSUME NEW n \in Nat
    PROVE  2^n \in Nat \ {0}
  <1> DEFINE Wrong == {k \in Nat : 2^k = 0}
  <1>1. Wrong = {}
    <2> SUFFICES ASSUME Wrong # {} PROVE FALSE
      OBVIOUS
    <2>1. PICK m \in Wrong : \A k \in Wrong : m <= k
      BY LeastOne
    <2>2. m # 0
      <3> SUFFICES ASSUME m = 0 PROVE FALSE
        OBVIOUS
      <3>1. 2^m = 1
        BY PowerOfZero, Zenon
      <3> QED  BY <2>1, <3>1
    <2>3. m - 1 \in Nat /\ m = (m - 1) + 1
      BY <2>2
    <2>4. 2^(m - 1) \in Nat /\ 2^m = 2 * 2^(m - 1)
      BY <2>3, PowerOfSucc
    <2>5. m - 1 \in Wrong
      BY <2>3, <2>4
    <2> QED  BY <2>1, <2>5
  <1> QED  BY <1>1, PowerOfSucc

\* The exponent of a product of powers, by its least counterexample.
LEMMA PowerOfSum ==
    ASSUME NEW m \in Nat, NEW n \in Nat
    PROVE  2^(m + n) = 2^m * 2^n
  <1> DEFINE Wrong == {k \in Nat : 2^(m + k) # 2^m * 2^k}
  <1>1. Wrong = {}
    <2> SUFFICES ASSUME Wrong # {} PROVE FALSE
      OBVIOUS
    <2>1. PICK k \in Wrong : \A j \in Wrong : k <= j
      BY LeastOne
    <2>2. k # 0
      <3> SUFFICES ASSUME k = 0 PROVE FALSE
        OBVIOUS
      <3>1. 2^k = 1
        BY PowerOfZero, Zenon
      <3>2. m + k = m
        OBVIOUS
      <3>3. 2^m * 1 = 2^m
        BY PowerPositive
      <3> QED  BY <2>1, <3>1, <3>2, <3>3
    <2>3. k - 1 \in Nat /\ k = (k - 1) + 1 /\ m + k = (m + (k - 1)) + 1 /\ m + (k - 1) \in Nat
      BY <2>2
    <2>4. 2^k = 2 * 2^(k - 1) /\ 2^(m + k) = 2 * 2^(m + (k - 1)) /\ 2^(k - 1) \in Nat
      BY <2>3, PowerOfSucc
    <2>5. 2^(m + (k - 1)) = 2^m * 2^(k - 1)
      BY <2>1, <2>3
    <2>6. 2^m \in Nat
      BY PowerPositive
    <2>7. 2^m * 2^k = 2 * (2^m * 2^(k - 1))
      BY <2>4, <2>6
    <2> QED  BY <2>4, <2>5, <2>7
  <1> QED  BY <1>1

-----------------------------------------------------------------------------
(* Division, and blocks as intervals of addresses                          *)

\* Division with a remainder.
LEMMA DivIs ==
    ASSUME NEW a \in Nat, NEW s \in Nat \ {0}
    PROVE  /\ a \div s \in Nat /\ a % s \in 0..(s - 1)
           /\ a = (a \div s) * s + (a % s)
  OBVIOUS

\* The quotient is known by its multiple.
LEMMA DivUnique ==
    ASSUME NEW s \in Nat \ {0}, NEW q \in Nat, NEW a \in Nat, q * s <= a, a < q * s + s
    PROVE  a \div s = q
  <1>1. PICK r \in 0..(s - 1) : a = q * s + r
    <2>1. a - q * s \in 0..(s - 1)
      OBVIOUS
    <2> QED  BY <2>1
  <1> QED  BY <1>1

\* Two multiples of s are at least s apart.
LEMMA MultiplesApart ==
    ASSUME NEW s \in Nat \ {0}, NEW p \in Nat, NEW q \in Nat, p < q
    PROVE  p * s + s <= q * s
  <1>1. PICK d \in Nat : q = p + 1 + d
    <2>1. q - p - 1 \in Nat /\ q = p + 1 + (q - p - 1)
      OBVIOUS
    <2> QED  BY <2>1
  <1>2. q * s = p * s + s + d * s /\ d * s \in Nat
    BY <1>1
  <1> QED  BY <1>2

\* A block is the addresses from its start to its end.
LEMMA BlockIs ==
    ASSUME NEW c \in Cidr
    PROVE  /\ Size(c) \in Nat \ {0}
           /\ Start(c) \in Nat /\ End(c) \in Nat /\ End(c) + 1 = Start(c) + Size(c)
           /\ Start(c) <= c.address /\ c.address <= End(c) /\ End(c) < 2^Bits
           /\ Addresses(c) = Start(c)..End(c)
           /\ Canonical(c) = c <=> c.address % Size(c) = 0
           /\ Canonical(c) = c <=> c.address = Start(c)
  <1> DEFINE s == Size(c)
             q == c.address \div s
  <1>1. c.prefix \in 0..Bits /\ Bits - c.prefix \in Nat /\ c.address \in Nat /\ c.address < 2^Bits /\ 2^Bits \in Nat
    BY BitsAssumption, PowerPositive DEF Cidr, Address
  <1>2. s \in Nat \ {0}
    BY <1>1, PowerPositive DEF Size
  <1>3. 2^Bits = 2^(c.prefix) * s /\ 2^(c.prefix) \in Nat
    <2>1. Bits = c.prefix + (Bits - c.prefix)
      BY <1>1, BitsAssumption
    <2> QED  BY <1>1, <2>1, PowerOfSum, PowerPositive DEF Size
  <1> HIDE DEF s
  <1>4. q \in Nat /\ c.address % s \in 0..(s - 1) /\ c.address = q * s + (c.address % s)
    BY <1>1, <1>2, DivIs
  <1>5. Start(c) = q * s /\ End(c) = q * s + s - 1
    BY DEF Start, End, s
  <1>6. q * s \in Nat
    BY <1>2, <1>4
  <1>7. q < 2^(c.prefix)
    <2> SUFFICES ASSUME 2^(c.prefix) <= q PROVE FALSE
      BY <1>3, <1>4
    <2>1. PICK d \in Nat : q = 2^(c.prefix) + d
      <3>1. q - 2^(c.prefix) \in Nat
        BY <1>3, <1>4
      <3> QED  BY <3>1, <1>3, <1>4
    <2> HIDE DEF q
    <2>2. q * s = 2^Bits + d * s /\ d * s \in Nat
      BY <1>2, <1>3, <2>1
    <2> QED  BY <1>1, <1>4, <1>6, <2>2
  <1> HIDE DEF q
  <1>8. q * s + s <= 2^Bits
    BY <1>2, <1>3, <1>4, <1>7, MultiplesApart
  <1> DEFINE m == q * s
             r == c.address % s
  <1>9. \A a \in Nat : a \div s = q <=> m <= a /\ a < m + s
    <2>1. ASSUME NEW a \in Nat, a \div s = q
          PROVE  m <= a /\ a < m + s
      <3>1. a % s \in 0..(s - 1) /\ a = m + (a % s)
        BY <1>2, <2>1, DivIs
      <3> QED  BY <1>2, <1>6, <3>1
    <2>2. ASSUME NEW a \in Nat, m <= a, a < m + s
          PROVE  a \div s = q
      BY <1>2, <1>4, <2>2, DivUnique
    <2> QED  BY <2>1, <2>2
  <1>10. m \in Nat /\ r \in 0..(s - 1) /\ c.address = m + r /\ Start(c) = m /\ End(c) = m + s - 1 /\ m + s <= 2^Bits
    BY <1>4, <1>5, <1>6, <1>8
  <1>11. Addresses(c) = {a \in 0..(2^Bits - 1) : a \div s = q}
    BY DEF Addresses, s, q, Address
  <1>12. Canonical(c) = c <=> c.address = Start(c)
    BY DEF Canonical, Cidr
  <1> HIDE DEF m, r
  <1>13. Addresses(c) = m..(m + s - 1)
    BY <1>1, <1>2, <1>9, <1>10, <1>11
  <1>14. Canonical(c) = c <=> r = 0
    BY <1>2, <1>10, <1>12
  <1>15. /\ Start(c) \in Nat /\ End(c) \in Nat /\ End(c) + 1 = Start(c) + s
         /\ Start(c) <= c.address /\ c.address <= End(c) /\ End(c) < 2^Bits
    BY <1>1, <1>2, <1>10
  <1>16. Addresses(c) = Start(c)..End(c)
    BY <1>10, <1>13
  <1>17. Canonical(c) = c <=> c.address % s = 0
    BY <1>14 DEF r
  <1> QED  BY <1>2, <1>12, <1>15, <1>16, <1>17 DEF s

\* A block within another has as long a prefix.
LEMMA LongerIsSmaller ==
    ASSUME NEW c \in Cidr, NEW d \in Cidr, c.prefix < d.prefix
    PROVE  Size(d) < Size(c)
  <1> DEFINE n == d.prefix - c.prefix
  <1>1. Bits - d.prefix \in Nat /\ n \in Nat \ {0} /\ Bits - c.prefix = n + (Bits - d.prefix)
    BY BitsAssumption DEF Cidr
  <1>2. n - 1 \in Nat /\ n = (n - 1) + 1
    BY <1>1
  <1>3. Size(c) = 2^n * Size(d) /\ Size(d) \in Nat \ {0}
    BY <1>1, PowerOfSum, PowerPositive DEF Size
  <1>4. 2^n = 2 * 2^(n - 1) /\ 2^(n - 1) \in Nat \ {0}
    BY <1>2, PowerOfSucc, PowerPositive
  <1>5. PICK k \in Nat : 2^n = 2 + k
    <2>1. 2^n - 2 \in Nat
      BY <1>4
    <2> QED  BY <2>1, <1>4
  <1>6. Size(c) = 2 * Size(d) + k * Size(d) /\ k * Size(d) \in Nat
    BY <1>3, <1>5
  <1> QED  BY <1>3, <1>6

-----------------------------------------------------------------------------
(* sort(): a permutation of the allocations into rising starts             *)

StartAt(s, i) == Start(s[i].cidr)

\* The sort permutes the allocations, and their starts are in order then.
LEMMA SortedIs ==
    ASSUME NEW s \in Seq(Allocation)
    PROVE  \E p \in Bijection(DOMAIN s, DOMAIN s) :
              /\ Sorted(s) = [n \in DOMAIN s |-> s[p[n]]]
              /\ \A k, l \in DOMAIN s : k < l => StartAt(s, p[k]) <= StartAt(s, p[l])
  <1> DEFINE D == DOMAIN s
             E(j) == Earlier(s, j)
             rank == [j \in D |-> Cardinality(E(j)) + 1]
             p == [n \in D |-> CHOOSE j \in D : Cardinality(E(j)) = n - 1]
  <1>1. D = 1..Len(s) /\ Len(s) \in Nat /\ IsFiniteSet(D) /\ Cardinality(D) = Len(s)
    <2>1. D = 1..Len(s) /\ Len(s) \in Nat
      OBVIOUS
    <2>2. IsFiniteSet(1..Len(s)) /\ Cardinality(1..Len(s)) = Len(s)
      BY <2>1, FS_Interval
    <2> QED  BY <2>1, <2>2
  <1>2. \A i \in D : StartAt(s, i) \in Nat
    <2> SUFFICES ASSUME NEW i \in D PROVE StartAt(s, i) \in Nat
      OBVIOUS
    <2>1. s[i] \in Allocation
      BY ElementOfSeq
    <2>2. s[i].cidr \in Cidr
      BY <2>1 DEF Allocation
    <2> QED  BY <2>2, BlockIs DEF StartAt
  <1>3. \A i, j \in D : i \in E(j) <=> StartAt(s, i) < StartAt(s, j) \/ (StartAt(s, i) = StartAt(s, j) /\ i < j)
    BY DEF Earlier, StartAt
  <1>4. \A j \in D : E(j) \subseteq D
    BY DEF Earlier
  <1> HIDE DEF E, D
  <1>5. \A j \in D : IsFiniteSet(E(j)) /\ Cardinality(E(j)) \in Nat
    BY <1>1, <1>4, FS_Subset, FS_CardinalityType
  <1>6. ASSUME NEW i \in D, NEW j \in D, i \in E(j)
        PROVE  rank[i] < rank[j]
    <2>1. E(i) \cup {i} \subseteq E(j) /\ i \notin E(i)
      <3>1. \A k \in D : k \in E(i) => k \in E(j)
        BY <1>1, <1>2, <1>3, <1>6
      <3>2. i \notin E(i)
        BY <1>1, <1>2, <1>3
      <3> QED  BY <1>4, <1>6, <3>1, <3>2
    <2>2. Cardinality(E(i) \cup {i}) = Cardinality(E(i)) + 1
      BY <1>5, <2>1, FS_AddElement
    <2>3. Cardinality(E(i) \cup {i}) <= Cardinality(E(j))
      BY <1>5, <2>1, FS_Subset
    <2> QED  BY <1>5, <2>2, <2>3
  <1>7. rank \in [D -> D]
    <2>1. ASSUME NEW j \in D
          PROVE  Cardinality(E(j)) + 1 \in D
      <3>1. j \notin E(j)
        BY <1>1, <1>2, <1>3
      <3>2. E(j) \subseteq D \ {j}
        BY <1>4, <3>1
      <3>3. IsFiniteSet(D \ {j}) /\ Cardinality(D \ {j}) = Cardinality(D) - 1
        BY <1>1, FS_RemoveElement
      <3>4. Cardinality(E(j)) <= Len(s) - 1
        BY <1>1, <3>2, <3>3, FS_Subset
      <3> QED  BY <1>1, <1>5, <3>4
    <2> QED  BY <2>1
  <1>8. \A i, j \in D : i # j => i \in E(j) \/ j \in E(i)
    BY <1>1, <1>2, <1>3
  <1>9. \A i, j \in D : rank[i] = rank[j] => i = j
    <2>1. \A i \in D : rank[i] \in Nat
      BY <1>1, <1>7
    <2> HIDE DEF rank
    <2> QED  BY <1>6, <1>8, <2>1
  <1>10. rank \in Injection(D, D)
    <2> HIDE DEF rank
    <2> QED  BY <1>7, <1>9, Fun_IsInj
  <1>11. rank \in Surjection(D, D)
    BY <1>1, <1>10, FS_Injection
  <1>12. \A n \in D : p[n] \in D /\ rank[p[n]] = n
    <2> SUFFICES ASSUME NEW n \in D PROVE p[n] \in D /\ rank[p[n]] = n
      OBVIOUS
    <2>1. PICK j \in D : rank[j] = n
      BY <1>11 DEF Surjection
    <2>2. Cardinality(E(j)) = n - 1
      BY <1>1, <1>5, <2>1
    <2>3. p[n] \in D /\ Cardinality(E(p[n])) = n - 1
      BY <2>2
    <2> QED  BY <1>1, <2>3
  <1> HIDE DEF rank
  <1>13. p \in Bijection(D, D)
    <2>1. p \in [D -> D]
      BY <1>12
    <2>2. \A k, l \in D : p[k] = p[l] => k = l
      BY <1>12
    <2>3. \A j \in D : rank[j] \in D /\ p[rank[j]] = j
      BY <1>7, <1>9, <1>12
    <2> HIDE DEF p
    <2> QED  BY <2>1, <2>2, <2>3, Fun_IsBij
  <1>14. Sorted(s) = [n \in D |-> s[p[n]]]
    BY DEF Sorted, D, E
  <1>15. \A k, l \in D : k < l => StartAt(s, p[k]) <= StartAt(s, p[l])
    <2> SUFFICES ASSUME NEW k \in D, NEW l \in D, k < l
                 PROVE  StartAt(s, p[k]) <= StartAt(s, p[l])
      OBVIOUS
    <2>1. p[k] \in D /\ p[l] \in D /\ rank[p[k]] = k /\ rank[p[l]] = l
      BY <1>12
    <2> HIDE DEF p
    <2>2. ~(p[l] \in E(p[k]))
      <3> SUFFICES ASSUME p[l] \in E(p[k]) PROVE FALSE
        OBVIOUS
      <3>1. l < k
        BY <1>6, <2>1
      <3> QED  BY <1>1, <3>1
    <2> QED  BY <1>2, <1>3, <2>1, <2>2
  <1> HIDE DEF p
  <1> QED  BY <1>13, <1>14, <1>15 DEF D

-----------------------------------------------------------------------------
(* The walk with a cursor, for any list of intervals                       *)

\* The intervals st[k]..en[k] follow each other from lo to hi without a gap.
Chained(st, en, n, lo, hi) ==
    /\ st[1] = lo /\ en[n] = hi
    /\ \A k \in 2..n : st[k] = en[k - 1] + 1

\* Then they cover lo..hi once ...
LEMMA ChainCovers ==
    ASSUME NEW n \in Nat \ {0}, NEW st \in [1..n -> Nat], NEW en \in [1..n -> Nat],
           \A k \in 1..n : st[k] <= en[k],
           NEW lo \in Nat, NEW hi \in Nat, Chained(st, en, n, lo, hi)
    PROVE  /\ \A a \in lo..hi : \E k \in 1..n : a \in st[k]..en[k]
           /\ \A k, l \in 1..n : k < l => en[k] < st[l]
           /\ \A k \in 1..n : lo <= st[k] /\ en[k] <= hi
  <1>0. \A k \in 1..n : st[k] \in Nat /\ en[k] \in Nat
    OBVIOUS
  <1>1. ASSUME NEW k \in 1..n
        PROVE  \A l \in 1..n : k < l => en[k] < st[l]
    <2> DEFINE Wrong == {l \in 1..n : k < l /\ st[l] <= en[k]}
    <2> SUFFICES ASSUME Wrong # {} PROVE FALSE
      <3>1. ASSUME NEW l \in 1..n, k < l, Wrong = {}
            PROVE  en[k] < st[l]
        <4>1. st[l] \in Nat /\ en[k] \in Nat /\ ~(st[l] <= en[k])
          BY <1>0, <3>1
        <4> QED  BY <4>1
      <3> QED  BY <3>1
    <2>1. PICK l \in Wrong : \A m \in Wrong : l <= m
      <3>1. Wrong \in SUBSET Nat
        OBVIOUS
      <3> QED  BY <3>1, LeastOne
    <2>2. l \in 2..n /\ l - 1 \in 1..n /\ st[l] = en[l - 1] + 1
      BY <2>1 DEF Chained
    <2>3. CASE l - 1 = k
      BY <2>1, <2>2, <2>3
    <2>4. CASE l - 1 # k
      <3>1. k < l - 1 /\ l - 1 \notin Wrong
        BY <2>1, <2>2, <2>4
      <3>2. en[k] < st[l - 1] /\ st[l - 1] <= en[l - 1]
        BY <2>2, <3>1
      <3> QED  BY <2>1, <2>2, <3>2
    <2> QED  BY <2>3, <2>4
  <1>2. ASSUME NEW k \in 1..n
        PROVE  lo <= st[k] /\ en[k] <= hi
    <2>1. 1 \in 1..n /\ n \in 1..n /\ st[1] = lo /\ en[n] = hi
      BY DEF Chained
    <2>2. k = 1 \/ en[1] < st[k]
      BY <1>1, <2>1
    <2>3. k = n \/ en[k] < st[n]
      BY <1>1, <2>1
    <2> QED  BY <2>1, <2>2, <2>3
  <1>3. ASSUME NEW a \in lo..hi
        PROVE  \E k \in 1..n : a \in st[k]..en[k]
    <2> DEFINE Reach == {k \in 1..n : a <= en[k]}
    <2>1. n \in Reach /\ Reach \in SUBSET Nat
      BY DEF Chained
    <2>2. PICK k \in Reach : \A l \in Reach : k <= l
      BY <2>1, LeastOne
    <2>3. st[k] <= a
      <3>1. CASE k = 1
        BY <3>1 DEF Chained
      <3>2. CASE k # 1
        <4>1. k \in 2..n /\ k - 1 \in 1..n /\ k - 1 \notin Reach
          BY <2>2, <3>2
        <4>2. en[k - 1] < a
          BY <4>1
        <4> QED  BY <4>1, <4>2 DEF Chained
      <3> QED  BY <3>1, <3>2
    <2> QED  BY <2>3
  <1> QED  BY <1>1, <1>2, <1>3

\* ... and intervals that cover it once, in the order of their starts, are a chain.
Covering(st, en, n, lo, hi) ==
    /\ \A k \in 1..n : st[k] <= en[k] /\ lo <= st[k] /\ en[k] <= hi
    /\ \A a \in lo..hi : \E k \in 1..n : a \in st[k]..en[k]
    /\ \A k, l \in 1..n : \A a \in lo..hi : a \in st[k]..en[k] /\ a \in st[l]..en[l] => k = l

\* ... and intervals in rising order that cover lo..hi once follow each other.
LEMMA CoverChains ==
    ASSUME NEW n \in Nat \ {0}, NEW st \in [1..n -> Nat], NEW en \in [1..n -> Nat],
           NEW lo \in Nat, NEW hi \in Nat, lo <= hi, Covering(st, en, n, lo, hi),
           \A k, l \in 1..n : k < l => st[k] <= st[l]
    PROVE  Chained(st, en, n, lo, hi)
  <1>0. \A k \in 1..n : /\ st[k] \in Nat /\ en[k] \in Nat
                         /\ st[k] <= en[k] /\ lo <= st[k] /\ en[k] <= hi
    BY DEF Covering
  <1>1. \A k, l \in 1..n : k < l => en[k] < st[l]
    <2> SUFFICES ASSUME NEW k \in 1..n, NEW l \in 1..n, k < l, st[l] <= en[k]
                 PROVE  FALSE
      BY <1>0
    <2>1. /\ st[k] \in Nat /\ en[k] \in Nat /\ st[l] \in Nat /\ en[l] \in Nat
          /\ st[k] <= st[l] /\ st[l] <= en[l] /\ lo <= st[l] /\ en[l] <= hi
      BY <1>0
    <2>2. st[l] \in st[k]..en[k] /\ st[l] \in st[l]..en[l] /\ st[l] \in lo..hi
      BY <2>1
    <2> QED  BY <2>2 DEF Covering
  <1>2. st[1] = lo
    <2>1. PICK k \in 1..n : lo \in st[k]..en[k]
      BY DEF Covering
    <2>2. st[1] <= st[k] /\ st[1] \in Nat /\ st[k] \in Nat /\ en[k] \in Nat /\ lo <= st[1]
      BY <1>0
    <2> QED  BY <2>1, <2>2
  <1>3. en[n] = hi
    <2>1. PICK k \in 1..n : hi \in st[k]..en[k]
      BY DEF Covering
    <2>2. /\ k = n \/ en[k] < st[n]
          /\ st[k] \in Nat /\ en[k] \in Nat /\ st[n] \in Nat /\ en[n] \in Nat
          /\ st[n] <= en[n] /\ en[n] <= hi
      BY <1>0, <1>1
    <2> QED  BY <2>1, <2>2
  <1>4. ASSUME NEW k \in 2..n
        PROVE  st[k] = en[k - 1] + 1
    <2> DEFINE j == k - 1
               a == en[j] + 1
    <2>1. /\ j \in 1..n /\ k \in 1..n /\ k = j + 1
          /\ st[j] \in Nat /\ en[j] \in Nat /\ st[k] \in Nat /\ en[k] \in Nat
          /\ lo <= st[j] /\ st[j] <= en[j] /\ en[j] < st[k] /\ st[k] <= en[k] /\ en[k] <= hi
      BY <1>0, <1>1
    <2> HIDE DEF j
    <2> SUFFICES ASSUME a < st[k] PROVE FALSE
      BY <2>1 DEF j
    <2>2. a \in lo..hi
      BY <2>1
    <2>3. PICK l \in 1..n : a \in st[l]..en[l]
      BY <2>2 DEF Covering
    <2>4. st[l] \in Nat /\ en[l] \in Nat
      BY <1>0
    <2>5. CASE l < j
      <3>1. en[l] < st[j]
        BY <1>1, <2>1, <2>5
      <3> QED  BY <2>1, <2>3, <2>4, <3>1
    <2>6. CASE l = j
      BY <2>1, <2>3, <2>4, <2>6
    <2>7. CASE k <= l
      <3>1. st[k] <= st[l]
        BY <2>1, <2>4, <2>7
      <3> QED  BY <2>1, <2>3, <2>4, <3>1
    <2>8. l < j \/ l = j \/ k <= l
      BY <2>1
    <2> QED  BY <2>5, <2>6, <2>7, <2>8
  <1> QED  BY <1>2, <1>3, <1>4 DEF Chained

-----------------------------------------------------------------------------
(* Partitions of the root, in whatever order                               *)

States == [root : Cidr, allocations : Seq(Allocation)]

\* The starts and ends of a list of allocations.
Starts(t) == [k \in DOMAIN t |-> Start(t[k].cidr)]
Ends(t) == [k \in DOMAIN t |-> End(t[k].cidr)]
Covers(state, t) == Covering(Starts(t), Ends(t), Len(t), Start(state.root), End(state.root))

\* The starts and ends of a list of allocations.
LEMMA ListIs ==
    ASSUME NEW t \in Seq(Allocation)
    PROVE  /\ DOMAIN t = 1..Len(t) /\ Len(t) \in Nat
           /\ \A k \in 1..Len(t) :
                 /\ t[k] \in Allocation /\ t[k].cidr \in Cidr
                 /\ Starts(t)[k] = Start(t[k].cidr) /\ Ends(t)[k] = End(t[k].cidr)
                 /\ Starts(t)[k] \in Nat /\ Ends(t)[k] \in Nat /\ Starts(t)[k] <= Ends(t)[k]
                 /\ Starts(t)[k]..Ends(t)[k] = Addresses(t[k].cidr)
           /\ Starts(t) \in [1..Len(t) -> Nat] /\ Ends(t) \in [1..Len(t) -> Nat]
  <1>1. DOMAIN t = 1..Len(t) /\ Len(t) \in Nat
    OBVIOUS
  <1>2. ASSUME NEW k \in 1..Len(t)
        PROVE  /\ t[k] \in Allocation /\ t[k].cidr \in Cidr
               /\ Starts(t)[k] = Start(t[k].cidr) /\ Ends(t)[k] = End(t[k].cidr)
               /\ Starts(t)[k] \in Nat /\ Ends(t)[k] \in Nat /\ Starts(t)[k] <= Ends(t)[k]
               /\ Starts(t)[k]..Ends(t)[k] = Addresses(t[k].cidr)
    <2>1. t[k] \in Allocation
      BY ElementOfSeq
    <2>2. t[k].cidr \in Cidr
      BY <2>1 DEF Allocation
    <2>3. Starts(t)[k] = Start(t[k].cidr) /\ Ends(t)[k] = End(t[k].cidr)
      BY DEF Starts, Ends
    <2>4. /\ Start(t[k].cidr) \in Nat /\ End(t[k].cidr) \in Nat
          /\ Start(t[k].cidr) <= t[k].cidr.address /\ t[k].cidr.address <= End(t[k].cidr)
          /\ Addresses(t[k].cidr) = Start(t[k].cidr)..End(t[k].cidr)
      BY <2>2, BlockIs
    <2>5. t[k].cidr.address \in Nat
      BY <2>2, PowerPositive, BitsAssumption DEF Cidr, Address
    <2> QED  BY <2>1, <2>2, <2>3, <2>4, <2>5
  <1>3. Starts(t) \in [1..Len(t) -> Nat] /\ Ends(t) \in [1..Len(t) -> Nat]
    BY <1>1, <1>2 DEF Starts, Ends
  <1> QED  BY <1>1, <1>2, <1>3

\* The addresses are those of Bits bits.
LEMMA AddressIs == Address = 0..(2^Bits - 1) /\ 2^Bits \in Nat \ {0}
  BY PowerPositive, BitsAssumption DEF Address

\* To cover the root in the order of a permutation is to partition it.
LEMMA CoversIsPartition ==
    ASSUME NEW state \in States, NEW p \in Bijection(DOMAIN state.allocations, DOMAIN state.allocations),
           NEW t, t = [n \in DOMAIN state.allocations |-> state.allocations[p[n]]]
    PROVE  Covers(state, t) <=> Partitions(state)
  <1> DEFINE s == state.allocations
             lo == Start(state.root)
             hi == End(state.root)
             n == Len(t)
  <1>0. s \in Seq(Allocation) /\ state.root \in Cidr
    BY DEF States
  <1>1. DOMAIN s = 1..Len(s) /\ Len(s) \in Nat /\ p \in [1..Len(s) -> 1..Len(s)]
    BY <1>0 DEF Bijection, Injection
  <1>2. t \in Seq(Allocation) /\ n = Len(s) /\ \A k \in 1..n : t[k] = s[p[k]]
    <2>1. \A k \in 1..Len(s) : s[p[k]] \in Allocation
      BY <1>0, <1>1, ElementOfSeq
    <2>2. t \in [1..Len(s) -> Allocation]
      BY <1>1, <2>1
    <2>3. t \in Seq(Allocation) /\ Len(t) = Len(s)
      BY <1>1, <2>2, IsASeq
    <2> QED  BY <1>1, <2>3
  <1>3. \A i \in 1..n : \E k \in 1..n : p[k] = i
    BY <1>1, <1>2 DEF Bijection, Surjection
  <1>4. \A k, l \in 1..n : p[k] = p[l] => k = l
    <2>1. p \in Injection(1..n, 1..n)
      BY <1>1, <1>2 DEF Bijection
    <2> HIDE DEF n
    <2> QED  BY <2>1 DEF Injection, IsInjective
  <1>5. /\ lo \in Nat /\ hi \in Nat /\ lo <= hi /\ hi < 2^Bits /\ Addresses(state.root) = lo..hi
    <2>1. state.root.address \in Nat
      BY <1>0, AddressIs DEF Cidr
    <2> QED  BY <1>0, <2>1, BlockIs
  <1> DEFINE O(a) == Owners(state, a)
             In(k) == Starts(t)[k]..Ends(t)[k]
  <1>6. \A k \in 1..n, a \in Address : p[k] \in O(a) <=> a \in In(k)
    <2> SUFFICES ASSUME NEW k \in 1..n, NEW a \in Address
                 PROVE  p[k] \in O(a) <=> a \in In(k)
      OBVIOUS
    <2>1. In(k) = Addresses(s[p[k]].cidr) /\ p[k] \in DOMAIN s
      BY <1>1, <1>2, ListIs
    <2> QED  BY <2>1 DEF Owners
  <1>7. \A a : O(a) \subseteq 1..n /\ IsFiniteSet(O(a))
    <2> SUFFICES ASSUME NEW a PROVE O(a) \subseteq 1..n /\ IsFiniteSet(O(a))
      OBVIOUS
    <2>1. O(a) \subseteq 1..n
      BY <1>1, <1>2 DEF Owners
    <2>2. IsFiniteSet(1..n)
      BY <1>1, <1>2, FS_Interval
    <2> QED  BY <2>1, <2>2, FS_Subset
  <1>8. Partitions(state) <=> \A a \in Address : IF a \in lo..hi THEN \E i : O(a) = {i} ELSE O(a) = {}
    <2>1. \A a : (Cardinality(O(a)) = 1 <=> \E i : O(a) = {i}) /\ (Cardinality(O(a)) = 0 <=> O(a) = {})
      BY <1>7, FS_Singleton, FS_EmptySet
    <2>2. Partitions(state) <=> \A a \in Address : Cardinality(O(a)) = IF a \in lo..hi THEN 1 ELSE 0
      BY <1>5 DEF Partitions
    <2> HIDE DEF O
    <2>3. \A a : (Cardinality(O(a)) = IF a \in lo..hi THEN 1 ELSE 0)
                 <=> IF a \in lo..hi THEN \E i : O(a) = {i} ELSE O(a) = {}
      BY <2>1
    <2> QED  BY <2>2, <2>3
  <1>9. \A k \in 1..n : /\ Starts(t)[k] \in Nat /\ Ends(t)[k] \in Nat /\ Starts(t)[k] <= Ends(t)[k]
                        /\ Ends(t)[k] < 2^Bits
    <2> SUFFICES ASSUME NEW k \in 1..n
                 PROVE  /\ Starts(t)[k] \in Nat /\ Ends(t)[k] \in Nat /\ Starts(t)[k] <= Ends(t)[k]
                        /\ Ends(t)[k] < 2^Bits
      OBVIOUS
    <2>1. t[k].cidr \in Cidr /\ Ends(t)[k] = End(t[k].cidr)
      BY <1>2, ListIs
    <2>2. End(t[k].cidr) < 2^Bits
      BY <2>1, BlockIs
    <2> QED  BY <1>2, <2>1, <2>2, ListIs
  <1> HIDE DEF O, n, lo, hi
  <1>10. ASSUME Covers(state, t)
         PROVE  Partitions(state)
    <2>1. Covering(Starts(t), Ends(t), n, lo, hi)
      BY <1>10 DEF Covers, n, lo, hi
    <2>2. ASSUME NEW a \in Address, a \in lo..hi
          PROVE  \E i : O(a) = {i}
      <3>1. PICK k \in 1..n : a \in In(k)
        BY <2>1, <2>2 DEF Covering
      <3>2. \A l \in 1..n : a \in In(l) => l = k
        BY <2>1, <2>2, <3>1 DEF Covering
      <3>3. \A i \in O(a) : i = p[k]
        BY <1>3, <1>6, <1>7, <3>2
      <3>4. O(a) = {p[k]}
        BY <1>6, <3>1, <3>3
      <3> QED  BY <3>4
    <2>3. ASSUME NEW a \in Address, a \notin lo..hi
          PROVE  O(a) = {}
      <3> SUFFICES ASSUME NEW i \in O(a) PROVE FALSE
        OBVIOUS
      <3>1. PICK k \in 1..n : p[k] = i
        BY <1>3, <1>7
      <3>2. a \in In(k)
        BY <1>6, <3>1
      <3>3. lo <= Starts(t)[k] /\ Ends(t)[k] <= hi
        BY <2>1 DEF Covering
      <3> QED  BY <1>5, <1>9, <2>3, <3>2, <3>3
    <2> QED  BY <1>8, <2>2, <2>3
  <1>11. ASSUME Partitions(state)
         PROVE  Covers(state, t)
    <2>1. \A a \in Address : IF a \in lo..hi THEN \E i : O(a) = {i} ELSE O(a) = {}
      BY <1>8, <1>11
    <2>2. \A a \in lo..hi : a \in Address
      BY <1>5, AddressIs
    <2>3. ASSUME NEW k \in 1..n
          PROVE  Starts(t)[k] <= Ends(t)[k] /\ lo <= Starts(t)[k] /\ Ends(t)[k] <= hi
      <3>1. Starts(t)[k] \in Address /\ Ends(t)[k] \in Address
        BY <1>5, <1>9, AddressIs
      <3>2. Starts(t)[k] \in In(k) /\ Ends(t)[k] \in In(k)
        BY <1>9
      <3>3. Starts(t)[k] \in lo..hi /\ Ends(t)[k] \in lo..hi
        BY <1>6, <2>1, <3>1, <3>2
      <3> QED  BY <1>9, <3>3, <1>5
    <2>4. ASSUME NEW a \in lo..hi
          PROVE  \E k \in 1..n : a \in In(k)
      <3>1. PICK i : O(a) = {i}
        BY <2>1, <2>2
      <3>2. PICK k \in 1..n : p[k] = i
        BY <1>3, <1>7, <3>1
      <3> QED  BY <1>6, <2>2, <3>1, <3>2
    <2>5. ASSUME NEW k \in 1..n, NEW l \in 1..n, NEW a \in lo..hi, a \in In(k), a \in In(l)
          PROVE  k = l
      <3>1. PICK i : O(a) = {i}
        BY <2>1, <2>2
      <3>2. p[k] \in O(a) /\ p[l] \in O(a)
        BY <1>6, <2>2, <2>5
      <3> QED  BY <1>4, <3>1, <3>2
    <2>6. Covering(Starts(t), Ends(t), n, lo, hi)
      BY <2>3, <2>4, <2>5 DEF Covering
    <2> QED  BY <2>6 DEF Covers, n, lo, hi
  <1> QED  BY <1>10, <1>11

-----------------------------------------------------------------------------
(* validatePartition accepts exactly the partitions                        *)

\* The sorted list has the allocations of the list, and each as often.
LEMMA SortKeeps ==
    ASSUME NEW s \in Seq(Allocation)
    PROVE  /\ Sorted(s) \in Seq(Allocation) /\ Len(Sorted(s)) = Len(s)
           /\ Range(Sorted(s)) = Range(s)
  <1>1. PICK p \in Bijection(DOMAIN s, DOMAIN s) : Sorted(s) = [n \in DOMAIN s |-> s[p[n]]]
    BY SortedIs
  <1>2. DOMAIN s = 1..Len(s) /\ Len(s) \in Nat /\ p \in [1..Len(s) -> 1..Len(s)]
    BY DEF Bijection, Injection
  <1>3. \A i \in 1..Len(s) : \E k \in 1..Len(s) : p[k] = i
    BY <1>2 DEF Bijection, Surjection
  <1>4. Sorted(s) \in [1..Len(s) -> Allocation]
    <2>1. \A k \in 1..Len(s) : s[p[k]] \in Allocation
      BY <1>2, ElementOfSeq
    <2> QED  BY <1>1, <1>2, <2>1
  <1>5. Sorted(s) \in Seq(Allocation) /\ Len(Sorted(s)) = Len(s)
    BY <1>2, <1>4, IsASeq
  <1>6. Range(Sorted(s)) = Range(s)
    <2>1. \A k \in 1..Len(s) : Sorted(s)[k] = s[p[k]] /\ p[k] \in 1..Len(s)
      BY <1>1, <1>2
    <2>2. Range(Sorted(s)) = {s[p[k]] : k \in 1..Len(s)}
      BY <1>1, <1>2 DEF Range
    <2>3. Range(s) = {s[i] : i \in 1..Len(s)}
      BY <1>2 DEF Range
    <2>4. \A i \in 1..Len(s) : s[i] \in Range(Sorted(s))
      <3> SUFFICES ASSUME NEW i \in 1..Len(s) PROVE s[i] \in Range(Sorted(s))
        OBVIOUS
      <3>1. PICK k \in 1..Len(s) : p[k] = i
        BY <1>3
      <3> QED  BY <2>2, <3>1
    <2>5. \A k \in 1..Len(s) : s[p[k]] \in Range(s)
      BY <2>1, <2>3
    <2> QED  BY <2>2, <2>3, <2>4, <2>5
  <1> QED  BY <1>5, <1>6

\* What a state is made of.
LEMMA StateIs ==
    ASSUME NEW state \in States
    PROVE  /\ state.root \in Cidr /\ state.allocations \in Seq(Allocation)
           /\ \A leaf \in Leaves(state) : leaf \in Allocation /\ leaf.cidr \in Cidr
  <1>1. state.root \in Cidr /\ state.allocations \in Seq(Allocation)
    BY DEF States
  <1>2. \A leaf \in Leaves(state) : leaf \in Allocation
    BY <1>1, ElementOfSeq DEF Leaves, Range
  <1> QED  BY <1>1, <1>2 DEF Allocation

\* What the walk with the cursor accepts.
LEMMA WalkIs ==
    ASSUME NEW state \in States, NEW t, t = Sorted(state.allocations), Len(t) # 0
    PROVE  ValidPartition(state) <=>
              /\ CanonicalNames(state)
              /\ Chained(Starts(t), Ends(t), Len(t), Start(state.root), End(state.root))
              /\ \A k \in 1..Len(t) : End(t[k].cidr) <= End(state.root) /\ state.root.prefix <= t[k].cidr.prefix
  <1> DEFINE n == Len(t)
             lo == Start(state.root)
             hi == End(state.root)
             Cur(i) == Cursor(state, t, i)
  <1>1. t \in Seq(Allocation) /\ Range(t) = Leaves(state) /\ DOMAIN t = 1..n /\ n \in Nat \ {0}
    BY StateIs, SortKeeps DEF Leaves
  <1>2. /\ \A k \in 1..n : t[k].cidr \in Cidr /\ Starts(t)[k] = Start(t[k].cidr) /\ Ends(t)[k] = End(t[k].cidr)
        /\ \A k \in 1..n : Ends(t)[k] \in Nat
        /\ lo \in Nat /\ hi \in Nat
    BY <1>1, ListIs, StateIs, BlockIs
  <1>3. CanonicalNames(state) <=> Canonical(state.root) = state.root /\ \A k \in 1..n : Canonical(t[k].cidr) = t[k].cidr
    <2>1. \A c \in Cidr : Canonical(c) = c <=> c.address % Size(c) = 0
      BY BlockIs
    <2>2. Range(t) = {t[k] : k \in 1..n}
      BY <1>1 DEF Range
    <2>3. {state.root} \cup {leaf.cidr : leaf \in Leaves(state)} = {state.root} \cup {t[k].cidr : k \in 1..n}
      BY <1>1, <2>2
    <2> QED  BY <1>2, <2>1, <2>3, StateIs DEF CanonicalNames
  <1>4. /\ Cur(1) = lo
        /\ \A k \in 2..(n + 1) : Cur(k) = Ends(t)[k - 1] + 1
    <2>1. \A k \in 2..(n + 1) : k # 1 /\ k - 1 \in 1..n
      BY <1>1
    <2> QED  BY <1>2, <2>1 DEF Cursor
  <1>5. Chained(Starts(t), Ends(t), n, lo, hi)
        <=> (\A k \in 1..n : Starts(t)[k] = Cur(k)) /\ Cur(n + 1) = hi + 1
    <2> HIDE DEF Cur, n, lo, hi
    <2>1. 1 \in 1..n /\ n + 1 \in 2..(n + 1) /\ n \in 1..n /\ (n + 1) - 1 = n
      BY <1>1
    <2>2. Cur(n + 1) = Ends(t)[n] + 1
      BY <1>4, <2>1
    <2>3. Cur(n + 1) = hi + 1 <=> Ends(t)[n] = hi
      BY <1>2, <2>1, <2>2
    <2>4. (\A k \in 1..n : Starts(t)[k] = Cur(k))
          <=> Starts(t)[1] = lo /\ \A k \in 2..n : Starts(t)[k] = Ends(t)[k - 1] + 1
      <3>1. \A k \in 1..n : k = 1 \/ k \in 2..n
        BY <1>1
      <3>2. \A k \in 2..n : k \in 1..n /\ k \in 2..(n + 1)
        BY <1>1
      <3> QED  BY <1>4, <2>1, <3>1, <3>2
    <2> QED  BY <2>3, <2>4 DEF Chained
  <1>6. ValidPartition(state) <=>
           /\ Canonical(state.root) = state.root
           /\ \A k \in 1..n : /\ Canonical(t[k].cidr) = t[k].cidr /\ Starts(t)[k] = Cur(k)
                              /\ End(t[k].cidr) <= hi /\ t[k].cidr.prefix >= state.root.prefix
           /\ Cur(n + 1) = hi + 1
    BY <1>1, <1>2 DEF ValidPartition, LeafFits
  <1>7. \A k \in 1..n : t[k].cidr.prefix >= state.root.prefix <=> state.root.prefix <= t[k].cidr.prefix
    <2>1. state.root.prefix \in Nat /\ \A k \in 1..n : t[k].cidr.prefix \in Nat
      BY <1>2, StateIs, BitsAssumption DEF Cidr
    <2> QED  BY <2>1
  <1> HIDE DEF Cur, n, lo, hi
  <1>8. ValidPartition(state) <=> /\ CanonicalNames(state) /\ Chained(Starts(t), Ends(t), n, lo, hi)
                                  /\ \A k \in 1..n : End(t[k].cidr) <= hi /\ state.root.prefix <= t[k].cidr.prefix
    BY <1>3, <1>5, <1>6, <1>7
  <1> QED  BY <1>8 DEF n, lo, hi

\* The walk accepts a list exactly if it partitions the root.
LEMMA ValidIs ==
    ASSUME NEW state \in States, state.allocations # <<>>
    PROVE  ValidPartition(state) <=> Partitions(state) /\ CanonicalNames(state)
  <1> DEFINE s == state.allocations
  <1>1. PICK p \in Bijection(DOMAIN s, DOMAIN s) :
           /\ Sorted(s) = [n \in DOMAIN s |-> s[p[n]]]
           /\ \A k, l \in DOMAIN s : k < l => StartAt(s, p[k]) <= StartAt(s, p[l])
    BY StateIs, SortedIs
  <1>2. PICK t : t = Sorted(s)
    OBVIOUS
  <1> DEFINE n == Len(t)
             lo == Start(state.root)
             hi == End(state.root)
  <1>3. t \in Seq(Allocation) /\ n \in Nat \ {0} /\ DOMAIN t = 1..n /\ DOMAIN s = 1..n
    <2>1. s \in Seq(Allocation) /\ Len(s) # 0
      BY StateIs, EmptySeq
    <2> QED  BY <1>2, <2>1, SortKeeps
  <1>4. Covers(state, t) <=> Partitions(state)
    BY <1>1, <1>2, CoversIsPartition
  <1>5. /\ Starts(t) \in [1..n -> Nat] /\ Ends(t) \in [1..n -> Nat]
        /\ \A k \in 1..n : /\ t[k].cidr \in Cidr /\ Starts(t)[k] <= Ends(t)[k]
                           /\ Starts(t)[k] = Start(t[k].cidr) /\ Ends(t)[k] = End(t[k].cidr)
    BY <1>3, ListIs
  <1>6. \A k, l \in 1..n : k < l => Starts(t)[k] <= Starts(t)[l]
    <2>1. \A k \in 1..n : Starts(t)[k] = StartAt(s, p[k])
      BY <1>1, <1>2, <1>3 DEF Starts, StartAt
    <2> QED  BY <1>1, <1>3, <2>1
  <1>7. state.root \in Cidr /\ lo \in Nat /\ hi \in Nat /\ lo <= hi
    <2>1. state.root \in Cidr /\ state.root.address \in Nat
      BY StateIs, AddressIs DEF Cidr
    <2> QED  BY <2>1, BlockIs
  <1> HIDE DEF n, lo, hi
  <1>8. Chained(Starts(t), Ends(t), n, lo, hi) <=> Covering(Starts(t), Ends(t), n, lo, hi)
    <2>1. ASSUME Chained(Starts(t), Ends(t), n, lo, hi)
          PROVE  Covering(Starts(t), Ends(t), n, lo, hi)
      <3> DEFINE st == Starts(t)
                 en == Ends(t)
      <3>1. /\ \A a \in lo..hi : \E k \in 1..n : a \in st[k]..en[k]
            /\ \A k, l \in 1..n : k < l => en[k] < st[l]
            /\ \A k \in 1..n : lo <= st[k] /\ en[k] <= hi
        BY <1>3, <1>5, <1>7, <2>1, ChainCovers
      <3>2. ASSUME NEW k \in 1..n, NEW l \in 1..n, NEW a \in lo..hi, a \in st[k]..en[k], a \in st[l]..en[l], k < l
            PROVE  FALSE
        <4>1. st[k] \in Nat /\ en[k] \in Nat /\ st[l] \in Nat /\ en[l] \in Nat /\ a \in Nat
          BY <1>5, <1>7
        <4>2. a <= en[k] /\ st[l] <= a /\ en[k] < st[l]
          BY <3>1, <3>2, <4>1
        <4> QED  BY <4>1, <4>2
      <3>3. \A k, l \in 1..n : k = l \/ k < l \/ l < k
        BY <1>3
      <3> QED  BY <1>5, <3>1, <3>2, <3>3 DEF Covering
    <2>2. ASSUME Covering(Starts(t), Ends(t), n, lo, hi)
          PROVE  Chained(Starts(t), Ends(t), n, lo, hi)
      BY <1>3, <1>5, <1>6, <1>7, <2>2, CoverChains
    <2> QED  BY <2>1, <2>2
  <1>9. ASSUME Covering(Starts(t), Ends(t), n, lo, hi), NEW k \in 1..n
        PROVE  End(t[k].cidr) <= hi /\ state.root.prefix <= t[k].cidr.prefix
    <2> DEFINE c == t[k].cidr
               r == state.root
    <2>1. lo <= Start(c) /\ End(c) <= hi
      BY <1>5, <1>9 DEF Covering
    <2>2. c \in Cidr /\ r \in Cidr
      BY <1>5, <1>7
    <2>3. /\ Size(c) \in Nat /\ Size(r) \in Nat /\ Start(c) \in Nat /\ End(c) \in Nat
          /\ End(c) + 1 = Start(c) + Size(c) /\ hi + 1 = lo + Size(r)
      BY <2>2, BlockIs DEF lo, hi
    <2>4. Size(c) <= Size(r)
      BY <1>7, <2>1, <2>3
    <2>5. c.prefix \in Nat /\ r.prefix \in Nat
      BY <2>2, BitsAssumption DEF Cidr
    <2>6. ~(c.prefix < r.prefix)
      <3> SUFFICES ASSUME c.prefix < r.prefix PROVE FALSE
        OBVIOUS
      <3>1. Size(r) < Size(c)
        BY <2>2, LongerIsSmaller
      <3> QED  BY <2>3, <2>4, <3>1
    <2> QED  BY <2>1, <2>5, <2>6
  <1>10. Covers(state, t) <=> Covering(Starts(t), Ends(t), n, lo, hi)
    BY DEF Covers, n, lo, hi
  <1>11. ValidPartition(state) <=>
                /\ CanonicalNames(state)
                /\ Chained(Starts(t), Ends(t), n, lo, hi)
                /\ \A k \in 1..n : End(t[k].cidr) <= hi /\ state.root.prefix <= t[k].cidr.prefix
    BY <1>2, <1>3, WalkIs DEF n, lo, hi
  <1> QED  BY <1>4, <1>8, <1>9, <1>10, <1>11

-----------------------------------------------------------------------------
(* A list that is sorted once stays as it is                               *)

\* A list whose blocks follow each other.
Rising(t) == \A k, l \in 1..Len(t) : k < l => Start(t[k].cidr) < Start(t[l].cidr)

\* A rising list is known by its members.
LEMMA OneOrder ==
    ASSUME NEW t \in Seq(Allocation), NEW u \in Seq(Allocation),
           Len(t) = Len(u), Range(t) = Range(u), Rising(t), Rising(u)
    PROVE  t = u
  <1> DEFINE Wrong == {k \in 1..Len(t) : t[k] # u[k]}
  <1> SUFFICES ASSUME Wrong # {} PROVE FALSE
    BY SeqEqual
  <1>1. PICK k \in Wrong : \A l \in Wrong : k <= l
    <2>1. Wrong \in SUBSET Nat
      OBVIOUS
    <2> QED  BY <2>1, LeastOne
  <1>2. /\ \A x \in Range(t) : \E i \in 1..Len(t) : x = t[i]
        /\ \A x \in Range(u) : \E i \in 1..Len(t) : x = u[i]
        /\ \A i \in 1..Len(t) : t[i] \in Range(t) /\ u[i] \in Range(u)
    BY RangeEquality
  <1>3. PICK j \in 1..Len(t) : t[k] = u[j]
    BY <1>2
  <1>4. PICK i \in 1..Len(t) : u[k] = t[i]
    BY <1>2
  <1>5. \A l \in 1..Len(t) : Start(t[l].cidr) \in Nat /\ Start(u[l].cidr) \in Nat
    BY ListIs
  <1>6. k < j
    <2>1. j # k
      BY <1>3
    <2>2. ~(j < k)
      <3> SUFFICES ASSUME j < k PROVE FALSE
        OBVIOUS
      <3>1. t[j] = u[j]
        BY <1>1
      <3>2. Start(t[j].cidr) < Start(t[k].cidr)
        BY DEF Rising
      <3> QED  BY <1>3, <1>5, <3>1, <3>2
    <2> QED  BY <2>1, <2>2
  <1>7. k < i
    <2>1. i # k
      BY <1>4
    <2>2. ~(i < k)
      <3> SUFFICES ASSUME i < k PROVE FALSE
        OBVIOUS
      <3>1. t[i] = u[i]
        BY <1>1
      <3>2. Start(u[i].cidr) < Start(u[k].cidr)
        BY DEF Rising
      <3> QED  BY <1>4, <1>5, <3>1, <3>2
    <2> QED  BY <2>1, <2>2
  <1>8. Start(u[k].cidr) < Start(u[j].cidr) /\ Start(t[k].cidr) < Start(t[i].cidr)
    BY <1>6, <1>7 DEF Rising
  <1> QED  BY <1>3, <1>4, <1>5, <1>8

\* A rising list is sorted already.
LEMMA SortedRising ==
    ASSUME NEW t \in Seq(Allocation), Rising(t)
    PROVE  Sorted(t) = t
  <1>1. PICK p \in Bijection(DOMAIN t, DOMAIN t) :
                /\ Sorted(t) = [n \in DOMAIN t |-> t[p[n]]]
                /\ \A k, l \in DOMAIN t : k < l => StartAt(t, p[k]) <= StartAt(t, p[l])
    BY SortedIs
  <1>2. DOMAIN t = 1..Len(t) /\ Len(t) \in Nat /\ p \in [1..Len(t) -> 1..Len(t)]
    BY DEF Bijection, Injection
  <1>3. \A k, l \in 1..Len(t) : p[k] = p[l] => k = l
    BY <1>2 DEF Bijection, Injection, IsInjective
  <1>4. Sorted(t) \in Seq(Allocation) /\ Len(Sorted(t)) = Len(t) /\ Range(Sorted(t)) = Range(t)
    BY SortKeeps
  <1>5. ASSUME NEW k \in 1..Len(t), NEW l \in 1..Len(t), k < l
        PROVE  Start(Sorted(t)[k].cidr) < Start(Sorted(t)[l].cidr)
    <2>1. Sorted(t)[k] = t[p[k]] /\ Sorted(t)[l] = t[p[l]] /\ p[k] \in 1..Len(t) /\ p[l] \in 1..Len(t)
      BY <1>1, <1>2
    <2>2. StartAt(t, p[k]) <= StartAt(t, p[l])
      BY <1>1, <1>2, <1>5
    <2>3. p[k] < p[l] \/ p[l] < p[k]
      BY <1>3, <1>5, <2>1
    <2>4. Start(t[p[k]].cidr) \in Nat /\ Start(t[p[l]].cidr) \in Nat
      BY <2>1, ListIs
    <2> QED  BY <2>1, <2>2, <2>3, <2>4 DEF Rising, StartAt
  <1>6. Rising(Sorted(t))
    BY <1>4, <1>5 DEF Rising
  <1> QED  BY <1>4, <1>6, OneOrder

\* The allocations of a valid list are sorted into blocks that follow each other.
LEMMA ValidRises ==
    ASSUME NEW state \in States, state.allocations # <<>>, ValidPartition(state)
    PROVE  Rising(Sorted(state.allocations))
  <1>1. PICK t : t = Sorted(state.allocations)
    OBVIOUS
  <1>2. t \in Seq(Allocation) /\ Len(t) \in Nat \ {0}
    <2>1. state.allocations \in Seq(Allocation) /\ Len(state.allocations) # 0
      BY StateIs, EmptySeq
    <2> QED  BY <1>1, <2>1, SortKeeps
  <1>3. Chained(Starts(t), Ends(t), Len(t), Start(state.root), End(state.root))
    BY <1>1, <1>2, WalkIs
  <1>4. /\ Starts(t) \in [1..Len(t) -> Nat] /\ Ends(t) \in [1..Len(t) -> Nat]
        /\ \A k \in 1..Len(t) : /\ Starts(t)[k] <= Ends(t)[k] /\ Starts(t)[k] = Start(t[k].cidr)
                                /\ Starts(t)[k] \in Nat /\ Ends(t)[k] \in Nat
    BY <1>2, ListIs
  <1>5. Start(state.root) \in Nat /\ End(state.root) \in Nat
    BY StateIs, BlockIs
  <1>6. \A k, l \in 1..Len(t) : k < l => Ends(t)[k] < Starts(t)[l]
    BY <1>2, <1>3, <1>4, <1>5, ChainCovers
  <1>7. ASSUME NEW k \in 1..Len(t), NEW l \in 1..Len(t), k < l
        PROVE  Start(t[k].cidr) < Start(t[l].cidr)
    BY <1>4, <1>6, <1>7
  <1> QED  BY <1>1, <1>7 DEF Rising

\* What Checked keeps of a valid state is a valid state with the same leaves.
LEMMA KeptIs ==
    ASSUME NEW state \in States, state.allocations # <<>>, ValidPartition(state)
    PROVE  /\ InOrder(state) \in States /\ InOrder(state).root = state.root
           /\ Leaves(InOrder(state)) = Leaves(state)
           /\ Len(InOrder(state).allocations) = Len(state.allocations)
           /\ ValidPartition(InOrder(state)) /\ Rising(InOrder(state).allocations)
  <1>1. PICK t : t = Sorted(state.allocations)
    OBVIOUS
  <1>2. t \in Seq(Allocation) /\ Len(t) = Len(state.allocations) /\ Range(t) = Range(state.allocations)
    BY <1>1, StateIs, SortKeeps
  <1>3. InOrder(state) \in States /\ InOrder(state).root = state.root /\ InOrder(state).allocations = t
    BY <1>1, <1>2 DEF InOrder, States
  <1>4. Rising(t) /\ Sorted(t) = t
    BY <1>1, <1>2, ValidRises, SortedRising
  <1>5. ValidPartition(InOrder(state))
    BY <1>1, <1>3, <1>4 DEF ValidPartition, LeafFits, Cursor
  <1> QED  BY <1>2, <1>3, <1>4, <1>5 DEF Leaves

-----------------------------------------------------------------------------
(* The bytes of a state, a result and its parts are numbers                *)

\* The sums that SumFunctionOnSet goes through, set by set.
Adds(g, f, S) ==
    /\ g = [s \in SUBSET S |-> g[s]]
    /\ \A s \in SUBSET S :
          g[s] = IF s = {} THEN 0 ELSE f[CHOOSE x \in s : TRUE] + g[s \ {CHOOSE x \in s : TRUE}]
\* For the sets of at most n elements.
AddsTo(g, f, S, n) ==
    \A s \in SUBSET S : Cardinality(s) <= n =>
        g[s] = IF s = {} THEN 0 ELSE f[CHOOSE x \in s : TRUE] + g[s \ {CHOOSE x \in s : TRUE}]

\* The element taken from a set is one of it, and one fewer are left.
LEMMA OneLess ==
    ASSUME NEW S, IsFiniteSet(S), NEW s \in SUBSET S, NEW x \in s
    PROVE  /\ s \ {x} \in SUBSET S /\ IsFiniteSet(s) /\ IsFiniteSet(s \ {x})
           /\ Cardinality(s) \in Nat \ {0} /\ Cardinality(s \ {x}) = Cardinality(s) - 1
  <1>1. IsFiniteSet(s)
    BY FS_Subset
  <1>2. IsFiniteSet(s \ {x}) /\ Cardinality(s \ {x}) = Cardinality(s) - 1
    BY <1>1, FS_RemoveElement
  <1>3. Cardinality(s) \in Nat /\ Cardinality(s \ {x}) \in Nat
    BY <1>1, <1>2, FS_CardinalityType
  <1> QED  BY <1>1, <1>2, <1>3

\* There are such sums.
LEMMA AddsExist ==
    ASSUME NEW f, NEW S, IsFiniteSet(S)
    PROVE  \E g : Adds(g, f, S)
  <1> DEFINE one(s) == CHOOSE x \in s : TRUE
             Bad == {n \in Nat : ~ \E g : AddsTo(g, f, S, n)}
  <1>0. \A s \in SUBSET S : s # {} => one(s) \in s
    OBVIOUS
  <1> HIDE DEF one
  <1>1. Bad = {}
    <2> SUFFICES ASSUME Bad # {} PROVE FALSE
      OBVIOUS
    <2>1. PICK k \in Bad : \A n \in Bad : k <= n
      BY LeastOne
    <2>2. k # 0
      <3>1. \A s \in SUBSET S : Cardinality(s) <= 0 => s = {}
        BY FS_Subset, FS_EmptySet, FS_CardinalityType
      <3>2. AddsTo([s \in SUBSET S |-> 0], f, S, 0)
        BY <3>1 DEF AddsTo
      <3> QED  BY <2>1, <3>2
    <2>3. k \in Nat /\ k - 1 \in Nat /\ ~(k <= k - 1)
      BY <2>2
    <2>4. PICK g : AddsTo(g, f, S, k - 1)
      BY <2>1, <2>3
    <2> DEFINE h == [s \in SUBSET S |-> IF Cardinality(s) <= k - 1 THEN g[s]
                                        ELSE f[one(s)] + g[s \ {one(s)}]]
    <2>5. ASSUME NEW s \in SUBSET S, Cardinality(s) <= k
          PROVE  h[s] = IF s = {} THEN 0 ELSE f[one(s)] + h[s \ {one(s)}]
      <3>1. CASE s = {}
        <4>1. Cardinality(s) <= k - 1
          BY <2>3, <3>1, FS_EmptySet
        <4>2. g[s] = 0
          BY <2>4, <3>1, <4>1 DEF AddsTo
        <4> QED  BY <3>1, <4>1, <4>2
      <3>2. CASE s # {}
        <4>1. one(s) \in s
          BY <1>0, <3>2
        <4>2. s \ {one(s)} \in SUBSET S /\ Cardinality(s) \in Nat \ {0}
            /\ Cardinality(s \ {one(s)}) = Cardinality(s) - 1
          BY <4>1, OneLess
        <4>3. Cardinality(s \ {one(s)}) <= k - 1
          BY <2>3, <2>5, <4>2
        <4>4. h[s \ {one(s)}] = g[s \ {one(s)}]
          BY <4>2, <4>3
        <4>5. h[s] = f[one(s)] + g[s \ {one(s)}]
          <5>1. CASE Cardinality(s) <= k - 1
            <6>1. g[s] = f[one(s)] + g[s \ {one(s)}]
              BY <2>4, <3>2, <5>1 DEF AddsTo, one
            <6> QED  BY <5>1, <6>1
          <5>2. CASE ~(Cardinality(s) <= k - 1)
            BY <5>2
          <5> QED  BY <5>1, <5>2
        <4> QED  BY <3>2, <4>4, <4>5
      <3> QED  BY <3>1, <3>2
    <2> HIDE DEF h
    <2>6. AddsTo(h, f, S, k)
      BY <2>5 DEF AddsTo, one
    <2> QED  BY <2>1, <2>6
  <1>2. Cardinality(S) \in Nat
    BY FS_CardinalityType
  <1>3. PICK g : AddsTo(g, f, S, Cardinality(S))
    BY <1>1, <1>2
  <1> DEFINE h == [s \in SUBSET S |-> g[s]]
  <1>4. \A s \in SUBSET S : Cardinality(s) <= Cardinality(S)
    BY FS_Subset
  <1>5. \A s \in SUBSET S : h[s] = IF s = {} THEN 0 ELSE f[one(s)] + h[s \ {one(s)}]
    <2> SUFFICES ASSUME NEW s \in SUBSET S PROVE h[s] = IF s = {} THEN 0 ELSE f[one(s)] + h[s \ {one(s)}]
      OBVIOUS
    <2>1. g[s] = IF s = {} THEN 0 ELSE f[one(s)] + g[s \ {one(s)}]
      BY <1>3, <1>4 DEF AddsTo, one
    <2>2. s \ {one(s)} \in SUBSET S
      OBVIOUS
    <2> QED  BY <2>1, <2>2
  <1>6. h = [s \in SUBSET S |-> h[s]]
    OBVIOUS
  <1> HIDE DEF h
  <1>7. Adds(h, f, S)
    BY <1>5, <1>6 DEF Adds, one
  <1> QED  BY <1>7

\* The sum of some terms.
Sigma(f, S) == SumFunctionOnSet(f, S)

\* SumFunctionOnSet() goes through them.
LEMMA SigmaAdds ==
    ASSUME NEW f, NEW S, IsFiniteSet(S)
    PROVE  \E g : Adds(g, f, S) /\ Sigma(f, S) = g[S]
  <1> DEFINE Loop(g) == [s \in SUBSET S |-> IF s = {} THEN 0 ELSE f[CHOOSE x \in s : TRUE] + g[s \ {CHOOSE x \in s : TRUE}]]
           iter == CHOOSE g : g = Loop(g)
  <1>1. Sigma(f, S) = iter[S]
    BY DEF Sigma, SumFunctionOnSet, FoldFunctionOnSet, MapThenFoldSet
  <1>2. PICK g : Adds(g, f, S)
    BY AddsExist
  <1>3. g = Loop(g)
    BY <1>2 DEF Adds
  <1>4. iter = Loop(iter)
    <2> HIDE DEF Loop
    <2> QED  BY <1>3
  <1> HIDE DEF iter
  <1>5. Adds(iter, f, S)
    BY <1>4 DEF Adds
  <1> QED  BY <1>1, <1>5

\* A sum of numbers is one, by the smallest set of which it is not.
LEMMA SumIsNat ==
    ASSUME NEW f, NEW S, IsFiniteSet(S), \A x \in S : f[x] \in Nat
    PROVE  Sigma(f, S) \in Nat
  <1> DEFINE one(s) == CHOOSE x \in s : TRUE
             Bad(g) == {n \in Nat : \E s \in SUBSET S : Cardinality(s) = n /\ g[s] \notin Nat}
  <1>0. \A s \in SUBSET S : s # {} => one(s) \in s
    OBVIOUS
  <1> HIDE DEF one
  <1>1. PICK g : Adds(g, f, S) /\ Sigma(f, S) = g[S]
    BY SigmaAdds
  <1>2. \A s \in SUBSET S : g[s] = IF s = {} THEN 0 ELSE f[one(s)] + g[s \ {one(s)}]
    BY <1>1 DEF Adds, one
  <1>3. Bad(g) = {}
    <2> SUFFICES ASSUME Bad(g) # {} PROVE FALSE
      OBVIOUS
    <2>1. PICK k \in Bad(g) : \A n \in Bad(g) : k <= n
      BY LeastOne
    <2>2. PICK s \in SUBSET S : Cardinality(s) = k /\ g[s] \notin Nat
      BY <2>1
    <2>3. s # {} /\ one(s) \in s
      <3>1. s # {}
        <4> SUFFICES ASSUME s = {} PROVE FALSE
          OBVIOUS
        <4>1. g[s] = 0
          BY <1>2
        <4> QED  BY <2>2, <4>1
      <3> QED  BY <1>0, <3>1
    <2>4. s \ {one(s)} \in SUBSET S /\ k \in Nat \ {0} /\ Cardinality(s \ {one(s)}) = k - 1
      <3>1. /\ s \ {one(s)} \in SUBSET S /\ Cardinality(s) \in Nat \ {0}
            /\ Cardinality(s \ {one(s)}) = Cardinality(s) - 1
        BY <2>3, OneLess
      <3> QED  BY <2>2, <3>1
    <2>5. k - 1 \in Nat /\ ~(k <= k - 1)
      BY <2>4
    <2>6. g[s \ {one(s)}] \in Nat
      BY <2>1, <2>4, <2>5
    <2>7. g[s] = f[one(s)] + g[s \ {one(s)}] /\ f[one(s)] \in Nat
      BY <1>2, <2>3
    <2> QED  BY <2>2, <2>6, <2>7
  <1>4. Cardinality(S) \in Nat
    BY FS_CardinalityType
  <1> QED  BY <1>1, <1>3, <1>4

\* The bytes of a part are a number.
LEMMA PartIsNat ==
    ASSUME NEW state \in States, NEW part \in Parts
    PROVE  PartBytes(part, state) \in Nat
  <1> DEFINE s == state.allocations
             f == [i \in DOMAIN s |-> LeafBytes(part, s[i])]
  <1>1. s \in Seq(Allocation) /\ DOMAIN s = 1..Len(s) /\ Len(s) \in Nat /\ state.root \in Cidr
    BY StateIs
  <1>2. IsFiniteSet(DOMAIN s)
    BY <1>1, FS_Interval
  <1>3. \A i \in DOMAIN s : s[i] \in Allocation
    BY <1>1, ElementOfSeq
  <1>4. \A i \in DOMAIN s : f[i] \in Nat
    BY <1>3, BytesAssumption
  <1>5. DOMAIN f = DOMAIN s
    OBVIOUS
  <1> HIDE DEF s, f
  <1>6. Sigma(f, DOMAIN f) \in Nat
    BY <1>2, <1>4, <1>5, SumIsNat
  <1>7. Frame(part, state.root) \in Nat
    BY <1>1, BytesAssumption
  <1> QED  BY <1>6, <1>7 DEF PartBytes, SumFunction, Sigma, f, s

\* A result has its state in it.
LEMMA StateInResult ==
    ASSUME NEW state \in States, NEW file, ResultBytes(state, file) <= MaxBytes
    PROVE  StateBytes(state) <= MaxBytes
  <1>1. StateBytes(state) \in Nat /\ PartBytes("rows", state) \in Nat
    BY PartIsNat DEF StateBytes, Parts
  <1>2. file \in Formats => PartBytes(file, state) \in Nat
    BY PartIsNat DEF Parts
  <1> QED  BY <1>1, <1>2, BytesAssumption DEF ResultBytes

-----------------------------------------------------------------------------
(* The invariant: what a caller can send, and what a command leaves        *)

PlanOK ==
    /\ plan \in States
    /\ plan = NoPlan \/ /\ SchemaAccepts(plan)
                        /\ ValidPartition(plan)
                        /\ Rising(plan.allocations)
CommandOK == command = Idle \/ command \in Commands
ReplyOK == command # Idle => reply = "none"
PlannerInv == PlanOK /\ CommandOK /\ ReplyOK

\* The state before the first plan.
LEMMA NoPlanIs == NoPlan \in States /\ Leaves(NoPlan) = {}
  <1>1. 0 \in Address /\ 0 \in 0..Bits
    BY AddressIs, BitsAssumption
  <1>2. <<>> \in Seq(Allocation) /\ Range(<<>>) = {}
    BY DEF Range
  <1> QED  BY <1>1, <1>2 DEF NoPlan, States, Cidr, Leaves

\* A block starts at an address.
LEMMA StartIs == \A c \in Cidr : Start(c) \in Address
  <1> SUFFICES ASSUME NEW c \in Cidr PROVE Start(c) \in Address
    OBVIOUS
  <1>1. c.address \in Nat /\ c.address < 2^Bits
    BY AddressIs DEF Cidr
  <1> QED  BY <1>1, BlockIs, AddressIs

\* The allocations of a list at all places but two.
Others(s, i, j) == {s[k] : k \in 1..Len(s) \ {i, j}}

\* A list without one of its entries.
LEMMA RemovedIs ==
    ASSUME NEW s \in Seq(Allocation), NEW i \in 1..Len(s)
    PROVE  /\ RemoveAt(s, i) \in Seq(Allocation)
           /\ Len(s) \in Nat /\ Len(RemoveAt(s, i)) = Len(s) - 1
           /\ DOMAIN RemoveAt(s, i) = 1..(Len(s) - 1)
           /\ \A k \in 1..(Len(s) - 1) : RemoveAt(s, i)[k] = IF k < i THEN s[k] ELSE s[k + 1]
  <1> DEFINE u == SubSeq(s, 1, i - 1)
             v == SubSeq(s, i + 1, Len(s))
  <1>1. Len(s) \in Nat /\ \A k \in 1..Len(s) : s[k] \in Allocation
    BY ElementOfSeq
  <1>2. u \in Seq(Allocation) /\ Len(u) = i - 1 /\ \A k \in 1..(i - 1) : u[k] = s[k]
    <2>1. \A k \in 1..(i - 1) : s[k] \in Allocation
      BY <1>1
    <2>2. /\ u \in Seq(Allocation) /\ Len(u) = (IF 1 <= i - 1 THEN (i - 1) - 1 + 1 ELSE 0)
          /\ \A k \in 1..((i - 1) - 1 + 1) : u[k] = s[1 + k - 1]
      BY <1>1, <2>1, SubSeqProperties
    <2> HIDE DEF u
    <2>3. \A k \in 1..(i - 1) : k \in 1..((i - 1) - 1 + 1) /\ 1 + k - 1 = k
      BY <1>1
    <2>4. Len(u) = i - 1
      BY <1>1, <2>2
    <2> QED  BY <2>2, <2>3, <2>4
  <1>3. v \in Seq(Allocation) /\ Len(v) = Len(s) - i /\ \A k \in 1..(Len(s) - i) : v[k] = s[i + k]
    <2>1. \A k \in (i + 1)..Len(s) : s[k] \in Allocation
      BY <1>1
    <2>2. /\ v \in Seq(Allocation) /\ Len(v) = (IF i + 1 <= Len(s) THEN Len(s) - (i + 1) + 1 ELSE 0)
          /\ \A k \in 1..(Len(s) - (i + 1) + 1) : v[k] = s[(i + 1) + k - 1]
      BY <1>1, <2>1, SubSeqProperties
    <2> HIDE DEF v
    <2>3. \A k \in 1..(Len(s) - i) : k \in 1..(Len(s) - (i + 1) + 1) /\ (i + 1) + k - 1 = i + k
      BY <1>1
    <2>4. Len(v) = Len(s) - i
      BY <1>1, <2>2
    <2> QED  BY <2>2, <2>3, <2>4
  <1>4. RemoveAt(s, i) = u \o v
    BY DEF RemoveAt
  <1> HIDE DEF u, v
  <1>5. PICK w : w = u \o v
    OBVIOUS
  <1>6. /\ w \in Seq(Allocation) /\ Len(w) = Len(s) - 1
        /\ \A k \in 1..(Len(s) - 1) : w[k] = IF k <= i - 1 THEN u[k] ELSE v[k - (i - 1)]
    <2>1. /\ w \in Seq(Allocation) /\ Len(w) = Len(u) + Len(v)
          /\ \A k \in 1..(Len(u) + Len(v)) : w[k] = IF k <= Len(u) THEN u[k] ELSE v[k - Len(u)]
      BY <1>2, <1>3, <1>5, ConcatProperties
    <2>2. Len(u) + Len(v) = Len(s) - 1
      BY <1>1, <1>2, <1>3
    <2> QED  BY <1>2, <2>1, <2>2
  <1>7. \A k \in 1..(Len(s) - 1) : w[k] = IF k < i THEN s[k] ELSE s[k + 1]
    <2> SUFFICES ASSUME NEW k \in 1..(Len(s) - 1) PROVE w[k] = IF k < i THEN s[k] ELSE s[k + 1]
      OBVIOUS
    <2>1. CASE k < i
      BY <1>1, <1>2, <1>6, <2>1
    <2>2. CASE ~(k < i)
      <3>1. ~(k <= i - 1) /\ k - (i - 1) \in 1..(Len(s) - i) /\ i + (k - (i - 1)) = k + 1
        BY <1>1, <2>2
      <3> QED  BY <1>3, <1>6, <2>2, <3>1
    <2> QED  BY <2>1, <2>2
  <1>8. DOMAIN w = 1..(Len(s) - 1)
    BY <1>6
  <1> QED  BY <1>1, <1>4, <1>5, <1>6, <1>7, <1>8

\* Its members.
LEMMA RemovedRange ==
    ASSUME NEW s \in Seq(Allocation), NEW i \in 1..Len(s)
    PROVE  Range(RemoveAt(s, i)) = Others(s, i, i)
  <1> DEFINE u == RemoveAt(s, i)
  <1>1. /\ Len(s) \in Nat /\ DOMAIN u = 1..(Len(s) - 1)
        /\ \A k \in 1..(Len(s) - 1) : u[k] = IF k < i THEN s[k] ELSE s[k + 1]
    BY RemovedIs
  <1> HIDE DEF u
  <1>2. Range(u) = {u[k] : k \in 1..(Len(s) - 1)}
    BY <1>1 DEF Range
  <1>3. ASSUME NEW k \in 1..(Len(s) - 1)
        PROVE  \E l \in 1..Len(s) \ {i} : u[k] = s[l]
    <2>1. k \in 1..Len(s) /\ k + 1 \in 1..Len(s)
      BY <1>1
    <2> QED  BY <1>1, <2>1
  <1>4. ASSUME NEW l \in 1..Len(s) \ {i}
        PROVE  \E k \in 1..(Len(s) - 1) : u[k] = s[l]
    <2>1. CASE l < i
      BY <1>1, <2>1
    <2>2. CASE ~(l < i)
      <3>1. l - 1 \in 1..(Len(s) - 1) /\ ~(l - 1 < i) /\ (l - 1) + 1 = l
        BY <1>1, <2>2
      <3> QED  BY <1>1, <3>1
    <2> QED  BY <2>1, <2>2
  <1>5. {u[k] : k \in 1..(Len(s) - 1)} = Others(s, i, i)
    <2>1. {u[k] : k \in 1..(Len(s) - 1)} \subseteq Others(s, i, i)
      BY <1>3 DEF Others
    <2>2. Others(s, i, i) \subseteq {u[k] : k \in 1..(Len(s) - 1)}
      BY <1>4 DEF Others
    <2> QED  BY <2>1, <2>2
  <1> QED  BY <1>2, <1>5 DEF u

\* The members of a list with one more.
LEMMA AppendedRange ==
    ASSUME NEW s \in Seq(Allocation), NEW x \in Allocation
    PROVE  Range(Append(s, x)) = Range(s) \cup {x}
  <1>1. Len(s) \in Nat /\ DOMAIN s = 1..Len(s) /\ DOMAIN Append(s, x) = 1..(Len(s) + 1)
        /\ Append(s, x)[Len(s) + 1] = x /\ \A k \in 1..Len(s) : Append(s, x)[k] = s[k]
    OBVIOUS
  <1>2. 1..(Len(s) + 1) = 1..Len(s) \cup {Len(s) + 1}
    BY <1>1
  <1> QED  BY <1>1, <1>2 DEF Range

\* A list after an entry was left out, repeated or changed, or all turned round.
LEMMA EditsAreLists ==
    ASSUME NEW s \in Seq(Allocation)
    PROVE  /\ Reverse(s) \in Seq(Allocation)
           /\ s # <<>> => Tail(s) \in Seq(Allocation)
           /\ \A i \in DOMAIN s : RemoveAt(s, i) \in Seq(Allocation) /\ Len(RemoveAt(s, i)) = Len(s) - 1
           /\ \A x \in Allocation : Append(s, x) \in Seq(Allocation)
           /\ \A i \in DOMAIN s, c \in Cidr : [s EXCEPT ![i].cidr = c] \in Seq(Allocation)
  <1>1. DOMAIN s = 1..Len(s) /\ Len(s) \in Nat /\ \A i \in 1..Len(s) : s[i] \in Allocation
    BY ElementOfSeq
  <1>2. Reverse(s) \in Seq(Allocation)
    <2>1. \A i \in 1..Len(s) : (Len(s) - i) + 1 \in 1..Len(s)
      BY <1>1
    <2>2. Reverse(s) \in [1..Len(s) -> Allocation]
      BY <1>1, <2>1 DEF Reverse
    <2> QED  BY <1>1, <2>2, IsASeq
  <1>3. \A i \in DOMAIN s : RemoveAt(s, i) \in Seq(Allocation) /\ Len(RemoveAt(s, i)) = Len(s) - 1
    BY <1>1, RemovedIs
  <1>4. \A i \in DOMAIN s, c \in Cidr : [s EXCEPT ![i].cidr = c] \in Seq(Allocation)
    <2> SUFFICES ASSUME NEW i \in 1..Len(s), NEW c \in Cidr
                 PROVE  [s EXCEPT ![i].cidr = c] \in Seq(Allocation)
      BY <1>1
    <2>1. [s[i] EXCEPT !.cidr = c] \in Allocation
      BY <1>1 DEF Allocation
    <2>2. [s EXCEPT ![i].cidr = c] \in [1..Len(s) -> Allocation]
      BY <1>1, <2>1
    <2> QED  BY <1>1, <2>2, IsASeq
  <1> QED  BY <1>2, <1>3, <1>4

\* What a command carries: a state, blocks and an annotation.
LEMMA CommandIs ==
    ASSUME PlanOK, command \in Commands
    PROVE  /\ command.action = "create" => command.cidr \in Cidr /\ command.note \in Notes
           /\ command.action = "import" => command.state \in Imported
           /\ command.action = "export" => command.state \in Sent
           /\ command.action = "split" => command.state \in Sent /\ command.cidr \in Named
           /\ command.action = "join" => /\ command.state \in Sent /\ command.note \in Notes \cup {NoNote}
                                         /\ \E c \in Named, d \in Named : command.cidrs = <<c, d>>
           /\ command.action = "annotate" => /\ command.state \in Sent /\ command.cidr \in Named
                                             /\ command.note \in Notes
           /\ command.action # "create" => plan # NoPlan
  BY DEF Commands

\* Whatever a caller sends is a state, though perhaps not a valid one.
LEMMA SentAreStates ==
    ASSUME PlanOK, plan # NoPlan
    PROVE  Sent \subseteq States /\ Imported \subseteq States /\ Named \subseteq [address : Nat, prefix : Nat]
  <1> DEFINE s == plan.allocations
  <1>1. s \in Seq(Allocation) /\ plan.root \in Cidr /\ s # <<>> /\ plan \in States
    BY StateIs, EmptySeq DEF PlanOK, SchemaAccepts
  <1>2. \A t \in Seq(Allocation) : Edited(plan, t) \in States
    BY <1>1 DEF Edited, States
  <1>3. \A c \in Cidr : [plan EXCEPT !.root = c] \in States
    BY <1>1 DEF States
  <1>4. Sent \subseteq States
    BY <1>1, <1>2, EditsAreLists DEF Sent
  <1>5. Imported \subseteq States
    <2>1. \A i \in DOMAIN s : s[i] \in Allocation
      BY <1>1, ElementOfSeq
    <2> HIDE DEF s
    <2>2. \A i \in DOMAIN s : Append(s, s[i]) \in Seq(Allocation)
      BY <1>1, <2>1, EditsAreLists
    <2>3. ({s, Reverse(s)}
                \cup {RemoveAt(s, i) : i \in DOMAIN s}
                \cup {Append(s, s[i]) : i \in DOMAIN s}
                \cup {[s EXCEPT ![i].cidr = c] : i \in DOMAIN s, c \in Cidr}) \subseteq Seq(Allocation)
      <3>1. {s, Reverse(s)} \subseteq Seq(Allocation)
        BY <1>1, EditsAreLists DEF s
      <3>2. {RemoveAt(s, i) : i \in DOMAIN s} \subseteq Seq(Allocation)
        BY <1>1, EditsAreLists DEF s
      <3>3. {Append(s, s[i]) : i \in DOMAIN s} \subseteq Seq(Allocation)
        BY <2>2
      <3>4. {[s EXCEPT ![i].cidr = c] : i \in DOMAIN s, c \in Cidr} \subseteq Seq(Allocation)
        <4> SUFFICES ASSUME NEW i \in DOMAIN s, NEW c \in Cidr PROVE [s EXCEPT ![i].cidr = c] \in Seq(Allocation)
          OBVIOUS
        <4> QED  BY <1>1, EditsAreLists DEF s
      <3> QED  BY <3>1, <3>2, <3>3, <3>4
    <2> QED  BY <1>2, <1>3, <2>3 DEF Imported, s
  <1>6. Cidr \subseteq [address : Nat, prefix : Nat]
    BY AddressIs, BitsAssumption DEF Cidr
  <1>7. Named \subseteq [address : Nat, prefix : Nat]
    <2>1. {leaf.cidr : leaf \in Leaves(plan)} \subseteq Cidr
      BY <1>1, StateIs
    <2>2. Block(1, 0) \in [address : Nat, prefix : Nat]
      BY DEF Block
    <2> QED  BY <1>1, <1>6, <2>1, <2>2 DEF Named
  <1> QED  BY <1>4, <1>5, <1>7

\* The halves of a block are blocks, and together have its addresses.
LEMMA HalvesAre ==
    ASSUME NEW leaf \in Allocation, leaf.cidr.prefix # Bits
    PROVE  /\ Halves(leaf) \in Seq(Allocation) /\ Len(Halves(leaf)) = 2
           /\ \A k \in {0, 1} : /\ Halves(leaf)[k + 1].note = leaf.note
                                /\ Halves(leaf)[k + 1].cidr.prefix = leaf.cidr.prefix + 1
                                /\ Halves(leaf)[k + 1].cidr.address = Start(leaf.cidr) + k * (Size(leaf.cidr) \div 2)
  <1> DEFINE c == leaf.cidr
             half(k) == Block(Start(c) + k * (Size(c) \div 2), c.prefix + 1)
  <1>1. c \in Cidr /\ leaf.note \in Notes /\ c.prefix \in 0..(Bits - 1) /\ c.prefix + 1 \in 0..Bits
    BY BitsAssumption DEF Allocation, Cidr
  <1>2. /\ Start(c) \in Nat /\ End(c) \in Nat /\ Size(c) \in Nat \ {0} /\ End(c) + 1 = Start(c) + Size(c)
        /\ End(c) < 2^Bits
    BY <1>1, BlockIs
  <1>3. Size(c) \div 2 \in Nat /\ Size(c) \div 2 < Size(c)
    BY <1>2
  <1>4. \A k \in {0, 1} : half(k) \in Cidr
    <2>1. PICK h : h = Size(c) \div 2
      OBVIOUS
    <2>2. Start(c) + 0 * h \in Address /\ Start(c) + 1 * h \in Address
      BY <1>2, <1>3, <2>1, AddressIs
    <2>3. \A k \in {0, 1} : Start(c) + k * (Size(c) \div 2) \in Address
      BY <2>1, <2>2
    <2> QED  BY <1>1, <2>3 DEF Cidr, Block
  <1>5. \A k \in {0, 1} : [leaf EXCEPT !.cidr = half(k)] \in Allocation
    BY <1>1, <1>4 DEF Allocation
  <1>6. Halves(leaf) = <<[leaf EXCEPT !.cidr = half(0)], [leaf EXCEPT !.cidr = half(1)]>>
    BY DEF Halves
  <1> QED  BY <1>1, <1>5, <1>6 DEF Allocation, Block

\* A list after two of its entries were left out and one was added.
Replaced(s, i, j, x) == Append(RemoveAt(RemoveAt(s, Max(Range(<<i, j>>))), Min(Range(<<i, j>>))), x)
\* The entry further back goes first, so that the place of the other holds.
LEMMA ReplacedIn ==
    ASSUME NEW s \in Seq(Allocation), NEW i \in 1..Len(s), NEW j \in 1..Len(s), i # j, NEW x \in Allocation
    PROVE  \E lo, hi \in 1..Len(s) : /\ lo < hi /\ Others(s, lo, hi) = Others(s, i, j)
                                    /\ Replaced(s, i, j, x) = Append(RemoveAt(RemoveAt(s, hi), lo), x)
  <1>1. Len(s) \in Nat
    OBVIOUS
  <1>2. PICK lo, hi : lo = Min({i, j}) /\ hi = Max({i, j})
    OBVIOUS
  <1>3. lo \in 1..Len(s) /\ hi \in 1..Len(s) /\ lo < hi /\ {lo, hi} = {i, j}
    BY <1>1, <1>2 DEF Min, Max
  <1>4. Range(<<i, j>>) = {i, j}
    BY DEF Range
  <1>5. Replaced(s, i, j, x) = Append(RemoveAt(RemoveAt(s, hi), lo), x)
    BY <1>2, <1>4 DEF Replaced
  <1>6. Others(s, lo, hi) = Others(s, i, j)
    BY <1>3 DEF Others
  <1> QED  BY <1>3, <1>5, <1>6

\* A list after a join is shorter by one.
LEMMA ReplacedIs ==
    ASSUME NEW s \in Seq(Allocation), NEW i \in 1..Len(s), NEW j \in 1..Len(s), i # j, NEW x \in Allocation
    PROVE  /\ Replaced(s, i, j, x) \in Seq(Allocation) /\ Len(Replaced(s, i, j, x)) = Len(s) - 1
           /\ Len(s) \in Nat /\ Len(s) >= 2
  <1>1. PICK lo, hi \in 1..Len(s) : lo < hi /\ Replaced(s, i, j, x) = Append(RemoveAt(RemoveAt(s, hi), lo), x)
    BY ReplacedIn
  <1>2. PICK u, v : u = RemoveAt(s, hi) /\ v = RemoveAt(u, lo)
    OBVIOUS
  <1>3. u \in Seq(Allocation) /\ Len(u) = Len(s) - 1 /\ Len(s) \in Nat /\ Len(s) >= 2
    BY <1>1, <1>2, RemovedIs
  <1>4. lo \in 1..Len(u)
    BY <1>1, <1>3
  <1>5. v \in Seq(Allocation) /\ Len(v) = Len(u) - 1
    BY <1>2, <1>3, <1>4, RemovedIs
  <1>6. Append(v, x) \in Seq(Allocation) /\ Len(Append(v, x)) = Len(v) + 1
    BY <1>5, AppendProperties
  <1> QED  BY <1>1, <1>2, <1>3, <1>5, <1>6

\* Its members.
LEMMA ReplacedRange ==
    ASSUME NEW s \in Seq(Allocation), NEW i \in 1..Len(s), NEW j \in 1..Len(s), i # j, NEW x \in Allocation
    PROVE  Range(Replaced(s, i, j, x)) = Others(s, i, j) \cup {x}
  <1>1. Len(s) \in Nat
    OBVIOUS
  <1>3. PICK lo, hi \in 1..Len(s) : /\ lo < hi /\ Others(s, lo, hi) = Others(s, i, j)
                                   /\ Replaced(s, i, j, x) = Append(RemoveAt(RemoveAt(s, hi), lo), x)
    BY ReplacedIn
  <1>4. PICK u, v : u = RemoveAt(s, hi) /\ v = RemoveAt(u, lo)
    OBVIOUS
  <1>5. u \in Seq(Allocation) /\ Len(u) = Len(s) - 1 /\ lo \in 1..Len(u)
    BY <1>1, <1>3, <1>4, RemovedIs
  <1>7. v \in Seq(Allocation)
    BY <1>4, <1>5, RemovedIs
  <1>10. Range(u) = Others(s, hi, hi)
    BY <1>4, RemovedRange
  <1>11. \A k \in 1..Len(u) : u[k] = IF k < hi THEN s[k] ELSE s[k + 1]
    BY <1>3, <1>4, <1>5, RemovedIs
  <1>12. Range(v) = Others(u, lo, lo)
    BY <1>4, <1>5, RemovedRange
  <1>13. Others(u, lo, lo) = Others(s, lo, hi)
    <2>1. ASSUME NEW k \in 1..Len(u) \ {lo}
          PROVE  \E l \in 1..Len(s) \ {lo, hi} : u[k] = s[l]
      <3>1. CASE k < hi
        BY <1>1, <1>3, <1>5, <1>11, <3>1
      <3>2. CASE ~(k < hi)
        <4>1. k + 1 \in 1..Len(s) \ {lo, hi}
          BY <1>1, <1>3, <1>5, <3>2
        <4> QED  BY <1>11, <3>2, <4>1
      <3> QED  BY <3>1, <3>2
    <2>2. ASSUME NEW l \in 1..Len(s) \ {lo, hi}
          PROVE  \E k \in 1..Len(u) \ {lo} : u[k] = s[l]
      <3>1. CASE l < hi
        <4>1. l \in 1..Len(u) \ {lo}
          BY <1>1, <1>3, <1>5, <3>1
        <4> QED  BY <1>11, <3>1, <4>1
      <3>2. CASE ~(l < hi)
        <4>1. l - 1 \in 1..Len(u) \ {lo} /\ ~(l - 1 < hi) /\ (l - 1) + 1 = l
          BY <1>1, <1>3, <1>5, <3>2
        <4> QED  BY <1>11, <4>1
      <3> QED  BY <3>1, <3>2
    <2>3. Others(u, lo, lo) \subseteq {s[l] : l \in 1..Len(s) \ {lo, hi}}
      BY <2>1 DEF Others
    <2>4. {s[l] : l \in 1..Len(s) \ {lo, hi}} \subseteq Others(u, lo, lo)
      BY <2>2 DEF Others
    <2> QED  BY <2>3, <2>4 DEF Others
  <1>14. Range(Append(v, x)) = Range(v) \cup {x}
    BY <1>7, AppendedRange
  <1> QED  BY <1>3, <1>4, <1>12, <1>13, <1>14

\* Two siblings are the halves of the block they are joined to.
LEMMA JoinedIs ==
    ASSUME NEW a \in Allocation, NEW b \in Allocation, Siblings(a.cidr, b.cidr),
           NEW note \in Notes \cup {NoNote}
    PROVE  /\ Joined(a, b, note) \in Allocation
           /\ Joined(a, b, note).cidr = Block(Min({Start(a.cidr), Start(b.cidr)}), a.cidr.prefix - 1)
           /\ Joined(a, b, note).note = IF note = NoNote THEN a.note ELSE note
  <1>1. a.cidr \in Cidr /\ b.cidr \in Cidr /\ a.note \in Notes
    BY DEF Allocation
  <1>2. a.cidr.prefix - 1 \in 0..Bits
    BY <1>1, BitsAssumption DEF Siblings, Cidr
  <1>3. Start(a.cidr) \in Address /\ Start(b.cidr) \in Address
    BY <1>1, StartIs
  <1>4. Min({Start(a.cidr), Start(b.cidr)}) \in Address
    BY <1>3, AddressIs DEF Min
  <1> QED  BY <1>1, <1>2, <1>4 DEF Joined, Block, Cidr, Allocation

Valid(state) == state \in States /\ state.allocations # <<>> /\ ValidPartition(state)
Countable(state) == Len(state.allocations) \in 1..MaxLeaves

\* How a command ends: its new state is taken, or the plan is left alone.
Taken(state) == /\ reply' = "accepted" /\ plan' = InOrder(state) /\ Valid(state) /\ Countable(state)
                /\ StateBytes(InOrder(state)) <= MaxBytes
Refused == reply' = "rejected" /\ plan' = plan

\* The check at the end of a command: a result within its budget has a state
\* within the budget of requests.
LEMMA ReturnedIs ==
    ASSUME NEW state \in States, Countable(state), NEW file, Returned(state, file)
    PROVE  Taken(state) \/ Refused
  <1>1. CASE ValidPartition(state) /\ ResultBytes(InOrder(state), file) <= MaxBytes
    <2>1. Valid(state)
      BY <1>1, EmptySeq DEF Valid, Countable
    <2>2. InOrder(state) \in States
      BY <2>1, KeptIs DEF Valid
    <2>3. StateBytes(InOrder(state)) <= MaxBytes
      BY <1>1, <2>2, StateInResult
    <2> QED  BY <1>1, <2>1, <2>3 DEF Returned, Taken
  <1>2. CASE ~(ValidPartition(state) /\ ResultBytes(InOrder(state), file) <= MaxBytes)
    BY <1>2 DEF Returned, Rejected, Refused
  <1> QED  BY <1>1, <1>2

LEMMA CheckedIs ==
    ASSUME NEW state \in States, Countable(state), Checked(state)
    PROVE  Taken(state) \/ Refused
  BY ReturnedIs DEF Checked

\* What is kept can be sent again.
LEMMA KeptValid ==
    ASSUME NEW state, Valid(state), Countable(state), StateBytes(InOrder(state)) <= MaxBytes
    PROVE  /\ Valid(InOrder(state)) /\ SchemaAccepts(InOrder(state)) /\ InOrder(state) # NoPlan
           /\ InOrder(state).root = state.root /\ Leaves(InOrder(state)) = Leaves(state)
           /\ Len(InOrder(state).allocations) = Len(state.allocations) /\ Rising(InOrder(state).allocations)
  <1>1. PICK q : q = InOrder(state)
    OBVIOUS
  <1>2. /\ q \in States /\ q.root = state.root /\ Leaves(q) = Leaves(state) /\ ValidPartition(q)
        /\ Len(q.allocations) = Len(state.allocations) /\ Rising(q.allocations)
    BY <1>1, KeptIs DEF Valid
  <1>3. SchemaAccepts(q) /\ q.allocations # <<>> /\ q # NoPlan
    BY <1>1, <1>2 DEF SchemaAccepts, Countable, NoPlan
  <1> QED  BY <1>1, <1>2, <1>3 DEF Valid

\* A state that is taken is a plan.
LEMMA TakenKeeps ==
    ASSUME NEW state, Taken(state)
    PROVE  PlanOK'
  <1>1. PICK q : q = InOrder(state)
    OBVIOUS
  <1>2. plan' = q /\ q \in States /\ SchemaAccepts(q) /\ ValidPartition(q) /\ Rising(q.allocations)
    BY <1>1, KeptValid DEF Taken, Valid
  <1> QED  BY <1>2 DEF PlanOK

\* The invariant holds before the first command.
LEMMA PlannerInvHolds == Init => PlannerInv
  BY NoPlanIs DEF Init, PlannerInv, PlanOK, CommandOK, ReplyOK

\* What the caller sent, when the engine works on a command.
LEMMA StateSent ==
    ASSUME PlannerInv, command.action # "none"
    PROVE  /\ command \in Commands /\ PlanOK
           /\ command.action # "create" => plan # NoPlan
           /\ command.action = "import" => command.state \in States
           /\ command.action \in {"export", "split", "join", "annotate"} =>
                 command.state \in Sent /\ command.state \in States
  <1>1. command \in Commands /\ PlanOK
    BY DEF PlannerInv, CommandOK, Idle
  <1> QED  BY <1>1, CommandIs, SentAreStates

\* A state with other allocations.
LEMMA EditedIs ==
    ASSUME NEW state \in States, NEW t \in Seq(Allocation)
    PROVE  /\ Edited(state, t) \in States /\ Edited(state, t).root = state.root
           /\ Edited(state, t).allocations = t /\ Leaves(Edited(state, t)) = Range(t)
  BY DEF Edited, States, Leaves

\* A new plan is its root, and an import is what the caller sent.
LEMMA CreateTakes ==
    ASSUME PlannerInv, Create
    PROVE  Refused \/ \E state : Taken(state)
  <1> DEFINE root == Canonical(command.cidr)
             leaf == [cidr |-> root, note |-> command.note]
             state == [root |-> root, allocations |-> <<leaf>>]
  <1>1. command.cidr \in Cidr /\ command.note \in Notes
    BY StateSent, CommandIs DEF Create, Answers
  <1>2. root \in Cidr
    BY <1>1, StartIs DEF Canonical, Cidr
  <1>3. leaf \in Allocation
    BY <1>1, <1>2 DEF Allocation
  <1>4. <<leaf>> \in Seq(Allocation) /\ Len(<<leaf>>) = 1
    BY <1>3
  <1>5. state \in States /\ Countable(state)
    BY <1>2, <1>4, MaxLeavesAssumption DEF States, Countable
  <1>6. Checked(state)
    BY DEF Create
  <1> QED  BY <1>5, <1>6, CheckedIs

\* An import is taken as it was sent, or refused.
LEMMA ImportTakes ==
    ASSUME PlannerInv, Import
    PROVE  Refused \/ \E state : Taken(state)
  <1>1. command.state \in States
    BY StateSent DEF Import, Answers
  <1> QED  BY <1>1, CheckedIs DEF Import, Rejected, Refused, SchemaAccepts, Countable

\* An export takes the state it was sent, or refuses it.
LEMMA ExportTakes ==
    ASSUME PlannerInv, Export
    PROVE  Refused \/ (Requested(command.state) /\ Taken(command.state))
  <1>1. command.state \in States
    BY StateSent DEF Export, Answers
  <1> QED  BY <1>1, ReturnedIs DEF Export, Rejected, Refused, Requested, SchemaAccepts, Countable

\* The leaf that is split is replaced by its halves.
LEMMA SplitTakes ==
    ASSUME PlannerInv, Split, NEW s, s = command.state.allocations
    PROVE  \/ Refused
           \/ \E i \in 1..Len(s), t \in Seq(Allocation) :
                 /\ Requested(command.state) /\ s[i].cidr = command.cidr /\ s[i].cidr.prefix # Bits
                 /\ Taken(Edited(command.state, t))
                 /\ Range(t) = Others(s, i, i) \cup {Halves(s[i])[1], Halves(s[i])[2]}
  <1> DEFINE state == command.state
  <1>1. state \in States /\ s \in Seq(Allocation) /\ DOMAIN s = 1..Len(s)
    BY StateSent, StateIs DEF Split, Answers
  <1>2. CASE CanSplit(state, command.cidr)
    <2>1. PICK i \in Selected(state, command.cidr) : Checked(Edited(state, RemoveAt(s, i) \o Halves(s[i])))
      BY <1>2 DEF Split, SplitAt
    <2>2. i \in 1..Len(s) /\ s[i] \in Allocation /\ s[i].cidr = command.cidr
      BY <1>1, ElementOfSeq DEF Selected
    <2>3. s[i].cidr.prefix # Bits /\ Requested(state) /\ Len(s) < MaxLeaves
      BY <1>2, <2>2 DEF CanSplit
    <2>4. PICK u, v : u = RemoveAt(s, i) /\ v = Halves(s[i])
      OBVIOUS
    <2>5. u \in Seq(Allocation) /\ Len(u) = Len(s) - 1 /\ Len(s) \in Nat
      BY <1>1, <2>2, <2>4, RemovedIs
    <2>6. v \in Seq(Allocation) /\ Len(v) = 2
      BY <2>2, <2>3, <2>4, HalvesAre
    <2>7. PICK t : t = u \o v
      OBVIOUS
    <2>8. t \in Seq(Allocation) /\ Len(t) = Len(s) + 1
      <3>1. t \in Seq(Allocation) /\ Len(t) = Len(u) + Len(v)
        BY <2>5, <2>6, <2>7, ConcatProperties
      <3> QED  BY <2>5, <2>6, <3>1
    <2>9. Edited(state, t) \in States /\ Edited(state, t).allocations = t
      BY <1>1, <2>8, EditedIs
    <2>10. Countable(Edited(state, t))
      BY <2>3, <2>5, <2>8, <2>9, MaxLeavesAssumption DEF Countable
    <2>11. Range(t) = Others(s, i, i) \cup {v[1], v[2]}
      <3>1. Range(v) = {v[1], v[2]}
        <4>1. DOMAIN v = {1, 2}
          BY <2>6
        <4> QED  BY <4>1 DEF Range
      <3>2. Range(t) = Range(u) \cup Range(v)
        BY <2>5, <2>6, <2>7, RangeConcatenation
      <3>3. Range(u) = Others(s, i, i)
        BY <1>1, <2>2, <2>4, RemovedRange
      <3> QED  BY <3>1, <3>2, <3>3
    <2>12. Taken(Edited(state, t)) \/ Refused
      BY <2>1, <2>4, <2>7, <2>9, <2>10, CheckedIs
    <2> QED  BY <2>2, <2>3, <2>4, <2>8, <2>11, <2>12
  <1>3. CASE ~CanSplit(state, command.cidr)
    BY <1>3 DEF Split, SplitAt, CanSplit, Rejected, Refused
  <1> QED  BY <1>2, <1>3

\* Two siblings are replaced by the block they are joined to.
LEMMA JoinTakes ==
    ASSUME PlannerInv, Join, NEW s, s = command.state.allocations
    PROVE  \/ Refused
           \/ \E i, j \in 1..Len(s) : \E t \in Seq(Allocation) :
                 /\ Requested(command.state) /\ i # j
                 /\ s[i].cidr = command.cidrs[1] /\ s[j].cidr = command.cidrs[2] /\ Siblings(s[i].cidr, s[j].cidr)
                 /\ command.note = NoNote => s[i].note = s[j].note
                 /\ Taken(Edited(command.state, t))
                 /\ Joined(s[i], s[j], command.note) \in Allocation
                 /\ Range(t) = Others(s, i, j) \cup {Joined(s[i], s[j], command.note)}
  <1> DEFINE state == command.state
             note == command.note
             Places == Joinable(state, command.cidrs, note)
  <1>1. state \in States /\ s \in Seq(Allocation) /\ DOMAIN s = 1..Len(s) /\ note \in Notes \cup {NoNote}
    BY StateSent, StateIs, CommandIs DEF Join, Answers
  <1>2. CASE Places # {}
    <2>1. PICK pair \in Places :
             Checked(Edited(state, Append(RemoveAt(RemoveAt(s, Max(Range(pair))), Min(Range(pair))),
                                          Joined(s[pair[1]], s[pair[2]], note))))
      BY <1>2 DEF Join, JoinPair
    <2>2. PICK i, j : i = pair[1] /\ j = pair[2]
      OBVIOUS
    <2>3. /\ i \in 1..Len(s) /\ j \in 1..Len(s) /\ i # j /\ pair = <<i, j>>
          /\ s[i] \in Allocation /\ s[j] \in Allocation
          /\ s[i].cidr = command.cidrs[1] /\ s[j].cidr = command.cidrs[2]
          /\ Siblings(s[i].cidr, s[j].cidr) /\ Requested(state)
          /\ note = NoNote => s[i].note = s[j].note
      BY <1>1, <2>1, <2>2, ElementOfSeq DEF Joinable, Selected
    <2> HIDE DEF note, Places
    <2>4. PICK x : x = Joined(s[i], s[j], note)
      OBVIOUS
    <2>5. x \in Allocation
      BY <1>1, <2>3, <2>4, JoinedIs
    <2>6. PICK t : t = Append(RemoveAt(RemoveAt(s, Max(Range(pair))), Min(Range(pair))), x)
      OBVIOUS
    <2>7. /\ t \in Seq(Allocation) /\ Len(t) = Len(s) - 1 /\ Len(s) \in Nat /\ Len(s) >= 2
          /\ Range(t) = Others(s, i, j) \cup {x}
      <3>1. t = Replaced(s, i, j, x)
        BY <2>3, <2>6 DEF Replaced
      <3>2. s \in Seq(Allocation) /\ i \in 1..Len(s) /\ j \in 1..Len(s) /\ i # j /\ x \in Allocation
        BY <1>1, <2>3, <2>5
      <3>3. Replaced(s, i, j, x) \in Seq(Allocation)
        BY <3>2, ReplacedIs
      <3>4. Len(Replaced(s, i, j, x)) = Len(s) - 1 /\ Len(s) \in Nat /\ Len(s) >= 2
        BY <3>2, ReplacedIs
      <3>5. Range(Replaced(s, i, j, x)) = Others(s, i, j) \cup {x}
        BY <3>2, ReplacedRange
      <3> QED  BY <3>1, <3>3, <3>4, <3>5
    <2>8. Edited(state, t) \in States /\ Edited(state, t).allocations = t
      BY <1>1, <2>7, EditedIs
    <2>9. Countable(Edited(state, t))
      BY <2>3, <2>7, <2>8, MaxLeavesAssumption DEF Requested, SchemaAccepts, Countable
    <2>10. Taken(Edited(state, t)) \/ Refused
      BY <2>1, <2>2, <2>4, <2>6, <2>8, <2>9, CheckedIs
    <2>11. ASSUME Taken(Edited(state, t))
           PROVE  /\ Requested(state) /\ i # j
                  /\ s[i].cidr = command.cidrs[1] /\ s[j].cidr = command.cidrs[2] /\ Siblings(s[i].cidr, s[j].cidr)
                  /\ note = NoNote => s[i].note = s[j].note
                  /\ Taken(Edited(state, t))
                  /\ Joined(s[i], s[j], note) \in Allocation
                  /\ Range(t) = Others(s, i, j) \cup {Joined(s[i], s[j], note)}
      BY <2>3, <2>4, <2>5, <2>7, <2>11
    <2> HIDE DEF state
    <2> QED  BY <2>3, <2>7, <2>10, <2>11, Zenon DEF note, state
  <1>3. CASE Places = {}
    BY <1>3 DEF Join, JoinPair, Rejected, Refused
  <1> QED  BY <1>2, <1>3

\* The leaves of the block get the annotation.
LEMMA AnnotateTakes ==
    ASSUME PlannerInv, Annotate
    PROVE  \/ Refused
           \/ \E t \in Seq(Allocation) :
                 /\ Requested(command.state) /\ Selected(command.state, command.cidr) # {}
                 /\ Taken(Edited(command.state, t))
                 /\ Range(t) = {Renoted(leaf, command.cidr, command.note) : leaf \in Leaves(command.state)}
  <1> DEFINE state == command.state
             s == state.allocations
             t == [i \in DOMAIN s |-> Renoted(s[i], command.cidr, command.note)]
  <1>1. state \in States /\ s \in Seq(Allocation) /\ command.note \in Notes
    BY StateSent, StateIs, CommandIs DEF Annotate, Answers
  <1>2. DOMAIN s = 1..Len(s) /\ Len(s) \in Nat /\ \A i \in 1..Len(s) : s[i] \in Allocation
    BY <1>1, ElementOfSeq
  <1>3. t \in Seq(Allocation) /\ Len(t) = Len(s)
    <2>1. \A x \in Allocation : Renoted(x, command.cidr, command.note) \in Allocation
      BY <1>1 DEF Renoted, Allocation
    <2>2. t \in [1..Len(s) -> Allocation]
      BY <1>2, <2>1
    <2> QED  BY <1>2, <2>2, IsASeq
  <1>4. Range(t) = {Renoted(leaf, command.cidr, command.note) : leaf \in Leaves(state)}
    BY DEF Range, Leaves
  <1> HIDE DEF t
  <1>5. Edited(state, t) \in States /\ Edited(state, t).allocations = t
    BY <1>1, <1>3, EditedIs
  <1>6. CASE Checked(Edited(state, t)) /\ Requested(state) /\ Selected(state, command.cidr) # {}
    <2>1. Countable(Edited(state, t))
      BY <1>3, <1>5, <1>6 DEF Requested, SchemaAccepts, Countable
    <2> QED  BY <1>3, <1>4, <1>5, <1>6, <2>1, CheckedIs
  <1>7. CASE Rejected
    BY <1>7 DEF Rejected, Refused
  <1> QED  BY <1>6, <1>7 DEF Annotate, AnnotateAt, t

\* Every command takes a state or leaves the plan alone.
LEMMA CommandTakes ==
    ASSUME PlannerInv, Create \/ Import \/ Export \/ Split \/ Join \/ Annotate
    PROVE  Refused \/ \E state : Taken(state)
  BY CreateTakes, ImportTakes, ExportTakes, SplitTakes, JoinTakes, AnnotateTakes

\* So the plan stays one.
LEMMA CommandsKeepPlan ==
    ASSUME PlannerInv, Create \/ Import \/ Export \/ Split \/ Join \/ Annotate
    PROVE  PlanOK'
  <1>1. CASE Refused
    BY <1>1 DEF Refused, PlannerInv, PlanOK
  <1>2. CASE \E state : Taken(state)
    BY <1>2, TakenKeeps
  <1> QED  BY <1>1, <1>2, CommandTakes

-----------------------------------------------------------------------------
(* What always holds of a plan                                             *)

\* The invariant of the planner.  The plan the caller keeps is either none or a
\* list of 1 to MaxLeaves canonical blocks that validatePartition accepts and that
\* lies sorted; while a command is under way it is one of Commands, and no reply
\* is on the page.
THEOREM PlannerInvariant == Spec => []PlannerInv
  <1>1. Init => PlannerInv
    BY PlannerInvHolds
  <1>2. PlannerInv /\ [Next]_vars => PlannerInv'
    <2> SUFFICES ASSUME PlannerInv, [Next]_vars PROVE PlannerInv'
      OBVIOUS
    <2>1. CASE Create \/ Import \/ Export \/ Split \/ Join \/ Annotate
      <3>1. PlanOK'
        BY <2>1, CommandsKeepPlan
      <3>2. command' = Idle
        BY <2>1 DEF Create, Import, Export, Split, Join, Annotate, Answers
      <3> QED  BY <3>1, <3>2 DEF PlannerInv, CommandOK, ReplyOK
    <2>2. CASE Request
      <3>1. PlanOK'
        BY <2>2 DEF PlannerInv, PlanOK, Request
      <3>2. Commands' = Commands
        BY <2>2 DEF Request, Commands, Imported, Sent, Named, Leaves
      <3> QED  BY <2>2, <3>1, <3>2 DEF Request, PlannerInv, CommandOK, ReplyOK
    <2>3. CASE Cancel
      BY <2>3 DEF PlannerInv, PlanOK, CommandOK, ReplyOK, Cancel
    <2>4. CASE Reset
      BY <2>4, NoPlanIs DEF PlannerInv, PlanOK, CommandOK, ReplyOK, Reset
    <2>5. CASE UNCHANGED vars
      BY <2>5 DEF PlannerInv, PlanOK, CommandOK, ReplyOK, Commands, Imported, Sent, Named, Leaves, vars
    <2> QED  BY <2>1, <2>2, <2>3, <2>4, <2>5 DEF Next
  <1> QED  BY <1>1, <1>2, PTL DEF Spec

\* Whatever the commands, and in whatever order the caller sends the allocations:
\* every address of the root of an accepted plan is in one and only one of its
\* leaves, and the root and the leaves are written with their first address
\* (canonical()).
THEOREM PlansPartition == Spec => [](plan = NoPlan \/ (Partitions(plan) /\ CanonicalNames(plan)))
  <1>1. PlannerInv => plan = NoPlan \/ (Partitions(plan) /\ CanonicalNames(plan))
    <2> SUFFICES ASSUME PlannerInv, plan # NoPlan PROVE Partitions(plan) /\ CanonicalNames(plan)
      OBVIOUS
    <2>1. plan \in States /\ SchemaAccepts(plan) /\ ValidPartition(plan)
      BY DEF PlannerInv, PlanOK
    <2>2. plan.allocations # <<>>
      BY <2>1 DEF SchemaAccepts
    <2> QED  BY <2>1, <2>2, ValidIs
  <1> QED  BY <1>1, PlannerInvariant, PTL

\* validatePartition decides partitions: an import is accepted if and only if its
\* allocations, in whatever order, are 1 to MaxLeaves canonical blocks that
\* partition the root address by address, and its text, its state and the result
\* each keep to MaxBytes.
THEOREM ImportDecides == Spec => ImportIsExact
  <1> DEFINE Exact == Import => (reply' = "accepted" <=> /\ SchemaAccepts(command.state)
                                                         /\ Partitions(command.state)
                                                         /\ CanonicalNames(command.state)
                                                         /\ StateBytes(command.state) + command.padding <= MaxBytes
                                                         /\ ResultBytes(InOrder(command.state), "none") <= MaxBytes)
  <1>1. PlannerInv => Exact
    <2> SUFFICES ASSUME PlannerInv, Import PROVE Exact
      OBVIOUS
    <2> DEFINE state == command.state
    <2>1. command \in Commands /\ command.action = "import" /\ PlanOK
      BY DEF PlannerInv, CommandOK, Idle, Import, Answers
    <2>2. state \in States
      BY <2>1, CommandIs, SentAreStates
    <2>3. SchemaAccepts(state) => (ValidPartition(state) <=> Partitions(state) /\ CanonicalNames(state))
      <3>1. SchemaAccepts(state) => state.allocations # <<>>
        BY DEF SchemaAccepts
      <3> QED  BY <2>2, <3>1, ValidIs
    <2>4. reply' = "accepted" <=> /\ SchemaAccepts(state) /\ TextFits
                                  /\ ValidPartition(state) /\ ResultBytes(InOrder(state), "none") <= MaxBytes
      BY DEF Import, Checked, Returned, Rejected
    <2> QED  BY <2>3, <2>4 DEF TextFits
  <1> HIDE DEF Exact
  <1>2. PlannerInv => [Exact]_vars
    BY <1>1
  <1>3. Spec => [][Exact]_vars
    BY <1>2, PlannerInvariant, PTL
  <1> QED  BY <1>3 DEF Exact, ImportIsExact

-----------------------------------------------------------------------------
(* The bits of an address                                                  *)

\* Bit i of an address in a block of 2^d addresses.
BitOf(a, d, i) == (a \div 2^(d - i)) % 2
PathIn(root, c) == [i \in 1..(c.prefix - root.prefix) |-> BitOf(c.address, Bits - root.prefix, i)]

\* Division by 2 * m in two steps, and the bit between them.
LEMMA DivTwice ==
    ASSUME NEW a \in Nat, NEW m \in Nat \ {0}
    PROVE  /\ a \div (2 * m) = (a \div m) \div 2
           /\ a \div (2 * m) = (a \div 2) \div m
           /\ a \div m = 2 * (a \div (2 * m)) + ((a \div m) % 2)
           /\ a \div m \in Nat /\ a \div (2 * m) \in Nat /\ (a \div m) % 2 \in {0, 1}
  <1>1. PICK q, r : q = a \div m /\ r = a % m
    OBVIOUS
  <1>2. q \in Nat /\ r \in 0..(m - 1) /\ a = q * m + r
    BY <1>1, DivIs
  <1>3. PICK h, b : h = q \div 2 /\ b = q % 2
    OBVIOUS
  <1>4. h \in Nat /\ b \in 0..1 /\ q = 2 * h + b
    BY <1>2, <1>3
  <1>5. a \div (2 * m) = h
    <2>1. q * m = h * (2 * m) + b * m /\ b * m \in 0..m
      <3>1. CASE b = 0
        BY <1>2, <1>4, <3>1
      <3>2. CASE b = 1
        BY <1>2, <1>4, <3>2
      <3> QED  BY <1>4, <3>1, <3>2
    <2>2. b * m + m <= 2 * m
      BY <2>1
    <2>3. h * (2 * m) \in Nat
      BY <1>4
    <2>4. h * (2 * m) <= a /\ a < h * (2 * m) + 2 * m
      BY <1>2, <2>1, <2>2, <2>3
    <2> QED  BY <1>4, <2>4, DivUnique
  <1>6. (a \div 2) \div m = h
    <2>1. PICK u, v : u = a \div 2 /\ v = a % 2
      OBVIOUS
    <2>2. u \in Nat /\ v \in 0..1 /\ a = 2 * u + v
      BY <2>1
    <2>3. h * m \in Nat /\ h * m <= u /\ u < h * m + m
      <3>1. PICK z : z = h * m
        OBVIOUS
      <3>2. z \in Nat
        BY <1>4, <3>1
      <3>3. q * m = 2 * z + b * m
        BY <1>2, <1>4, <3>1
      <3>4. b * m \in 0..m
        <4>1. CASE b = 0
          BY <4>1
        <4>2. CASE b = 1
          BY <4>2
        <4> QED  BY <1>4, <4>1, <4>2
      <3>5. a >= 2 * z /\ a < 2 * z + 2 * m
        BY <1>2, <3>2, <3>3, <3>4
      <3> QED  BY <2>2, <3>1, <3>2, <3>5
    <2> QED  BY <1>4, <2>1, <2>2, <2>3, DivUnique
  <1>7. a \div m = q /\ (a \div m) \div 2 = h /\ (a \div m) % 2 = b
    BY <1>1, <1>3, Zenon
  <1>8. q = 2 * h + b /\ q \in Nat /\ h \in Nat /\ b \in {0, 1}
    BY <1>2, <1>4
  <1> QED  BY <1>5, <1>6, <1>7, <1>8, Zenon

\* The first k bits tell which block of 2^(d - k) addresses an address is in.
LEMMA BitsDecide ==
    ASSUME NEW d \in Nat, NEW a \in Nat, NEW b \in Nat, a \div 2^d = b \div 2^d, NEW n \in 0..d
    PROVE  a \div 2^(d - n) = b \div 2^(d - n) <=> \A i \in 1..n : BitOf(a, d, i) = BitOf(b, d, i)
  <1> DEFINE Same(k) == a \div 2^(d - k) = b \div 2^(d - k)
             Agree(k) == \A i \in 1..k : BitOf(a, d, i) = BitOf(b, d, i)
             Wrong == {k \in 0..d : ~(Same(k) <=> Agree(k))}
  <1> SUFFICES ASSUME Wrong # {} PROVE FALSE
    OBVIOUS
  <1>1. PICK k \in Wrong : \A l \in Wrong : k <= l
    <2>1. Wrong \in SUBSET Nat
      OBVIOUS
    <2> HIDE DEF Wrong
    <2> QED  BY <2>1, LeastOne
  <1>2. k # 0
    <2>1. Same(0) /\ Agree(0)
      OBVIOUS
    <2> QED  BY <1>1, <2>1
  <1>3. k \in 0..d /\ k - 1 \in 0..d /\ d - k \in Nat /\ d - (k - 1) = (d - k) + 1
    BY <1>1, <1>2
  <1>4. Same(k - 1) <=> Agree(k - 1)
    <2>1. k - 1 \notin Wrong
      <3> HIDE DEF Wrong
      <3> QED  BY <1>1, <1>3
    <2> QED  BY <1>3, <2>1
  <1>5. PICK m : m = 2^(d - k)
    OBVIOUS
  <1>6. m \in Nat \ {0} /\ 2^(d - (k - 1)) = 2 * m
    BY <1>3, <1>5, PowerPositive, PowerOfSucc
  <1>7. Same(k) <=> Same(k - 1) /\ BitOf(a, d, k) = BitOf(b, d, k)
    <2>1. PICK x, y, u, v, s, t : /\ x = a \div m /\ y = b \div m /\ u = a \div (2 * m) /\ v = b \div (2 * m)
                                  /\ s = (a \div m) % 2 /\ t = (b \div m) % 2
      OBVIOUS
    <2>2. /\ x \in Nat /\ y \in Nat /\ u \in Nat /\ v \in Nat /\ s \in {0, 1} /\ t \in {0, 1}
          /\ x = 2 * u + s /\ y = 2 * v + t
      BY <1>6, <2>1, DivTwice
    <2>3. x = y <=> u = v /\ s = t
      BY <2>2
    <2> QED  BY <1>5, <1>6, <2>1, <2>3 DEF BitOf
  <1>8. Agree(k) <=> Agree(k - 1) /\ BitOf(a, d, k) = BitOf(b, d, k)
    <2>1. 1..k = 1..(k - 1) \cup {k}
      BY <1>2, <1>3
    <2> QED  BY <2>1
  <1> QED  BY <1>1, <1>4, <1>7, <1>8

\* Every sequence of bits is that of an address in the block.
LEMMA BitsExist ==
    ASSUME NEW d \in Nat, NEW q \in Nat, NEW bits \in [1..d -> {0, 1}]
    PROVE  \E a \in Nat : a \div 2^d = q /\ \A i \in 1..d : BitOf(a, d, i) = bits[i]
  <1> DEFINE Fits(k, a) == a \div 2^k = q /\ \A i \in 1..k : BitOf(a, k, i) = bits[i]
             Wrong == {k \in 0..d : ~\E a \in Nat : Fits(k, a)}
  <1>0. Wrong = {} => \E a \in Nat : Fits(d, a)
    <2> HIDE DEF Fits
    <2> QED  OBVIOUS
  <1> SUFFICES ASSUME Wrong # {} PROVE FALSE
    BY <1>0
  <1>1. PICK k \in Wrong : \A l \in Wrong : k <= l
    <2>1. Wrong \in SUBSET Nat
      OBVIOUS
    <2> HIDE DEF Wrong
    <2> QED  BY <2>1, LeastOne
  <1>2. k # 0
    <2>1. q \div 2^0 = q
      BY PowerOfZero
    <2>2. Fits(0, q)
      BY <2>1
    <2> QED  BY <1>1, <2>2
  <1>3. k \in 1..d /\ k - 1 \in 0..d /\ k - 1 \in Nat /\ k = (k - 1) + 1
    BY <1>1, <1>2
  <1>4. PICK y \in Nat : Fits(k - 1, y)
    <2>1. k - 1 \notin Wrong
      <3> HIDE DEF Wrong
      <3> QED  BY <1>1, <1>3
    <2> QED  BY <1>3, <2>1
  <1>5. bits[k] \in {0, 1}
    BY <1>3
  <1>6. PICK a \in Nat : a = 2 * y + bits[k]
    <2>1. 2 * y + bits[k] \in Nat
      BY <1>5
    <2> QED  BY <2>1
  <1>7. a \div 2 = y /\ a % 2 = bits[k]
    BY <1>5, <1>6
  <1>8. a \div 2^k = q
    <2>1. PICK m : m = 2^(k - 1)
      OBVIOUS
    <2>2. m \in Nat \ {0} /\ 2^k = 2 * m
      BY <1>3, <2>1, PowerPositive, PowerOfSucc
    <2>3. a \div (2 * m) = (a \div 2) \div m
      BY <2>2, DivTwice
    <2> QED  BY <1>4, <1>7, <2>1, <2>2, <2>3
  <1>9. ASSUME NEW i \in 1..k
        PROVE  BitOf(a, k, i) = bits[i]
    <2>1. CASE i = k
      <3>1. 2^(k - i) = 1 /\ a \div 1 = a
        BY <1>3, <2>1, PowerOfZero
      <3> QED  BY <1>7, <2>1, <3>1 DEF BitOf
    <2>2. CASE i # k
      <3>1. i \in 1..(k - 1) /\ (k - 1) - i \in Nat /\ k - i = ((k - 1) - i) + 1
        BY <1>3, <2>2
      <3>2. PICK m : m = 2^((k - 1) - i)
        OBVIOUS
      <3>3. m \in Nat \ {0} /\ 2^(k - i) = 2 * m
        BY <3>1, <3>2, PowerPositive, PowerOfSucc
      <3>4. a \div (2 * m) = (a \div 2) \div m
        BY <3>3, DivTwice
      <3>5. BitOf(a, k, i) = BitOf(y, k - 1, i)
        BY <1>7, <3>2, <3>3, <3>4 DEF BitOf
      <3> QED  BY <1>4, <3>1, <3>5
    <2> QED  BY <2>1, <2>2
  <1>10. Fits(k, a)
    BY <1>8, <1>9
  <1> QED  BY <1>1, <1>10

-----------------------------------------------------------------------------
(* The path of a block below the root                                      *)

\* A canonical block inside the root.
Within(root, c) ==
    /\ c \in Cidr
    /\ c.address % Size(c) = 0
    /\ root.prefix <= c.prefix
    /\ c.address \in Addresses(root)

\* The addresses of a block share their quotient by its size.
LEMMA AddressesAre ==
    ASSUME NEW c \in Cidr, NEW a
    PROVE  a \in Addresses(c) <=> a \in Address /\ a \in Nat /\ a \div Size(c) = c.address \div Size(c)
  BY AddressIs DEF Addresses

\* A valid list has one block for every address of its root.
LEMMA OwnersAre ==
    ASSUME NEW state \in States, state.allocations # <<>>, ValidPartition(state)
    PROVE  /\ \A leaf \in Leaves(state) : leaf \in Allocation /\ Within(state.root, leaf.cidr)
           /\ \A i, j \in DOMAIN state.allocations : \A a :
                 a \in Addresses(state.allocations[i].cidr) /\ a \in Addresses(state.allocations[j].cidr) => i = j
           /\ \A a \in Addresses(state.root) : \E leaf \in Leaves(state) : a \in Addresses(leaf.cidr)
  <1> DEFINE s == state.allocations
             O(a) == Owners(state, a)
  <1>1. Partitions(state) /\ CanonicalNames(state)
    BY ValidIs
  <1>2. state.root \in Cidr /\ s \in Seq(Allocation) /\ \A leaf \in Leaves(state) : leaf \in Allocation /\ leaf.cidr \in Cidr
    BY StateIs
  <1>3. DOMAIN s = 1..Len(s) /\ Len(s) \in Nat /\ IsFiniteSet(1..Len(s))
    BY <1>2, FS_Interval
  <1>4. \A a \in Address : IF a \in Addresses(state.root) THEN \E i : O(a) = {i} ELSE O(a) = {}
    <2>1. \A a : O(a) \subseteq 1..Len(s)
      BY <1>3 DEF Owners
    <2>2. \A a : IsFiniteSet(O(a))
      BY <1>3, <2>1, FS_Subset
    <2>3. \A a \in Address : Cardinality(O(a)) = IF a \in Addresses(state.root) THEN 1 ELSE 0
      BY <1>1 DEF Partitions
    <2> HIDE DEF O
    <2>4. \A a : (Cardinality(O(a)) = 1 <=> \E i : O(a) = {i}) /\ (Cardinality(O(a)) = 0 <=> O(a) = {})
      BY <2>2, FS_Singleton, FS_EmptySet
    <2> QED  BY <2>3, <2>4
  <1>5. \A c : \A a \in Addresses(c) : a \in Address
    BY DEF Addresses
  <1>6. \A a : \A i \in DOMAIN s : a \in Addresses(s[i].cidr) => i \in O(a)
    BY DEF Owners
  <1>7. \A i \in DOMAIN s : \A a \in Addresses(s[i].cidr) : a \in Addresses(state.root)
    BY <1>4, <1>5, <1>6
  <1>8. \A leaf \in Leaves(state) : leaf.cidr.address \in Addresses(state.root)
    <2> SUFFICES ASSUME NEW leaf \in Leaves(state) PROVE leaf.cidr.address \in Addresses(state.root)
      OBVIOUS
    <2>1. PICK i \in DOMAIN s : leaf = s[i]
      BY DEF Leaves, Range
    <2>2. leaf.cidr.address \in Addresses(leaf.cidr)
      BY <1>2 DEF Addresses, Cidr
    <2> QED  BY <1>7, <2>1, <2>2
  <1>9. \A leaf \in Leaves(state) : state.root.prefix <= leaf.cidr.prefix
    <2>1. PICK t : t = Sorted(s)
      OBVIOUS
    <2>2. Range(t) = Leaves(state) /\ t \in Seq(Allocation) /\ Len(t) = Len(s)
      BY <1>2, <2>1, SortKeeps DEF Leaves
    <2>3. Len(t) # 0
      BY <1>2, <2>2, EmptySeq
    <2>4. \A k \in 1..Len(t) : state.root.prefix <= t[k].cidr.prefix
      BY <2>1, <2>3, WalkIs
    <2> QED  BY <2>2, <2>4 DEF Range
  <1>10. \A leaf \in Leaves(state) : leaf.cidr.address % Size(leaf.cidr) = 0
    BY <1>1 DEF CanonicalNames
  <1>11. \A a \in Addresses(state.root) : \E leaf \in Leaves(state) : a \in Addresses(leaf.cidr)
    <2> SUFFICES ASSUME NEW a \in Addresses(state.root)
                 PROVE  \E leaf \in Leaves(state) : a \in Addresses(leaf.cidr)
      OBVIOUS
    <2>1. PICK i : O(a) = {i}
      BY <1>4, <1>5
    <2>2. i \in DOMAIN s /\ a \in Addresses(s[i].cidr)
      BY <2>1 DEF Owners
    <2>3. s[i] \in Leaves(state)
      BY <2>2 DEF Leaves, Range
    <2> QED  BY <2>2, <2>3
  <1>12. \A i, j \in DOMAIN s : \A a : a \in Addresses(s[i].cidr) /\ a \in Addresses(s[j].cidr) => i = j
    <2> SUFFICES ASSUME NEW i \in DOMAIN s, NEW j \in DOMAIN s, NEW a,
                        a \in Addresses(s[i].cidr), a \in Addresses(s[j].cidr)
                 PROVE  i = j
      OBVIOUS
    <2>1. i \in O(a) /\ j \in O(a) /\ a \in Address
      BY <1>5, <1>6
    <2> HIDE DEF O
    <2>2. O(a) = {} \/ \E k : O(a) = {k}
      BY <1>4, <2>1
    <2> QED  BY <2>1, <2>2
  <1> QED  BY <1>2, <1>8, <1>9, <1>10, <1>11, <1>12 DEF Within

\* A leaf of a valid list is known by its block.
LEMMA OneLeaf ==
    ASSUME NEW state \in States, state.allocations # <<>>, ValidPartition(state)
    PROVE  /\ \A leaf, other \in Leaves(state) : \A a :
                 a \in Addresses(leaf.cidr) /\ a \in Addresses(other.cidr) => leaf = other
           /\ \A i, j \in DOMAIN state.allocations :
                 state.allocations[i].cidr = state.allocations[j].cidr => i = j
  <1> DEFINE s == state.allocations
  <1>1. \A i, j \in DOMAIN s : \A a : a \in Addresses(s[i].cidr) /\ a \in Addresses(s[j].cidr) => i = j
    BY OwnersAre
  <1>2. \A leaf \in Leaves(state) : leaf.cidr.address \in Addresses(leaf.cidr)
    BY StateIs DEF Addresses, Cidr
  <1>3. \A i \in DOMAIN s : s[i] \in Leaves(state)
    BY DEF Leaves, Range
  <1>4. \A leaf \in Leaves(state) : \E i \in DOMAIN s : leaf = s[i]
    BY DEF Leaves, Range
  <1> HIDE DEF s
  <1>5. \A leaf, other \in Leaves(state) : \A a :
                   a \in Addresses(leaf.cidr) /\ a \in Addresses(other.cidr) => leaf = other
    BY <1>1, <1>4
  <1>6. \A i, j \in DOMAIN s : s[i].cidr = s[j].cidr => i = j
    BY <1>1, <1>2, <1>3
  <1> QED  BY <1>5, <1>6 DEF s

\* The path of a block of the root is a path of the tree.
LEMMA PathIs ==
    ASSUME NEW root \in Cidr, NEW c \in Cidr, root.prefix <= c.prefix
    PROVE  /\ Bits - root.prefix \in 0..Bits /\ c.prefix - root.prefix \in 0..(Bits - root.prefix)
           /\ PathIn(root, c) \in [1..(c.prefix - root.prefix) -> {0, 1}]
           /\ PathIn(root, c) \in Seq({0, 1}) /\ Len(PathIn(root, c)) = c.prefix - root.prefix
           /\ PathIn(root, c) \in Tree!Paths(Bits - root.prefix)
  <1> DEFINE d == Bits - root.prefix
             n == c.prefix - root.prefix
  <1>1. d \in 0..Bits /\ n \in 0..d /\ c.address \in Nat
    BY BitsAssumption, AddressIs DEF Cidr
  <1>2. \A i \in 1..n : BitOf(c.address, d, i) \in {0, 1}
    <2> SUFFICES ASSUME NEW i \in 1..n PROVE BitOf(c.address, d, i) \in {0, 1}
      OBVIOUS
    <2>1. d - i \in Nat
      BY <1>1
    <2>2. PICK m : m = 2^(d - i)
      OBVIOUS
    <2>3. m \in Nat \ {0}
      BY <2>1, <2>2, PowerPositive
    <2>4. (c.address \div m) % 2 \in {0, 1}
      BY <1>1, <2>3, DivTwice
    <2> QED  BY <2>2, <2>4 DEF BitOf
  <1>3. PathIn(root, c) \in [1..n -> {0, 1}]
    BY <1>2 DEF PathIn
  <1>4. PathIn(root, c) \in Seq({0, 1}) /\ Len(PathIn(root, c)) = n
    BY <1>1, <1>3, IsASeq
  <1>5. PathIn(root, c) \in Tree!Paths(d)
    BY <1>1, <1>3 DEF Tree!Paths, Tree!Bit
  <1> QED  BY <1>1, <1>3, <1>4, <1>5

\* The path of a block tells which addresses of the root are in the block.
LEMMA PathDecides ==
    ASSUME NEW root \in Cidr, NEW c \in Cidr, root.prefix <= c.prefix, c.address \in Addresses(root),
           NEW a \in Addresses(root)
    PROVE  a \in Addresses(c) <=> \A i \in 1..(c.prefix - root.prefix) :
                                     BitOf(a, Bits - root.prefix, i) = PathIn(root, c)[i]
  <1> DEFINE d == Bits - root.prefix
             n == c.prefix - root.prefix
  <1>1. d \in Nat /\ n \in 0..d /\ d - n = Bits - c.prefix
    BY BitsAssumption DEF Cidr
  <1>2. /\ a \in Address /\ a \in Nat /\ c.address \in Nat
        /\ a \div 2^d = c.address \div 2^d
    BY AddressesAre DEF Size
  <1> HIDE DEF d, n
  <1>3. a \div 2^(d - n) = c.address \div 2^(d - n) <=> \A i \in 1..n : BitOf(a, d, i) = BitOf(c.address, d, i)
    BY <1>1, <1>2, BitsDecide
  <1>4. \A i \in 1..n : PathIn(root, c)[i] = BitOf(c.address, d, i)
    BY DEF PathIn, d, n
  <1>5. a \in Addresses(c) <=> a \div 2^(d - n) = c.address \div 2^(d - n)
    BY <1>1, <1>2, AddressesAre DEF Size
  <1> QED  BY <1>3, <1>4, <1>5 DEF d, n

\* One path is above another exactly if the one block contains the other.
LEMMA AboveIs ==
    ASSUME NEW root \in Cidr, NEW c, NEW x, Within(root, c), Within(root, x)
    PROVE  Tree!Above(PathIn(root, c), PathIn(root, x)) <=> c.prefix <= x.prefix /\ x.address \in Addresses(c)
  <1> DEFINE n == c.prefix - root.prefix
             m == x.prefix - root.prefix
             p == PathIn(root, c)
             q == PathIn(root, x)
  <1>1. /\ c \in Cidr /\ x \in Cidr /\ root.prefix <= c.prefix /\ root.prefix <= x.prefix
        /\ c.address \in Addresses(root) /\ x.address \in Addresses(root)
    BY DEF Within
  <1>2. Len(p) = n /\ Len(q) = m /\ n \in Nat /\ m \in Nat
    BY <1>1, PathIs
  <1>3. \A i \in 1..m : q[i] = BitOf(x.address, Bits - root.prefix, i)
    BY DEF PathIn
  <1>4. x.address \in Addresses(c) <=> \A i \in 1..n : BitOf(x.address, Bits - root.prefix, i) = p[i]
    BY <1>1, PathDecides
  <1>5. n <= m <=> c.prefix <= x.prefix
    BY <1>1, BitsAssumption DEF Cidr
  <1> HIDE DEF p, q, n, m
  <1>6. n <= m => \A i \in 1..n : i \in 1..m
    BY <1>2
  <1> QED  BY <1>2, <1>3, <1>4, <1>5, <1>6 DEF Tree!Above, p, q

-----------------------------------------------------------------------------
(* The tree of a valid state                                               *)

PathsOf(state) == {PathIn(state.root, leaf.cidr) : leaf \in Leaves(state)}
DepthOf(state) == Bits - state.root.prefix
TreeOf(state) == [p \in PathsOf(state) |->
                     (CHOOSE leaf \in Leaves(state) : PathIn(state.root, leaf.cidr) = p).note]

\* A leaf of a valid list is known by its path.
LEMMA OnePath ==
    ASSUME NEW state, Valid(state), NEW leaf \in Leaves(state), NEW other \in Leaves(state),
           Tree!Above(PathIn(state.root, leaf.cidr), PathIn(state.root, other.cidr))
    PROVE  leaf = other
  <1>1. Within(state.root, leaf.cidr) /\ Within(state.root, other.cidr) /\ state.root \in Cidr
    BY OwnersAre, StateIs DEF Valid
  <1>2. other.cidr.address \in Addresses(leaf.cidr)
    BY <1>1, AboveIs
  <1>3. other.cidr.address \in Addresses(other.cidr)
    BY <1>1 DEF Within, Addresses, Cidr
  <1> QED  BY <1>2, <1>3, OneLeaf DEF Valid

\* A path is above itself.
LEMMA AboveItself == ASSUME NEW p \in Seq({0, 1}) PROVE Tree!Above(p, p)
  BY DEF Tree!Above

\* The tree that is read off a valid state gives every leaf its note.
LEMMA TreeIs ==
    ASSUME NEW state, Valid(state)
    PROVE  /\ DOMAIN TreeOf(state) = PathsOf(state)
           /\ \A leaf \in Leaves(state) : /\ PathIn(state.root, leaf.cidr) \in PathsOf(state)
                                          /\ TreeOf(state)[PathIn(state.root, leaf.cidr)] = leaf.note
           /\ \A leaf, other \in Leaves(state) :
                 PathIn(state.root, leaf.cidr) = PathIn(state.root, other.cidr) => leaf = other
           /\ TreeOf(state) \in [PathsOf(state) -> Notes]
  <1>1. \A leaf \in Leaves(state) : leaf \in Allocation /\ PathIn(state.root, leaf.cidr) \in Seq({0, 1})
    <2> SUFFICES ASSUME NEW leaf \in Leaves(state)
                 PROVE  leaf \in Allocation /\ PathIn(state.root, leaf.cidr) \in Seq({0, 1})
      OBVIOUS
    <2>1. Within(state.root, leaf.cidr) /\ state.root \in Cidr /\ leaf \in Allocation
      BY OwnersAre, StateIs DEF Valid
    <2> QED  BY <2>1, PathIs DEF Within
  <1>2. \A leaf, other \in Leaves(state) :
           PathIn(state.root, leaf.cidr) = PathIn(state.root, other.cidr) => leaf = other
    BY <1>1, AboveItself, OnePath
  <1>3. ASSUME NEW leaf \in Leaves(state)
        PROVE  (CHOOSE l \in Leaves(state) : PathIn(state.root, l.cidr) = PathIn(state.root, leaf.cidr)) = leaf
    BY <1>2
  <1>4. \A leaf \in Leaves(state) : /\ PathIn(state.root, leaf.cidr) \in PathsOf(state)
                                    /\ TreeOf(state)[PathIn(state.root, leaf.cidr)] = leaf.note
    BY <1>3 DEF TreeOf, PathsOf
  <1>5. \A p \in PathsOf(state) : TreeOf(state)[p] \in Notes
    <2> SUFFICES ASSUME NEW p \in PathsOf(state) PROVE TreeOf(state)[p] \in Notes
      OBVIOUS
    <2>1. PICK leaf \in Leaves(state) : p = PathIn(state.root, leaf.cidr)
      BY DEF PathsOf
    <2>2. leaf.note \in Notes
      BY <1>1 DEF Allocation
    <2> QED  BY <1>4, <2>1, <2>2
  <1>6. TreeOf(state) = [p \in PathsOf(state) |-> TreeOf(state)[p]]
    BY DEF TreeOf
  <1> QED  BY <1>2, <1>4, <1>5, <1>6

\* The paths of a valid list partition the tree below its root.
LEMMA PathsPartition ==
    ASSUME NEW state, Valid(state)
    PROVE  DepthOf(state) \in 0..Bits /\ Tree!Partition(DepthOf(state), PathsOf(state))
  <1> DEFINE root == state.root
             d == DepthOf(state)
  <1>1. /\ root \in Cidr
        /\ \A leaf \in Leaves(state) : Within(root, leaf.cidr) /\ leaf.cidr \in Cidr /\ root.prefix <= leaf.cidr.prefix
    BY OwnersAre, StateIs DEF Valid, Within
  <1>2. d \in 0..Bits
    BY <1>1, BitsAssumption DEF DepthOf, Cidr
  <1>3. PathsOf(state) \subseteq Tree!Paths(d)
    BY <1>1, PathIs DEF PathsOf, DepthOf
  <1>4. ASSUME NEW p \in PathsOf(state), NEW q \in PathsOf(state), Tree!Above(p, q)
        PROVE  p = q
    BY <1>4, OnePath DEF PathsOf
  <1>5. ASSUME NEW bits \in Tree!Addresses(d)
        PROVE  \E p \in PathsOf(state) : Tree!Above(p, bits)
    <2>1. bits \in [1..d -> {0, 1}] /\ d \in Nat
      BY <1>2, <1>5 DEF Tree!Addresses, Tree!Bit
    <2>2. PICK q : q = root.address \div Size(root)
      OBVIOUS
    <2>3. /\ Size(root) \in Nat \ {0} /\ Size(root) = 2^d /\ root.address \in Nat /\ Start(root) = q * Size(root)
          /\ q \in Nat /\ End(root) = Start(root) + Size(root) - 1 /\ End(root) < 2^Bits
          /\ End(root) + 1 = Start(root) + Size(root) /\ End(root) \in Nat /\ Start(root) \in Nat
      <3>1. root.address \in Nat /\ Size(root) \in Nat \ {0}
        BY <1>1, BlockIs, AddressIs DEF Cidr
      <3>2. q \in Nat
        BY <2>2, <3>1, DivIs
      <3> QED  BY <1>1, <2>2, <3>1, <3>2, BlockIs DEF DepthOf, Size, Start, End
    <2>4. PICK a \in Nat : a \div 2^d = q /\ \A i \in 1..d : BitOf(a, d, i) = bits[i]
      BY <2>1, <2>3, BitsExist
    <2>5. a \in Addresses(root)
      <3>1. PICK z, y : z = Size(root) /\ y = q * z
        OBVIOUS
      <3>2. y \in Nat /\ z \in Nat \ {0} /\ a = y + (a % z) /\ a % z \in 0..(z - 1)
        BY <2>3, <2>4, <3>1, DivIs
      <3>3. a < y + z /\ y + z <= 2^Bits
        <4>1. a < y + z
          BY <3>2
        <4>2. y + z = End(root) + 1
          BY <2>3, <3>1
        <4>3. 2^Bits \in Nat
          BY AddressIs
        <4> QED  BY <2>3, <4>1, <4>2, <4>3
      <3>4. a \in Address
        BY <3>2, <3>3, AddressIs
      <3> QED  BY <1>1, <2>2, <2>3, <2>4, <3>4, AddressesAre
    <2>6. PICK leaf \in Leaves(state) : a \in Addresses(leaf.cidr)
      BY <2>5, OwnersAre DEF Valid
    <2> DEFINE c == leaf.cidr
               n == c.prefix - root.prefix
               p == PathIn(root, c)
    <2>7. \A i \in 1..n : BitOf(a, d, i) = p[i]
      BY <1>1, <2>5, <2>6, PathDecides DEF Within, DepthOf
    <2>8. n \in 0..d /\ Len(p) = n
      BY <1>1, PathIs DEF DepthOf
    <2>9. Len(bits) = d
      BY <2>1
    <2>10. p \in PathsOf(state)
      BY DEF PathsOf
    <2> HIDE DEF p, n, d
    <2>11. Len(p) <= Len(bits) /\ \A i \in 1..Len(p) : p[i] = bits[i]
      <3>1. \A i \in 1..n : i \in 1..d
        BY <1>2, <2>8
      <3>2. n <= d
        BY <1>2, <2>8
      <3> QED  BY <2>4, <2>7, <2>8, <2>9, <3>1, <3>2
    <2> QED  BY <2>10, <2>11 DEF Tree!Above
  <1> QED  BY <1>2, <1>3, <1>4, <1>5 DEF Tree!Partition

\* Division by a product in two steps.
LEMMA DivTimes ==
    ASSUME NEW a \in Nat, NEW m \in Nat \ {0}, NEW h \in Nat \ {0}
    PROVE  a \div (m * h) = (a \div h) \div m
  <1>1. PICK q, r : q = a \div h /\ r = a % h
    OBVIOUS
  <1>2. q \in Nat /\ r \in 0..(h - 1) /\ a = q * h + r
    BY <1>1, DivIs
  <1>3. PICK u, v : u = q \div m /\ v = q % m
    OBVIOUS
  <1>4. u \in Nat /\ v \in 0..(m - 1) /\ q = u * m + v
    BY <1>2, <1>3, DivIs
  <1>5. q * h = u * (m * h) + v * h /\ v * h + h <= m * h /\ v * h \in Nat /\ u * (m * h) \in Nat
    <2>1. v \in Nat /\ v < m
      BY <1>4
    <2>2. v * h + h <= m * h
      BY <2>1, MultiplesApart
    <2>3. q * h = u * (m * h) + v * h
      BY <1>2, <1>4
    <2> QED  BY <1>4, <2>1, <2>2, <2>3
  <1>6. PICK z, w : z = m * h /\ w = u * z
    OBVIOUS
  <1>7. z \in Nat \ {0} /\ w \in Nat
    BY <1>5, <1>6
  <1>8. w <= a /\ a < w + z
    <2>1. a = w + v * h + r
      BY <1>2, <1>5, <1>6
    <2>2. r < h /\ r \in Nat
      BY <1>2
    <2> QED  BY <1>5, <1>6, <1>7, <2>1, <2>2
  <1>9. a \div z = u
    BY <1>4, <1>6, <1>7, <1>8, DivUnique
  <1> QED  BY <1>1, <1>3, <1>6, <1>9

\* A block whose address is in the root, and that is no larger, is inside it.
LEMMA WithinSubset ==
    ASSUME NEW root \in Cidr, NEW c \in Cidr, root.prefix <= c.prefix, c.address \in Addresses(root)
    PROVE  Addresses(c) \subseteq Addresses(root)
  <1> DEFINE n == c.prefix - root.prefix
  <1>1. n \in Nat /\ Bits - c.prefix \in Nat /\ Bits - root.prefix = n + (Bits - c.prefix)
    BY BitsAssumption DEF Cidr
  <1>2. PICK m, h : m = 2^n /\ h = Size(c)
    OBVIOUS
  <1>3. m \in Nat \ {0} /\ h \in Nat \ {0} /\ Size(root) = m * h
    BY <1>1, <1>2, PowerOfSum, PowerPositive DEF Size
  <1>4. \A a \in Nat : a \div (m * h) = (a \div h) \div m
    BY <1>3, DivTimes
  <1>5. c.address \in Nat
    BY AddressIs DEF Cidr
  <1>6. \A a : a \in Nat /\ a \div h = c.address \div h => a \div (m * h) = c.address \div (m * h)
    BY <1>4, <1>5
  <1> QED  BY <1>2, <1>3, <1>6, AddressesAre

\* The path of a half is the path of the block, and a bit.
LEMMA HalfPath ==
    ASSUME NEW root \in Cidr, NEW g, Within(root, g), g.prefix # Bits, NEW b \in {0, 1}, NEW c \in Cidr,
           c.prefix = g.prefix + 1, c.address = Start(g) + b * (Size(g) \div 2)
    PROVE  PathIn(root, c) = Append(PathIn(root, g), b)
  <1> DEFINE d == Bits - root.prefix
             n == g.prefix - root.prefix
             h == 2^(Bits - c.prefix)
             q == g.address \div Size(g)
  <1>1. /\ g \in Cidr /\ root.prefix <= g.prefix /\ g.address \in Addresses(root) /\ g.address = Start(g)
        /\ g.address \in Nat
    BY BlockIs, AddressIs DEF Within, Cidr
  <1>2. d \in Nat /\ n \in 0..d /\ n + 1 \in 0..d /\ d - (n + 1) = Bits - c.prefix /\ Bits - c.prefix \in Nat
        /\ Bits - g.prefix = (Bits - c.prefix) + 1 /\ c.prefix - root.prefix = n + 1 /\ root.prefix <= c.prefix
    BY <1>1, BitsAssumption DEF Cidr
  <1>3. h \in Nat \ {0} /\ Size(g) = 2 * h /\ Size(c) = h
    BY <1>2, PowerPositive, PowerOfSucc DEF Size
  <1>4. Size(g) \div 2 = h
    BY <1>3
  <1>5. q \in Nat /\ g.address = q * Size(g)
    <2>1. Size(g) \in Nat \ {0}
      BY <1>1, BlockIs
    <2>2. q \in Nat
      BY <1>1, <2>1, DivIs
    <2>3. g.address = q * Size(g)
      BY <1>1 DEF Start
    <2> QED  BY <2>2, <2>3
  <1> HIDE DEF h, q
  <1>6. c.address = g.address + b * h /\ b * h \in Nat /\ b * h + h <= 2 * h
    <2>1. b = 0 \/ b = 1
      OBVIOUS
    <2>2. b * h \in Nat /\ b * h + h <= 2 * h
      BY <1>3, <2>1
    <2> QED  BY <1>1, <1>4, <2>2
  <1>7. c.address \div Size(g) = q
    <2>1. PICK z : z = q * Size(g)
      OBVIOUS
    <2>2. z \in Nat /\ z <= c.address /\ c.address < z + Size(g) /\ c.address \in Nat
      BY <1>1, <1>3, <1>5, <1>6, <2>1
    <2> QED  BY <1>3, <1>5, <2>1, <2>2, DivUnique
  <1>8. c.address \div h = 2 * q + b
    <2>1. g.address = (2 * q) * h
      BY <1>3, <1>5
    <2>2. (2 * q + b) * h = (2 * q) * h + b * h
      BY <1>3, <1>5
    <2>3. c.address = (2 * q + b) * h /\ 2 * q + b \in Nat /\ c.address \in Nat
      BY <1>1, <1>5, <1>6, <2>1, <2>2
    <2>4. PICK z : z = (2 * q + b) * h
      OBVIOUS
    <2>5. z <= c.address /\ c.address < z + h
      BY <1>3, <2>3, <2>4
    <2> QED  BY <1>3, <2>3, <2>4, <2>5, DivUnique
  <1>9. c.address \in Addresses(g)
    <2>1. c.address \in Address /\ c.address \in Nat
      BY AddressIs DEF Cidr
    <2>2. c.address \div Size(g) = g.address \div Size(g)
      BY <1>7 DEF q
    <2> QED  BY <1>1, <2>1, <2>2, AddressesAre
  <1>10. c.address \in Addresses(root)
    <2>1. Start(g) \in Nat /\ Addresses(g) \subseteq Addresses(root)
      BY <1>1, WithinSubset
    <2> QED  BY <1>9, <2>1
  <1>11. \A i \in 1..n : BitOf(c.address, d, i) = PathIn(root, g)[i]
    BY <1>1, <1>9, <1>10, PathDecides
  <1>12. BitOf(c.address, d, n + 1) = b
    <2>1. (2 * q + b) % 2 = b
      BY <1>5
    <2> QED  BY <1>2, <1>8, <2>1 DEF BitOf, h
  <1>13. PathIn(root, c) = [i \in 1..(n + 1) |-> BitOf(c.address, d, i)]
    BY <1>2 DEF PathIn
  <1>14. PathIn(root, g) \in Seq({0, 1}) /\ Len(PathIn(root, g)) = n
    BY <1>1, PathIs
  <1>15. PathIn(root, c) \in Seq({0, 1}) /\ Len(PathIn(root, c)) = n + 1
    BY <1>2, PathIs
  <1>16. PICK p : p = PathIn(root, g)
    OBVIOUS
  <1>17. PICK r : r = PathIn(root, c)
    OBVIOUS
  <1>18. \A i \in 1..(n + 1) : r[i] = Append(p, b)[i]
    <2>1. \A i \in 1..(n + 1) : i \in 1..n \/ i = n + 1
      BY <1>2
    <2>2. \A i \in 1..n : Append(p, b)[i] = p[i]
      BY <1>14, <1>16
    <2>3. Append(p, b)[n + 1] = b
      BY <1>14, <1>16
    <2>4. \A i \in 1..(n + 1) : r[i] = BitOf(c.address, d, i)
      BY <1>13, <1>17
    <2>5. n + 1 \in 1..(n + 1)
      BY <1>2
    <2> HIDE DEF n, d
    <2> QED  BY <1>11, <1>12, <1>16, <2>1, <2>2, <2>3, <2>4, <2>5
  <1>19. Append(p, b) \in Seq({0, 1}) /\ Len(Append(p, b)) = n + 1
    BY <1>14, <1>16
  <1> QED  BY <1>15, <1>16, <1>17, <1>18, <1>19, SeqEqual

-----------------------------------------------------------------------------
(* The refinement mapping                                                  *)

\* The tree that the refinement mapping reads off a plan.
DepthSeen == IF plan = NoPlan THEN 0 ELSE DepthOf(plan)
TreeSeen == TreeOf(plan)

\* The path of a block of the plan.
LEMMA PathSeen == \A c : Path(c) = PathIn(plan.root, c)
  BY DEF Path, PathIn, BitOf

\* The steps of the tree in terms of what is seen of the plan: a split,
LEMMA SplitSeen ==
    ASSUME NEW p
    PROVE  Tree!Split(p) <=> /\ p \in DOMAIN TreeSeen /\ Len(p) < DepthSeen
                             /\ TreeSeen' = [q \in (DOMAIN TreeSeen \ {p}) \cup Tree!Children(p) |->
                                               IF q \in Tree!Children(p) THEN TreeSeen[p] ELSE TreeSeen[q]]
                             /\ DepthSeen' = DepthSeen
  BY DEF Tree!Split, TreeSeen, DepthSeen, TreeOf, PathsOf, DepthOf, Path, PathIn, BitOf

\* a join,
LEMMA JoinSeen ==
    ASSUME NEW p, NEW n
    PROVE  Tree!Join(p, n) <=> /\ Tree!Children(p) \subseteq DOMAIN TreeSeen
                               /\ TreeSeen' = [q \in (DOMAIN TreeSeen \ Tree!Children(p)) \cup {p} |->
                                                 IF q = p THEN n ELSE TreeSeen[q]]
                               /\ DepthSeen' = DepthSeen
  BY DEF Tree!Join, TreeSeen, DepthSeen, TreeOf, PathsOf, DepthOf, Path, PathIn, BitOf

\* an annotation,
LEMMA AnnotateSeen ==
    ASSUME NEW p, NEW n
    PROVE  Tree!Annotate(p, n) <=> /\ p \in DOMAIN TreeSeen
                                   /\ TreeSeen' = [TreeSeen EXCEPT ![p] = n]
                                   /\ DepthSeen' = DepthSeen
  BY DEF Tree!Annotate, TreeSeen, DepthSeen, TreeOf, PathsOf, DepthOf, Path, PathIn, BitOf

\* a new plan,
LEMMA AdoptSeen ==
    Tree!Adopt <=> /\ DepthSeen' \in 0..Bits
                   /\ TreeSeen' \in [DOMAIN TreeSeen' -> Notes]
                   /\ Tree!Partition(DepthSeen', DOMAIN TreeSeen')
  BY DEF Tree!Adopt, TreeSeen, DepthSeen, TreeOf, PathsOf, DepthOf, Path, PathIn, BitOf

\* a reset,
LEMMA ClearSeen == Tree!Clear <=> DepthSeen' = 0 /\ TreeSeen' = <<>>
  BY DEF Tree!Clear, TreeSeen, DepthSeen, TreeOf, PathsOf, DepthOf, Path, PathIn, BitOf

\* the initial state,
LEMMA StartSeen == Tree!Init <=> DepthSeen = 0 /\ TreeSeen = <<>>
  BY DEF Tree!Init, TreeSeen, DepthSeen, TreeOf, PathsOf, DepthOf, Path, PathIn, BitOf

\* and a step that leaves the tree alone.
LEMMA StutterSeen == UNCHANGED <<DepthSeen, TreeSeen>> <=> UNCHANGED Tree!vars
  BY DEF Tree!vars, TreeSeen, DepthSeen, TreeOf, PathsOf, DepthOf, Path, PathIn, BitOf

\* Without a plan there is no leaf.
LEMMA NoTree == TreeOf(NoPlan) = <<>>
  <1>1. PathsOf(NoPlan) = {}
    BY NoPlanIs DEF PathsOf
  <1>2. DOMAIN TreeOf(NoPlan) = {}
    BY <1>1 DEF TreeOf
  <1>3. TreeOf(NoPlan) = [p \in {} |-> TreeOf(NoPlan)[p]]
    BY <1>1 DEF TreeOf
  <1>4. <<>> = [p \in {} |-> TreeOf(NoPlan)[p]]
    OBVIOUS
  <1> QED  BY <1>3, <1>4

-----------------------------------------------------------------------------
(* Create, import, export and split on the tree                            *)

\* What is kept of a state is the tree of the state.
LEMMA TakenTree ==
    ASSUME NEW state, Taken(state)
    PROVE  /\ Valid(state) /\ DepthSeen' = DepthOf(state) /\ TreeSeen' = TreeOf(state)
           /\ SchemaAccepts(plan') /\ plan'.root = state.root /\ reply' = "accepted"
  <1>1. PICK q : q = InOrder(state)
    OBVIOUS
  <1>2. q.root = state.root /\ Leaves(q) = Leaves(state) /\ q # NoPlan /\ SchemaAccepts(q)
    BY <1>1, KeptValid DEF Taken
  <1>3. TreeOf(q) = TreeOf(state) /\ DepthOf(q) = DepthOf(state)
    BY <1>2 DEF TreeOf, DepthOf, PathsOf
  <1>4. plan' = q
    BY <1>1 DEF Taken
  <1>5. DepthSeen' = DepthOf(q) /\ TreeSeen' = TreeOf(q)
    BY <1>2, <1>4 DEF DepthSeen, TreeSeen
  <1> QED  BY <1>2, <1>3, <1>4, <1>5 DEF Taken

\* A plan that is created or read is a tree.
LEMMA TakenIsTree ==
    ASSUME NEW state, Taken(state)
    PROVE  Tree!Adopt
  <1>1. Valid(state) /\ DepthSeen' = DepthOf(state) /\ TreeSeen' = TreeOf(state)
    BY TakenTree
  <1>2. DOMAIN TreeOf(state) = PathsOf(state) /\ TreeOf(state) \in [PathsOf(state) -> Notes]
    BY <1>1, TreeIs
  <1>3. DepthOf(state) \in 0..Bits /\ Tree!Partition(DepthOf(state), PathsOf(state))
    BY <1>1, PathsPartition
  <1> QED  BY <1>1, <1>2, <1>3, AdoptSeen

\* The same list turned round.
LEMMA ReversedRange ==
    ASSUME NEW s \in Seq(Allocation)
    PROVE  Len(Reverse(s)) = Len(s) /\ Range(Reverse(s)) = Range(s)
  <1>1. Len(s) \in Nat /\ DOMAIN s = 1..Len(s)
    OBVIOUS
  <1>2. PICK r : r = Reverse(s)
    OBVIOUS
  <1>3. r \in Seq(Allocation) /\ r = [i \in 1..Len(s) |-> s[(Len(s) - i) + 1]]
    BY <1>2, EditsAreLists DEF Reverse
  <1>4. DOMAIN r = 1..Len(s) /\ Len(r) = Len(s)
    BY <1>1, <1>3
  <1>5. \A i \in 1..Len(s) : (Len(s) - i) + 1 \in 1..Len(s) /\ (Len(s) - ((Len(s) - i) + 1)) + 1 = i
    BY <1>1
  <1>6. \A i \in 1..Len(s) : r[i] = s[(Len(s) - i) + 1]
    BY <1>3
  <1>7. \A i \in 1..Len(s) : s[i] = r[(Len(s) - i) + 1]
    BY <1>5, <1>6
  <1>8. \A x : x \in Range(r) <=> x \in Range(s)
    BY <1>1, <1>4, <1>5, <1>6, <1>7 DEF Range
  <1> QED  BY <1>2, <1>4, <1>8

\* A state a request sent and the engine accepted is the plan, perhaps in another order.
LEMMA SentIs ==
    ASSUME PlanOK, plan # NoPlan, NEW state \in Sent, Requested(state)
    PROVE  /\ Valid(state) /\ Valid(plan) /\ state.root = plan.root /\ Leaves(state) = Leaves(plan)
           /\ Len(state.allocations) = Len(plan.allocations)
           /\ TreeSeen = TreeOf(state) /\ DepthSeen = DepthOf(state)
  <1> DEFINE s == plan.allocations
  <1>1. plan \in States /\ SchemaAccepts(plan) /\ ValidPartition(plan) /\ s # <<>> /\ s \in Seq(Allocation)
    BY StateIs DEF PlanOK, SchemaAccepts
  <1>2. Valid(plan)
    BY <1>1 DEF Valid
  <1>3. state \in States /\ ValidPartition(state) /\ SchemaAccepts(state)
    BY SentAreStates DEF Requested
  <1>4. Valid(state)
    BY <1>3 DEF Valid, SchemaAccepts
  <1>5. DOMAIN s = 1..Len(s) /\ Len(s) \in Nat \ {0}
    BY <1>1, EmptySeq
  <1>6. \A t : Edited(plan, t).root = plan.root /\ Edited(plan, t).allocations = t
    BY <1>1 DEF Edited, States
  <1>7. state.root = plan.root /\ Leaves(state) = Leaves(plan) /\ Len(state.allocations) = Len(s)
    <2>1. CASE state = plan
      BY <2>1
    <2>2. CASE state = Edited(plan, Reverse(s))
      <3>1. Len(Reverse(s)) = Len(s) /\ Range(Reverse(s)) = Range(s)
        BY <1>1, <1>5, ReversedRange
      <3> QED  BY <1>6, <2>2, <3>1 DEF Leaves
    <2>3. CASE state = Edited(plan, Tail(s))
      <3>1. PICK t : t = Tail(s)
        OBVIOUS
      <3>2. t \in Seq(Allocation) /\ Len(t) = Len(s) - 1 /\ \A i \in 1..Len(t) : t[i] = s[i + 1]
        BY <1>1, <1>5, <3>1
      <3>3. state.root = plan.root /\ state.allocations = t
        BY <1>6, <2>3, <3>1
      <3>4. PICK a : a = s[1].cidr.address
        OBVIOUS
      <3>5. s[1] \in Leaves(plan) /\ 1 \in DOMAIN s
        BY <1>5 DEF Leaves, Range
      <3>6. s[1].cidr \in Cidr /\ a \in Addresses(plan.root) /\ a \in Addresses(s[1].cidr)
        BY <1>1, <3>4, <3>5, OwnersAre DEF Within, Addresses
      <3>7. PICK leaf \in Leaves(state) : a \in Addresses(leaf.cidr)
        BY <1>4, <3>3, <3>6, OwnersAre DEF Valid
      <3>8. PICK i \in 1..Len(t) : leaf = t[i]
        BY <3>2, <3>3 DEF Leaves, Range
      <3>9. i + 1 \in DOMAIN s /\ i + 1 # 1 /\ leaf = s[i + 1]
        BY <1>5, <3>2, <3>8
      <3>10. i + 1 = 1
        BY <1>1, <3>5, <3>6, <3>7, <3>9, OwnersAre
      <3> QED  BY <3>9, <3>10
    <2> QED  BY <2>1, <2>2, <2>3 DEF Sent
  <1>8. TreeSeen = TreeOf(state) /\ DepthSeen = DepthOf(state)
    BY <1>7 DEF TreeSeen, TreeOf, PathsOf, DepthSeen, DepthOf
  <1> QED  BY <1>2, <1>4, <1>7, <1>8

\* An export changes nothing.
LEMMA ExportIsStutter ==
    ASSUME PlannerInv, Export
    PROVE  plan' = plan /\ (Refused \/ SchemaAccepts(plan'))
  <1> DEFINE state == command.state
  <1>1. CASE Refused
    BY <1>1 DEF Refused
  <1>2. CASE Requested(state) /\ Taken(state)
    <2>1. PlanOK /\ plan # NoPlan /\ state \in Sent
      BY StateSent DEF Export, Answers
    <2>2. Valid(state) /\ Valid(plan) /\ state.root = plan.root /\ Leaves(state) = Leaves(plan)
          /\ Len(state.allocations) = Len(plan.allocations)
      BY <1>2, <2>1, SentIs
    <2>3. PICK q : q = InOrder(state)
      OBVIOUS
    <2>4. /\ q \in States /\ q.root = state.root /\ Leaves(q) = Leaves(state)
          /\ Len(q.allocations) = Len(state.allocations) /\ Rising(q.allocations)
      BY <1>2, <2>3, KeptValid DEF Taken, Valid
    <2>5. plan \in States /\ Rising(plan.allocations)
      BY <2>1 DEF PlanOK
    <2>6. q.allocations = plan.allocations
      <3>1. q.allocations \in Seq(Allocation) /\ plan.allocations \in Seq(Allocation)
        BY <2>4, <2>5, StateIs
      <3>2. Range(q.allocations) = Range(plan.allocations)
        BY <2>2, <2>4 DEF Leaves
      <3>3. Len(q.allocations) = Len(plan.allocations)
        BY <2>2, <2>4
      <3> QED  BY <2>4, <2>5, <3>1, <3>2, <3>3, OneOrder
    <2>7. q = plan
      BY <2>2, <2>4, <2>5, <2>6 DEF States
    <2> QED  BY <1>2, <2>3, <2>7, TakenTree DEF Taken
  <1> QED  BY <1>1, <1>2, ExportTakes

\* The path of a block a command names.
LEMMA NamedPath ==
    ASSUME NEW state, Valid(state), NEW leaf \in Leaves(state)
    PROVE  /\ PathIn(state.root, leaf.cidr) \in Tree!Paths(Bits) /\ PathIn(state.root, leaf.cidr) \in Seq({0, 1})
           /\ Len(PathIn(state.root, leaf.cidr)) = leaf.cidr.prefix - state.root.prefix
           /\ leaf.cidr.prefix # Bits => Len(PathIn(state.root, leaf.cidr)) < DepthOf(state)
           /\ leaf \in Allocation /\ leaf.cidr \in Cidr /\ state.root \in Cidr /\ Within(state.root, leaf.cidr)
  <1>1. /\ Within(state.root, leaf.cidr) /\ leaf \in Allocation /\ leaf.cidr \in Cidr /\ state.root \in Cidr
        /\ state.root.prefix <= leaf.cidr.prefix
    BY OwnersAre, StateIs DEF Valid, Within
  <1>2. /\ PathIn(state.root, leaf.cidr) \in Seq({0, 1})
        /\ Len(PathIn(state.root, leaf.cidr)) = leaf.cidr.prefix - state.root.prefix
        /\ PathIn(state.root, leaf.cidr) \in [1..(leaf.cidr.prefix - state.root.prefix) -> {0, 1}]
    BY <1>1, PathIs
  <1>3. leaf.cidr.prefix - state.root.prefix \in 0..Bits
    BY <1>1, BitsAssumption DEF Cidr
  <1>4. PathIn(state.root, leaf.cidr) \in Tree!Paths(Bits)
    BY <1>2, <1>3 DEF Tree!Paths, Tree!Bit
  <1>5. leaf.cidr.prefix # Bits => leaf.cidr.prefix - state.root.prefix < DepthOf(state)
    BY <1>1, BitsAssumption DEF Cidr, DepthOf
  <1> QED  BY <1>1, <1>2, <1>4, <1>5

\* A leaf that is split becomes its two children.
LEMMA SplitIsSplit ==
    ASSUME PlannerInv, Split
    PROVE  \/ Refused
           \/ /\ reply' = "accepted" /\ SchemaAccepts(plan')
              /\ Path(command.cidr) \in Tree!Paths(Bits) /\ Tree!Split(Path(command.cidr))
  <1>1. PICK state, s : state = command.state /\ s = state.allocations
    OBVIOUS
  <1>2. SUFFICES ASSUME ~Refused
                 PROVE  /\ reply' = "accepted" /\ SchemaAccepts(plan')
                        /\ Path(command.cidr) \in Tree!Paths(Bits) /\ Tree!Split(Path(command.cidr))
    OBVIOUS
  <1>3. PICK i \in 1..Len(s), t \in Seq(Allocation) :
                   /\ Requested(state) /\ s[i].cidr = command.cidr /\ s[i].cidr.prefix # Bits
                   /\ Taken(Edited(state, t))
                   /\ Range(t) = Others(s, i, i) \cup {Halves(s[i])[1], Halves(s[i])[2]}
    BY <1>1, <1>2, SplitTakes
  <1>4. PlanOK /\ plan # NoPlan /\ state \in Sent /\ state \in States
    BY <1>1, StateSent DEF Split, Answers
  <1>5. /\ Valid(state) /\ state.root = plan.root
        /\ TreeSeen = TreeOf(state) /\ DepthSeen = DepthOf(state)
    BY <1>3, <1>4, SentIs
  <1>6. PICK new, root : new = Edited(state, t) /\ root = state.root
    OBVIOUS
  <1>7. new.root = root /\ Leaves(new) = Range(t)
    BY <1>4, <1>6, EditedIs
  <1>8. /\ Valid(new) /\ DepthSeen' = DepthOf(new) /\ TreeSeen' = TreeOf(new)
        /\ SchemaAccepts(plan') /\ reply' = "accepted"
    BY <1>3, <1>6, TakenTree
  <1>9. PICK leaf : leaf = s[i]
    OBVIOUS
  <1>10. s \in Seq(Allocation) /\ DOMAIN s = 1..Len(s) /\ leaf \in Leaves(state)
    <2>1. s \in Seq(Allocation) /\ DOMAIN s = 1..Len(s)
      BY <1>1, <1>4, StateIs
    <2> QED  BY <1>1, <1>9, <2>1 DEF Leaves, Range
  <1>11. PICK p : p = PathIn(root, leaf.cidr)
    OBVIOUS
  <1>12. /\ p \in Tree!Paths(Bits) /\ p \in Seq({0, 1}) /\ Len(p) < DepthOf(state)
         /\ leaf \in Allocation /\ leaf.cidr \in Cidr /\ root \in Cidr /\ Within(root, leaf.cidr)
    BY <1>3, <1>5, <1>6, <1>9, <1>10, <1>11, NamedPath
  <1>13. PICK h, k : h = Halves(leaf)[1] /\ k = Halves(leaf)[2]
    OBVIOUS
  <1>14. /\ h \in Leaves(new) /\ k \in Leaves(new) /\ h.note = leaf.note /\ k.note = leaf.note
         /\ PathIn(root, h.cidr) = Append(p, 0) /\ PathIn(root, k.cidr) = Append(p, 1)
    <2>1. h \in Leaves(new) /\ k \in Leaves(new)
      BY <1>3, <1>7, <1>9, <1>13
    <2>2. h.cidr \in Cidr /\ k.cidr \in Cidr
      BY <1>8, <2>1, NamedPath
    <2>3. leaf.cidr.prefix # Bits
      BY <1>3, <1>9
    <2>4. \A b \in {0, 1} : /\ Halves(leaf)[b + 1].note = leaf.note
                            /\ Halves(leaf)[b + 1].cidr.prefix = leaf.cidr.prefix + 1
                            /\ Halves(leaf)[b + 1].cidr.address = Start(leaf.cidr) + b * (Size(leaf.cidr) \div 2)
      BY <1>12, <2>3, HalvesAre
    <2>5. /\ h.note = leaf.note /\ h.cidr.prefix = leaf.cidr.prefix + 1
          /\ h.cidr.address = Start(leaf.cidr) + 0 * (Size(leaf.cidr) \div 2)
      <3>1. 0 \in {0, 1} /\ 0 + 1 = 1
        OBVIOUS
      <3> QED  BY <1>13, <2>4, <3>1
    <2>6. /\ k.note = leaf.note /\ k.cidr.prefix = leaf.cidr.prefix + 1
          /\ k.cidr.address = Start(leaf.cidr) + 1 * (Size(leaf.cidr) \div 2)
      <3>1. 1 \in {0, 1} /\ 1 + 1 = 2
        OBVIOUS
      <3> QED  BY <1>13, <2>4, <3>1
    <2>7. PathIn(root, h.cidr) = Append(p, 0)
      BY <1>11, <1>12, <2>2, <2>3, <2>5, HalfPath
    <2>8. PathIn(root, k.cidr) = Append(p, 1)
      BY <1>11, <1>12, <2>2, <2>3, <2>6, HalfPath
    <2> QED  BY <2>1, <2>5, <2>6, <2>7, <2>8
  <1>15. Leaves(new) = (Leaves(state) \ {leaf}) \cup {h, k}
    <2>1. Others(s, i, i) = Leaves(state) \ {leaf}
      <3>1. \A j \in 1..Len(s) : s[j] = s[i] => j = i
        BY <1>1, <1>5, <1>10, OneLeaf DEF Valid
      <3>2. Leaves(state) = {s[j] : j \in 1..Len(s)}
        BY <1>1, <1>10 DEF Leaves, Range
      <3> QED  BY <1>9, <3>1, <3>2 DEF Others
    <2> QED  BY <1>3, <1>7, <1>9, <1>13, <2>1
  <1>16. /\ DOMAIN TreeOf(state) = PathsOf(state)
         /\ \A l \in Leaves(state) : PathIn(root, l.cidr) \in PathsOf(state) /\ TreeOf(state)[PathIn(root, l.cidr)] = l.note
         /\ \A l, o \in Leaves(state) : PathIn(root, l.cidr) = PathIn(root, o.cidr) => l = o
    BY <1>5, <1>6, TreeIs
  <1>17. /\ DOMAIN TreeOf(new) = PathsOf(new)
         /\ \A l \in Leaves(new) : PathIn(root, l.cidr) \in PathsOf(new) /\ TreeOf(new)[PathIn(root, l.cidr)] = l.note
         /\ \A l, o \in Leaves(new) : PathIn(root, l.cidr) = PathIn(root, o.cidr) => l = o
    BY <1>7, <1>8, TreeIs
  <1>18. /\ PathsOf(state) = {PathIn(root, l.cidr) : l \in Leaves(state)}
         /\ PathsOf(new) = {PathIn(root, l.cidr) : l \in Leaves(new)}
    BY <1>6, <1>7 DEF PathsOf
  <1>19. Tree!Children(p) = {Append(p, 0), Append(p, 1)}
    BY DEF Tree!Children, Tree!Bit
  <1> DEFINE T == [q \in (PathsOf(state) \ {p}) \cup Tree!Children(p) |->
                      IF q \in Tree!Children(p) THEN TreeOf(state)[p] ELSE TreeOf(state)[q]]
  <1>20. PathsOf(new) = (PathsOf(state) \ {p}) \cup Tree!Children(p)
    <2>1. \A q : q \in PathsOf(state) /\ q # p <=> \E l \in Leaves(state) \ {leaf} : q = PathIn(root, l.cidr)
      BY <1>10, <1>11, <1>16, <1>18
    <2>2. \A q : q \in PathsOf(new) <=> \/ \E l \in Leaves(state) \ {leaf} : q = PathIn(root, l.cidr)
                                        \/ q = Append(p, 0) \/ q = Append(p, 1)
      BY <1>14, <1>15, <1>18
    <2> QED  BY <1>19, <2>1, <2>2
  <1>21. TreeOf(new) = T
    <2>1. ASSUME NEW q \in PathsOf(new)
          PROVE  TreeOf(new)[q] = T[q]
      <3>1. CASE q \in Tree!Children(p)
        <4>1. TreeOf(new)[q] = leaf.note
          BY <1>14, <1>17, <1>19, <3>1
        <4>2. TreeOf(state)[p] = leaf.note
          BY <1>10, <1>11, <1>16
        <4> QED  BY <1>20, <3>1, <4>1, <4>2
      <3>2. CASE q \notin Tree!Children(p)
        <4>1. PICK l \in Leaves(new) : q = PathIn(root, l.cidr)
          BY <1>18, <2>1
        <4>2. l \in Leaves(state)
          BY <1>14, <1>15, <1>19, <3>2, <4>1
        <4> QED  BY <1>16, <1>17, <1>20, <3>2, <4>1, <4>2
      <3> QED  BY <3>1, <3>2
    <2>2. TreeOf(new) = [q \in PathsOf(new) |-> TreeOf(new)[q]]
      BY DEF TreeOf
    <2>3. T = [q \in PathsOf(new) |-> T[q]]
      BY <1>20
    <2> HIDE DEF T
    <2> QED  BY <2>1, <2>2, <2>3
  <1>22. DepthOf(new) = DepthOf(state)
    BY <1>6, <1>7 DEF DepthOf
  <1>23. p \in DOMAIN TreeSeen
    BY <1>5, <1>10, <1>11, <1>16
  <1>24. Tree!Split(p)
    BY <1>5, <1>8, <1>12, <1>16, <1>21, <1>22, <1>23, SplitSeen
  <1>25. Path(command.cidr) = p
    BY <1>3, <1>5, <1>6, <1>9, <1>11, PathSeen
  <1> QED  BY <1>8, <1>12, <1>24, <1>25

-----------------------------------------------------------------------------
(* Join and annotate on the tree                                           *)

\* The multiple of m that lies inside a block of 2 * m is its middle.
LEMMA NextMultiple ==
    ASSUME NEW m \in Nat \ {0}, NEW w \in Nat, NEW v \in Nat, (v * m) \div (2 * m) = w, w * (2 * m) < v * m
    PROVE  v * m = w * (2 * m) + m
  <1>1. (v * m) \div m = v /\ v * m \in Nat
    <2>1. PICK z : z = v * m
      OBVIOUS
    <2>2. z \in Nat /\ z < z + m
      BY <2>1
    <2> QED  BY <2>1, <2>2, DivUnique
  <1>2. (v * m) \div (2 * m) = ((v * m) \div m) \div 2
    <2>1. PICK z : z = v * m
      OBVIOUS
    <2>2. z \in Nat
      BY <1>1, <2>1
    <2>3. z \div (2 * m) = (z \div m) \div 2
      BY <2>2, DivTwice
    <2> QED  BY <2>1, <2>3
  <1>3. v \div 2 = w
    BY <1>1, <1>2
  <1>4. v = 2 * w \/ v = 2 * w + 1
    BY <1>3
  <1>5. w * (2 * m) = (2 * w) * m
    OBVIOUS
  <1>6. v # 2 * w
    BY <1>1, <1>5
  <1>7. v * m = (2 * w) * m + m
    BY <1>4, <1>6
  <1> QED  BY <1>5, <1>7

\* Two sibling blocks are the halves of the block they are joined to.
LEMMA SiblingsAre ==
    ASSUME NEW a \in Cidr, NEW b \in Cidr, Siblings(a, b), a.address % Size(a) = 0, b.address % Size(b) = 0, a # b,
           NEW g \in Cidr, g.prefix = a.prefix - 1, g.address = Min({Start(a), Start(b)}), g.address % Size(g) = 0
    PROVE  /\ a.prefix = g.prefix + 1 /\ b.prefix = g.prefix + 1 /\ g.prefix # Bits
           /\ \E k, l \in {0, 1} : /\ k # l /\ a.address = Start(g) + k * (Size(g) \div 2)
                                   /\ b.address = Start(g) + l * (Size(g) \div 2)
  <1> DEFINE m == Size(a)
             x == Start(a)
             y == Start(b)
  <1>1. /\ a.prefix = b.prefix /\ a.prefix # 0 /\ x \div (2 * m) = y \div (2 * m)
        /\ Bits - a.prefix \in Nat /\ Bits - g.prefix = (Bits - a.prefix) + 1
        /\ a.prefix = g.prefix + 1 /\ g.prefix # Bits
    <2>1. a.prefix = b.prefix /\ a.prefix # 0 /\ x \div (2 * Size(a)) = y \div (2 * Size(b))
      BY DEF Siblings
    <2>2. Size(a) = Size(b)
      BY <2>1 DEF Size
    <2>3. a.prefix \in 0..Bits /\ Bits \in Nat
      BY BitsAssumption DEF Cidr
    <2> QED  BY <2>1, <2>2, <2>3
  <1>2. m \in Nat \ {0} /\ Size(b) = m /\ Size(g) = 2 * m
    BY <1>1, PowerPositive, PowerOfSucc DEF Size
  <1>3. a.address = x /\ b.address = y /\ x \in Nat /\ y \in Nat /\ g.address = Start(g)
    BY BlockIs
  <1>4. x # y
    <2>1. a = [address |-> a.address, prefix |-> a.prefix] /\ b = [address |-> b.address, prefix |-> b.prefix]
      <3> HIDE DEF m, x, y
      <3> QED  BY DEF Cidr
    <2>2. a.address # b.address
      <3> HIDE DEF m, x, y
      <3> QED  BY <1>1, <2>1
    <2> QED  BY <1>3, <2>2
  <1>5. PICK u, v, w : u = a.address \div m /\ v = b.address \div m /\ w = g.address \div (2 * m)
    OBVIOUS
  <1>6. u \in Nat /\ v \in Nat /\ w \in Nat /\ x = u * m /\ y = v * m /\ g.address = w * (2 * m)
    <2>1. u \in Nat /\ x = u * m
      BY <1>2, <1>3, <1>5, DivIs DEF Start
    <2>2. v \in Nat /\ y = v * m
      BY <1>2, <1>3, <1>5, DivIs DEF Start
    <2>3. g.address \in Nat /\ Size(g) \in Nat \ {0}
      BY BlockIs, AddressIs DEF Cidr
    <2>4. g.address \div Size(g) \in Nat
      BY <2>3, DivIs
    <2>5. w \in Nat /\ g.address = w * (2 * m)
      BY <1>2, <1>3, <1>5, <2>4 DEF Start
    <2> QED  BY <2>1, <2>2, <2>5
  <1>7. Size(g) \div 2 = m
    BY <1>2
  <1> HIDE DEF m, x, y
  <1>8. g.address \div (2 * m) = w
    BY <1>5
  <1>9. CASE x < y
    <2>1. g.address = x
      BY <1>3, <1>9 DEF Min, x, y
    <2>2. y \div (2 * m) = w
      BY <1>1, <1>8, <2>1
    <2>3. y = g.address + m
      BY <1>2, <1>6, <1>9, <2>1, <2>2, NextMultiple
    <2>4. a.address = Start(g) + 0 * m /\ b.address = Start(g) + 1 * m
      BY <1>2, <1>3, <2>1, <2>3
    <2> QED  BY <1>1, <1>7, <2>4
  <1>10. CASE y < x
    <2>1. g.address = y
      BY <1>3, <1>10 DEF Min, x, y
    <2>2. x \div (2 * m) = w
      BY <1>1, <1>8, <2>1
    <2>3. x = g.address + m
      BY <1>2, <1>6, <1>10, <2>1, <2>2, NextMultiple
    <2>4. a.address = Start(g) + 1 * m /\ b.address = Start(g) + 0 * m
      BY <1>2, <1>3, <2>1, <2>3
    <2> QED  BY <1>1, <1>7, <2>4
  <1> QED  BY <1>3, <1>4, <1>9, <1>10

\* The parent of a path.
LEMMA FrontIs ==
    ASSUME NEW p \in Seq({0, 1}), NEW b \in {0, 1}
    PROVE  Front(Append(p, b)) = p
  <1> DEFINE q == Append(p, b)
  <1>1. q \in Seq({0, 1}) /\ Len(q) = Len(p) + 1 /\ Len(p) \in Nat /\ \A i \in 1..Len(p) : q[i] = p[i]
    BY AppendProperties
  <1> HIDE DEF q
  <1>2. Front(q) = SubSeq(q, 1, Len(q) - 1) /\ Len(q) - 1 = Len(p)
    BY <1>1 DEF Front
  <1>3. \A i \in 1..Len(p) : q[i] \in {0, 1}
    BY <1>1
  <1>4. PICK r : r = SubSeq(q, 1, Len(p))
    OBVIOUS
  <1>5. /\ r \in Seq({0, 1}) /\ Len(r) = (IF 1 <= Len(p) THEN Len(p) - 1 + 1 ELSE 0)
        /\ \A i \in 1..(Len(p) - 1 + 1) : r[i] = q[1 + i - 1]
    BY <1>1, <1>3, <1>4, SubSeqProperties
  <1>6. Len(r) = Len(p) /\ \A i \in 1..Len(p) : i \in 1..(Len(p) - 1 + 1) /\ 1 + i - 1 = i
    BY <1>1, <1>5
  <1>7. r = p
    BY <1>1, <1>5, <1>6, SeqEqual
  <1> QED  BY <1>2, <1>4, <1>7 DEF q

\* The notes of a leaf a command names.
LEMMA NotesAre ==
    ASSUME PlanOK, Valid(plan), NEW leaf \in Leaves(plan)
    PROVE  NotesOf(leaf.cidr) = {leaf.note}
  <1>1. \A i, j \in DOMAIN plan.allocations : plan.allocations[i].cidr = plan.allocations[j].cidr => i = j
    BY OneLeaf DEF Valid
  <1>2. PICK i \in DOMAIN plan.allocations : leaf = plan.allocations[i]
    BY DEF Leaves, Range
  <1>3. Selected(plan, leaf.cidr) = {i}
    BY <1>1, <1>2 DEF Selected
  <1> QED  BY <1>2, <1>3 DEF NotesOf

\* Two leaves that are joined become the block above them.
LEMMA JoinIsJoin ==
    ASSUME PlannerInv, Join
    PROVE  \/ Refused
           \/ /\ reply' = "accepted" /\ SchemaAccepts(plan')
              /\ \E p \in Tree!Paths(Bits), n \in Notes :
                    /\ p = Front(Path(command.cidrs[1]))
                    /\ {Path(command.cidrs[1]), Path(command.cidrs[2])} = Tree!Children(p)
                    /\ \/ command.note = n
                       \/ command.note = NoNote /\ NotesOf(command.cidrs[1]) \cup NotesOf(command.cidrs[2]) = {n}
                    /\ Tree!Join(p, n) /\ Tree!Join(Front(Path(command.cidrs[1])), n)
  <1>1. PICK state, s : state = command.state /\ s = state.allocations
    OBVIOUS
  <1>2. SUFFICES ASSUME ~Refused
                 PROVE  /\ reply' = "accepted" /\ SchemaAccepts(plan')
                        /\ \E p \in Tree!Paths(Bits), n \in Notes :
                              /\ p = Front(Path(command.cidrs[1]))
                              /\ {Path(command.cidrs[1]), Path(command.cidrs[2])} = Tree!Children(p)
                              /\ \/ command.note = n
                                 \/ /\ command.note = NoNote
                                    /\ NotesOf(command.cidrs[1]) \cup NotesOf(command.cidrs[2]) = {n}
                              /\ Tree!Join(p, n) /\ Tree!Join(Front(Path(command.cidrs[1])), n)
    OBVIOUS
  <1>3. PICK i, j \in 1..Len(s), t \in Seq(Allocation) :
                   /\ Requested(state) /\ i # j
                   /\ s[i].cidr = command.cidrs[1] /\ s[j].cidr = command.cidrs[2] /\ Siblings(s[i].cidr, s[j].cidr)
                   /\ command.note = NoNote => s[i].note = s[j].note
                   /\ Taken(Edited(state, t))
                   /\ Joined(s[i], s[j], command.note) \in Allocation
                   /\ Range(t) = Others(s, i, j) \cup {Joined(s[i], s[j], command.note)}
    BY <1>1, <1>2, JoinTakes
  <1>4. PlanOK /\ plan # NoPlan /\ state \in Sent /\ state \in States /\ command.note \in Notes \cup {NoNote}
    BY <1>1, StateSent, CommandIs DEF Join, Answers
  <1>5. /\ Valid(state) /\ Valid(plan) /\ state.root = plan.root /\ Leaves(state) = Leaves(plan)
        /\ TreeSeen = TreeOf(state) /\ DepthSeen = DepthOf(state)
    BY <1>3, <1>4, SentIs
  <1>6. PICK new, root : new = Edited(state, t) /\ root = state.root
    OBVIOUS
  <1>7. new.root = root /\ Leaves(new) = Range(t)
    BY <1>4, <1>6, EditedIs
  <1>8. /\ Valid(new) /\ DepthSeen' = DepthOf(new) /\ TreeSeen' = TreeOf(new)
        /\ SchemaAccepts(plan') /\ reply' = "accepted"
    BY <1>3, <1>6, TakenTree
  <1>9. PICK a, b, x : a = s[i] /\ b = s[j] /\ x = Joined(a, b, command.note)
    OBVIOUS
  <1>10. s \in Seq(Allocation) /\ DOMAIN s = 1..Len(s) /\ a \in Leaves(state) /\ b \in Leaves(state)
    <2>1. s \in Seq(Allocation) /\ DOMAIN s = 1..Len(s)
      BY <1>1, <1>4, StateIs
    <2> QED  BY <1>1, <1>9, <2>1 DEF Leaves, Range
  <1>11. x \in Leaves(new)
    BY <1>3, <1>7, <1>9
  <1>12. PICK p : p = PathIn(root, x.cidr)
    OBVIOUS
  <1>13. /\ p \in Tree!Paths(Bits) /\ p \in Seq({0, 1})
         /\ x \in Allocation /\ x.cidr \in Cidr /\ root \in Cidr /\ Within(root, x.cidr)
         /\ a \in Allocation /\ a.cidr \in Cidr /\ Within(root, a.cidr)
         /\ b \in Allocation /\ b.cidr \in Cidr /\ Within(root, b.cidr)
    BY <1>5, <1>6, <1>7, <1>8, <1>10, <1>11, <1>12, NamedPath
  <1>14. /\ x.cidr = Block(Min({Start(a.cidr), Start(b.cidr)}), a.cidr.prefix - 1)
         /\ x.note = IF command.note = NoNote THEN a.note ELSE command.note
    <2>1. Siblings(a.cidr, b.cidr)
      BY <1>3, <1>9
    <2>2. x = Joined(a, b, command.note)
      BY <1>9
    <2>3. PICK n \in Notes \cup {NoNote} : n = command.note
      BY <1>4
    <2>4. /\ Joined(a, b, n).cidr = Block(Min({Start(a.cidr), Start(b.cidr)}), a.cidr.prefix - 1)
          /\ Joined(a, b, n).note = IF n = NoNote THEN a.note ELSE n
      BY <1>13, <2>1, <2>3, JoinedIs
    <2> QED  BY <2>2, <2>3, <2>4
  <1>15. a.cidr # b.cidr
    BY <1>1, <1>3, <1>5, <1>9, <1>10, OneLeaf DEF Valid
  <1>16. PICK k, l \in {0, 1} : k # l /\ PathIn(root, a.cidr) = Append(p, k) /\ PathIn(root, b.cidr) = Append(p, l)
    <2>1. x.cidr.prefix = a.cidr.prefix - 1 /\ x.cidr.address = Min({Start(a.cidr), Start(b.cidr)})
      BY <1>14 DEF Block
    <2>2. /\ a.cidr.address % Size(a.cidr) = 0 /\ b.cidr.address % Size(b.cidr) = 0
          /\ x.cidr.address % Size(x.cidr) = 0 /\ Siblings(a.cidr, b.cidr)
      BY <1>3, <1>9, <1>13 DEF Within
    <2>3. /\ a.cidr.prefix = x.cidr.prefix + 1 /\ b.cidr.prefix = x.cidr.prefix + 1 /\ x.cidr.prefix # Bits
          /\ \E k, l \in {0, 1} : /\ k # l /\ a.cidr.address = Start(x.cidr) + k * (Size(x.cidr) \div 2)
                                  /\ b.cidr.address = Start(x.cidr) + l * (Size(x.cidr) \div 2)
      BY <1>13, <1>15, <2>1, <2>2, SiblingsAre
    <2>4. PICK k, l \in {0, 1} : /\ k # l /\ a.cidr.address = Start(x.cidr) + k * (Size(x.cidr) \div 2)
                                 /\ b.cidr.address = Start(x.cidr) + l * (Size(x.cidr) \div 2)
      BY <2>3
    <2>5. ASSUME NEW c \in Cidr, NEW m \in {0, 1}, c.prefix = x.cidr.prefix + 1,
                 c.address = Start(x.cidr) + m * (Size(x.cidr) \div 2)
          PROVE  PathIn(root, c) = Append(p, m)
      BY <1>12, <1>13, <2>3, <2>5, HalfPath
    <2>6. PathIn(root, a.cidr) = Append(p, k) /\ PathIn(root, b.cidr) = Append(p, l)
      <3> DEFINE At(m) == Start(x.cidr) + m * (Size(x.cidr) \div 2)
      <3>1. a.cidr.address = At(k) /\ b.cidr.address = At(l)
        BY <2>4
      <3>2. \A c \in Cidr, m \in {0, 1} : c.prefix = x.cidr.prefix + 1 /\ c.address = At(m) => PathIn(root, c) = Append(p, m)
        BY <2>5
      <3> HIDE DEF At
      <3> QED  BY <1>13, <2>3, <3>1, <3>2
    <2> QED  BY <2>4, <2>6
  <1>17. Leaves(new) = (Leaves(state) \ {a, b}) \cup {x}
    <2>1. Others(s, i, j) = Leaves(state) \ {a, b}
      <3>1. /\ \A h \in 1..Len(s) : s[h] = s[i] => h = i
            /\ \A h \in 1..Len(s) : s[h] = s[j] => h = j
        BY <1>1, <1>5, <1>10, OneLeaf DEF Valid
      <3>2. Leaves(state) = {s[h] : h \in 1..Len(s)}
        BY <1>1, <1>10 DEF Leaves, Range
      <3> QED  BY <1>9, <3>1, <3>2 DEF Others
    <2> QED  BY <1>3, <1>7, <1>9, <2>1
  <1>18. /\ DOMAIN TreeOf(state) = PathsOf(state)
         /\ \A o \in Leaves(state) : PathIn(root, o.cidr) \in PathsOf(state) /\ TreeOf(state)[PathIn(root, o.cidr)] = o.note
         /\ \A o, r \in Leaves(state) : PathIn(root, o.cidr) = PathIn(root, r.cidr) => o = r
    BY <1>5, <1>6, TreeIs
  <1>19. /\ DOMAIN TreeOf(new) = PathsOf(new)
         /\ \A o \in Leaves(new) : PathIn(root, o.cidr) \in PathsOf(new) /\ TreeOf(new)[PathIn(root, o.cidr)] = o.note
         /\ \A o, r \in Leaves(new) : PathIn(root, o.cidr) = PathIn(root, r.cidr) => o = r
    BY <1>7, <1>8, TreeIs
  <1>20. /\ PathsOf(state) = {PathIn(root, o.cidr) : o \in Leaves(state)}
         /\ PathsOf(new) = {PathIn(root, o.cidr) : o \in Leaves(new)}
    BY <1>6, <1>7 DEF PathsOf
  <1>21. Tree!Children(p) = {PathIn(root, a.cidr), PathIn(root, b.cidr)}
    <2>1. Tree!Children(p) = {Append(p, 0), Append(p, 1)}
      BY DEF Tree!Children, Tree!Bit
    <2>2. (k = 0 /\ l = 1) \/ (k = 1 /\ l = 0)
      BY <1>16
    <2> QED  BY <1>16, <2>1, <2>2
  <1> DEFINE T == [q \in (PathsOf(state) \ Tree!Children(p)) \cup {p} |-> IF q = p THEN x.note ELSE TreeOf(state)[q]]
  <1>22. PathsOf(new) = (PathsOf(state) \ Tree!Children(p)) \cup {p}
    <2>1. \A q : q \in PathsOf(state) /\ q \notin Tree!Children(p)
                 <=> \E o \in Leaves(state) \ {a, b} : q = PathIn(root, o.cidr)
      BY <1>10, <1>18, <1>20, <1>21
    <2>2. \A q : q \in PathsOf(new) <=> \/ \E o \in Leaves(state) \ {a, b} : q = PathIn(root, o.cidr)
                                        \/ q = p
      BY <1>12, <1>17, <1>20
    <2> QED  BY <2>1, <2>2
  <1>23. TreeOf(new) = T
    <2>1. ASSUME NEW q \in PathsOf(new)
          PROVE  TreeOf(new)[q] = T[q]
      <3>1. CASE q = p
        BY <1>11, <1>12, <1>19, <1>22, <3>1
      <3>2. CASE q # p
        <4>1. PICK o \in Leaves(new) : q = PathIn(root, o.cidr)
          BY <1>20, <2>1
        <4>2. o \in Leaves(state)
          BY <1>12, <1>17, <3>2, <4>1
        <4> QED  BY <1>18, <1>19, <1>22, <3>2, <4>1, <4>2
      <3> QED  BY <3>1, <3>2
    <2>2. TreeOf(new) = [q \in PathsOf(new) |-> TreeOf(new)[q]]
      BY DEF TreeOf
    <2>3. T = [q \in PathsOf(new) |-> T[q]]
      BY <1>22
    <2> HIDE DEF T
    <2> QED  BY <2>1, <2>2, <2>3
  <1>24. DepthOf(new) = DepthOf(state)
    BY <1>6, <1>7 DEF DepthOf
  <1>25. Tree!Children(p) \subseteq DOMAIN TreeSeen
    BY <1>5, <1>10, <1>18, <1>21
  <1>26. Tree!Join(p, x.note)
    BY <1>5, <1>8, <1>18, <1>23, <1>24, <1>25, JoinSeen
  <1>27. Path(command.cidrs[1]) = PathIn(root, a.cidr) /\ Path(command.cidrs[2]) = PathIn(root, b.cidr)
    BY <1>3, <1>5, <1>6, <1>9, PathSeen
  <1>28. p = Front(Path(command.cidrs[1]))
    BY <1>13, <1>16, <1>27, FrontIs
  <1>29. NotesOf(command.cidrs[1]) = {a.note} /\ NotesOf(command.cidrs[2]) = {b.note}
    BY <1>3, <1>4, <1>5, <1>9, <1>10, NotesAre
  <1>30. x.note \in Notes
    BY <1>13 DEF Allocation
  <1>31. \/ command.note = x.note
         \/ command.note = NoNote /\ NotesOf(command.cidrs[1]) \cup NotesOf(command.cidrs[2]) = {x.note}
    <2>1. CASE command.note = NoNote
      BY <1>3, <1>9, <1>14, <1>29, <2>1
    <2>2. CASE command.note # NoNote
      BY <1>14, <2>2
    <2> QED  BY <2>1, <2>2
  <1>32. {Path(command.cidrs[1]), Path(command.cidrs[2])} = Tree!Children(p)
    BY <1>21, <1>27
  <1>33. /\ Tree!Children(Front(Path(command.cidrs[1]))) \subseteq DOMAIN TreeSeen /\ DepthSeen' = DepthSeen
         /\ TreeSeen' = [q \in (DOMAIN TreeSeen \ Tree!Children(Front(Path(command.cidrs[1]))))
                               \cup {Front(Path(command.cidrs[1]))} |->
                            IF q = Front(Path(command.cidrs[1])) THEN x.note ELSE TreeSeen[q]]
    BY <1>5, <1>8, <1>18, <1>23, <1>24, <1>25, <1>28
  <1>34. Tree!Join(Front(Path(command.cidrs[1])), x.note)
    BY <1>33 DEF Tree!Join, TreeSeen, DepthSeen, TreeOf, PathsOf, DepthOf, Path, PathIn, BitOf
  <1> QED  BY <1>8, <1>13, <1>26, <1>28, <1>30, <1>31, <1>32, <1>34

\* A leaf that is annotated keeps its place.
LEMMA AnnotateIsAnnotate ==
    ASSUME PlannerInv, Annotate
    PROVE  \/ Refused
           \/ /\ reply' = "accepted" /\ SchemaAccepts(plan') /\ command.note \in Notes
              /\ Path(command.cidr) \in Tree!Paths(Bits) /\ Tree!Annotate(Path(command.cidr), command.note)
              /\ \E p \in Tree!Paths(Bits), n \in Notes : Tree!Annotate(p, n)
  <1>1. PICK state, c, n : state = command.state /\ c = command.cidr /\ n = command.note
    OBVIOUS
  <1>2. SUFFICES ASSUME ~Refused
                 PROVE  /\ reply' = "accepted" /\ SchemaAccepts(plan') /\ command.note \in Notes
                        /\ Path(command.cidr) \in Tree!Paths(Bits) /\ Tree!Annotate(Path(command.cidr), command.note)
                        /\ \E p \in Tree!Paths(Bits), m \in Notes : Tree!Annotate(p, m)
    OBVIOUS
  <1>3. PICK t \in Seq(Allocation) :
                   /\ Requested(state) /\ Selected(state, c) # {}
                   /\ Taken(Edited(state, t))
                   /\ Range(t) = {Renoted(leaf, c, n) : leaf \in Leaves(state)}
    BY <1>1, <1>2, AnnotateTakes
  <1>4. PlanOK /\ plan # NoPlan /\ state \in Sent /\ state \in States /\ n \in Notes
    BY <1>1, StateSent, CommandIs DEF Annotate, Answers
  <1>5. /\ Valid(state) /\ state.root = plan.root
        /\ TreeSeen = TreeOf(state) /\ DepthSeen = DepthOf(state)
    BY <1>3, <1>4, SentIs
  <1>6. PICK new, root : new = Edited(state, t) /\ root = state.root
    OBVIOUS
  <1>7. new.root = root /\ Leaves(new) = {Renoted(leaf, c, n) : leaf \in Leaves(state)}
    BY <1>3, <1>4, <1>6, EditedIs
  <1>8. /\ Valid(new) /\ DepthSeen' = DepthOf(new) /\ TreeSeen' = TreeOf(new)
        /\ SchemaAccepts(plan') /\ reply' = "accepted"
    BY <1>3, <1>6, TakenTree
  <1>9. PICK leaf \in Leaves(state) : leaf.cidr = c
    BY <1>3 DEF Selected, Leaves, Range
  <1>10. PICK p : p = PathIn(root, c)
    OBVIOUS
  <1>11. p \in Tree!Paths(Bits)
    BY <1>5, <1>6, <1>9, <1>10, NamedPath
  <1>12. /\ DOMAIN TreeOf(state) = PathsOf(state)
         /\ \A l \in Leaves(state) : PathIn(root, l.cidr) \in PathsOf(state) /\ TreeOf(state)[PathIn(root, l.cidr)] = l.note
         /\ \A l, o \in Leaves(state) : PathIn(root, l.cidr) = PathIn(root, o.cidr) => l = o
    BY <1>5, <1>6, TreeIs
  <1>13. \A l \in Leaves(new) : TreeOf(new)[PathIn(root, l.cidr)] = l.note
    BY <1>7, <1>8, TreeIs
  <1>14. /\ PathsOf(state) = {PathIn(root, l.cidr) : l \in Leaves(state)}
         /\ PathsOf(new) = {PathIn(root, l.cidr) : l \in Leaves(new)}
    BY <1>6, <1>7 DEF PathsOf
  <1>15. \A l \in Leaves(state) : /\ Renoted(l, c, n) \in Leaves(new) /\ Renoted(l, c, n).cidr = l.cidr
                                  /\ Renoted(l, c, n).note = IF l.cidr = c THEN n ELSE l.note
    <2>1. \A l \in Leaves(state) : l \in Allocation
      BY <1>4, StateIs
    <2>2. \A l \in Allocation : /\ Renoted(l, c, n).cidr = l.cidr
                                /\ Renoted(l, c, n).note = IF l.cidr = c THEN n ELSE l.note
      BY DEF Renoted, Allocation
    <2> QED  BY <1>7, <2>1, <2>2
  <1>16. PathsOf(new) = PathsOf(state)
    BY <1>7, <1>14, <1>15
  <1>17. ASSUME NEW q \in PathsOf(state)
         PROVE  TreeOf(new)[q] = [TreeOf(state) EXCEPT ![p] = n][q]
    <2>1. PICK l \in Leaves(state) : q = PathIn(root, l.cidr)
      BY <1>14, <1>17
    <2>2. TreeOf(new)[q] = IF l.cidr = c THEN n ELSE l.note
      BY <1>13, <1>15, <2>1
    <2>3. q = p <=> l.cidr = c
      BY <1>9, <1>10, <1>12, <2>1
    <2> QED  BY <1>12, <1>17, <2>1, <2>2, <2>3
  <1>18. TreeOf(new) = [TreeOf(state) EXCEPT ![p] = n]
    <2>1. TreeOf(new) = [q \in PathsOf(state) |-> TreeOf(new)[q]]
      BY <1>16 DEF TreeOf
    <2>2. [TreeOf(state) EXCEPT ![p] = n] = [q \in PathsOf(state) |-> [TreeOf(state) EXCEPT ![p] = n][q]]
      BY <1>12
    <2> QED  BY <1>17, <2>1, <2>2
  <1>19. DepthOf(new) = DepthOf(state)
    BY <1>6, <1>7 DEF DepthOf
  <1>20. p \in DOMAIN TreeSeen
    BY <1>5, <1>9, <1>10, <1>12
  <1>21. Path(command.cidr) = p /\ command.note = n
    BY <1>1, <1>5, <1>6, <1>10, PathSeen
  <1>22. /\ Path(command.cidr) \in DOMAIN TreeSeen /\ DepthSeen' = DepthSeen
         /\ TreeSeen' = [TreeSeen EXCEPT ![Path(command.cidr)] = command.note]
    BY <1>5, <1>8, <1>18, <1>19, <1>20, <1>21
  <1>23. Tree!Annotate(Path(command.cidr), command.note)
    BY <1>22 DEF Tree!Annotate, TreeSeen, DepthSeen, TreeOf, PathsOf, DepthOf, Path, PathIn, BitOf
  <1>24. Tree!Annotate(p, n)
    BY <1>5, <1>8, <1>18, <1>19, <1>20, AnnotateSeen
  <1> QED  BY <1>4, <1>8, <1>11, <1>21, <1>23, <1>24

-----------------------------------------------------------------------------
(* The commands edit the tree, and implement PrefixTree                    *)

\* An accepted command edits the tree as its name says.
LEMMA CommandEdits ==
    ASSUME PlannerInv, [Next]_vars, vars' # vars, reply' = "accepted"
    PROVE  /\ SchemaAccepts(plan')
           /\ Export => plan' = plan
           /\ Split => Tree!Split(Path(command.cidr))
           /\ Annotate => Tree!Annotate(Path(command.cidr), command.note)
           /\ Join =>
                LET first == Path(command.cidrs[1])
                    second == Path(command.cidrs[2])
                    agreed == UNION {NotesOf(c) : c \in Range(command.cidrs)}
                IN  /\ {first, second} = Tree!Children(Front(first))
                    /\ \E n \in Notes : /\ \/ command.note = n
                                           \/ command.note = NoNote /\ agreed = {n}
                                        /\ Tree!Join(Front(first), n)
  <1>1. ~Refused
    BY DEF Refused
  <1>2. SchemaAccepts(plan')
    <2>1. Create \/ Import \/ Export \/ Split \/ Join \/ Annotate
      <3>1. ~Request /\ ~Reset
        BY DEF Request, Reset
      <3>2. ~Cancel
        BY DEF Cancel, PlannerInv, ReplyOK
      <3> QED  BY <3>1, <3>2 DEF Next
    <2>2. PICK state : Taken(state)
      BY <1>1, <2>1, CommandTakes
    <2> QED  BY <2>2, TakenTree
  <1>3. Export => plan' = plan
    BY ExportIsStutter
  <1>4. Split => Tree!Split(Path(command.cidr))
    BY <1>1, SplitIsSplit
  <1>5. Annotate => Tree!Annotate(Path(command.cidr), command.note)
    BY <1>1, AnnotateIsAnnotate
  <1>6. ASSUME Join
        PROVE  LET first == Path(command.cidrs[1])
                   second == Path(command.cidrs[2])
                   agreed == UNION {NotesOf(c) : c \in Range(command.cidrs)}
               IN  /\ {first, second} = Tree!Children(Front(first))
                   /\ \E n \in Notes : /\ \/ command.note = n
                                          \/ command.note = NoNote /\ agreed = {n}
                                       /\ Tree!Join(Front(first), n)
    <2> DEFINE first == Path(command.cidrs[1])
               second == Path(command.cidrs[2])
    <2>1. PICK p \in Tree!Paths(Bits), n \in Notes :
             /\ p = Front(first) /\ {first, second} = Tree!Children(p)
             /\ \/ command.note = n
                \/ command.note = NoNote /\ NotesOf(command.cidrs[1]) \cup NotesOf(command.cidrs[2]) = {n}
             /\ Tree!Join(Front(first), n)
      BY <1>1, <1>6, JoinIsJoin
    <2>2. \E c \in Named, d \in Named : command.cidrs = <<c, d>>
      BY <1>6, StateSent, CommandIs DEF Join, Answers
    <2>3. UNION {NotesOf(c) : c \in Range(command.cidrs)} = NotesOf(command.cidrs[1]) \cup NotesOf(command.cidrs[2])
      <3>1. DOMAIN command.cidrs = {1, 2}
        BY <2>2
      <3>2. Range(command.cidrs) = {command.cidrs[1], command.cidrs[2]}
        BY <3>1 DEF Range
      <3> QED  BY <3>2
    <2>4. Tree!Join(Front(first), n)
      BY <2>1
    <2>5. {first, second} = Tree!Children(Front(first))
      BY <2>1
    <2> HIDE DEF first, second
    <2>6. \/ command.note = n
          \/ command.note = NoNote /\ UNION {NotesOf(c) : c \in Range(command.cidrs)} = {n}
      BY <2>1, <2>3
    <2> QED  BY <2>4, <2>5, <2>6 DEF first, second
  <1> QED  BY <1>2, <1>3, <1>4, <1>5, <1>6

\* An accepted command does to the tree of prefixes what its name says, at the
\* blocks the caller named: split() replaces one leaf by its two halves with its
\* note, join() two siblings by their parent and discards no note silently,
\* annotate() changes one note, an export changes nothing, and no command builds
\* a plan with more leaves than the next request may send.
THEOREM CommandsEdit == Spec => CommandsEditTheTree
  <1> DEFINE Edits ==
         reply' = "accepted" =>
            /\ SchemaAccepts(plan')
            /\ Export => plan' = plan
            /\ Split => Tree!Split(Path(command.cidr))
            /\ Annotate => Tree!Annotate(Path(command.cidr), command.note)
            /\ Join =>
                  LET first == Path(command.cidrs[1])
                      second == Path(command.cidrs[2])
                      agreed == UNION {NotesOf(c) : c \in Range(command.cidrs)}
                  IN  /\ {first, second} = Tree!Children(Front(first))
                      /\ \E n \in Notes : /\ \/ command.note = n
                                             \/ command.note = NoNote /\ agreed = {n}
                                          /\ Tree!Join(Front(first), n)
  <1>1. PlannerInv /\ [Next]_vars => [Edits]_vars
    BY CommandEdits
  <1> HIDE DEF Edits
  <1>2. Spec => [][Edits]_vars
    BY <1>1, PlannerInvariant, PTL DEF Spec
  <1> QED  BY <1>2 DEF Edits, CommandsEditTheTree

\* Every step of the planner is a step of the tree, or leaves it alone.
LEMMA StepSeen ==
    ASSUME PlannerInv, [Next]_vars
    PROVE  Tree!Next \/ UNCHANGED Tree!vars
  <1>1. CASE plan' = plan
    <2>1. DepthSeen' = DepthSeen /\ TreeSeen' = TreeSeen
      BY <1>1 DEF DepthSeen, TreeSeen, TreeOf, PathsOf, DepthOf, Leaves
    <2> QED  BY <2>1, StutterSeen
  <1>2. CASE Create \/ Import
    <2>1. Refused \/ \E state : Taken(state)
      BY <1>2, CreateTakes, ImportTakes
    <2>2. CASE \E state : Taken(state)
      BY <2>2, TakenIsTree DEF Tree!Next
    <2> QED  BY <1>1, <2>1, <2>2 DEF Refused
  <1>3. CASE Split
    <2>1. CASE /\ Path(command.cidr) \in Tree!Paths(Bits) /\ Tree!Split(Path(command.cidr))
      BY <2>1 DEF Tree!Next
    <2> QED  BY <1>1, <1>3, <2>1, SplitIsSplit DEF Refused
  <1>4. CASE Join
    <2>1. CASE \E p \in Tree!Paths(Bits), n \in Notes : Tree!Join(p, n)
      BY <2>1 DEF Tree!Next
    <2> QED  BY <1>1, <1>4, <2>1, JoinIsJoin DEF Refused
  <1>5. CASE Annotate
    <2>1. CASE \E p \in Tree!Paths(Bits), n \in Notes : Tree!Annotate(p, n)
      BY <2>1 DEF Tree!Next
    <2> QED  BY <1>1, <1>5, <2>1, AnnotateIsAnnotate DEF Refused
  <1>6. CASE Export
    BY <1>1, <1>6, ExportIsStutter
  <1>7. CASE Reset
    <2>1. DepthSeen' = 0 /\ TreeSeen' = TreeOf(NoPlan)
      BY <1>7 DEF Reset, DepthSeen, TreeSeen
    <2>2. Tree!Clear
      BY <2>1, NoTree, ClearSeen
    <2> QED  BY <2>2 DEF Tree!Next
  <1>8. CASE Request \/ Cancel \/ UNCHANGED vars
    BY <1>1, <1>8 DEF Request, Cancel, vars
  <1> QED  BY <1>2, <1>3, <1>4, <1>5, <1>6, <1>7, <1>8 DEF Next

\* The planner implements the tree of prefixes: read as paths below the root, the
\* plans of subnet.ts start without a leaf, and every step of the engine and its
\* caller is a step of PrefixTree or leaves the tree alone.
THEOREM PlansAreTrees == Spec => ImplementsTree
  <1>1. Init => Tree!Init
    <2> SUFFICES ASSUME Init PROVE Tree!Init
      OBVIOUS
    <2>1. DepthSeen = 0 /\ TreeSeen = TreeOf(NoPlan)
      BY DEF Init, DepthSeen, TreeSeen
    <2> QED  BY <2>1, NoTree, StartSeen
  <1>2. PlannerInv /\ [Next]_vars => [Tree!Next]_(Tree!vars)
    BY StepSeen
  <1>3. Spec => Tree!Spec
    BY <1>1, <1>2, PlannerInvariant, PTL DEF Spec, Tree!Spec
  <1> QED  BY <1>3 DEF ImplementsTree

-----------------------------------------------------------------------------
(* The leaves of a tree of prefixes partition its block.                   *)

CONSTANT MaxDepth
VARIABLES depth, tree

Trees == INSTANCE PrefixTree

\* A path is a finite sequence of bits.
LEMMA PathType ==
    ASSUME NEW d \in Nat, NEW p \in Trees!Paths(d)
    PROVE  p \in Seq(Trees!Bit) /\ Len(p) \in 0..d
  <1>1. PICK n \in 0..d : p \in [1..n -> Trees!Bit]
    BY DEF Trees!Paths
  <1>2. QED
    BY <1>1

LEMMA PathIntro ==
    ASSUME NEW d \in Nat, NEW p \in Seq(Trees!Bit), Len(p) <= d
    PROVE  p \in Trees!Paths(d)
  <1>1. p \in [1..Len(p) -> Trees!Bit] /\ Len(p) \in 0..d
    OBVIOUS
  <1>2. QED
    BY <1>1 DEF Trees!Paths

\* Two paths of one length that agree bit by bit are the same path.
LEMMA SamePath ==
    ASSUME NEW p \in Seq(Trees!Bit), NEW q \in Seq(Trees!Bit),
           Len(p) = Len(q), Trees!Above(p, q)
    PROVE  p = q
  BY DEF Trees!Above

\* What a child of a path looks like.
LEMMA ChildFacts ==
    ASSUME NEW p \in Seq(Trees!Bit), NEW c \in Trees!Children(p)
    PROVE  /\ c \in Seq(Trees!Bit)
           /\ Len(c) = Len(p) + 1
           /\ Trees!Above(p, c)
           /\ \A i \in 1..Len(p) : c[i] = p[i]
  BY DEF Trees!Children, Trees!Above

LEMMA AboveTransitive ==
    ASSUME NEW p \in Seq(Trees!Bit), NEW q \in Seq(Trees!Bit), NEW r \in Seq(Trees!Bit),
           Trees!Above(p, q), Trees!Above(q, r)
    PROVE  Trees!Above(p, r)
  BY DEF Trees!Above

\* A path strictly below p is below one of the children of p.
LEMMA BelowAChild ==
    ASSUME NEW p \in Seq(Trees!Bit), NEW q \in Seq(Trees!Bit),
           Trees!Above(p, q), Len(p) < Len(q)
    PROVE  \E c \in Trees!Children(p) : Trees!Above(c, q)
  <1> DEFINE c == Append(p, q[Len(p) + 1])
  <1>1. q[Len(p) + 1] \in Trees!Bit
    OBVIOUS
  <1>2. c \in Trees!Children(p)
    BY <1>1 DEF Trees!Children
  <1>3. Len(c) = Len(p) + 1 /\ \A i \in 1..Len(c) : c[i] = q[i]
    BY <1>1 DEF Trees!Above
  <1>4. Trees!Above(c, q)
    BY <1>3 DEF Trees!Above
  <1>5. QED
    BY <1>2, <1>4

\* A split replaces a leaf by its two children: still a partition.
LEMMA SplitKeepsPartition ==
    ASSUME NEW d \in Nat, NEW L, Trees!Partition(d, L),
           NEW p \in L, Len(p) < d
    PROVE  Trees!Partition(d, (L \ {p}) \cup Trees!Children(p))
  <1> DEFINE new == (L \ {p}) \cup Trees!Children(p)
  <1>1. \A q \in L : q \in Seq(Trees!Bit) /\ Len(q) \in 0..d
    BY PathType DEF Trees!Partition
  <1>2. \A q \in new : q \in Seq(Trees!Bit)
    BY <1>1, ChildFacts
  <1>3. new \subseteq Trees!Paths(d)
    <2>1. \A c \in Trees!Children(p) : c \in Seq(Trees!Bit) /\ Len(c) <= d
      BY <1>1, ChildFacts
    <2>2. Trees!Children(p) \subseteq Trees!Paths(d)
      BY <2>1, PathIntro
    <2>3. QED
      BY <2>2 DEF Trees!Partition
  <1>4. ASSUME NEW a \in Trees!Addresses(d)
        PROVE  \E q \in new : Trees!Above(q, a)
    <2>1. PICK q \in L : Trees!Above(q, a)
      BY DEF Trees!Partition
    <2>2. a \in Seq(Trees!Bit) /\ Len(a) = d
      BY DEF Trees!Addresses
    <2>3. CASE q = p
      <3>1. \E c \in Trees!Children(p) : Trees!Above(c, a)
        BY <1>1, <2>1, <2>2, <2>3, BelowAChild
      <3>2. QED
        BY <3>1
    <2>4. CASE q # p
      BY <2>1, <2>4
    <2>5. QED
      BY <2>3, <2>4
  <1>5. ASSUME NEW x \in new, NEW y \in new, Trees!Above(x, y)
        PROVE  x = y
    <2>1. CASE x \in L \ {p} /\ y \in L \ {p}
      BY <1>5, <2>1 DEF Trees!Partition
    <2>2. CASE x \in Trees!Children(p) /\ y \in Trees!Children(p)
      <3>1. Len(x) = Len(y)
        BY <1>1, <2>2, ChildFacts
      <3>2. QED
        BY <1>2, <1>5, <3>1, SamePath
    <2>3. CASE x \in Trees!Children(p) /\ y \in L \ {p}
      <3>1. Trees!Above(p, y)
        BY <1>1, <1>2, <1>5, <2>3, ChildFacts, AboveTransitive
      <3>2. QED
        BY <2>3, <3>1 DEF Trees!Partition
    <2>4. CASE x \in L \ {p} /\ y \in Trees!Children(p)
      <3>1. y \in Seq(Trees!Bit) /\ Len(y) = Len(p) + 1 /\ \A i \in 1..Len(p) : y[i] = p[i]
        BY <1>1, <2>4, ChildFacts
      <3>2. x \in Seq(Trees!Bit) /\ p \in Seq(Trees!Bit)
        BY <1>1, <2>4
      <3>3. Trees!Above(x, p) \/ Trees!Above(p, x)
        BY <1>5, <3>1, <3>2 DEF Trees!Above
      <3>4. QED
        BY <2>4, <3>3 DEF Trees!Partition
    <2>5. QED
      BY <2>1, <2>2, <2>3, <2>4
  <1>6. QED
    BY <1>3, <1>4, <1>5 DEF Trees!Partition

\* A join replaces two sibling leaves by their parent: still a partition.
LEMMA JoinKeepsPartition ==
    ASSUME NEW d \in Nat, NEW L, Trees!Partition(d, L),
           NEW p \in Seq(Trees!Bit), Trees!Children(p) \subseteq L
    PROVE  Trees!Partition(d, (L \ Trees!Children(p)) \cup {p})
  <1> DEFINE new == (L \ Trees!Children(p)) \cup {p}
  <1>1. \A q \in L : q \in Seq(Trees!Bit) /\ Len(q) \in 0..d
    BY PathType DEF Trees!Partition
  <1>2. PICK child \in Trees!Children(p) : child \in L
    BY DEF Trees!Children, Trees!Bit
  <1>3. new \subseteq Trees!Paths(d)
    <2>1. Len(p) <= d
      BY <1>1, <1>2, ChildFacts
    <2>2. QED
      BY <2>1, PathIntro DEF Trees!Partition
  <1>4. ASSUME NEW a \in Trees!Addresses(d)
        PROVE  \E q \in new : Trees!Above(q, a)
    <2>1. PICK q \in L : Trees!Above(q, a)
      BY DEF Trees!Partition
    <2>2. a \in Seq(Trees!Bit)
      BY DEF Trees!Addresses
    <2>3. CASE q \in Trees!Children(p)
      <3>1. Trees!Above(p, a)
        BY <1>1, <2>1, <2>2, <2>3, ChildFacts, AboveTransitive
      <3>2. QED
        BY <3>1
    <2>4. CASE q \notin Trees!Children(p)
      BY <2>1, <2>4
    <2>5. QED
      BY <2>3, <2>4
  <1>5. ASSUME NEW x \in new, NEW y \in new, Trees!Above(x, y)
        PROVE  x = y
    <2>1. CASE x \in L \ Trees!Children(p) /\ y \in L \ Trees!Children(p)
      BY <1>5, <2>1 DEF Trees!Partition
    <2>2. CASE x = p /\ y \in L \ Trees!Children(p)
      <3>1. y \in Seq(Trees!Bit)
        BY <1>1, <2>2
      <3>2. CASE Len(p) < Len(y)
        <4>1. PICK c \in Trees!Children(p) : Trees!Above(c, y)
          BY <1>5, <2>2, <3>1, <3>2, BelowAChild
        <4>2. QED
          BY <2>2, <4>1 DEF Trees!Partition
      <3>3. CASE Len(p) = Len(y)
        BY <1>5, <2>2, <3>1, <3>3, SamePath
      <3>4. QED
        BY <1>5, <2>2, <3>1, <3>2, <3>3 DEF Trees!Above
    <2>3. CASE x \in L \ Trees!Children(p) /\ y = p
      <3>1. x \in Seq(Trees!Bit) /\ child \in Seq(Trees!Bit) /\ Trees!Above(p, child)
        BY <1>1, <1>2, <2>3, ChildFacts
      <3>2. Trees!Above(x, child)
        BY <1>5, <2>3, <3>1, AboveTransitive
      <3>3. QED
        BY <1>2, <2>3, <3>2 DEF Trees!Partition
    <2>4. CASE x = p /\ y = p
      BY <2>4
    <2>5. QED
      BY <2>1, <2>2, <2>3, <2>4
  <1>6. QED
    BY <1>3, <1>4, <1>5 DEF Trees!Partition

TreeInv == Trees!TreeTypeOK /\ Trees!TreeOK

LEMMA InitTreeInv ==
    ASSUME MaxDepth \in Nat, Trees!Init PROVE TreeInv
  <1>1. DOMAIN tree = {}
    BY DEF Trees!Init
  <1>2. QED
    BY <1>1 DEF Trees!Init, TreeInv, Trees!TreeTypeOK, Trees!TreeOK, Trees!Empty

LEMMA NextTreeInv ==
    ASSUME MaxDepth \in Nat, TreeInv, [Trees!Next]_Trees!vars PROVE TreeInv'
  <1>1. depth \in Nat
    BY DEF TreeInv, Trees!TreeTypeOK
  <1>2. CASE Trees!Adopt
    BY <1>2 DEF Trees!Adopt, TreeInv, Trees!TreeTypeOK, Trees!TreeOK
  <1>3. CASE Trees!Clear
    <2>1. DOMAIN tree' = {}
      BY <1>3 DEF Trees!Clear
    <2>2. QED
      BY <1>3, <2>1 DEF Trees!Clear, TreeInv, Trees!TreeTypeOK, Trees!TreeOK, Trees!Empty
  <1>4. ASSUME NEW p \in Trees!Paths(MaxDepth), Trees!Split(p)
        PROVE  TreeInv'
    <2> DEFINE new == (DOMAIN tree \ {p}) \cup Trees!Children(p)
    <2>1. DOMAIN tree' = new
      BY <1>4 DEF Trees!Split
    <2>2. Trees!Partition(depth, new)
      BY <1>1, <1>4, SplitKeepsPartition DEF Trees!Split, TreeInv, Trees!TreeOK, Trees!Empty
    <2>3. tree' \in [new -> Notes]
      BY <1>4 DEF Trees!Split, TreeInv, Trees!TreeTypeOK
    <2>4. QED
      BY <1>4, <2>1, <2>2, <2>3 DEF Trees!Split, TreeInv, Trees!TreeTypeOK, Trees!TreeOK
  <1>5. ASSUME NEW p \in Trees!Paths(MaxDepth), NEW n \in Notes, Trees!Join(p, n)
        PROVE  TreeInv'
    <2> DEFINE new == (DOMAIN tree \ Trees!Children(p)) \cup {p}
    <2>1. DOMAIN tree' = new
      BY <1>5 DEF Trees!Join
    <2>2. p \in Seq(Trees!Bit)
      BY PathType
    <2>3. ~Trees!Empty
      BY <1>5 DEF Trees!Join, Trees!Children, Trees!Bit, Trees!Empty
    <2>4. Trees!Partition(depth, new)
      BY <1>1, <1>5, <2>2, <2>3, JoinKeepsPartition DEF Trees!Join, TreeInv, Trees!TreeOK
    <2>5. tree' \in [new -> Notes]
      BY <1>5 DEF Trees!Join, TreeInv, Trees!TreeTypeOK
    <2>6. QED
      BY <1>5, <2>1, <2>4, <2>5 DEF Trees!Join, TreeInv, Trees!TreeTypeOK, Trees!TreeOK
  <1>6. ASSUME NEW p \in Trees!Paths(MaxDepth), NEW n \in Notes, Trees!Annotate(p, n)
        PROVE  TreeInv'
    BY <1>6 DEF Trees!Annotate, TreeInv, Trees!TreeTypeOK, Trees!TreeOK, Trees!Empty
  <1>7. CASE UNCHANGED Trees!vars
    BY <1>7 DEF Trees!vars, TreeInv, Trees!TreeTypeOK, Trees!TreeOK, Trees!Empty
  <1>8. QED
    BY <1>2, <1>3, <1>4, <1>5, <1>6, <1>7 DEF Trees!Next

\* Type correctness, for every depth: the block is no deeper than the limit, and
\* every leaf, whatever its path, carries one of the notes.  That the paths end
\* within the depth is a part of TreePartitioned.
THEOREM TreeTypeCorrect == MaxDepth \in Nat => (Trees!Spec => []Trees!TreeTypeOK)
  <1> SUFFICES ASSUME MaxDepth \in Nat PROVE Trees!Spec => []Trees!TreeTypeOK
    OBVIOUS
  <1>1. Trees!Init => TreeInv
    BY InitTreeInv
  <1>2. TreeInv /\ [Trees!Next]_Trees!vars => TreeInv'
    BY NextTreeInv
  <1>3. TreeInv => Trees!TreeTypeOK
    BY DEF TreeInv
  <1>4. QED
    BY <1>1, <1>2, <1>3, PTL DEF Trees!Spec

\* The leaves of a plan always partition its block: no sequence of splits and
\* joins leaves a gap or an overlap.
THEOREM TreePartitioned == MaxDepth \in Nat => (Trees!Spec => []Trees!TreeOK)
  <1> SUFFICES ASSUME MaxDepth \in Nat PROVE Trees!Spec => []Trees!TreeOK
    OBVIOUS
  <1>1. Trees!Init => TreeInv
    BY InitTreeInv
  <1>2. TreeInv /\ [Trees!Next]_Trees!vars => TreeInv'
    BY NextTreeInv
  <1>3. TreeInv => Trees!TreeOK
    BY DEF TreeInv
  <1>4. QED
    BY <1>1, <1>2, <1>3, PTL DEF Trees!Spec

=============================================================================
