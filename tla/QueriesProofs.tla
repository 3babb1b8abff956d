--------------------------- MODULE QueriesProofs ----------------------------
(***************************************************************************)
(* Proofs about Queries and RankFusion, for every number of memories,      *)
(* sessions and writes, every text and its scores, and every limit.        *)
(*                                                                         *)
(* First the lists: what ORDER BY and LIMIT leave, and what the loop of    *)
(* FuseRRF computes.  Then the tables, write by write, and the queries.    *)
(***************************************************************************)
EXTENDS Queries, FiniteSetTheorems, WellFoundedInduction, TLAPS

\* Induction, over a set of numbers.
LEMMA Induction ==
  ASSUME NEW N \in SUBSET Nat, 0 \in N, \A n \in N : n + 1 \in N
  PROVE  N = Nat
<1>. DEFINE less == OpToRel(<, Nat)
            rest == Nat \ N
<1>1. \A x, y \in Nat : <<x, y>> \in less <=> x < y
  BY DEF OpToRel
<1>2. IsWellFoundedOn(less, Nat)
  BY NatLessThanWellFounded
<1>. HIDE DEF less
<1>. SUFFICES ASSUME rest # {} PROVE FALSE
  OBVIOUS
<1>3. PICK n \in rest : \A m \in rest : <<m, n>> \notin less
  BY <1>2, WFMin, rest \subseteq Nat
<1>4. n - 1 \in Nat /\ n - 1 < n
  BY <1>3
<1>5. n - 1 \in N
  BY <1>1, <1>3, <1>4
<1>. QED  BY <1>3, <1>4, <1>5

\* A relation that orders a set, without equals.
Orders(R, S) ==
  /\ \A a \in S : <<a, a>> \notin R
  /\ \A a, b \in S : a = b \/ <<a, b>> \in R \/ <<b, a>> \in R
  /\ \A a, b, c \in S : <<a, b>> \in R /\ <<b, c>> \in R => <<a, c>> \in R

\* Counting goes element by element.
LEMMA CardPlus ==
  ASSUME NEW S, IsFiniteSet(S), NEW n \in Nat, Cardinality(S) = n + 1
  PROVE  \E x \in S : /\ IsFiniteSet(S \ {x}) /\ Cardinality(S \ {x}) = n
<1>1. S # {}
  BY FS_EmptySet
<1>2. PICK x \in S : TRUE
  BY <1>1
<1>. QED  BY <1>2, FS_RemoveElement

\* A finite set has a greatest element, as far as R compares.
LEMMA LastExists ==
  ASSUME NEW S, NEW R, IsFiniteSet(S), S # {},
         \A a, b \in S : <<a, b>> \in R \/ <<b, a>> \in R,
         \A a, b, c \in S : <<a, b>> \in R /\ <<b, c>> \in R => <<a, c>> \in R
  PROVE  \E x \in S : \A y \in S : <<y, x>> \in R
<1>. DEFINE Has(U) == \E x \in U : \A y \in U : <<y, x>> \in R
            N == {n \in Nat : \A U \in SUBSET S : Cardinality(U) = n + 1 => Has(U)}
<1>1. 0 \in N
  <2>. SUFFICES ASSUME NEW U \in SUBSET S, Cardinality(U) = 1 PROVE Has(U)
    OBVIOUS
  <2>1. \E x : U = {x}
    BY FS_Singleton, FS_Subset
  <2>. QED  BY <2>1
<1>2. ASSUME NEW n \in N PROVE n + 1 \in N
  <2>. SUFFICES ASSUME NEW U \in SUBSET S, Cardinality(U) = (n + 1) + 1 PROVE Has(U)
    OBVIOUS
  <2>1. PICK x \in U : Cardinality(U \ {x}) = n + 1
    BY FS_Subset, CardPlus
  <2>2. PICK z \in U \ {x} : \A y \in U \ {x} : <<y, z>> \in R
    BY <1>2, <2>1
  <2>3. CASE <<x, z>> \in R
    BY <2>2, <2>3
  <2>4. CASE <<z, x>> \in R
    <3>1. \A y \in U : <<y, x>> \in R
      BY <2>2, <2>4
    <3>. QED  BY <2>1, <3>1
  <2>. QED  BY <2>1, <2>2, <2>3, <2>4
<1>3. N = Nat
  <2>. HIDE DEF N
  <2>. QED  BY <1>1, <1>2, Induction, N \subseteq Nat DEF N
<1>4. Cardinality(S) \in Nat /\ Cardinality(S) # 0
  BY FS_CardinalityType, FS_EmptySet
<1>5. PICK m \in Nat : Cardinality(S) = m + 1
  BY <1>4
<1>6. m \in N
  BY <1>3
<1>. QED  BY <1>5, <1>6

\* The members of S, in the order R.
InOrder(list, S, R) ==
  /\ list \in [1..Cardinality(S) -> S]
  /\ \A x \in S : \E i \in DOMAIN list : list[i] = x
  /\ \A i, j \in DOMAIN list : i < j => <<list[i], list[j]>> \in R

\* A finite set can be listed in any order of its members: by adding the last
\* one to a list of the others.
LEMMA OrderedListExists ==
  ASSUME NEW S, NEW R, IsFiniteSet(S), Orders(R, S)
  PROVE  \E list : InOrder(list, S, R)
<1>. DEFINE N == {n \in Nat : \A U \in SUBSET S :
                     Cardinality(U) = n => \E list : InOrder(list, U, R)}
<1>1. 0 \in N
  <2>. SUFFICES ASSUME NEW U \in SUBSET S, Cardinality(U) = 0
                PROVE  \E list : InOrder(list, U, R)
    OBVIOUS
  <2>1. U = {} /\ Cardinality(U) = 0
    BY FS_EmptySet, FS_Subset
  <2>2. InOrder([i \in {} |-> i], U, R)
    BY <2>1 DEF InOrder
  <2>. QED  BY <2>2
<1>2. ASSUME NEW n \in N PROVE n + 1 \in N
  <2>. SUFFICES ASSUME NEW U \in SUBSET S, Cardinality(U) = n + 1
                PROVE  \E list : InOrder(list, U, R)
    OBVIOUS
  <2>1. IsFiniteSet(U) /\ U # {} /\ Orders(R, U)
    BY FS_Subset, FS_EmptySet DEF Orders
  <2>2. PICK x \in U : \A y \in U \ {x} : <<y, x>> \in R
    <3>. DEFINE weak == R \cup {<<a, a>> : a \in U}
    <3>1. PICK x \in U : \A y \in U : <<y, x>> \in weak
      <4>1. \A a, b \in U : <<a, b>> \in weak <=> a = b \/ <<a, b>> \in R
        OBVIOUS
      <4>. HIDE DEF weak
      <4>. QED  BY <2>1, <4>1, LastExists DEF Orders
    <3>. QED  BY <3>1
  <2>3. Cardinality(U \ {x}) = n
    BY <2>1, FS_RemoveElement
  <2>4. PICK list : InOrder(list, U \ {x}, R)
    BY <1>2, <2>3
  <2>. DEFINE longer == [i \in 1..(n + 1) |-> IF i = n + 1 THEN x ELSE list[i]]
  <2>5. list \in [1..n -> U \ {x}] /\ DOMAIN longer = 1..(n + 1) /\ longer[n + 1] = x
    <3>1. list \in [1..n -> U \ {x}]
      BY <2>3, <2>4 DEF InOrder
    <3>2. n + 1 \in 1..(n + 1)
      OBVIOUS
    <3>3. DOMAIN longer = 1..(n + 1) /\ longer[n + 1] = x
      BY <3>2
    <3>. QED  BY <3>1, <3>3
  <2>6. \A i \in 1..n : i \in 1..(n + 1) /\ longer[i] = list[i]
    OBVIOUS
  <2>. HIDE DEF longer
  <2>7. longer \in [1..(n + 1) -> U]
    <3>1. \A i \in 1..(n + 1) : longer[i] \in U
      BY <2>5, <2>6
    <3>2. longer = [i \in 1..(n + 1) |-> longer[i]]
      BY DEF longer
    <3>. QED  BY <3>1, <3>2
  <2>8. ASSUME NEW y \in U PROVE \E i \in 1..(n + 1) : longer[i] = y
    <3>1. CASE y = x
      BY <2>5, <3>1
    <3>2. CASE y # x
      <4>1. PICK i \in 1..n : list[i] = y
        BY <2>4, <2>5, <3>2 DEF InOrder
      <4>. QED  BY <2>6, <4>1
    <3>. QED  BY <3>1, <3>2
  <2>9. ASSUME NEW i \in 1..(n + 1), NEW j \in 1..(n + 1), i < j
        PROVE  <<longer[i], longer[j]>> \in R
    <3>1. CASE j = n + 1
      <4>1. i \in 1..n
        BY <2>9, <3>1
      <4>2. longer[i] \in U \ {x}
        BY <2>5, <2>6, <4>1
      <4>. QED  BY <2>2, <2>5, <3>1, <4>2
    <3>2. CASE j # n + 1
      <4>1. i \in 1..n /\ j \in 1..n
        BY <2>9, <3>2
      <4>. QED  BY <2>4, <2>5, <2>6, <2>9, <4>1 DEF InOrder
    <3>. QED  BY <3>1, <3>2
  <2>10. InOrder(longer, U, R)
    BY <2>5, <2>7, <2>8, <2>9 DEF InOrder
  <2>. QED  BY <2>10
<1>3. N = Nat
  <2>. HIDE DEF N
  <2>. QED  BY <1>1, <1>2, Induction, N \subseteq Nat DEF N
<1>4. Cardinality(S) \in N
  BY <1>3, FS_CardinalityType
<1>. QED  BY <1>4

\* A recursive function is what its recursion says: there is one.
Unfolds(f, N, a, step) == f[0] = a /\ \A n \in 1..N : f[n] = step[<<n, f[n - 1]>>]

\* For every step there is a function that it unfolds: by induction on N.
LEMMA Recursion ==
  ASSUME NEW N \in Nat, NEW V, NEW a \in V, NEW step \in [(1..N) \X V -> V]
  PROVE  \E f \in [0..N -> V] : Unfolds(f, N, a, step)
<1>. DEFINE Has(k) == \E f \in [0..k -> V] :
                        f[0] = a /\ \A n \in 1..k : f[n] = step[<<n, f[n - 1]>>]
            M == {k \in Nat : k <= N => Has(k)}
<1>1. 0 \in M
  <2>. DEFINE f == [n \in 0..0 |-> a]
  <2>1. f \in [0..0 -> V] /\ f[0] = a /\ \A n \in 1..0 : f[n] = step[<<n, f[n - 1]>>]
    OBVIOUS
  <2>. HIDE DEF f
  <2>2. Has(0)
    BY <2>1
  <2>. QED  BY <2>2
<1>2. ASSUME NEW k \in M PROVE k + 1 \in M
  <2>. SUFFICES ASSUME k + 1 <= N PROVE Has(k + 1)
    OBVIOUS
  <2>1. PICK f \in [0..k -> V] :
          f[0] = a /\ \A n \in 1..k : f[n] = step[<<n, f[n - 1]>>]
    BY <1>2
  <2>. DEFINE g == [n \in 0..(k + 1) |-> IF n <= k THEN f[n] ELSE step[<<k + 1, f[k]>>]]
  <2>2. step[<<k + 1, f[k]>>] \in V
    OBVIOUS
  <2>3. g \in [0..(k + 1) -> V]
    BY <2>2
  <2>4. g[0] = a
    BY <2>1
  <2>5. ASSUME NEW n \in 1..(k + 1) PROVE g[n] = step[<<n, g[n - 1]>>]
    <3>1. CASE n <= k
      BY <2>1, <3>1
    <3>2. CASE n = k + 1
      <4>1. ~(n <= k) /\ n - 1 = k /\ k <= k /\ k \in 0..(k + 1) /\ n \in 0..(k + 1)
        BY <3>2
      <4>2. g[n] = step[<<k + 1, f[k]>>]
        BY <4>1
      <4>3. g[n - 1] = f[k]
        BY <4>1
      <4>. QED  BY <3>2, <4>2, <4>3
    <3>. QED  BY <3>1, <3>2
  <2>. QED  BY <2>3, <2>4, <2>5
<1>3. M = Nat
  <2>. HIDE DEF M
  <2>. QED  BY <1>1, <1>2, Induction, M \subseteq Nat DEF M
<1>4. N \in M
  BY <1>3
<1>. QED  BY <1>4 DEF Unfolds

\* What a query with ORDER BY key DESC LIMIT returns.
Cut(K, key, limit) == {x \in K : Cardinality({y \in K : key[y] > key[x]}) < limit}

\* The rows that are cut come after those that are not; if there is room left,
\* none is cut; with distinct keys the limit is kept.
LEMMA CutIsTop ==
  ASSUME NEW K, IsFiniteSet(K), NEW key \in [K -> Int], NEW limit \in Nat
  PROVE  \A x \in Cut(K, key, limit), y \in K \ Cut(K, key, limit) : key[y] < key[x]
<1>. SUFFICES ASSUME NEW x \in Cut(K, key, limit), NEW y \in K, ~(key[y] < key[x])
              PROVE  y \in Cut(K, key, limit)
  OBVIOUS
<1>. DEFINE above(r) == {z \in K : key[z] > key[r]}
<1>1. x \in K /\ Cardinality(above(x)) < limit
  BY DEF Cut
<1>2. above(y) \subseteq above(x)
  BY <1>1
<1>3. IsFiniteSet(above(x)) /\ Cardinality(above(y)) <= Cardinality(above(x))
  BY <1>2, FS_Subset
<1>4. Cardinality(above(x)) \in Nat /\ Cardinality(above(y)) \in Nat
  BY <1>3, <1>2, FS_CardinalityType, FS_Subset
<1>5. Cardinality(above(y)) < limit
  <2>. HIDE DEF above
  <2>. QED  BY <1>1, <1>3, <1>4
<1>. QED  BY <1>5 DEF Cut

\* ORDER BY LIMIT that returns less than its limit has returned all rows.
LEMMA CutNone ==
  ASSUME NEW K, IsFiniteSet(K), NEW key \in [K -> Int], NEW limit \in Nat,
         Cardinality(Cut(K, key, limit)) < limit
  PROVE  Cut(K, key, limit) = K
<1>. DEFINE top == Cut(K, key, limit)
            rest == K \ top
            R == {p \in K \X K : key[p[1]] <= key[p[2]]}
            above(r) == {z \in K : key[z] > key[r]}
<1>. SUFFICES ASSUME rest # {} PROVE FALSE
  BY DEF Cut
<1>1. \A a, b \in K : /\ <<a, b>> \in R <=> key[a] <= key[b]
                      /\ key[a] \in Int
  OBVIOUS
<1>. HIDE DEF R
<1>2. PICK x \in rest : \A y \in rest : <<y, x>> \in R
  <2>1. ASSUME NEW a \in K, NEW b \in K, NEW c \in K
       PROVE  /\ <<a, b>> \in R \/ <<b, a>> \in R
              /\ <<a, b>> \in R /\ <<b, c>> \in R => <<a, c>> \in R
    <3>1. key[a] \in Int /\ key[b] \in Int /\ key[c] \in Int
      BY <1>1
    <3>2. /\ <<a, b>> \in R <=> key[a] <= key[b]
          /\ <<b, a>> \in R <=> key[b] <= key[a]
          /\ <<b, c>> \in R <=> key[b] <= key[c]
          /\ <<a, c>> \in R <=> key[a] <= key[c]
      BY <1>1
    <3>. QED  BY <3>1, <3>2
  <2>2. IsFiniteSet(rest) /\ rest \subseteq K
    BY FS_Subset
  <2>. HIDE DEF rest
  <2>. QED  BY <2>1, <2>2, LastExists
<1>3. above(x) \subseteq top
  <2>. SUFFICES ASSUME NEW y \in K, key[y] > key[x] PROVE y \in top
    OBVIOUS
  <2>1. ~(key[y] <= key[x])
    BY <1>1, <1>2
  <2>. QED  BY <1>1, <1>2, <2>1
<1>4. IsFiniteSet(top) /\ Cardinality(above(x)) <= Cardinality(top)
  <2>1. IsFiniteSet(top)
    BY FS_Subset DEF Cut
  <2>. QED  BY <1>3, <2>1, FS_Subset
<1>5. Cardinality(above(x)) \in Nat /\ Cardinality(top) \in Nat
  BY <1>3, <1>4, FS_CardinalityType, FS_Subset
<1>6. Cardinality(above(x)) < limit
  <2>. HIDE DEF above, top
  <2>. QED  BY <1>4, <1>5 DEF top
<1>. QED  BY <1>2, <1>6 DEF Cut

\* With distinct keys ORDER BY LIMIT keeps its limit.
LEMMA CutKeepsLimit ==
  ASSUME NEW K, IsFiniteSet(K), NEW key \in [K -> Int], NEW limit \in Nat \ {0},
         \A x, y \in K : key[x] = key[y] => x = y
  PROVE  Cardinality(Cut(K, key, limit)) <= limit
<1>. DEFINE top == Cut(K, key, limit)
            R == {p \in K \X K : key[p[1]] >= key[p[2]]}
            above(r) == {z \in K : key[z] > key[r]}
<1>1. IsFiniteSet(top) /\ top \subseteq K
  BY FS_Subset DEF Cut
<1>2. CASE top = {}
  BY <1>2, FS_EmptySet
<1>3. CASE top # {}
  <2>1. \A a, b \in K : /\ <<a, b>> \in R <=> key[a] >= key[b]
                        /\ key[a] \in Int
    OBVIOUS
  <2>. HIDE DEF R
  <2>2. PICK x \in top : \A y \in top : <<y, x>> \in R
    <3>1. ASSUME NEW a \in K, NEW b \in K, NEW c \in K
         PROVE  /\ <<a, b>> \in R \/ <<b, a>> \in R
                /\ <<a, b>> \in R /\ <<b, c>> \in R => <<a, c>> \in R
      <4>1. key[a] \in Int /\ key[b] \in Int /\ key[c] \in Int
        BY <2>1
      <4>2. /\ <<a, b>> \in R <=> key[a] >= key[b]
            /\ <<b, a>> \in R <=> key[b] >= key[a]
            /\ <<b, c>> \in R <=> key[b] >= key[c]
            /\ <<a, c>> \in R <=> key[a] >= key[c]
        BY <2>1
      <4>. QED  BY <4>1, <4>2
    <3>. HIDE DEF top
    <3>. QED  BY <1>1, <1>3, <3>1, LastExists
  <2>3. top \ {x} \subseteq above(x)
    <3>. SUFFICES ASSUME NEW y \in top \ {x} PROVE key[y] > key[x]
      BY <1>1
    <3>1. key[y] >= key[x] /\ key[y] # key[x]
      BY <1>1, <2>1, <2>2
    <3>2. key[x] \in Int /\ key[y] \in Int
      BY <1>1
    <3>. QED  BY <3>1, <3>2
  <2>4. Cardinality(above(x)) < limit /\ IsFiniteSet(above(x))
    BY FS_Subset DEF Cut
  <2>5. /\ Cardinality(top \ {x}) = Cardinality(top) - 1
        /\ Cardinality(top \ {x}) <= Cardinality(above(x))
    BY <1>1, <2>2, <2>3, <2>4, FS_Subset, FS_RemoveElement
  <2>6. Cardinality(top) \in Nat /\ Cardinality(above(x)) \in Nat
    BY <1>1, <2>4, FS_CardinalityType
  <2>. HIDE DEF above, top
  <2>. QED  BY <2>4, <2>5, <2>6 DEF top
<1>. QED  BY <1>2, <1>3
------------------------------------------------------------------------------
\* A list of all members of a set is one-to-one and onto.
LEMMA ListsAll ==
  ASSUME NEW S, IsFiniteSet(S), NEW list \in SetToSeqs(S)
  PROVE  /\ Cardinality(S) \in Nat /\ list \in Seq(S)
         /\ list \in [1..Cardinality(S) -> S] /\ Len(list) = Cardinality(S)
         /\ \A x \in S : \E i \in 1..Cardinality(S) : list[i] = x
<1>. DEFINE D == 1..Cardinality(S)
<1>1. Cardinality(S) \in Nat
  BY FS_CardinalityType
<1>2. IsFiniteSet(D) /\ Cardinality(D) = Cardinality(S)
  BY <1>1, FS_Interval
<1>3. list \in [D -> S] /\ \A i, j \in D : i # j => list[i] # list[j]
  BY DEF SetToSeqs
<1>4. list \in Injection(D, S)
  BY <1>3 DEF Injection, IsInjective
<1>5. list \in Surjection(D, S)
  BY <1>2, <1>4, FS_Injection
<1>6. \A x \in S : \E i \in D : list[i] = x
  BY <1>5 DEF Surjection
<1>. QED  BY <1>1, <1>3, <1>6

\* If R orders S there is such a list in this order, and it is the only kind.
LEMMA SortedExists ==
  ASSUME NEW S, NEW R, IsFiniteSet(S), Orders(R, S)
  PROVE  \E list \in SetToSeqs(S) :
           \A i, j \in DOMAIN list : i < j => <<list[i], list[j]>> \in R
<1>1. PICK list : InOrder(list, S, R)
  BY OrderedListExists
<1>2. list \in [1..Cardinality(S) -> S] /\ Cardinality(S) \in Nat
  BY <1>1, FS_CardinalityType DEF InOrder
<1>3. ASSUME NEW i \in 1..Cardinality(S), NEW j \in 1..Cardinality(S), i # j
      PROVE  list[i] # list[j]
  <2>1. i < j \/ j < i
    BY <1>2, <1>3
  <2>2. <<list[i], list[j]>> \in R \/ <<list[j], list[i]>> \in R
    BY <1>1, <1>2, <2>1 DEF InOrder
  <2>. QED  BY <1>2, <2>2 DEF Orders
<1>4. list \in SetToSeqs(S)
  BY <1>2, <1>3 DEF SetToSeqs
<1>. QED  BY <1>1, <1>4 DEF InOrder

\* The denominators and their product are numbers.
LEMMA ProductType ==
  /\ \A rank \in 0..MaxRank : Product[rank] \in Nat
  /\ \A rank \in 1..MaxRank : Product[rank] = Product[rank - 1] * (RRFK + rank)
<1>. DEFINE step == [p \in (1..MaxRank) \X Nat |-> p[2] * (RRFK + p[1])]
<1>1. MaxRank \in Nat /\ RRFK \in Nat
  BY RankFusionAssumption
<1>2. step \in [(1..MaxRank) \X Nat -> Nat]
  BY <1>1
<1>3. PICK f \in [0..MaxRank -> Nat] :
        f[0] = 1 /\ \A n \in 1..MaxRank : f[n] = step[<<n, f[n - 1]>>]
  <2>1. \E f \in [0..MaxRank -> Nat] : Unfolds(f, MaxRank, 1, step)
    <3>1. 1 \in Nat
      OBVIOUS
    <3>. HIDE DEF step
    <3>. QED  BY <1>1, <1>2, <3>1, Recursion
  <2>. HIDE DEF step
  <2>. QED  BY <2>1 DEF Unfolds
<1>4. ASSUME NEW n \in 1..MaxRank PROVE f[n] = f[n - 1] * (RRFK + n)
  <2>1. n - 1 \in 0..MaxRank
    BY <1>1
  <2>2. f[n - 1] \in Nat
    BY <1>3, <2>1
  <2>3. step[<<n, f[n - 1]>>] = f[n - 1] * (RRFK + n)
    BY <2>2
  <2>. QED  BY <1>3, <2>3
<1>5. f = [rank \in 0..MaxRank |-> IF rank = 0 THEN 1 ELSE f[rank - 1] * (RRFK + rank)]
  BY <1>1, <1>3, <1>4
<1>6. Product = [rank \in 0..MaxRank |->
                   IF rank = 0 THEN 1 ELSE Product[rank - 1] * (RRFK + rank)]
  BY <1>5 DEF Product
<1>7. Product[0] = 1 /\ \A n \in 1..MaxRank : Product[n] = Product[n - 1] * (RRFK + n)
  BY <1>1, <1>6
<1>. DEFINE N == {n \in Nat : n <= MaxRank => Product[n] \in Nat}
<1>8. ASSUME NEW n \in N PROVE n + 1 \in N
  <2>. SUFFICES ASSUME n + 1 <= MaxRank PROVE Product[n + 1] \in Nat
    OBVIOUS
  <2>1. Product[n + 1] = Product[n] * (RRFK + (n + 1))
    BY <1>1, <1>7
  <2>2. Product[n] \in Nat
    BY <1>1, <1>8
  <2>. QED  BY <1>1, <2>1, <2>2
<1>9. 0 \in N
  BY <1>7
<1>10. N = Nat
  <2>. HIDE DEF N
  <2>. QED  BY <1>8, <1>9, Induction, N \subseteq Nat DEF N
<1>11. \A rank \in 0..MaxRank : rank \in N /\ rank <= MaxRank
  BY <1>1, <1>10
<1>. QED  BY <1>7, <1>11

\* Scores can be compared, also of a memory in one list or in none.
LEMMA ScoreType ==
  ASSUME NEW S, NEW bm25 \in Seq(S), NEW vector \in Seq(S), NEW id
  PROVE  Score(bm25, vector, id) \in Int
<1>1. ASSUME NEW list \in Seq(S) PROVE Share(list, id) \in Int
  <2>1. CASE ~Contains(list, id)
    BY <2>1 DEF Share
  <2>2. CASE Contains(list, id)
    <3>1. \E rank \in DOMAIN list : list[rank] = id
      BY <2>2 DEF Contains
    <3>2. PICK rank \in DOMAIN list : rank = CHOOSE r \in DOMAIN list : list[r] = id
      BY <3>1
    <3>3. rank \in Nat \ {0} /\ RRFK \in Nat
      BY RankFusionAssumption
    <3>4. Scale \in Nat
      BY ProductType, RankFusionAssumption DEF Scale
    <3>5. Scale \div (RRFK + rank) \in Int
      BY <3>3, <3>4
    <3>. QED  BY <2>2, <3>2, <3>5 DEF Share
  <2>. QED  BY <2>1, <2>2
<1>. QED  BY <1>1 DEF Score

\* Better is an order on the items, and Merged lists them in it.
Found(bm25, vector) == ToSet(bm25) \cup ToSet(vector)
BetterOn(bm25, vector) ==
  {p \in Found(bm25, vector) \X Found(bm25, vector) : Better(bm25, vector, p[1], p[2])}

\* Scores, and identifiers where they are equal, order what was found.
LEMMA BetterOrders ==
  ASSUME NEW bm25 \in Seq(Ids), NEW vector \in Seq(Ids)
  PROVE  Orders(BetterOn(bm25, vector), Found(bm25, vector))
<1>. DEFINE S == Found(bm25, vector)
            R == BetterOn(bm25, vector)
            score(id) == Score(bm25, vector, id)
<1>1. S \subseteq Nat
  <2>1. ASSUME NEW list \in Seq(Ids) PROVE ToSet(list) \subseteq Ids
    BY DEF ToSet
  <2>2. Ids \subseteq Nat
    BY QueriesAssumption
  <2>. QED  BY <2>1, <2>2 DEF Found
<1>2. \A a, b \in S : <<a, b>> \in R <=> \/ score(a) > score(b)
                                         \/ score(a) = score(b) /\ a < b
  BY DEF BetterOn, Better
<1>3. \A a \in S : score(a) \in Int
  BY ScoreType
<1>. HIDE DEF S, R, score
<1>4. ASSUME NEW a \in S, NEW b \in S, NEW c \in S
      PROVE  /\ <<a, a>> \notin R
             /\ a = b \/ <<a, b>> \in R \/ <<b, a>> \in R
             /\ <<a, b>> \in R /\ <<b, c>> \in R => <<a, c>> \in R
  <2>1. PICK x \in Int, y \in Int, z \in Int :
          x = score(a) /\ y = score(b) /\ z = score(c)
    BY <1>3
  <2>2. /\ <<a, a>> \in R <=> x > x \/ (x = x /\ a < a)
        /\ <<a, b>> \in R <=> x > y \/ (x = y /\ a < b)
        /\ <<b, a>> \in R <=> y > x \/ (y = x /\ b < a)
        /\ <<b, c>> \in R <=> y > z \/ (y = z /\ b < c)
        /\ <<a, c>> \in R <=> x > z \/ (x = z /\ a < c)
    BY <1>2, <2>1
  <2>3. a \in Nat /\ b \in Nat /\ c \in Nat
    BY <1>1
  <2>. QED  BY <2>2, <2>3
<1>. QED  BY <1>4 DEF Orders, S, R

\* What lists have in them: no more than their length, and with no duplicates
\* exactly that many.
LEMMA SeqToSet ==
  ASSUME NEW S, NEW list \in Seq(S)
  PROVE  /\ IsFiniteSet(ToSet(list)) /\ ToSet(list) \subseteq S
         /\ Cardinality(ToSet(list)) \in Nat /\ Cardinality(ToSet(list)) <= Len(list)
         /\ (\A i, j \in DOMAIN list : i < j => list[i] # list[j])
              => Cardinality(ToSet(list)) = Len(list)
<1>. DEFINE D == 1..Len(list)
<1>1. Len(list) \in Nat /\ DOMAIN list = D /\ list \in [D -> S]
  OBVIOUS
<1>2. IsFiniteSet(D) /\ Cardinality(D) = Len(list)
  BY <1>1, FS_Interval
<1>3. list \in Surjection(D, ToSet(list))
  BY <1>1 DEF Surjection, ToSet
<1>4. /\ IsFiniteSet(ToSet(list)) /\ Cardinality(ToSet(list)) <= Cardinality(D)
      /\ list \in Injection(D, ToSet(list)) => Cardinality(ToSet(list)) = Cardinality(D)
  BY <1>2, <1>3, FS_Surjection
<1>5. (\A i, j \in D : i < j => list[i] # list[j]) => list \in Injection(D, ToSet(list))
  <2>. SUFFICES ASSUME \A i, j \in D : i < j => list[i] # list[j]
                PROVE  \A i, j \in D : list[i] = list[j] => i = j
    BY <1>3 DEF Injection, IsInjective, Surjection
  <2>. QED  BY <1>1
<1>6. ToSet(list) \subseteq S
  BY <1>1 DEF ToSet
<1>. QED  BY <1>1, <1>2, <1>4, <1>5, <1>6, FS_CardinalityType

\* Merged, the items of FuseRRF: everything found, the best first.
LEMMA MergedIsInOrder ==
  ASSUME NEW bm25 \in Seq(Ids), NEW vector \in Seq(Ids)
  PROVE  /\ IsFiniteSet(Found(bm25, vector))
         /\ Merged(bm25, vector) \in SetToSeqs(Found(bm25, vector))
         /\ \A i, j \in DOMAIN Merged(bm25, vector) : i < j =>
              <<Merged(bm25, vector)[i], Merged(bm25, vector)[j]>> \in BetterOn(bm25, vector)
<1>. DEFINE S == Found(bm25, vector)
            R == BetterOn(bm25, vector)
            sorted == Sorted(S, LAMBDA a, b : Better(bm25, vector, a, b))
<1>1. IsFiniteSet(S)
  BY SeqToSet, FS_Union DEF Found
<1>2. \A a, b \in S : <<a, b>> \in R <=> Better(bm25, vector, a, b)
  BY DEF BetterOn
<1>3. \A list : list \in sorted <=>
        /\ list \in SetToSeqs(S)
        /\ \A i, j \in DOMAIN list : i < j => <<list[i], list[j]>> \in R
  <2>1. \A list : list \in sorted <=>
          /\ list \in SetToSeqs(S)
          /\ \A i, j \in DOMAIN list : i < j => Better(bm25, vector, list[i], list[j])
    BY DEF Sorted
  <2>2. \A list \in SetToSeqs(S) : list \in [1..Cardinality(S) -> S]
    BY DEF SetToSeqs
  <2>. HIDE DEF sorted, S, R
  <2>. QED  BY <1>2, <2>1, <2>2
<1>4. \E list : list \in sorted
  BY <1>1, <1>3, SortedExists, BetterOrders
<1>5. Merged(bm25, vector) = CHOOSE list \in sorted : TRUE
  BY DEF Merged, Found
<1>6. Merged(bm25, vector) \in sorted
  <2>. HIDE DEF sorted
  <2>. QED  BY <1>4, <1>5
<1>. QED  BY <1>1, <1>3, <1>6

\* Every denominator divides the common one.
LEMMA ProductDivides ==
  ASSUME NEW k \in 1..MaxRank
  PROVE  \E m \in Nat : Product[MaxRank] = m * (RRFK + k)
<1>. DEFINE Divides(n) == \E m \in Nat : Product[n] = m * (RRFK + k)
            N == {j \in Nat : k + j <= MaxRank => Divides(k + j)}
<1>1. MaxRank \in Nat /\ RRFK \in Nat /\ k \in Nat /\ k \in 0..MaxRank
  BY RankFusionAssumption
<1>2. 0 \in N
  <2>1. k - 1 \in 0..MaxRank /\ k + 0 = k
    BY <1>1
  <2>2. Product[k - 1] \in Nat /\ Product[k] = Product[k - 1] * (RRFK + k)
    BY <2>1, ProductType
  <2>. QED  BY <2>1, <2>2
<1>3. ASSUME NEW j \in N PROVE j + 1 \in N
  <2>. SUFFICES ASSUME k + (j + 1) <= MaxRank PROVE Divides(k + (j + 1))
    OBVIOUS
  <2>. DEFINE n == k + j
  <2>1. /\ n \in Nat /\ n \in 0..MaxRank /\ n + 1 \in 1..MaxRank /\ n + 1 = k + (j + 1)
        /\ (n + 1) - 1 = n /\ k + j <= MaxRank
    BY <1>1
  <2>2. PICK m \in Nat : Product[n] = m * (RRFK + k)
    BY <1>3, <2>1
  <2>3. Product[n + 1] = Product[n] * (RRFK + (n + 1))
    BY <2>1, ProductType
  <2>. HIDE DEF n
  <2>4. m * (RRFK + (n + 1)) \in Nat
    BY <1>1, <2>1
  <2>5. (m * (RRFK + k)) * (RRFK + (n + 1)) = (m * (RRFK + (n + 1))) * (RRFK + k)
    BY <1>1, <2>1
  <2>6. Divides(n + 1)
    BY <2>2, <2>3, <2>4, <2>5
  <2>. QED  BY <2>1, <2>6
<1>4. N = Nat
  <2>. HIDE DEF N
  <2>. QED  BY <1>2, <1>3, Induction, N \subseteq Nat DEF N
<1>5. MaxRank - k \in Nat /\ k + (MaxRank - k) = MaxRank
  BY <1>1
<1>6. MaxRank - k \in N
  <2>. HIDE DEF N
  <2>. QED  BY <1>4, <1>5
<1>7. Divides(k + (MaxRank - k))
  BY <1>1, <1>5, <1>6
<1>. QED  BY <1>5, <1>7

\* Division of a multiple.
LEMMA DivisionIsExact ==
  ASSUME NEW m \in Nat, NEW d \in Nat \ {0}
  PROVE  (m * d) \div d = m
OBVIOUS

\* The fractions 1/(rrf_k + rank) of FuseRRF are kept without rounding: the share
\* of the item at each rank is that part of Scale, for every rrf_k and every list
\* up to MaxRank, so that comparing scores here compares the code's sums.
THEOREM SharesAreExact ==
  ASSUME NEW S, NEW list \in Seq(S), Len(list) <= MaxRank,
         \A i, j \in DOMAIN list : list[i] = list[j] => i = j,
         NEW rank \in DOMAIN list
  PROVE  Share(list, list[rank]) * (RRFK + rank) = Scale
<1>1. rank \in 1..MaxRank /\ Contains(list, list[rank]) /\ RRFK \in Nat /\ rank \in Nat \ {0}
  BY RankFusionAssumption DEF Contains
<1>2. (CHOOSE r \in DOMAIN list : list[r] = list[rank]) = rank
  OBVIOUS
<1>3. Share(list, list[rank]) = Scale \div (RRFK + rank)
  BY <1>1, <1>2 DEF Share
<1>4. PICK m \in Nat : Scale = m * (RRFK + rank)
  BY <1>1, ProductDivides DEF Scale
<1>5. RRFK + rank \in Nat \ {0}
  BY <1>1
<1>6. (m * (RRFK + rank)) \div (RRFK + rank) = m
  BY <1>5, DivisionIsExact
<1>. QED  BY <1>3, <1>4, <1>6

\* One pass of FuseRRF's loop.
Grown(list, session, finalK, x) ==
  IF Len(list) >= finalK \/ Capped(list, session, x) THEN list ELSE Append(list, x)

\* What the loop of FuseRRF has reached after the items S: of those, list is
\* what IsFusion asks for.
Before(list, R, id) == {x \in ToSet(list) : <<x, id>> \in R}
Partial(list, S, R, session, finalK) ==
  /\ list \in Seq(S) /\ Len(list) <= finalK
  /\ \A i, j \in DOMAIN list : i < j => <<list[i], list[j]>> \in R
  /\ \A id \in ToSet(list) : session[id] # NoSession =>
       Cardinality(InSession(ToSet(list), session, id)) <= MaxPerSession
  /\ \A id \in S \ ToSet(list) :
       \/ Cardinality(Before(list, R, id)) = finalK
       \/ /\ session[id] # NoSession
          /\ Cardinality(InSession(Before(list, R, id), session, id)) = MaxPerSession

\* An item that is left out is left out for finalK or MaxPerSession others.
LEMMA PartialSkip ==
  ASSUME NEW F, NEW R, Orders(R, F), NEW S \in SUBSET F, NEW x \in F \ S,
         \A y \in S : <<y, x>> \in R, NEW session, NEW finalK \in Nat,
         NEW list, Partial(list, S, R, session, finalK),
         Len(list) >= finalK \/ Capped(list, session, x)
  PROVE  Partial(list, S \cup {x}, R, session, finalK)
<1>1. list \in Seq(S) /\ list \in Seq(S \cup {x}) /\ Len(list) \in Nat
  BY DEF Partial
<1>2. ToSet(list) \subseteq S /\ IsFiniteSet(ToSet(list))
  BY <1>1, SeqToSet
<1>3. Before(list, R, x) = ToSet(list)
  BY <1>2 DEF Before
<1>4. CASE Len(list) >= finalK
  <2>1. Len(list) = finalK
    BY <1>1, <1>4 DEF Partial
  <2>2. \A i, j \in DOMAIN list : i < j => list[i] # list[j]
    <3>1. \A i \in DOMAIN list : list[i] \in F
      BY <1>1
    <3>. QED  BY <3>1 DEF Partial, Orders
  <2>3. Cardinality(Before(list, R, x)) = finalK
    BY <1>1, <1>3, <2>1, <2>2, SeqToSet
  <2>. QED  BY <1>1, <2>3 DEF Partial
<1>5. CASE Capped(list, session, x)
  <2>. DEFINE mates == InSession(ToSet(list), session, x)
  <2>1. session[x] # NoSession /\ Cardinality(mates) >= MaxPerSession
    BY <1>5 DEF Capped
  <2>2. IsFiniteSet(mates) /\ Cardinality(mates) \in Nat /\ MaxPerSession \in Nat \ {0}
    BY <1>2, FS_Subset, FS_CardinalityType, RankFusionAssumption DEF InSession
  <2>3. mates # {}
    BY <2>1, <2>2, FS_EmptySet
  <2>4. PICK y \in mates : y \in ToSet(list) /\ session[y] = session[x]
    BY <2>3 DEF InSession
  <2>5. InSession(ToSet(list), session, y) = mates
    BY <2>4 DEF InSession
  <2>6. Cardinality(mates) <= MaxPerSession
    BY <2>1, <2>4, <2>5 DEF Partial
  <2>7. Cardinality(InSession(Before(list, R, x), session, x)) = MaxPerSession
    BY <1>3, <2>1, <2>2, <2>6
  <2>. QED  BY <1>1, <2>1, <2>7 DEF Partial
<1>. QED  BY <1>4, <1>5

\* An item that is appended.
LEMMA PartialTake ==
  ASSUME NEW F, NEW R, Orders(R, F), NEW S \in SUBSET F, NEW x \in F \ S,
         \A y \in S : <<y, x>> \in R, NEW session, NEW finalK \in Nat,
         NEW list, Partial(list, S, R, session, finalK),
         ~(Len(list) >= finalK), ~Capped(list, session, x)
  PROVE  Partial(Append(list, x), S \cup {x}, R, session, finalK)
<1>. DEFINE longer == Append(list, x)
            n == Len(list)
<1>1. /\ list \in Seq(S) /\ n \in Nat /\ longer \in Seq(S \cup {x})
      /\ Len(longer) = n + 1 /\ longer[n + 1] = x
      /\ DOMAIN list = 1..n /\ DOMAIN longer = 1..(n + 1)
      /\ \A i \in 1..n : longer[i] = list[i] /\ list[i] \in S
  BY DEF Partial
<1>2. ToSet(list) \subseteq S /\ IsFiniteSet(ToSet(list))
  BY <1>1, SeqToSet
<1>3. ToSet(longer) = ToSet(list) \cup {x}
  <2>1. \A i \in 1..(n + 1) : i \in 1..n \/ i = n + 1
    BY <1>1
  <2>2. n + 1 \in 1..(n + 1) /\ \A i \in 1..n : i \in 1..(n + 1)
    BY <1>1
  <2>. HIDE DEF longer, n
  <2>. QED  BY <1>1, <2>1, <2>2 DEF ToSet
<1>4. Len(longer) <= finalK
  BY <1>1
<1>5. ASSUME NEW i \in DOMAIN longer, NEW j \in DOMAIN longer, i < j
      PROVE  <<longer[i], longer[j]>> \in R
  <2>1. i \in 1..n
    BY <1>1, <1>5
  <2>2. CASE j = n + 1
    BY <1>1, <2>1, <2>2
  <2>3. CASE j # n + 1
    <3>1. j \in 1..n
      BY <1>1, <2>3
    <3>. QED  BY <1>1, <1>5, <2>1, <3>1 DEF Partial
  <2>. QED  BY <2>2, <2>3
<1>6. ASSUME NEW id \in ToSet(longer), session[id] # NoSession
      PROVE  Cardinality(InSession(ToSet(longer), session, id)) <= MaxPerSession
  <2>1. CASE session[id] # session[x]
    <3>1. InSession(ToSet(longer), session, id) = InSession(ToSet(list), session, id)
      BY <1>3, <2>1 DEF InSession
    <3>2. id \in ToSet(list)
      BY <1>3, <2>1
    <3>. QED  BY <1>6, <3>1, <3>2 DEF Partial
  <2>2. CASE session[id] = session[x]
    <3>. DEFINE mates == InSession(ToSet(list), session, x)
    <3>1. InSession(ToSet(longer), session, id) = mates \cup {x}
      BY <1>3, <2>2 DEF InSession
    <3>2. IsFiniteSet(mates) /\ x \notin mates
      BY <1>2, FS_Subset DEF InSession
    <3>3. Cardinality(mates \cup {x}) = Cardinality(mates) + 1
      BY <3>2, FS_AddElement
    <3>4. ~(Cardinality(mates) >= MaxPerSession)
      BY <1>6, <2>2 DEF Capped
    <3>5. Cardinality(mates) \in Nat /\ MaxPerSession \in Nat
      BY <3>2, FS_CardinalityType, RankFusionAssumption
    <3>. HIDE DEF mates
    <3>. QED  BY <3>1, <3>3, <3>4, <3>5
  <2>. QED  BY <2>1, <2>2
<1>7. ASSUME NEW id \in (S \cup {x}) \ ToSet(longer)
      PROVE  /\ id \in S \ ToSet(list)
             /\ Before(longer, R, id) = Before(list, R, id)
  <2>1. id \in S \ ToSet(list)
    BY <1>3
  <2>2. <<x, id>> \notin R
    BY <2>1 DEF Orders
  <2>. QED  BY <1>3, <2>1, <2>2 DEF Before
<1>. HIDE DEF longer, n
<1>8. Partial(longer, S \cup {x}, R, session, finalK)
  BY <1>1, <1>4, <1>5, <1>6, <1>7 DEF Partial
<1>. QED  BY <1>8 DEF longer

\* So every pass of the loop over the next item keeps what it has reached.
LEMMA PartialGrown ==
  ASSUME NEW F, NEW R, Orders(R, F), NEW S \in SUBSET F, NEW x \in F \ S,
         \A y \in S : <<y, x>> \in R, NEW session, NEW finalK \in Nat,
         NEW list, Partial(list, S, R, session, finalK)
  PROVE  Partial(Grown(list, session, finalK, x), S \cup {x}, R, session, finalK)
<1>1. CASE Len(list) >= finalK \/ Capped(list, session, x)
  <2>1. Grown(list, session, finalK, x) = list
    BY <1>1 DEF Grown
  <2>. QED  BY <1>1, <2>1, PartialSkip
<1>2. CASE ~(Len(list) >= finalK) /\ ~Capped(list, session, x)
  <2>1. Grown(list, session, finalK, x) = Append(list, x)
    BY <1>2 DEF Grown
  <2>. QED  BY <1>2, <2>1, PartialTake
<1>. QED  BY <1>1, <1>2

\* FuseRRF as the last pass of its loop.
LEMMA FuseUnfolds ==
  ASSUME NEW bm25 \in Seq(Ids), NEW vector \in Seq(Ids), NEW session, NEW finalK \in Nat,
         NEW items, items = Merged(bm25, vector),
         NEW S, items \in Seq(S)
  PROVE  \E results : /\ results[0] = <<>>
                      /\ \A n \in 1..Len(items) :
                           results[n] = Grown(results[n - 1], session, finalK, items[n])
                      /\ FuseRRF(bm25, vector, session, finalK) = results[Len(items)]
<1>. DEFINE N == Len(items)
            step == [p \in (1..N) \X Seq(S) |-> Grown(p[2], session, finalK, items[p[1]])]
            body(f) == [n \in 0..N |-> IF n = 0 THEN <<>>
                                   ELSE Grown(f[n - 1], session, finalK, items[n])]
<1>1. N \in Nat /\ <<>> \in Seq(S)
  OBVIOUS
<1>2. step \in [(1..N) \X Seq(S) -> Seq(S)]
  <2>1. ASSUME NEW n \in 1..N, NEW list \in Seq(S)
        PROVE  Grown(list, session, finalK, items[n]) \in Seq(S)
    <3>1. items[n] \in S
      OBVIOUS
    <3>. QED  BY <3>1 DEF Grown
  <2>. QED  BY <2>1
<1>3. PICK f \in [0..N -> Seq(S)] :
        f[0] = <<>> /\ \A n \in 1..N : f[n] = step[<<n, f[n - 1]>>]
  <2>1. \E f \in [0..N -> Seq(S)] : Unfolds(f, N, <<>>, step)
    <3>. DEFINE V == Seq(S)
    <3>1. <<>> \in V /\ step \in [(1..N) \X V -> V]
      BY <1>1, <1>2
    <3>. HIDE DEF step, V, N
    <3>2. \E f \in [0..N -> V] : Unfolds(f, N, <<>>, step)
      BY <1>1, <3>1, Recursion
    <3>. QED  BY <3>2 DEF V
  <2>. HIDE DEF step
  <2>. QED  BY <2>1 DEF Unfolds
<1>4. ASSUME NEW n \in 1..N PROVE f[n] = Grown(f[n - 1], session, finalK, items[n])
  <2>1. n - 1 \in 0..N
    BY <1>1
  <2>2. f[n - 1] \in Seq(S)
    BY <1>3, <2>1
  <2>. QED  BY <1>3, <2>2
<1>5. f = body(f)
  <2>1. \A n \in 0..N : f[n] = body(f)[n]
    BY <1>1, <1>3, <1>4
  <2>. QED  BY <2>1
<1>. DEFINE results == CHOOSE g : g = body(g)
<1>6. results = body(results)
  <2>. HIDE DEF body
  <2>. QED  BY <1>5
<1>7. FuseRRF(bm25, vector, session, finalK) = results[N]
  BY DEF FuseRRF, Grown
<1>. HIDE DEF results
<1>8. results[0] = <<>>
  BY <1>1, <1>6
<1>9. ASSUME NEW n \in 1..N
      PROVE  results[n] = Grown(results[n - 1], session, finalK, items[n])
  <2>1. n \in 0..N /\ n # 0
    BY <1>1
  <2>2. body(results)[n] = Grown(results[n - 1], session, finalK, items[n])
    <3>. HIDE DEF N
    <3>. QED  BY <2>1
  <2>. QED  BY <1>6, <2>2
<1>. QED  BY <1>7, <1>8, <1>9

\* The loop of FuseRRF computes what IsFusion describes, from items of the two
\* lists.
THEOREM FuseIsFusion ==
  ASSUME NEW bm25 \in Seq(Ids), NEW vector \in Seq(Ids), NEW session, NEW finalK \in Nat
  PROVE  LET list == FuseRRF(bm25, vector, session, finalK)
         IN /\ IsFusion(list, bm25, vector, session, finalK)
            /\ list \in Seq(Found(bm25, vector))
<1>. DEFINE S == Found(bm25, vector)
            R == BetterOn(bm25, vector)
            items == Merged(bm25, vector)
            M == Len(items)
            list == FuseRRF(bm25, vector, session, finalK)
            first(n) == {items[k] : k \in 1..n}
<1>1. /\ items \in SetToSeqs(S)
      /\ \A i, j \in DOMAIN items : i < j => <<items[i], items[j]>> \in R
  BY MergedIsInOrder
<1>2. /\ M \in Nat /\ items \in Seq(S) /\ items \in [1..M -> S]
      /\ \A x \in S : \E i \in 1..M : items[i] = x
  BY <1>1, MergedIsInOrder, ListsAll
<1>3. Orders(R, S)
  BY BetterOrders
<1>4. PICK results : /\ results[0] = <<>>
                     /\ \A n \in 1..M :
                          results[n] = Grown(results[n - 1], session, finalK, items[n])
                     /\ list = results[M]
  <2>1. items = Merged(bm25, vector) /\ items \in Seq(S)
    BY <1>2
  <2>. HIDE DEF items, S
  <2>. QED  BY <2>1, FuseUnfolds
<1>. HIDE DEF S, R, items, M, list
<1>. DEFINE N == {n \in Nat : n <= M => Partial(results[n], first(n), R, session, finalK)}
<1>5. 0 \in N
  <2>1. first(0) = {}
    OBVIOUS
  <2>2. <<>> \in Seq({}) /\ Len(<<>>) <= finalK /\ DOMAIN <<>> = {} /\ ToSet(<<>>) = {}
    BY DEF ToSet
  <2>3. Partial(<<>>, {}, R, session, finalK)
    BY <2>2 DEF Partial
  <2>. QED  BY <1>4, <2>1, <2>3
<1>6. ASSUME NEW n \in N PROVE n + 1 \in N
  <2>. SUFFICES ASSUME n + 1 <= M
                PROVE  Partial(results[n + 1], first(n + 1), R, session, finalK)
    OBVIOUS
  <2>1. n \in Nat /\ n + 1 \in 1..M /\ (n + 1) - 1 = n /\ n <= M
    BY <1>2
  <2>2. Partial(results[n], first(n), R, session, finalK)
    BY <2>1
  <2>3. results[n + 1] = Grown(results[n], session, finalK, items[n + 1])
    BY <1>4, <2>1
  <2>4. first(n + 1) = first(n) \cup {items[n + 1]}
    <3>1. \A k \in 1..(n + 1) : k \in 1..n \/ k = n + 1
      BY <2>1
    <3>2. n + 1 \in 1..(n + 1) /\ \A k \in 1..n : k \in 1..(n + 1)
      BY <2>1
    <3>. QED  BY <3>1, <3>2
  <2>5. \A k \in 1..n : k \in 1..M /\ k < n + 1
    BY <1>2, <2>1
  <2>6. \A y \in first(n) : <<y, items[n + 1]>> \in R
    BY <1>1, <1>2, <2>1, <2>5
  <2>7. first(n) \in SUBSET S
    BY <1>2, <2>5
  <2>8. items[n + 1] \in S
    BY <1>2, <2>1
  <2>9. items[n + 1] \notin first(n)
    BY <1>3, <2>6, <2>8 DEF Orders
  <2>. HIDE DEF first, N
  <2>. QED  BY <1>3, <2>2, <2>3, <2>4, <2>6, <2>7, <2>8, <2>9, PartialGrown
<1>7. N = Nat
  <2>. HIDE DEF N
  <2>. QED  BY <1>5, <1>6, Induction, N \subseteq Nat DEF N
<1>8. first(M) = S
  BY <1>2
<1>9. Partial(list, S, R, session, finalK)
  <2>1. M \in N
    <3>. HIDE DEF N
    <3>. QED  BY <1>2, <1>7
  <2>2. M <= M
    BY <1>2
  <2>. QED  BY <1>4, <1>8, <2>1, <2>2
<1>10. list \in Seq(S) /\ ToSet(list) \subseteq S
  BY <1>9, SeqToSet DEF Partial
<1>11. \A a, b \in S : <<a, b>> \in R <=> Better(bm25, vector, a, b)
  BY DEF S, R, BetterOn
<1>12. S = ToSet(bm25) \cup ToSet(vector)
  BY DEF S, Found
<1>13. ASSUME NEW id \in S
       PROVE  /\ Before(list, R, id) = {x \in ToSet(list) : Better(bm25, vector, x, id)}
              /\ InSession(Before(list, R, id), session, id)
                   = {x \in ToSet(list) : Better(bm25, vector, x, id)}
                       \cap InSession(ToSet(list), session, id)
  BY <1>10, <1>11 DEF Before, InSession
<1>14. \A i \in DOMAIN list : list[i] \in S
  BY <1>10
<1>15. IsFusion(list, bm25, vector, session, finalK)
  <2>1. /\ Len(list) <= finalK
        /\ \A i, j \in DOMAIN list : i < j => Better(bm25, vector, list[i], list[j])
    BY <1>9, <1>11, <1>14 DEF Partial
  <2>2. \A id \in ToSet(list) : session[id] # NoSession =>
          Cardinality(InSession(ToSet(list), session, id)) <= MaxPerSession
    BY <1>9 DEF Partial
  <2>3. ASSUME NEW id \in S \ ToSet(list)
        PROVE  LET ahead == {x \in ToSet(list) : Better(bm25, vector, x, id)}
               IN \/ Cardinality(ahead) = finalK
                  \/ /\ session[id] # NoSession
                     /\ Cardinality(ahead \cap InSession(ToSet(list), session, id))
                          = MaxPerSession
    BY <1>9, <1>13 DEF Partial
  <2>. QED  BY <1>10, <1>12, <2>1, <2>2, <2>3 DEF IsFusion
<1>. QED  BY <1>10, <1>15 DEF list, S
------------------------------------------------------------------------------
Here == UNION {Visible[query].here : query \in Query}
Observation == [session : SessionIds, here : Here, ts : Nat]
SessionRow == [here : Here, started : Nat, nObs : Nat, summary : BOOLEAN]
Event == [action : {"create", "update", "supersede", "delete"}, memory : Ids, ts : Nat]

TablesInv ==
  /\ IsFiniteSet(used) /\ used \subseteq Ids
  /\ DOMAIN bank \subseteq used /\ DOMAIN vectors \subseteq used /\ DOMAIN born = used
  /\ \A id \in DOMAIN bank : bank[id] \in [text : Texts, by : Ids \cup {NoId}]
  /\ \A id \in DOMAIN vectors : vectors[id] \in Texts
  /\ \A id \in used : born[id].session \in DOMAIN sessions \cup {NoSession}
  /\ DOMAIN sessions \subseteq SessionIds
  /\ \A s \in DOMAIN sessions : sessions[s] \in SessionRow
  /\ observations \in Seq(Observation) /\ audit \in Seq(Event)

\* Every row has a time of its own, which is past.
ClockInv ==
  /\ \A id \in used : born[id].ts \in Nat /\ born[id].ts < Now
  /\ \A i \in DOMAIN observations : observations[i].ts < Now
  /\ \A a, b \in used : born[a].ts = born[b].ts => a = b
  /\ \A i, j \in DOMAIN observations : observations[i].ts = observations[j].ts => i = j

\* Sessions are numbered as they are stored.
StartInv ==
  /\ \A s \in DOMAIN sessions : sessions[s].started < Cardinality(DOMAIN sessions)
  /\ \A r, s \in DOMAIN sessions : sessions[r].started = sessions[s].started => r = s

\* A session counts no more observations than there are.
ObservationsOf(s) == {i \in DOMAIN observations : observations[i].session = s}
CountInv ==
  \A s \in DOMAIN sessions : /\ sessions[s].nObs \in Nat
                             /\ sessions[s].nObs <= Cardinality(ObservationsOf(s))

\* The audit log has the events that made a row of a memory what it is.
Logged(action, id) == \E i \in DOMAIN audit : audit[i].memory = id /\ audit[i].action = action
Explained(row, id) == /\ row.text # born[id].text => Logged("update", id)
                      /\ row.by # NoId => Logged("supersede", id)
AuditInv == reader.query = "verify" => \A id \in DOMAIN bank : Explained(bank[id], id)

\* Only an update has a time after that of the memory.
Dated(event) == /\ event.memory \in used
                /\ event.action = "update" => event.ts > born[event.memory].ts
                /\ event.action # "update" => event.ts <= born[event.memory].ts
DatedInv == \A i \in DOMAIN audit : Dated(audit[i])

StoreInv == TablesInv /\ ClockInv /\ StartInv /\ CountInv /\ AuditInv /\ DatedInv

\* What a write leaves as it is: what a query that has begun relies on.
MemoriesStay ==
  /\ used \subseteq used' /\ \A id \in used : born'[id] = born[id]
  /\ \A id \in used : id \notin Current => id \notin Current'
  /\ \A id : \A action : Logged(action, id) => Logged(action, id)'
SessionsStay ==
  /\ \A s \in DOMAIN sessions : /\ s \in DOMAIN sessions'
                                /\ sessions'[s].here = sessions[s].here
                                /\ sessions'[s].started = sessions[s].started
  /\ Now \in Nat /\ Now' \in Nat /\ Now <= Now'
  /\ \A i \in DOMAIN observations : /\ i \in DOMAIN observations'
                                    /\ observations'[i] = observations[i]
  /\ \A i \in DOMAIN observations' : i \in DOMAIN observations \/ observations'[i].ts = Now

\* The clock is a number.
LEMMA NowType ==
  ASSUME TablesInv
  PROVE  /\ Now \in Nat /\ Now = 1 + Cardinality(used) + Len(observations)
         /\ Cardinality(used) \in Nat /\ Len(observations) \in Nat
BY FS_CardinalityType DEF TablesInv, Now

\* An empty store.
LEMMA StoreInit == ASSUME Init PROVE StoreInv
<1>. USE DEF Init, Bank!Init
<1>1. TablesInv
  BY FS_EmptySet DEF TablesInv
<1>2. ClockInv /\ StartInv /\ CountInv /\ AuditInv /\ DatedInv
  BY DEF ClockInv, StartInv, CountInv, AuditInv, DatedInv
<1>. QED  BY <1>1, <1>2 DEF StoreInv

\* The audit log grows by one event, or not at all.
LEMMA LogGrows ==
  ASSUME audit \in Seq(Event), NEW action, NEW id \in Ids, NEW ts \in Nat,
         action \in {"create", "update", "supersede", "delete"}, Log(action, id, ts)
  PROVE  /\ audit' \in Seq(Event)
         /\ \A a, x : Logged(a, x) => Logged(a, x)'
         /\ reader.query = "verify" => Logged(action, id)'
<1>1. CASE reader.query = "verify"
  <2>. DEFINE event == [action |-> action, memory |-> id, ts |-> ts]
  <2>1. audit' = Append(audit, event) /\ event \in Event
    BY <1>1 DEF Log, Event
  <2>2. /\ audit' \in Seq(Event) /\ Len(audit) \in Nat
        /\ DOMAIN audit = 1..Len(audit) /\ DOMAIN audit' = 1..(Len(audit) + 1)
        /\ audit'[Len(audit) + 1] = event
        /\ \A i \in DOMAIN audit : i \in DOMAIN audit' /\ audit'[i] = audit[i]
    BY <2>1
  <2>3. Len(audit) + 1 \in DOMAIN audit'
    BY <2>2
  <2>. QED  BY <2>2, <2>3 DEF Logged
<1>2. CASE reader.query # "verify"
  BY <1>2 DEF Log, Logged
<1>. QED  BY <1>1, <1>2

\* The event of a memory that has its birth: later than it, or without a time.
LEMMA LogDated ==
  ASSUME StoreInv, used' = used, born' = born, NEW action, NEW id \in used, NEW ts,
         action \in {"update", "supersede", "delete"},
         action = "update" => ts = Now, action # "update" => ts = 0,
         Log(action, id, ts)
  PROVE  DatedInv'
<1>. DEFINE event == [action |-> action, memory |-> id, ts |-> ts]
<1>1. born[id].ts \in Nat /\ born[id].ts < Now
  BY DEF StoreInv, ClockInv
<1>2. Dated(event)
  BY <1>1, NowType DEF Dated, StoreInv
<1>3. audit' = audit \/ audit' = Append(audit, event)
  BY DEF Log
<1>4. audit \in Seq(Event)
  BY DEF StoreInv, TablesInv
<1>5. \A i \in DOMAIN audit' : \/ i \in DOMAIN audit /\ audit'[i] = audit[i]
                              \/ audit'[i] = event
  BY <1>3, <1>4
<1>6. \A i \in DOMAIN audit' : Dated(audit'[i])
  BY <1>2, <1>5 DEF StoreInv, DatedInv
<1>. QED  BY <1>6 DEF DatedInv, Dated

\* A session that is stored is the last one.
SessionsGrow ==
  /\ \A s \in DOMAIN sessions : /\ s \in DOMAIN sessions'
                                /\ sessions'[s].started = sessions[s].started
  /\ \A s \in DOMAIN sessions' \ DOMAIN sessions :
       /\ DOMAIN sessions' = DOMAIN sessions \cup {s}
       /\ sessions'[s].started = Cardinality(DOMAIN sessions)

\* Sessions are few, as SessionIds are.
LEMMA SessionsFinite ==
  ASSUME TablesInv
  PROVE  IsFiniteSet(DOMAIN sessions) /\ Cardinality(DOMAIN sessions) \in Nat
BY FS_Subset, FS_CardinalityType, QueriesAssumption DEF TablesInv

\* So they stay numbered in their order.
LEMMA StartKeeps ==
  ASSUME StoreInv, TablesInv', SessionsGrow
  PROVE  StartInv'
<1>1. /\ IsFiniteSet(DOMAIN sessions) /\ Cardinality(DOMAIN sessions) \in Nat
      /\ \A s \in DOMAIN sessions : sessions[s].started \in Nat
      /\ \A s \in DOMAIN sessions : sessions[s].started < Cardinality(DOMAIN sessions)
  BY SessionsFinite DEF StoreInv, TablesInv, SessionRow, StartInv
<1>2. CASE DOMAIN sessions' = DOMAIN sessions
  BY <1>2 DEF StoreInv, StartInv, SessionsGrow
<1>3. CASE DOMAIN sessions' # DOMAIN sessions
  <2>1. PICK s \in DOMAIN sessions' : s \notin DOMAIN sessions
    BY <1>3 DEF SessionsGrow
  <2>2. /\ DOMAIN sessions' = DOMAIN sessions \cup {s}
        /\ sessions'[s].started = Cardinality(DOMAIN sessions)
        /\ \A r \in DOMAIN sessions : sessions'[r].started = sessions[r].started
    BY <2>1 DEF SessionsGrow
  <2>3. Cardinality(DOMAIN sessions') = Cardinality(DOMAIN sessions) + 1
    BY <1>1, <2>1, <2>2, FS_AddElement
  <2>4. \A r \in DOMAIN sessions' : sessions'[r].started < Cardinality(DOMAIN sessions')
    BY <1>1, <2>2, <2>3
  <2>5. \A q, r \in DOMAIN sessions' : sessions'[q].started = sessions'[r].started => q = r
    BY <1>1, <2>2 DEF StoreInv, StartInv
  <2>. QED  BY <2>4, <2>5 DEF StartInv
<1>. QED  BY <1>2, <1>3

\* memory_save: the identifier and the time are new, the session has its row.
LEMMA SaveKeeps ==
  ASSUME StoreInv, reader' = reader, NEW text \in Texts, NEW s, AddMemory(text, s)
  PROVE  StoreInv' /\ MemoriesStay /\ SessionsStay
<1>. DEFINE id == 1 + Cardinality(used)
            row == [text |-> text, by |-> NoId]
            birth == [session |-> s, ts |-> Now, text |-> text]
<1>1. /\ id \in Ids /\ id \notin used /\ used' = used \cup {id}
      /\ DOMAIN bank' = DOMAIN bank \cup {id} /\ bank'[id] = row
      /\ \A x \in DOMAIN bank \ {id} : bank'[x] = bank[x]
      /\ DOMAIN born' = DOMAIN born \cup {id} /\ born'[id] = birth
      /\ \A x \in DOMAIN born \ {id} : born'[x] = born[x]
      /\ s \in DOMAIN sessions \cup {NoSession}
      /\ UNCHANGED <<vectors, sessions, observations>>
      /\ Log("create", id, Now)
  BY DEF AddMemory, Bank!Save, Bank!Put, T!Put
<1>2. /\ Now \in Nat /\ Now' = Now + 1 /\ Cardinality(used) \in Nat
      /\ IsFiniteSet(used')
  <2>1. IsFiniteSet(used') /\ Cardinality(used') = Cardinality(used) + 1
    BY <1>1, FS_AddElement DEF StoreInv, TablesInv
  <2>2. Now' = 1 + Cardinality(used') + Len(observations)
    BY <1>1 DEF Now
  <2>. QED  BY <2>1, <2>2, NowType DEF StoreInv
<1>3. /\ audit' \in Seq(Event)
      /\ \A a, x : Logged(a, x) => Logged(a, x)'
  BY <1>1, <1>2, LogGrows DEF StoreInv, TablesInv
<1>. HIDE DEF id
<1>4. TablesInv'
  BY <1>1, <1>2, <1>3 DEF StoreInv, TablesInv
<1>5. ClockInv'
  <2>1. \A x \in used' : x = id \/ (x \in used /\ born'[x] = born[x])
    BY <1>1 DEF StoreInv, TablesInv
  <2>2. \A x \in used : born[x].ts \in Nat /\ born[x].ts < Now
    BY DEF StoreInv, ClockInv
  <2>3. \A i \in DOMAIN observations : observations[i].ts < Now' /\ observations[i].ts \in Nat
    <3>1. \A i \in DOMAIN observations : observations[i].ts \in Nat
      <4>1. \A i \in DOMAIN observations : observations[i] \in Observation
        BY DEF StoreInv, TablesInv
      <4>. QED  BY <4>1 DEF Observation
    <3>. QED  BY <1>2, <3>1 DEF StoreInv, ClockInv
  <2>4. \A x \in used' : born'[x].ts \in Nat /\ born'[x].ts < Now'
    BY <1>1, <1>2, <2>1, <2>2
  <2>5. \A x, y \in used' : born'[x].ts = born'[y].ts => x = y
    BY <1>1, <1>2, <2>1, <2>2 DEF StoreInv, ClockInv
  <2>. QED  BY <1>1, <2>3, <2>4, <2>5 DEF StoreInv, ClockInv
<1>6. CountInv'
  BY <1>1 DEF StoreInv, CountInv, ObservationsOf
<1>7. AuditInv'
  <2>. SUFFICES ASSUME reader.query = "verify", NEW x \in DOMAIN bank' PROVE Explained(bank[x], x)'
    BY DEF AuditInv
  <2>1. CASE x = id
    BY <1>1, <2>1 DEF Explained
  <2>2. CASE x # id
    <3>1. x \in DOMAIN bank /\ x \in DOMAIN born
      BY <1>1, <2>2 DEF StoreInv, TablesInv
    <3>2. bank'[x] = bank[x] /\ born'[x] = born[x]
      BY <1>1, <2>2, <3>1
    <3>. QED  BY <1>3, <3>1, <3>2 DEF StoreInv, AuditInv, Explained
  <2>. QED  BY <2>1, <2>2
<1>8. MemoriesStay
  BY <1>1, <1>3 DEF MemoriesStay, Current, StoreInv, TablesInv
<1>9. SessionsStay
  BY <1>1, <1>2 DEF SessionsStay
<1>10. StartInv'
  BY <1>1, <1>4, StartKeeps DEF SessionsGrow
<1>11. DatedInv'
  <2>. DEFINE event == [action |-> "create", memory |-> id, ts |-> Now]
  <2>1. audit' = audit \/ audit' = Append(audit, event)
    BY <1>1 DEF Log
  <2>2. audit \in Seq(Event)
    BY DEF StoreInv, TablesInv
  <2>3. ASSUME NEW i \in DOMAIN audit'
        PROVE  /\ audit'[i].memory \in used'
               /\ audit'[i].action = "update" => audit'[i].ts > born'[audit'[i].memory].ts
               /\ audit'[i].action # "update" => audit'[i].ts <= born'[audit'[i].memory].ts
    <3>1. CASE i \in DOMAIN audit /\ audit'[i] = audit[i]
      <4>1. Dated(audit[i])
        BY <3>1 DEF StoreInv, DatedInv
      <4>2. audit[i].memory \in used /\ born'[audit[i].memory] = born[audit[i].memory]
        BY <1>1, <4>1 DEF Dated, StoreInv, TablesInv
      <4>. QED  BY <1>1, <3>1, <4>1, <4>2 DEF Dated
    <3>2. CASE audit'[i] = event
      BY <1>1, <1>2, <3>2
    <3>. QED  BY <2>1, <2>2, <3>1, <3>2
  <2>. QED  BY <2>3 DEF DatedInv, Dated
<1>. QED  BY <1>4, <1>5, <1>6, <1>7, <1>8, <1>9, <1>10, <1>11 DEF StoreInv

\* A step that gives no identifier and stores no observation.
LEMMA OthersKeep ==
  ASSUME StoreInv, reader' = reader, UNCHANGED <<used, born, observations>>,
         DOMAIN bank' \subseteq DOMAIN bank, DOMAIN vectors' \subseteq used,
         \A id \in DOMAIN bank' : bank'[id] \in [text : Texts, by : Ids \cup {NoId}],
         \A id \in DOMAIN bank' : bank'[id].by = NoId => bank[id].by = NoId,
         \A id \in DOMAIN vectors' : vectors'[id] \in Texts,
         DOMAIN sessions \subseteq DOMAIN sessions', DOMAIN sessions' \subseteq SessionIds,
         \A s \in DOMAIN sessions' : sessions'[s] \in SessionRow,
         \A s \in DOMAIN sessions : /\ sessions'[s].here = sessions[s].here
                                    /\ sessions'[s].nObs = sessions[s].nObs,
         \A s \in DOMAIN sessions' \ DOMAIN sessions : sessions'[s].nObs = 0,
         SessionsGrow, audit' \in Seq(Event), DatedInv',
         \A id, action : Logged(action, id) => Logged(action, id)',
         reader.query = "verify" => \A id \in DOMAIN bank' : Explained(bank[id], id)'
  PROVE  StoreInv' /\ MemoriesStay /\ SessionsStay
<1>1. TablesInv'
  BY DEF StoreInv, TablesInv
<1>2. Now' = Now /\ Now \in Nat
  BY NowType DEF StoreInv, Now
<1>3. ClockInv'
  BY <1>2 DEF StoreInv, ClockInv
<1>4. CountInv'
  <2>. SUFFICES ASSUME NEW s \in DOMAIN sessions'
                PROVE  /\ sessions'[s].nObs \in Nat
                       /\ sessions'[s].nObs <= Cardinality(ObservationsOf(s))
    BY DEF CountInv, ObservationsOf
  <2>1. CASE s \in DOMAIN sessions
    BY <2>1 DEF StoreInv, CountInv
  <2>2. CASE s \notin DOMAIN sessions
    <3>1. DOMAIN observations = 1..Len(observations) /\ Len(observations) \in Nat
      BY DEF StoreInv, TablesInv
    <3>2. IsFiniteSet(1..Len(observations))
      BY <3>1, FS_Interval
    <3>3. ObservationsOf(s) \subseteq 1..Len(observations)
      BY <3>1 DEF ObservationsOf
    <3>4. Cardinality(ObservationsOf(s)) \in Nat
      BY <3>2, <3>3, FS_Subset, FS_CardinalityType
    <3>. QED  BY <2>2, <3>4
  <2>. QED  BY <2>1, <2>2
<1>5. AuditInv'
  BY DEF AuditInv
<1>6. MemoriesStay
  BY DEF MemoriesStay, Current
<1>7. SessionsStay
  BY <1>2 DEF SessionsStay, SessionsGrow
<1>8. StartInv'
  BY <1>1, StartKeeps
<1>. QED  BY <1>1, <1>3, <1>4, <1>5, <1>6, <1>7, <1>8 DEF StoreInv

\* An event of the audit log does not unexplain what others have explained.
LEMMA StaysExplained ==
  ASSUME UNCHANGED born, \A id, action : Logged(action, id) => Logged(action, id)',
         NEW id, Explained(bank[id], id), bank'[id] = bank[id]
  PROVE  Explained(bank[id], id)'
BY DEF Explained

\* memory_update: the event explains the text.
LEMMA EditKeeps ==
  ASSUME StoreInv, reader' = reader, NEW text \in Texts, NEW id \in Ids,
         UpdateMemory(id, text)
  PROVE  StoreInv' /\ MemoriesStay /\ SessionsStay
<1>1. /\ id \in DOMAIN bank /\ bank[id] \in [text : Texts, by : Ids \cup {NoId}]
      /\ DOMAIN bank' = DOMAIN bank /\ bank'[id] = [bank[id] EXCEPT !.text = text]
      /\ \A x \in DOMAIN bank \ {id} : bank'[x] = bank[x]
      /\ UNCHANGED <<used, born, vectors, sessions, observations>>
      /\ Log("update", id, Now)
  BY DEF UpdateMemory, Bank!Edit, Bank!Put, StoreInv, TablesInv
<1>2. /\ audit' \in Seq(Event)
      /\ \A a, x : Logged(a, x) => Logged(a, x)'
      /\ reader.query = "verify" => Logged("update", id)'
      /\ DatedInv' /\ SessionsGrow
  <2>1. DatedInv'
    <3>1. id \in used /\ used' = used /\ born' = born
      BY <1>1 DEF StoreInv, TablesInv
    <3>2. "update" \in {"update", "supersede", "delete"}
      OBVIOUS
    <3>. QED  BY <1>1, <3>1, <3>2, LogDated
  <2>2. SessionsGrow
    BY <1>1 DEF SessionsGrow
  <2>. QED  BY <1>1, <2>1, <2>2, NowType, LogGrows DEF StoreInv, TablesInv
<1>3. ASSUME reader.query = "verify", NEW x \in DOMAIN bank' PROVE Explained(bank[x], x)'
  <2>1. CASE x = id
    BY <1>1, <1>2, <1>3, <2>1 DEF Explained, StoreInv, AuditInv
  <2>2. CASE x # id
    BY <1>1, <1>2, <1>3, <2>2, StaysExplained DEF StoreInv, AuditInv
  <2>. QED  BY <2>1, <2>2
<1>4. \A x \in DOMAIN bank' : /\ bank'[x] \in [text : Texts, by : Ids \cup {NoId}]
                              /\ bank'[x].by = bank[x].by
  BY <1>1 DEF StoreInv, TablesInv
<1>5. /\ DOMAIN vectors' \subseteq used /\ DOMAIN sessions' \subseteq SessionIds
      /\ \A x \in DOMAIN sessions' : sessions'[x] \in SessionRow
      /\ \A x \in DOMAIN vectors' : vectors'[x] \in Texts
  BY <1>1 DEF StoreInv, TablesInv
<1>. QED  BY <1>1, <1>2, <1>3, <1>4, <1>5, OthersKeep

\* memory_supersede: the event explains the supersession.
LEMMA SupersedeKeeps ==
  ASSUME StoreInv, reader' = reader, NEW old \in Ids, NEW new \in Ids,
         SupersedeMemory(old, new)
  PROVE  StoreInv' /\ MemoriesStay /\ SessionsStay
<1>1. /\ {old, new} \subseteq DOMAIN bank
      /\ bank[old] \in [text : Texts, by : Ids \cup {NoId}]
      /\ DOMAIN bank' = DOMAIN bank /\ bank'[old] = [bank[old] EXCEPT !.by = new]
      /\ \A x \in DOMAIN bank \ {old} : bank'[x] = bank[x]
      /\ UNCHANGED <<used, born, vectors, sessions, observations>>
      /\ Log("supersede", old, 0)
  BY DEF SupersedeMemory, Bank!Replace, Bank!Put, StoreInv, TablesInv
<1>2. /\ audit' \in Seq(Event)
      /\ \A a, x : Logged(a, x) => Logged(a, x)'
      /\ reader.query = "verify" => Logged("supersede", old)'
      /\ DatedInv' /\ SessionsGrow
  <2>1. DatedInv'
    <3>1. old \in used /\ used' = used /\ born' = born
      BY <1>1 DEF StoreInv, TablesInv
    <3>2. "supersede" \in {"update", "supersede", "delete"}
      OBVIOUS
    <3>. QED  BY <1>1, <3>1, <3>2, LogDated
  <2>2. SessionsGrow
    BY <1>1 DEF SessionsGrow
  <2>. QED  BY <1>1, <2>1, <2>2, LogGrows DEF StoreInv, TablesInv
<1>3. ASSUME reader.query = "verify", NEW x \in DOMAIN bank' PROVE Explained(bank[x], x)'
  <2>1. CASE x = old
    BY <1>1, <1>2, <1>3, <2>1 DEF Explained, StoreInv, AuditInv
  <2>2. CASE x # old
    BY <1>1, <1>2, <1>3, <2>2, StaysExplained DEF StoreInv, AuditInv
  <2>. QED  BY <2>1, <2>2
<1>4. new # NoId
  BY QueriesAssumption DEF NoId
<1>5. /\ \A x \in DOMAIN bank' : bank'[x] \in [text : Texts, by : Ids \cup {NoId}]
      /\ \A x \in DOMAIN bank' : bank'[x].by = NoId => bank[x].by = NoId
  BY <1>1, <1>4 DEF StoreInv, TablesInv
<1>6. /\ DOMAIN vectors' \subseteq used /\ DOMAIN sessions' \subseteq SessionIds
      /\ \A x \in DOMAIN sessions' : sessions'[x] \in SessionRow
      /\ \A x \in DOMAIN vectors' : vectors'[x] \in Texts
  BY <1>1 DEF StoreInv, TablesInv
<1>. QED  BY <1>1, <1>2, <1>3, <1>5, <1>6, OthersKeep

\* memory_forget: the row goes with its vector, its identifier stays used.
LEMMA DeleteKeeps ==
  ASSUME StoreInv, reader' = reader, NEW id \in Ids, DeleteMemory(id)
  PROVE  StoreInv' /\ MemoriesStay /\ SessionsStay
<1>1. /\ DOMAIN bank' \subseteq DOMAIN bank
      /\ \A x \in DOMAIN bank' : bank'[x] = bank[x]
      /\ DOMAIN vectors' \subseteq DOMAIN vectors
      /\ \A x \in DOMAIN vectors' : vectors'[x] = vectors[x]
      /\ UNCHANGED <<used, born, sessions, observations>>
      /\ Log("delete", id, 0) /\ id \in DOMAIN bank
  BY DEF DeleteMemory, Bank!Remove, Bank!Without, T!Without
<1>2. /\ audit' \in Seq(Event)
      /\ \A a, x : Logged(a, x) => Logged(a, x)'
      /\ DatedInv' /\ SessionsGrow
  <2>1. DatedInv'
    <3>1. id \in used /\ used' = used /\ born' = born
      BY <1>1 DEF StoreInv, TablesInv
    <3>2. "delete" \in {"update", "supersede", "delete"}
      OBVIOUS
    <3>. QED  BY <1>1, <3>1, <3>2, LogDated
  <2>2. SessionsGrow
    BY <1>1 DEF SessionsGrow
  <2>. QED  BY <1>1, <2>1, <2>2, LogGrows DEF StoreInv, TablesInv
<1>3. ASSUME reader.query = "verify", NEW x \in DOMAIN bank' PROVE Explained(bank[x], x)'
  BY <1>1, <1>2, <1>3, StaysExplained DEF StoreInv, AuditInv
<1>4. \A x \in DOMAIN bank' : bank'[x] \in [text : Texts, by : Ids \cup {NoId}]
  BY <1>1 DEF StoreInv, TablesInv
<1>5. /\ DOMAIN vectors' \subseteq used /\ DOMAIN sessions' \subseteq SessionIds
      /\ \A x \in DOMAIN sessions' : sessions'[x] \in SessionRow
      /\ \A x \in DOMAIN vectors' : vectors'[x] \in Texts
  BY <1>1 DEF StoreInv, TablesInv
<1>. QED  BY <1>1, <1>2, <1>3, <1>4, <1>5, OthersKeep

\* The embedding worker writes only vectors.
LEMMA EmbedKeeps ==
  ASSUME StoreInv, reader' = reader, NEW id \in Ids, SaveMemoryEmbedding(id)
  PROVE  StoreInv' /\ MemoriesStay /\ SessionsStay
<1>1. /\ id \in DOMAIN bank /\ DOMAIN vectors' = DOMAIN vectors \cup {id}
      /\ vectors'[id] = bank[id].text
      /\ \A x \in DOMAIN vectors \ {id} : vectors'[x] = vectors[x]
      /\ UNCHANGED <<bank, used, born, sessions, observations, audit>>
  BY DEF SaveMemoryEmbedding, T!Put
<1>2. /\ audit' \in Seq(Event)
      /\ \A a, x : Logged(a, x) => Logged(a, x)'
      /\ DatedInv' /\ SessionsGrow
  BY <1>1 DEF StoreInv, TablesInv, Logged, DatedInv, Dated, SessionsGrow
<1>3. ASSUME reader.query = "verify", NEW x \in DOMAIN bank' PROVE Explained(bank[x], x)'
  BY <1>1, <1>2, <1>3, StaysExplained DEF StoreInv, AuditInv
<1>4. /\ DOMAIN vectors' \subseteq used /\ DOMAIN sessions' \subseteq SessionIds
      /\ \A x \in DOMAIN sessions' : sessions'[x] \in SessionRow
      /\ \A x \in DOMAIN vectors' : vectors'[x] \in Texts
      /\ \A x \in DOMAIN bank' : bank'[x] \in [text : Texts, by : Ids \cup {NoId}]
  BY <1>1 DEF StoreInv, TablesInv
<1>. QED  BY <1>1, <1>2, <1>3, <1>4, OthersKeep

\* Hooks that only name a session, and SaveSessionSummary.
LEMMA SessionKeeps ==
  ASSUME StoreInv, reader' = reader, NEW s \in SessionIds,
         SaveSessionSummary(s) \/ \E here \in Here : Ensure(s, here)
  PROVE  StoreInv' /\ MemoriesStay /\ SessionsStay
<1>1. UNCHANGED <<bank, used, born, vectors, audit, observations>>
  BY DEF SaveSessionSummary, Ensure, memoryTables
<1>2. /\ DOMAIN sessions' = DOMAIN sessions \cup {s}
      /\ \A x \in DOMAIN sessions : /\ sessions'[x].here = sessions[x].here
                                    /\ sessions'[x].nObs = sessions[x].nObs
      /\ \A x \in DOMAIN sessions' \ DOMAIN sessions : sessions'[x].nObs = 0
      /\ \A x \in DOMAIN sessions' : sessions'[x] \in SessionRow
      /\ SessionsGrow
  <2>0. \A x \in DOMAIN sessions : sessions[x] \in SessionRow
    BY DEF StoreInv, TablesInv
  <2>1. CASE SaveSessionSummary(s)
    BY <2>0, <2>1 DEF SaveSessionSummary, SessionRow, SessionsGrow
  <2>2. CASE \E here \in Here : Ensure(s, here)
    <3>1. PICK here \in Here : Ensure(s, here)
      BY <2>2
    <3>2. /\ s \notin DOMAIN sessions
          /\ sessions' = [k \in DOMAIN sessions \cup {s} |->
                IF k = s THEN [here |-> here,
                               started |-> Cardinality(DOMAIN sessions),
                               nObs |-> 0, summary |-> FALSE]
                         ELSE sessions[k]]
      BY <3>1 DEF Ensure, EnsureSession, T!Put
    <3>3. Cardinality(DOMAIN sessions) \in Nat
      BY SessionsFinite DEF StoreInv
    <3>. QED  BY <2>0, <3>2, <3>3 DEF SessionRow, SessionsGrow
  <2>. QED  BY <2>1, <2>2
<1>3. /\ audit' \in Seq(Event)
      /\ \A a, x : Logged(a, x) => Logged(a, x)'
      /\ DatedInv'
  BY <1>1 DEF StoreInv, TablesInv, Logged, DatedInv, Dated
<1>4. ASSUME reader.query = "verify", NEW x \in DOMAIN bank' PROVE Explained(bank[x], x)'
  BY <1>1, <1>3, <1>4, StaysExplained DEF StoreInv, AuditInv
<1>5. /\ DOMAIN vectors' \subseteq used /\ DOMAIN sessions' \subseteq SessionIds
      /\ \A x \in DOMAIN sessions' : sessions'[x] \in SessionRow
      /\ \A x \in DOMAIN vectors' : vectors'[x] \in Texts
      /\ \A x \in DOMAIN bank' : bank'[x] \in [text : Texts, by : Ids \cup {NoId}]
  BY <1>1, <1>2 DEF StoreInv, TablesInv
<1>. QED  BY <1>1, <1>2, <1>3, <1>4, <1>5, OthersKeep

\* The times of the observations stay distinct.
LEMMA ObserveKeeps ==
  ASSUME StoreInv, reader' = reader, NEW s \in SessionIds, NEW here \in Here,
         InsertObservation(s, here)
  PROVE  StoreInv' /\ MemoriesStay /\ SessionsStay
<1>. DEFINE n == Len(observations)
            row == [session |-> s, here |-> here, ts |-> Now]
<1>1. UNCHANGED <<bank, used, born, vectors, audit>>
  BY DEF InsertObservation, memoryTables
<1>2. n \in Nat /\ Now \in Nat /\ row \in Observation
  BY NowType DEF StoreInv, Observation
<1>3. /\ observations \in Seq(Observation) /\ observations' = Append(observations, row)
      /\ observations' \in Seq(Observation) /\ Len(observations') = n + 1
      /\ DOMAIN observations = 1..n /\ DOMAIN observations' = 1..(n + 1)
      /\ observations'[n + 1] = row
      /\ \A i \in 1..n : observations'[i] = observations[i]
  BY <1>2 DEF InsertObservation, StoreInv, TablesInv
<1>. HIDE DEF n, row
<1>4. Now' = Now + 1
  <2>1. /\ Cardinality(used') = Cardinality(used) /\ Len(observations') = n + 1
        /\ Cardinality(used) \in Nat
    BY <1>1, <1>3, NowType DEF StoreInv
  <2>2. Now' = 1 + Cardinality(used') + Len(observations')
    BY DEF Now
  <2>. QED  BY <1>2, <2>1, <2>2, NowType DEF StoreInv, n
<1>5. \A i \in 1..(n + 1) : i \in 1..n \/ i = n + 1
  BY <1>2
<1>6. n + 1 \in 1..(n + 1) /\ \A i \in 1..n : i \in 1..(n + 1)
  BY <1>2
<1>7. /\ DOMAIN sessions' = DOMAIN sessions \cup {s}
      /\ \A x \in DOMAIN sessions : sessions'[x].here = sessions[x].here
      /\ \A x \in DOMAIN sessions \ {s} : sessions'[x].nObs = sessions[x].nObs
      /\ sessions'[s].nObs = IF s \in DOMAIN sessions THEN sessions[s].nObs + 1 ELSE 1
      /\ \A x \in DOMAIN sessions' : sessions'[x] \in SessionRow
      /\ SessionsGrow
  <2>. DEFINE ensured == EnsureSession(s, here)
  <2>0. \A x \in DOMAIN sessions : sessions[x] \in SessionRow
    BY DEF StoreInv, TablesInv
  <2>1. /\ DOMAIN ensured = DOMAIN sessions \cup {s}
        /\ \A x \in DOMAIN sessions : ensured[x] = sessions[x]
        /\ s \notin DOMAIN sessions => ensured[s].nObs = 0
        /\ s \notin DOMAIN sessions => ensured[s].started = Cardinality(DOMAIN sessions)
        /\ \A x \in DOMAIN ensured : ensured[x] \in SessionRow
    <3>1. CASE s \in DOMAIN sessions
      BY <2>0, <3>1 DEF EnsureSession
    <3>2. CASE s \notin DOMAIN sessions
      <4>1. Cardinality(DOMAIN sessions) \in Nat
        BY SessionsFinite DEF StoreInv
      <4>. QED  BY <2>0, <3>2, <4>1 DEF EnsureSession, T!Put, SessionRow
    <3>. QED  BY <3>1, <3>2
  <2>2. sessions' = [ensured EXCEPT ![s].nObs = @ + 1]
    BY DEF InsertObservation
  <2>. HIDE DEF ensured
  <2>3. /\ DOMAIN sessions' = DOMAIN ensured
        /\ \A x \in DOMAIN ensured \ {s} : sessions'[x] = ensured[x]
        /\ sessions'[s] = [ensured[s] EXCEPT !.nObs = ensured[s].nObs + 1]
    BY <2>1, <2>2
  <2>4. /\ sessions'[s] \in SessionRow /\ sessions'[s].here = ensured[s].here
        /\ sessions'[s].nObs = ensured[s].nObs + 1
        /\ sessions'[s].started = ensured[s].started
    BY <2>1, <2>3 DEF SessionRow
  <2>5. \A x \in DOMAIN sessions \ {s} : sessions'[x] = sessions[x]
    BY <2>1, <2>3
  <2>6. s \in DOMAIN sessions => ensured[s] = sessions[s]
    BY <2>1
  <2>7. \A x \in DOMAIN sessions' : sessions'[x] \in SessionRow
    BY <2>1, <2>3, <2>4
  <2>8. sessions'[s].nObs = IF s \in DOMAIN sessions THEN sessions[s].nObs + 1 ELSE 1
    BY <2>1, <2>4, <2>6
  <2>9. \A x \in DOMAIN sessions : sessions'[x].here = sessions[x].here
    BY <2>4, <2>5, <2>6
  <2>10. SessionsGrow
    BY <2>1, <2>3, <2>4, <2>5, <2>6 DEF SessionsGrow
  <2>. QED  BY <2>1, <2>3, <2>5, <2>7, <2>8, <2>9, <2>10
<1>8. TablesInv'
  BY <1>1, <1>3, <1>7 DEF StoreInv, TablesInv
<1>9. ClockInv'
  <2>1. \A i \in 1..n : observations[i].ts \in Nat /\ observations[i].ts < Now
    <3>1. \A i \in 1..n : observations[i] \in Observation
      BY <1>3 DEF n
    <3>. QED  BY <1>3, <3>1 DEF StoreInv, ClockInv, Observation
  <2>2. observations'[n + 1].ts = Now
    BY <1>3 DEF row
  <2>3. \A i \in DOMAIN observations' : observations'[i].ts < Now'
    BY <1>2, <1>3, <1>4, <1>5, <2>1, <2>2
  <2>4. ASSUME NEW i \in DOMAIN observations', NEW j \in DOMAIN observations',
               observations'[i].ts = observations'[j].ts
        PROVE  i = j
    <3>1. CASE i = n + 1 \/ j = n + 1
      BY <1>2, <1>3, <1>5, <2>1, <2>2, <2>4, <3>1
    <3>2. CASE i \in 1..n /\ j \in 1..n
      BY <1>3, <2>4, <3>2 DEF StoreInv, ClockInv
    <3>. QED  BY <1>3, <1>5, <3>1, <3>2
  <2>5. \A x \in used : born[x].ts \in Nat /\ born[x].ts < Now'
    BY <1>2, <1>4 DEF StoreInv, ClockInv
  <2>. QED  BY <1>1, <2>3, <2>4, <2>5 DEF StoreInv, ClockInv
<1>10. CountInv'
  <2>. SUFFICES ASSUME NEW x \in DOMAIN sessions'
                PROVE  /\ sessions'[x].nObs \in Nat
                       /\ sessions'[x].nObs <= Cardinality(ObservationsOf(x)')
    BY DEF CountInv
  <2>. DEFINE was == ObservationsOf(x)
  <2>1. ObservationsOf(x)' = IF x = s THEN was \cup {n + 1} ELSE was
    BY <1>3, <1>5, <1>6 DEF ObservationsOf, row
  <2>2. was \subseteq 1..n /\ IsFiniteSet(1..n) /\ n + 1 \notin was
    <3>1. IsFiniteSet(1..n)
      BY <1>2, FS_Interval
    <3>2. was \subseteq 1..n
      BY <1>3 DEF ObservationsOf
    <3>3. n + 1 \notin 1..n
      BY <1>2
    <3>. QED  BY <3>1, <3>2, <3>3
  <2>3. /\ Cardinality(was) \in Nat
        /\ Cardinality(was \cup {n + 1}) = Cardinality(was) + 1
    BY <2>2, FS_Subset, FS_CardinalityType, FS_AddElement
  <2>4. x \in DOMAIN sessions => /\ sessions[x].nObs \in Nat
                                 /\ sessions[x].nObs <= Cardinality(was)
    BY DEF StoreInv, CountInv
  <2>. HIDE DEF was
  <2>. QED  BY <1>7, <2>1, <2>3, <2>4
<1>11. \A a, x : Logged(a, x) => Logged(a, x)'
  BY <1>1 DEF Logged
<1>12. AuditInv'
  BY <1>1, <1>11, StaysExplained DEF StoreInv, AuditInv
<1>13. MemoriesStay
  BY <1>1, <1>11 DEF MemoriesStay, Current
<1>14. SessionsStay
  BY <1>2, <1>3, <1>4, <1>5, <1>6, <1>7 DEF SessionsStay, SessionsGrow, row
<1>15. StartInv'
  BY <1>7, <1>8, StartKeeps
<1>16. DatedInv'
  BY <1>1 DEF StoreInv, DatedInv, Dated
<1>. QED  BY <1>8, <1>9, <1>10, <1>12, <1>13, <1>14, <1>15, <1>16 DEF StoreInv

\* Every write keeps the tables right and what a query relies on.
LEMMA WriteKeeps ==
  ASSUME StoreInv, WriteStep, reader.query \in Query
  PROVE  StoreInv' /\ MemoriesStay /\ SessionsStay
<1>. DEFINE tells == Visible[reader.query]
<1>1. /\ reader' = reader /\ tells.texts \subseteq Texts /\ tells.sessions \subseteq SessionIds
      /\ tells.here \subseteq Here
  BY QueriesAssumption DEF WriteStep, Here
<1>2. CASE \E text \in tells.texts, id \in Ids : UpdateMemory(id, text)
  BY <1>1, <1>2, EditKeeps
<1>3. CASE \E text \in tells.texts, s \in tells.sessions \cup {NoSession} : AddMemory(text, s)
  BY <1>1, <1>3, SaveKeeps
<1>4. CASE \E id1, id2 \in Ids : SupersedeMemory(id1, id2)
  BY <1>1, <1>4, SupersedeKeeps
<1>5. CASE \E id \in Ids : DeleteMemory(id) \/ SaveMemoryEmbedding(id)
  BY <1>1, <1>5, DeleteKeeps, EmbedKeeps
<1>6. CASE \E s \in tells.sessions : SaveSessionSummary(s) \/ \E here \in tells.here : Ensure(s, here)
  BY <1>1, <1>6, SessionKeeps
<1>7. CASE \E s \in tells.sessions : \E here \in tells.here : InsertObservation(s, here)
  BY <1>1, <1>7, ObserveKeeps
<1>. QED  BY <1>2, <1>3, <1>4, <1>5, <1>6, <1>7 DEF WriteStep
------------------------------------------------------------------------------
\* The first n of a list.
LEMMA FirstType ==
  ASSUME NEW S, NEW list \in Seq(S), NEW n \in Nat
  PROVE  /\ First(list, n) \in Seq(S)
         /\ Len(First(list, n)) = n \/ First(list, n) = list
<1>. DEFINE m == IF Len(list) < n THEN Len(list) ELSE n
<1>1. m \in Nat /\ m <= Len(list) /\ Len(list) \in Nat
  OBVIOUS
<1>2. First(list, n) = SubSeq(list, 1, m)
  BY DEF First
<1>3. SubSeq(list, 1, m) \in Seq(S) /\ Len(SubSeq(list, 1, m)) = m
  <2>. HIDE DEF m
  <2>. QED  BY <1>1
<1>4. m # n => SubSeq(list, 1, m) = list
  <2>1. m # n => m = Len(list)
    OBVIOUS
  <2>. HIDE DEF m
  <2>. QED  BY <1>1, <1>3, <2>1
<1>. QED  BY <1>2, <1>3, <1>4

\* SearchMemories returns current memories that match, and all of them if the
\* list is not full.
LEMMA SearchMemoriesFinds ==
  ASSUME TablesInv, NEW limit \in Nat, NEW list \in SearchMemories(limit)
  PROVE  /\ list \in Seq(Matching)
         /\ Len(list) = limit \/ \A id \in Matching : Contains(list, id)
<1>1. IsFiniteSet(Matching)
  BY FS_Subset DEF TablesInv, Matching, Current
<1>2. PICK all \in SetToSeqs(Matching) : list = First(all, limit)
  BY DEF SearchMemories, Sorted
<1>3. /\ all \in Seq(Matching) /\ Len(all) = Cardinality(Matching)
      /\ \A id \in Matching : \E i \in 1..Cardinality(Matching) : all[i] = id
  BY <1>1, ListsAll
<1>. QED  BY <1>2, <1>3, FirstType DEF Contains

\* The vector results are memories with a vector that are current.
LEMMA VectorResultsType ==
  ASSUME TablesInv
  PROVE  VectorResults \in Seq(Candidates) /\ Candidates \subseteq Current \cap Ids
<1>. DEFINE near(id) == Cosine[vectors[id]]
            before(a, b) == near(a) > near(b) \/ (near(a) = near(b) /\ a < b)
            S == Candidates
            R == {p \in S \X S : before(p[1], p[2])}
            sorted == Sorted(S, before)
<1>1. S \subseteq Current \cap Ids /\ S \subseteq Nat /\ IsFiniteSet(S)
  BY QueriesAssumption, FS_Subset DEF TablesInv, Candidates
<1>2. \A id \in S : near(id) \in Int
  BY QueriesAssumption DEF TablesInv, Candidates
<1>3. \A a, b \in S : <<a, b>> \in R <=> near(a) > near(b) \/ (near(a) = near(b) /\ a < b)
  OBVIOUS
<1>4. Orders(R, S)
  <2>. HIDE DEF R, S, near
  <2>1. ASSUME NEW a \in S, NEW b \in S, NEW c \in S
        PROVE  /\ <<a, a>> \notin R
               /\ a = b \/ <<a, b>> \in R \/ <<b, a>> \in R
               /\ <<a, b>> \in R /\ <<b, c>> \in R => <<a, c>> \in R
    <3>1. PICK x \in Int, y \in Int, z \in Int : x = near(a) /\ y = near(b) /\ z = near(c)
      BY <1>2
    <3>2. /\ <<a, a>> \in R <=> x > x \/ (x = x /\ a < a)
          /\ <<a, b>> \in R <=> x > y \/ (x = y /\ a < b)
          /\ <<b, a>> \in R <=> y > x \/ (y = x /\ b < a)
          /\ <<b, c>> \in R <=> y > z \/ (y = z /\ b < c)
          /\ <<a, c>> \in R <=> x > z \/ (x = z /\ a < c)
      BY <1>3, <3>1
    <3>3. a \in Nat /\ b \in Nat /\ c \in Nat
      BY <1>1
    <3>. QED  BY <3>2, <3>3
  <2>. QED  BY <2>1 DEF Orders
<1>5. \E list \in SetToSeqs(S) : \A i, j \in DOMAIN list : i < j => <<list[i], list[j]>> \in R
  <2>. HIDE DEF R, S
  <2>. QED  BY <1>1, <1>4, SortedExists
<1>6. \E list : list \in sorted
  <2>1. \A list \in SetToSeqs(S) : list \in [1..Cardinality(S) -> S]
    BY DEF SetToSeqs
  <2>2. \A a, b : <<a, b>> \in R => before(a, b)
    OBVIOUS
  <2>3. \A list \in SetToSeqs(S) :
          (\A i, j \in DOMAIN list : i < j => before(list[i], list[j])) => list \in sorted
    BY DEF Sorted
  <2>. HIDE DEF R, S, before, sorted
  <2>. QED  BY <1>5, <2>2, <2>3
<1>. DEFINE all == CHOOSE list \in sorted : TRUE
<1>7. all \in SetToSeqs(S)
  <2>1. all \in sorted
    <3>. HIDE DEF sorted
    <3>. QED  BY <1>6
  <2>. HIDE DEF S, all
  <2>. QED  BY <2>1 DEF Sorted
<1>8. VectorResults = First(all, VectorTopK)
  BY DEF VectorResults
<1>. HIDE DEF S, all
<1>9. all \in Seq(S)
  BY <1>1, <1>7, ListsAll
<1>10. First(all, VectorTopK) \in Seq(S)
  BY <1>9, FirstType, QueriesAssumption
<1>. QED  BY <1>1, <1>8, <1>10 DEF S

\* The times of a list that is cut: what is missing is older than all of it.
IsCutOf(times, all, limit) ==
  /\ IsFiniteSet(times) /\ times \subseteq Nat
  /\ \A t \in all \ times : /\ Cardinality(times) = limit /\ times # {}
                            /\ \A x \in times : t < x

\* The times of the rows that ORDER BY ts LIMIT returns, one row to a time.
LEMMA CutTimes ==
  ASSUME NEW K, IsFiniteSet(K), NEW key \in [K -> Nat], NEW limit \in Nat \ {0},
         \A x, y \in K : key[x] = key[y] => x = y
  PROVE  IsCutOf({key[x] : x \in Cut(K, key, limit)}, {key[x] : x \in K}, limit)
<1>. DEFINE top == Cut(K, key, limit)
            times == {key[x] : x \in top}
<1>1. top \subseteq K /\ IsFiniteSet(top)
  BY FS_Subset DEF Cut
<1>2. times \subseteq Nat
  BY <1>1
<1>3. [x \in top |-> key[x]] \in Bijection(top, times)
  <2>1. [x \in top |-> key[x]] \in Surjection(top, times)
    BY DEF Surjection
  <2>2. [x \in top |-> key[x]] \in Injection(top, times)
    BY <1>1 DEF Injection, IsInjective
  <2>. QED  BY <2>1, <2>2 DEF Bijection
<1>4. IsFiniteSet(times) /\ Cardinality(times) = Cardinality(top)
  <2>. HIDE DEF top, times
  <2>1. ExistsBijection(top, times)
    BY <1>3 DEF ExistsBijection
  <2>. QED  BY <1>1, <2>1, FS_Bijection
<1>5. ASSUME NEW x \in K, key[x] \notin times
      PROVE  /\ Cardinality(times) = limit /\ times # {}
             /\ \A t \in times : key[x] < t
  <2>1. x \in K \ top
    BY <1>5
  <2>2. key \in [K -> Int] /\ limit \in Nat
    OBVIOUS
  <2>3. \A y \in top : key[x] < key[y]
    BY <2>1, <2>2, CutIsTop
  <2>4. ~(Cardinality(top) < limit)
    BY <2>1, <2>2, CutNone
  <2>5. Cardinality(top) <= limit
    BY <2>2, CutKeepsLimit
  <2>6. Cardinality(top) \in Nat
    BY <1>1, FS_CardinalityType
  <2>. HIDE DEF top
  <2>7. Cardinality(top) = limit
    BY <2>4, <2>5, <2>6
  <2>8. times # {}
    BY <1>4, <2>7, FS_EmptySet
  <2>. QED  BY <1>4, <2>3, <2>7, <2>8
<1>. QED  BY <1>2, <1>4, <1>5 DEF IsCutOf

\* The lists of the other queries are cuts by time.
HereRows == {i \in DOMAIN observations : observations[i].here}
SeenTimes(rows) == {observations[i].ts : i \in rows}

\* Memories: the newest of any set of them.
LEMMA MemoriesAreCut ==
  ASSUME NEW ids
  PROVE  NewestMemories(ids) = Cut(ids, [id \in ids |-> born[id].ts], ReadLimit)
BY DEF NewestMemories, Newest, BornAt, Cut

\* Observations: the newest of the project.
LEMMA ObservationsAreCut ==
  Newest(HereRows, ObservedAt, ReadLimit)
    = Cut(HereRows, [i \in HereRows |-> observations[i].ts], ReadLimit)
BY DEF Newest, ObservedAt, Cut

\* A row that ORDER BY LIMIT leaves out, with distinct keys, comes after as many
\* as it may list.
LEMMA CutIsFull ==
  ASSUME NEW K, IsFiniteSet(K), NEW key \in [K -> Int], NEW limit \in Nat \ {0},
         \A x, y \in K : key[x] = key[y] => x = y,
         NEW y \in K \ Cut(K, key, limit)
  PROVE  /\ Cardinality(Cut(K, key, limit)) = limit
         /\ \A x \in Cut(K, key, limit) : key[y] < key[x]
<1>. DEFINE top == Cut(K, key, limit)
<1>1. limit \in Nat
  OBVIOUS
<1>2. \A x \in top : key[y] < key[x]
  BY <1>1, CutIsTop
<1>3. ~(Cardinality(top) < limit)
  BY <1>1, CutNone
<1>4. Cardinality(top) <= limit
  BY CutKeepsLimit
<1>5. Cardinality(top) \in Nat
  BY FS_Subset, FS_CardinalityType DEF Cut
<1>. HIDE DEF top
<1>6. Cardinality(top) = limit
  BY <1>1, <1>3, <1>4, <1>5
<1>. QED  BY <1>2, <1>6 DEF top

\* Numbers in the base M are compared by their first digits.
LEMMA FirstDigits ==
  ASSUME NEW M \in Nat, NEW a \in Nat, NEW b \in Nat, a < b,
         NEW i \in 1..(M - 1), NEW j \in 1..(M - 1)
  PROVE  M * a + i < M * b + j
<1>1. PICK d \in Nat : b = a + 1 + d
  <2>1. b - a - 1 \in Nat /\ b = a + 1 + (b - a - 1)
    OBVIOUS
  <2>. QED  BY <2>1
<1>2. M * b = M * a + M + M * d
  BY <1>1
<1>3. M * d \in Nat /\ M * a \in Nat
  OBVIOUS
<1>4. PICK x \in Nat, y \in Nat : x = M * a /\ y = M * d
  BY <1>3
<1>5. M * b = x + M + y
  BY <1>2, <1>4
<1>. QED  BY <1>4, <1>5

\* Events: by time, those without a time by their number.  All, or as many as
\* the limit; and an update in any case.
LEMMA AuditIsCut ==
  ASSUME StoreInv, NEW id
  PROVE  /\ \/ AuditEvents(id) = {i \in DOMAIN audit : audit[i].memory = id}
            \/ Cardinality(AuditEvents(id)) = VerifyLimit
         /\ Logged("update", id) =>
              "update" \in {audit[i].action : i \in AuditEvents(id)}
<1>. DEFINE K == {i \in DOMAIN audit : audit[i].memory = id}
            M == Len(audit) + 1
            key == [i \in K |-> M * audit[i].ts + i]
<1>1. /\ Len(audit) \in Nat /\ DOMAIN audit = 1..Len(audit)
      /\ \A i \in DOMAIN audit : audit[i] \in Event
  BY DEF StoreInv, TablesInv
<1>2. AuditEvents(id) = Cut(K, key, VerifyLimit)
  BY DEF AuditEvents, Newest, Cut
<1>3. IsFiniteSet(K)
  <2>1. IsFiniteSet(1..Len(audit))
    BY <1>1, FS_Interval
  <2>. QED  BY <1>1, <2>1, FS_Subset
<1>4. M \in Nat /\ \A i \in K : i \in 1..(M - 1) /\ audit[i].ts \in Nat
  BY <1>1 DEF Event
<1>. HIDE DEF M
<1>5. ASSUME NEW i \in K PROVE M * audit[i].ts + i \in Int
  <2>1. PICK ts \in Nat : ts = audit[i].ts
    BY <1>4
  <2>2. M * ts \in Int /\ i \in Int
    BY <1>4
  <2>. QED  BY <2>1, <2>2
<1>6. key \in [K -> Int] /\ \A i \in K : key[i] = M * audit[i].ts + i
  BY <1>5
<1>. HIDE DEF K, key
<1>7. ASSUME NEW i \in K, NEW j \in K, audit[i].ts < audit[j].ts PROVE key[i] < key[j]
  <2>1. PICK a \in Nat, b \in Nat : a = audit[i].ts /\ b = audit[j].ts
    BY <1>4
  <2>2. M * a + i < M * b + j
    BY <1>4, <1>7, <2>1, FirstDigits
  <2>. QED  BY <1>6, <2>1, <2>2
<1>8. ASSUME NEW i \in K, NEW j \in K, key[i] = key[j] PROVE i = j
  <2>1. PICK a \in Nat, b \in Nat : a = audit[i].ts /\ b = audit[j].ts
    BY <1>4
  <2>2. key[i] \in Int
    BY <1>6
  <2>3. ~(a < b) /\ ~(b < a)
    BY <1>7, <1>8, <2>1, <2>2
  <2>4. a = b /\ i \in Int /\ j \in Int
    BY <1>4, <2>1, <2>3
  <2>5. PICK x \in Nat : x = M * a
    BY <1>4
  <2>6. x + i = x + j
    BY <1>6, <1>8, <2>1, <2>4, <2>5
  <2>. QED  BY <2>4, <2>5, <2>6
<1>9. VerifyLimit \in Nat \ {0}
  BY QueriesAssumption
<1>. DEFINE top == Cut(K, key, VerifyLimit)
<1>10. top \subseteq K
  BY DEF Cut
<1>11. top = K \/ Cardinality(top) = VerifyLimit
  BY <1>3, <1>6, <1>8, <1>9, <1>10, CutIsFull
<1>12. ASSUME NEW u \in K, audit[u].action = "update"
       PROVE  \E i \in top : audit[i].action = "update"
  <2>1. CASE u \in top
    BY <1>12, <2>1
  <2>2. CASE u \notin top
    <3>1. Cardinality(top) = VerifyLimit /\ \A x \in top : key[u] < key[x]
      BY <1>3, <1>6, <1>8, <1>9, <2>2, CutIsFull
    <3>2. top # {}
      BY <1>9, <3>1, FS_EmptySet
    <3>3. PICK x \in top : key[u] < key[x]
      BY <3>1, <3>2
    <3>4. x \in K /\ key[u] \in Int /\ key[x] \in Int
      BY <1>6, <1>10
    <3>5. audit[x].ts >= audit[u].ts
      BY <1>4, <1>7, <3>3, <3>4
    <3>6. audit[x].memory = id /\ audit[u].memory = id /\ Dated(audit[x]) /\ Dated(audit[u])
      BY <3>4 DEF K, StoreInv, DatedInv
    <3>7. born[id].ts \in Nat /\ audit[x].ts \in Nat /\ audit[u].ts \in Nat
      BY <1>4, <3>4, <3>6 DEF Dated, StoreInv, ClockInv
    <3>8. audit[x].action = "update"
      BY <1>12, <3>5, <3>6, <3>7 DEF Dated
    <3>. QED  BY <3>8
  <2>. QED  BY <2>1, <2>2
<1>. HIDE DEF top
<1>13. Logged("update", id) => \E i \in top : audit[i].action = "update"
  BY <1>12 DEF Logged, K
<1>. QED  BY <1>2, <1>11, <1>13 DEF K, top

\* Sessions: all of the project, or the last ones that started.
LEMMA SessionsAreCut ==
  ASSUME StoreInv
  PROVE  /\ ListSessions \subseteq SessionsHere
         /\ \A s \in SessionsHere \ ListSessions : CutFromSessions(s, Listed(ListSessions))
<1>. DEFINE K == SessionsHere
            key == [s \in K |-> sessions[s].started]
            top == ListSessions
<1>1. top = Cut(K, key, SessionLimit) /\ top \subseteq K
  BY DEF ListSessions, Newest, StartedAt, Cut
<1>2. IsFiniteSet(K) /\ K \subseteq DOMAIN sessions
  BY SessionsFinite, FS_Subset DEF StoreInv, SessionsHere
<1>3. key \in [K -> Int] /\ \A x, y \in K : key[x] = key[y] => x = y
  BY <1>2 DEF StoreInv, TablesInv, StartInv, SessionRow
<1>4. SessionLimit \in Nat \ {0}
  BY QueriesAssumption
<1>. DEFINE rows == Listed(top)
            row == [s \in top |-> [id |-> s, nObs |-> sessions[s].nObs]]
<1>5. Cardinality(rows) = Cardinality(top)
  <2>1. row \in Surjection(top, rows)
    BY DEF Surjection, Listed
  <2>2. row \in Injection(top, rows)
    <3>1. \A r, s \in top : row[r] = row[s] => r = s
      OBVIOUS
    <3>2. row \in [top -> rows]
      BY <2>1 DEF Surjection
    <3>. HIDE DEF row
    <3>. QED  BY <3>1, <3>2 DEF Injection, IsInjective
  <2>3. ExistsBijection(top, rows)
    <3>. HIDE DEF row, rows
    <3>. QED  BY <2>1, <2>2 DEF Bijection, ExistsBijection
  <2>4. IsFiniteSet(top)
    BY <1>1, <1>2, FS_Subset
  <2>. HIDE DEF row, rows, top
  <2>. QED  BY <2>3, <2>4, FS_Bijection
<1>6. ASSUME NEW s \in K \ top
      PROVE  /\ Cardinality(top) = SessionLimit
             /\ \A r \in top : sessions[s].started < sessions[r].started
  <2>. HIDE DEF key, top, K
  <2>1. Cardinality(top) = SessionLimit /\ \A r \in top : key[s] < key[r]
    BY <1>1, <1>2, <1>3, <1>4, CutIsFull
  <2>. QED  BY <1>1, <2>1 DEF key
<1>7. \A r \in rows : r.id \in top
  BY DEF Listed
<1>. QED  BY <1>1, <1>5, <1>6, <1>7 DEF CutFromSessions

\* The observations of the project, and their times.
LEMMA ObservationTimesCut ==
  ASSUME StoreInv
  PROVE  LET rows == Newest(HereRows, ObservedAt, ReadLimit)
             seen == SeenTimes(rows)
         IN /\ rows \subseteq HereRows /\ Cardinality(rows) <= ReadLimit
            /\ Cardinality(rows) \in Nat
            /\ Cardinality(rows) < ReadLimit => rows = HereRows
            /\ IsCutOf(seen, ObservationTimes, ReadLimit)
<1>. DEFINE key == [i \in HereRows |-> observations[i].ts]
            rows == Newest(HereRows, ObservedAt, ReadLimit)
<1>1. rows = Cut(HereRows, key, ReadLimit)
  BY ObservationsAreCut
<1>2. /\ Len(observations) \in Nat /\ DOMAIN observations = 1..Len(observations)
      /\ \A i \in DOMAIN observations : observations[i] \in Observation
  BY DEF StoreInv, TablesInv
<1>3. IsFiniteSet(HereRows)
  <2>1. IsFiniteSet(1..Len(observations))
    BY <1>2, FS_Interval
  <2>. QED  BY <1>2, <2>1, FS_Subset DEF HereRows
<1>4. /\ key \in [HereRows -> Nat] /\ key \in [HereRows -> Int]
      /\ \A x, y \in HereRows : key[x] = key[y] => x = y
  BY <1>2 DEF HereRows, Observation, StoreInv, ClockInv
<1>5. rows \subseteq HereRows
  BY <1>1 DEF Cut
<1>6. ObservationTimes = {key[i] : i \in HereRows} /\ SeenTimes(rows) = {key[i] : i \in rows}
  BY <1>5 DEF ObservationTimes, HereRows, SeenTimes
<1>7. ReadLimit \in Nat /\ ReadLimit \in Nat \ {0}
  BY QueriesAssumption
<1>. HIDE DEF key, rows
<1>8. Cardinality(rows) \in Nat
  BY <1>3, <1>5, FS_Subset, FS_CardinalityType
<1>9. Cardinality(rows) <= ReadLimit
  BY <1>1, <1>3, <1>4, <1>7, CutKeepsLimit
<1>10. Cardinality(rows) < ReadLimit => rows = HereRows
  BY <1>1, <1>3, <1>4, <1>7, CutNone
<1>11. IsCutOf({key[x] : x \in Cut(HereRows, key, ReadLimit)}, {key[x] : x \in HereRows},
               ReadLimit)
  BY <1>3, <1>4, <1>7, CutTimes
<1>. QED  BY <1>1, <1>5, <1>6, <1>8, <1>9, <1>10, <1>11 DEF rows

\* The memories of a timeline, as times.
LEMMA MemoryTimesCut ==
  ASSUME StoreInv
  PROVE  IsCutOf({born[id].ts : id \in NewestMemories(DOMAIN bank)}, MemoryTimes, ReadLimit)
<1>. DEFINE K == DOMAIN bank
            key == [id \in K |-> born[id].ts]
            rows == NewestMemories(K)
<1>1. rows = Cut(K, key, ReadLimit)
  BY MemoriesAreCut
<1>2. K \subseteq used /\ IsFiniteSet(K)
  BY FS_Subset DEF StoreInv, TablesInv
<1>3. key \in [K -> Nat] /\ \A x, y \in K : key[x] = key[y] => x = y
  BY <1>2 DEF StoreInv, ClockInv
<1>4. rows \subseteq K
  BY <1>1 DEF Cut
<1>5. MemoryTimes = {key[i] : i \in K} /\ {born[id].ts : id \in rows} = {key[i] : i \in rows}
  BY <1>4 DEF MemoryTimes
<1>6. ReadLimit \in Nat \ {0}
  BY QueriesAssumption
<1>. HIDE DEF K, key, rows
<1>7. IsCutOf({key[x] : x \in Cut(K, key, ReadLimit)}, {key[x] : x \in K}, ReadLimit)
  BY <1>2, <1>3, <1>6, CutTimes
<1>8. IsCutOf({born[id].ts : id \in rows}, MemoryTimes, ReadLimit)
  BY <1>1, <1>5, <1>7
<1>. QED  BY <1>8 DEF rows, K

\* What a timeline does not list of the two lists comes after all that it lists;
\* and it is full if there is something of the kind, or if one of the lists is.
LEMMA TimelineIsCut ==
  ASSUME NEW seen, NEW memories, IsFiniteSet(seen), IsFiniteSet(memories),
         seen \subseteq Nat, memories \subseteq Nat
  PROVE  LET listing == Timeline(seen, memories)
         IN /\ \A ts \in (seen \cup memories) \ listing :
                 Cardinality(listing) = ReadLimit /\ \A x \in listing : x < ts
            /\ \A times \in {seen, memories} :
                 Cardinality(times) = ReadLimit => Cardinality(listing) = ReadLimit
<1>. DEFINE K == seen \cup memories
            key == [t \in K |-> -t]
            top == Cut(K, key, ReadLimit)
<1>1. /\ IsFiniteSet(K) /\ K \subseteq Nat /\ key \in [K -> Int]
      /\ ReadLimit \in Nat \ {0}
      /\ \A t \in K : key[t] = -t
  <2>1. IsFiniteSet(K)
    BY FS_Union
  <2>2. \A t \in K : t \in Nat /\ -t \in Int
    OBVIOUS
  <2>. QED  BY <2>1, <2>2, QueriesAssumption
<1>2. Timeline(seen, memories) = top
  <2>1. Timeline(seen, memories) =
          {r \in K : Cardinality({x \in K : x < r}) < ReadLimit}
    BY DEF Timeline, Oldest
  <2>2. ASSUME NEW r \in K PROVE {x \in K : x < r} = {x \in K : key[x] > key[r]}
    <3>1. ASSUME NEW x \in K PROVE x < r <=> key[x] > key[r]
      <4>1. x \in Nat /\ r \in Nat /\ key[x] = -x /\ key[r] = -r
        BY <1>1
      <4>. QED  BY <4>1
    <3>. QED  BY <3>1
  <2>. HIDE DEF K, key
  <2>. QED  BY <2>1, <2>2 DEF Cut
<1>3. seen \subseteq K /\ memories \subseteq K
  OBVIOUS
<1>. HIDE DEF K, key
<1>4. ASSUME NEW x \in K, NEW y \in K PROVE key[x] < key[y] <=> y < x
  <2>1. x \in Nat /\ y \in Nat /\ key[x] = -x /\ key[y] = -y
    BY <1>1
  <2>. QED  BY <2>1
<1>5. ASSUME NEW x \in K, NEW y \in K, key[x] = key[y] PROVE x = y
  <2>1. x \in Nat /\ y \in Nat /\ key[x] \in Int /\ key[y] \in Int
    BY <1>1
  <2>2. ~(x < y) /\ ~(y < x)
    BY <1>4, <1>5, <2>1
  <2>. QED  BY <2>1, <2>2
<1>6. ASSUME NEW ts \in K \ top
      PROVE  Cardinality(top) = ReadLimit /\ \A x \in top : x < ts
  <2>1. Cardinality(top) = ReadLimit /\ \A x \in top : key[ts] < key[x]
    BY <1>1, <1>5, CutIsFull
  <2>2. top \subseteq K
    BY DEF Cut
  <2>. QED  BY <1>4, <2>1, <2>2
<1>7. ASSUME NEW times \in SUBSET K, Cardinality(times) = ReadLimit
      PROVE  Cardinality(top) = ReadLimit
  <2>1. CASE top = K
    <3>1. Cardinality(top) <= ReadLimit
      BY <1>1, <1>5, CutKeepsLimit
    <3>2. Cardinality(times) <= Cardinality(top)
      BY <1>1, <2>1, FS_Subset
    <3>3. Cardinality(top) \in Nat
      BY <1>1, <2>1, FS_CardinalityType
    <3>. HIDE DEF top
    <3>. QED  BY <1>1, <1>7, <3>1, <3>2, <3>3
  <2>2. CASE top # K
    <3>1. top \subseteq K
      BY DEF Cut
    <3>2. PICK ts \in K : ts \notin top
      BY <2>2, <3>1
    <3>. QED  BY <1>6, <3>2
  <2>. QED  BY <2>1, <2>2
<1>. HIDE DEF top
<1>. QED  BY <1>2, <1>3, <1>6, <1>7 DEF K
------------------------------------------------------------------------------
Asked(query, n) == {Program(query)[k] : k \in 1..n}

\* How far a query is.
ReaderInv ==
  /\ reader.query \in Query
  /\ reader.pc \in {"idle", "lexical", "vector", "fallback", "reading", "answered"}
  /\ reader.pc \in {"lexical", "vector", "fallback"} => reader.query = "search"
  /\ reader.pc = "reading" => reader.query # "search"
  /\ reader.pc \in {"reading", "answered"} /\ reader.query # "search" =>
       /\ reader = [pc |-> reader.pc, query |-> reader.query, id |-> reader.id,
                    got |-> reader.got]
       /\ \E n \in 0..Len(Program(reader.query)) :
            /\ DOMAIN reader.got = Asked(reader.query, n)
            /\ n = Len(Program(reader.query)) <=> reader.pc = "answered"

\* What was so when the query began cannot become otherwise.
SinceInv ==
  /\ since = [hidden |-> since.hidden, steady |-> since.steady, rows |-> since.rows]
  /\ since.hidden \subseteq used /\ since.hidden \cap Current = {}
  /\ since.steady \subseteq Matching
  /\ \A ts \in since.rows : ts \in Nat /\ ts < Now

\* The lexical list of a hybrid search, while the vector query is to come.
LexicalInv ==
  reader.pc = "vector" =>
    /\ reader.bm25 \in Seq(Ids) /\ ToSet(reader.bm25) \cap since.hidden = {}
    /\ reader.fts5 => \A id \in since.steady :
         Contains(reader.bm25, id) \/ Len(reader.bm25) = BM25TopK

\* What the queries that have been made let the others rely on.
ShownInv ==
  \A table \in DOMAIN reader.got \cap {"recent", "mentioning", "scanned"} :
    reader.got[table] \cap since.hidden = {}

ExportInv ==
  LET listed == {row.id : row \in reader.got["sessions"]}
  IN /\ "memories" \in DOMAIN reader.got => reader.got["memories"] \subseteq used
     /\ "sessions" \in DOMAIN reader.got =>
          /\ "memories" \in DOMAIN reader.got
          /\ \A id \in reader.got["memories"] :
               born[id].session \in SessionsHere =>
                 \/ born[id].session \in listed
                 \/ CutFromSessions(born[id].session, reader.got["sessions"])
          /\ listed \subseteq DOMAIN sessions
          /\ \A row \in reader.got["sessions"] :
               row.nObs \in Nat /\ row.nObs <= Cardinality(ObservationsOf(row.id))

VerifyInv ==
  "memory" \in DOMAIN reader.got =>
    \A row \in reader.got["memory"] : reader.id \in used /\ Explained(row, reader.id)

SeenInv ==
  LET seen == SeenTimes(reader.got["observations"])
  IN "observations" \in DOMAIN reader.got =>
       /\ reader.got["observations"] \subseteq DOMAIN observations
       /\ \A ts \in since.rows \cap ObservationTimes :
            \/ ts \in seen
            \/ /\ Cardinality(seen) = ReadLimit /\ seen # {}
               /\ \A t \in seen : ts < t

GotInv ==
  reader.pc \in {"reading", "answered"} /\ reader.query # "search" =>
    /\ ShownInv /\ SeenInv
    /\ reader.query = "export" => ExportInv
    /\ reader.query = "verify" => VerifyInv

Answers == /\ FusionIsRight /\ NothingHidden /\ SteadyIsFound
           /\ ExportCloses /\ VerifyExplains /\ TimelineCuts

QueriesInv == StoreInv /\ ReaderInv /\ SinceInv /\ LexicalInv /\ GotInv /\ Answers

Open == {"context", "enrich", "history", "timeline", "export", "verify"}

\* Without an answer nothing is claimed.
LEMMA NoAnswer ==
  ASSUME reader'.pc # "answered"
  PROVE  Answers'
BY DEF Answers, Answered, FusionIsRight, NothingHidden, SteadyIsFound, ExportCloses,
       VerifyExplains, TimelineCuts

\* A search claims nothing about the other queries, and they nothing about it.
LEMMA SearchAnswer ==
  ASSUME reader'.query = "search", FusionIsRight', NothingHidden', SteadyIsFound'
  PROVE  Answers'
BY DEF Answers, Answered, ExportCloses, VerifyExplains, TimelineCuts

\* The programs.
LEMMA Programs ==
  /\ Program("context") = Context /\ Program("enrich") = Enrich
  /\ Program("history") = FileHistory /\ Program("timeline") = TimelineQueries
  /\ Program("export") = Export /\ Program("verify") = VerifyMemory
BY DEF Program

\* Programs of two queries.
LEMMA Program2 ==
  ASSUME NEW a, NEW b
  PROVE  /\ Len(<<a, b>>) = 2 /\ <<a, b>>[1] = a /\ <<a, b>>[2] = b
OBVIOUS

\* Programs of three queries.
LEMMA Program3 ==
  ASSUME NEW a, NEW b, NEW c
  PROVE  /\ Len(<<a, b, c>>) = 3
         /\ <<a, b, c>>[1] = a /\ <<a, b, c>>[2] = b /\ <<a, b, c>>[3] = c
OBVIOUS

\* What each program asks, in its order.
LEMMA ProgramSteps ==
  ASSUME NEW query \in Open
  PROVE  LET p == Program(query)
         IN /\ Len(p) \in 1..3
            /\ query = "context" => Len(p) = 2 /\ p[1] = "recent" /\ p[2] = "summaries"
            /\ query = "enrich" => Len(p) = 1 /\ p[1] = "mentioning"
            /\ query = "history" => Len(p) = 2 /\ p[1] = "scanned" /\ p[2] = "observations"
            /\ query = "timeline" => Len(p) = 2 /\ p[1] = "observations" /\ p[2] = "memories"
            /\ query = "export" => /\ Len(p) = 3
                                   /\ p[1] = "memories" /\ p[2] = "sessions"
                                   /\ p[3] = "observations"
            /\ query = "verify" => /\ Len(p) = 3
                                   /\ p[1] = "memory" /\ p[2] = "evidence"
                                   /\ p[3] = "audit"
<1>1. CASE query = "context"
  BY <1>1, Programs, Program2 DEF Context
<1>2. CASE query = "enrich"
  BY <1>2, Programs DEF Enrich
<1>3. CASE query = "history"
  BY <1>3, Programs, Program2 DEF FileHistory
<1>4. CASE query = "timeline"
  BY <1>4, Programs, Program2 DEF TimelineQueries
<1>5. CASE query = "export"
  BY <1>5, Programs, Program3 DEF Export
<1>6. CASE query = "verify"
  BY <1>6, Programs, Program3 DEF VerifyMemory
<1>. QED  BY <1>1, <1>2, <1>3, <1>4, <1>5, <1>6 DEF Open

\* Two tables are two.
LEMMA PairCounts ==
  ASSUME NEW a, NEW b, a # b
  PROVE  IsFiniteSet({a, b}) /\ Cardinality({a, b}) = 2
<1>1. {a, b} = {a} \cup {b} /\ b \notin {a}
  OBVIOUS
<1>2. IsFiniteSet({a}) /\ Cardinality({a}) = 1
  BY FS_Singleton
<1>3. IsFiniteSet({a} \cup {b}) /\ Cardinality({a} \cup {b}) = Cardinality({a}) + 1
  BY <1>1, <1>2, FS_AddElement
<1>. QED  BY <1>1, <1>2, <1>3

\* No program asks for a table twice: the tables read tell how far it is.
LEMMA AskedCounts ==
  ASSUME NEW query \in Open, NEW n \in 0..Len(Program(query))
  PROVE  /\ Len(Program(query)) \in 1..3
         /\ Cardinality(Asked(query, n)) = n
         /\ n < Len(Program(query)) =>
              Asked(query, n + 1) = Asked(query, n) \cup {Program(query)[n + 1]}
<1>1. /\ Len(Program(query)) \in 1..3
      /\ \A i, j \in 1..Len(Program(query)) : i # j => Program(query)[i] # Program(query)[j]
  <2>. DEFINE p == Program(query)
  <2>1. /\ Len(p) \in 1..3
        /\ Len(p) > 1 => p[1] # p[2]
        /\ Len(p) > 2 => p[1] # p[3] /\ p[2] # p[3]
    BY ProgramSteps DEF Open
  <2>. HIDE DEF p
  <2>2. ASSUME NEW i \in 1..Len(p) PROVE i = 1 \/ (i = 2 /\ Len(p) > 1) \/ (i = 3 /\ Len(p) > 2)
    BY <2>1
  <2>3. ASSUME NEW i \in 1..Len(p), NEW j \in 1..Len(p), i # j PROVE p[i] # p[j]
    BY <2>1, <2>2, <2>3
  <2>. QED  BY <2>1, <2>3 DEF p
<1>2. n = 0 \/ n = 1 \/ n = 2 \/ n = 3
  BY <1>1
<1>. DEFINE p == Program(query)
<1>3. /\ Asked(query, 0) = {} /\ Asked(query, 1) = {p[1]}
      /\ Asked(query, 2) = {p[1], p[2]} /\ Asked(query, 3) = {p[1], p[2], p[3]}
  <2>1. 1..0 = {} /\ 1..1 = {1} /\ 1..2 = {1, 2} /\ 1..3 = {1, 2, 3}
    OBVIOUS
  <2>. HIDE DEF p
  <2>. QED  BY <2>1 DEF Asked, p
<1>4. Cardinality(Asked(query, n)) = n
  <2>1. CASE n = 0
    BY <1>3, <2>1, FS_EmptySet
  <2>2. CASE n = 1
    BY <1>3, <2>2, FS_Singleton
  <2>3. CASE n = 2
    <3>1. p[1] # p[2]
      BY <1>1, <2>3
    <3>2. Cardinality({p[1], p[2]}) = 2
      <4>. HIDE DEF p
      <4>. QED  BY <3>1, PairCounts
    <3>. QED  BY <1>3, <2>3, <3>2
  <2>4. CASE n = 3
    <3>1. p[1] # p[2] /\ p[1] # p[3] /\ p[2] # p[3]
      BY <1>1, <2>4
    <3>. DEFINE two == {p[1], p[2]}
    <3>2. IsFiniteSet(two) /\ Cardinality(two) = 2
      BY <3>1, PairCounts
    <3>3. Asked(query, 3) = two \cup {p[3]} /\ p[3] \notin two
      BY <1>3, <3>1
    <3>. HIDE DEF two
    <3>. QED  BY <2>4, <3>2, <3>3, FS_AddElement
  <2>. QED  BY <1>2, <2>1, <2>2, <2>3, <2>4
<1>5. n < Len(p) => Asked(query, n + 1) = Asked(query, n) \cup {p[n + 1]}
  <2>1. CASE n = 0
    BY <1>3, <2>1
  <2>2. CASE n = 1
    BY <1>3, <2>2
  <2>3. CASE n = 2
    BY <1>3, <2>3
  <2>4. CASE n = 3
    BY <1>1, <2>4
  <2>. QED  BY <1>2, <2>1, <2>2, <2>3, <2>4
<1>. QED  BY <1>1, <1>4, <1>5

\* Nothing is stored and nothing asked.
LEMMA InitQueries == ASSUME Init PROVE QueriesInv
<1>1. /\ \E query \in Query : reader = [pc |-> "idle", query |-> query]
      /\ since = Nothing /\ used = {}
  BY DEF Init, Bank!Init
<1>2. ReaderInv
  BY <1>1 DEF ReaderInv
<1>3. SinceInv
  BY <1>1 DEF SinceInv, Nothing
<1>4. LexicalInv /\ GotInv
  BY <1>1 DEF LexicalInv, GotInv
<1>5. Answers
  BY <1>1 DEF Answers, Answered, FusionIsRight, NothingHidden, SteadyIsFound, ExportCloses,
              VerifyExplains, TimelineCuts
<1>. QED  BY <1>2, <1>3, <1>4, <1>5, StoreInit DEF QueriesInv

\* Between two queries the writes of others change nothing that the answer will
\* rely on.
LEMMA WriteStays ==
  ASSUME QueriesInv, WriteStep
  PROVE  QueriesInv'
<1>1. /\ reader' = reader /\ reader.pc # "answered"
      /\ since' = [since EXCEPT !.steady = @ \cap Matching']
  BY DEF WriteStep
<1>2. StoreInv' /\ MemoriesStay /\ SessionsStay
  BY WriteKeeps DEF QueriesInv, ReaderInv
<1>3. ReaderInv'
  BY <1>1 DEF QueriesInv, ReaderInv
<1>4. /\ since'.hidden = since.hidden /\ since'.rows = since.rows
      /\ since'.steady = since.steady \cap Matching'
      /\ since' = [hidden |-> since'.hidden, steady |-> since'.steady, rows |-> since'.rows]
  BY <1>1 DEF QueriesInv, SinceInv
<1>5. SinceInv'
  <2>1. since.hidden \subseteq used' /\ since.hidden \cap Current' = {}
    BY <1>2 DEF QueriesInv, SinceInv, MemoriesStay
  <2>2. \A ts \in since.rows : ts \in Nat /\ ts < Now'
    BY <1>2 DEF QueriesInv, SinceInv, SessionsStay
  <2>. QED  BY <1>4, <2>1, <2>2 DEF SinceInv
<1>6. LexicalInv'
  BY <1>1, <1>4 DEF QueriesInv, LexicalInv
<1>7. GotInv'
  <2>. SUFFICES ASSUME reader.pc = "reading", reader.query # "search" PROVE GotInv'
    BY <1>1 DEF GotInv
  <2>1. ShownInv'
    BY <1>1, <1>4 DEF QueriesInv, GotInv, ShownInv
  <2>2. SeenInv'
    <3>. SUFFICES ASSUME "observations" \in DOMAIN reader.got PROVE SeenInv'
      BY <1>1 DEF SeenInv
    <3>. DEFINE rows == reader.got["observations"]
    <3>1. rows \subseteq DOMAIN observations
      BY DEF QueriesInv, GotInv, SeenInv
    <3>2. rows \subseteq DOMAIN observations' /\ SeenTimes(rows)' = SeenTimes(rows)
      BY <1>1, <1>2, <3>1 DEF SessionsStay, SeenTimes
    <3>3. since.rows \cap ObservationTimes' \subseteq ObservationTimes
      <4>. SUFFICES ASSUME NEW i \in DOMAIN observations', observations'[i].here,
                           observations'[i].ts \in since.rows
                    PROVE  observations'[i].ts \in ObservationTimes
        BY DEF ObservationTimes
      <4>1. observations'[i].ts # Now /\ Now \in Nat
        BY <1>2 DEF QueriesInv, SinceInv, SessionsStay
      <4>2. i \in DOMAIN observations /\ observations'[i] = observations[i]
        BY <1>2, <4>1 DEF SessionsStay
      <4>. QED  BY <4>2 DEF ObservationTimes
    <3>. QED  BY <1>1, <1>4, <3>1, <3>2, <3>3 DEF QueriesInv, GotInv, SeenInv
  <2>3. ASSUME reader.query = "export" PROVE ExportInv'
    <3>1. ExportInv
      BY <2>3 DEF QueriesInv, GotInv
    <3>2. "memories" \in DOMAIN reader.got => reader.got["memories"] \subseteq used'
      BY <1>2, <3>1 DEF ExportInv, MemoriesStay
    <3>. SUFFICES ASSUME "sessions" \in DOMAIN reader.got PROVE ExportInv'
      BY <1>1, <3>2 DEF ExportInv
    <3>. DEFINE listed == {row.id : row \in reader.got["sessions"]}
    <3>3. ASSUME NEW id \in reader.got["memories"], born'[id].session \in SessionsHere'
          PROVE  \/ born'[id].session \in listed
                 \/ CutFromSessions(born[id].session, reader.got["sessions"])'
      <4>1. id \in used /\ born'[id] = born[id]
        BY <1>2, <3>1 DEF ExportInv, MemoriesStay
      <4>2. born[id].session \in DOMAIN sessions \cup {NoSession}
        BY <4>1 DEF QueriesInv, StoreInv, TablesInv
      <4>3. born[id].session \in SessionIds /\ sessions'[born[id].session].here
        BY <1>2, <3>3, <4>1 DEF SessionsHere, StoreInv, TablesInv
      <4>4. born[id].session \in SessionsHere
        BY <1>2, <4>2, <4>3, QueriesAssumption DEF SessionsHere, SessionsStay
      <4>5. PICK s : s = born[id].session
        OBVIOUS
      <4>6. CASE s \in listed
        BY <4>1, <4>5, <4>6
      <4>7. CASE CutFromSessions(s, reader.got["sessions"])
        <5>1. /\ listed \subseteq DOMAIN sessions /\ s \in DOMAIN sessions
              /\ \A row \in reader.got["sessions"] : row.id \in listed
          BY <3>1, <4>4, <4>5 DEF ExportInv, SessionsHere
        <5>2. \A r \in DOMAIN sessions : sessions'[r].started = sessions[r].started
          BY <1>2 DEF SessionsStay
        <5>3. CutFromSessions(born[id].session, reader.got["sessions"])'
          BY <1>1, <4>1, <4>5, <4>7, <5>1, <5>2 DEF CutFromSessions
        <5>. QED  BY <5>3
      <4>. QED  BY <3>1, <4>1, <4>4, <4>5, <4>6, <4>7 DEF ExportInv
    <3>4. ASSUME NEW row \in reader.got["sessions"]
          PROVE  row.nObs \in Nat /\ row.nObs <= Cardinality(ObservationsOf(row.id)')
      <4>1. ObservationsOf(row.id) \subseteq ObservationsOf(row.id)'
        BY <1>2 DEF ObservationsOf, SessionsStay
      <4>2. ObservationsOf(row.id)' \subseteq 1..Len(observations') /\ Len(observations') \in Nat
        BY <1>2 DEF ObservationsOf, StoreInv, TablesInv
      <4>3. IsFiniteSet(ObservationsOf(row.id)')
        <5>1. IsFiniteSet(1..Len(observations'))
          BY <4>2, FS_Interval
        <5>. QED  BY <4>2, <5>1, FS_Subset
      <4>4. /\ Cardinality(ObservationsOf(row.id)) <= Cardinality(ObservationsOf(row.id)')
            /\ Cardinality(ObservationsOf(row.id)) \in Nat
            /\ Cardinality(ObservationsOf(row.id)') \in Nat
        BY <4>1, <4>3, FS_Subset, FS_CardinalityType
      <4>5. row.nObs \in Nat /\ row.nObs <= Cardinality(ObservationsOf(row.id))
        BY <3>1 DEF ExportInv
      <4>. QED  BY <4>4, <4>5
    <3>5. "memories" \in DOMAIN reader.got /\ listed \subseteq DOMAIN sessions'
      BY <1>2, <3>1 DEF ExportInv, SessionsStay
    <3>. QED  BY <1>1, <3>2, <3>3, <3>4, <3>5 DEF ExportInv
  <2>4. ASSUME reader.query = "verify" PROVE VerifyInv'
    BY <1>1, <1>2, <2>4 DEF QueriesInv, GotInv, VerifyInv, Explained, MemoriesStay
  <2>. QED  BY <1>1, <2>1, <2>2, <2>3, <2>4 DEF GotInv
<1>. QED  BY <1>1, <1>2, <1>3, <1>5, <1>6, <1>7, NoAnswer DEF QueriesInv

\* A step of the reader leaves the store as it is.
LEMMA StoreStays ==
  ASSUME StoreInv, UNCHANGED db, reader'.query = reader.query
  PROVE  StoreInv' /\ Now' = Now /\ Current' = Current /\ Matching' = Matching
BY DEF StoreInv, TablesInv, ClockInv, StartInv, CountInv, AuditInv, DatedInv, Dated, db,
       memoryTables, Now, Current, Matching, Explained, Logged, ObservationsOf

\* What was so at the question is not touched by the steps of the answer.
LEMMA SinceStays ==
  ASSUME QueriesInv, UNCHANGED <<db, since>>
  PROVE  SinceInv'
BY DEF QueriesInv, SinceInv, db, memoryTables, Now, Current, Matching

\* A question, from when on what is so is remembered.
LEMMA AskStays ==
  ASSUME QueriesInv, Ask
  PROVE  QueriesInv'
<1>1. /\ reader.pc = "idle" /\ UNCHANGED db
      /\ since' = [hidden |-> used \ Current, steady |-> Matching,
                   rows |-> MemoryTimes \cup ObservationTimes]
  BY DEF Ask
<1>2. StoreInv' /\ Now' = Now /\ Current' = Current /\ Matching' = Matching
  <2>1. reader'.query = reader.query
    BY DEF Ask
  <2>. QED  BY <1>1, <2>1, StoreStays DEF QueriesInv
<1>3. SinceInv'
  <2>1. \A id \in used : born[id].ts \in Nat /\ born[id].ts < Now
    BY DEF QueriesInv, StoreInv, ClockInv
  <2>2. \A ts \in MemoryTimes : ts \in Nat /\ ts < Now
    BY <2>1 DEF QueriesInv, StoreInv, TablesInv, MemoryTimes
  <2>3. \A i \in DOMAIN observations : observations[i].ts \in Nat /\ observations[i].ts < Now
    <3>1. \A i \in DOMAIN observations : observations[i] \in Observation
      BY DEF QueriesInv, StoreInv, TablesInv
    <3>. QED  BY <3>1 DEF QueriesInv, StoreInv, ClockInv, Observation
  <2>4. \A ts \in ObservationTimes : ts \in Nat /\ ts < Now
    BY <2>3 DEF ObservationTimes
  <2>5. used' = used
    BY <1>1 DEF db, memoryTables
  <2>. QED  BY <1>1, <1>2, <2>2, <2>4, <2>5 DEF SinceInv
<1>4. CASE reader.query = "search"
  <2>1. /\ reader'.pc \in {"lexical", "fallback"} /\ reader'.query = "search"
    BY <1>1, <1>4 DEF Ask
  <2>2. ReaderInv' /\ LexicalInv' /\ GotInv'
    BY <1>4, <2>1 DEF QueriesInv, ReaderInv, LexicalInv, GotInv
  <2>. QED  BY <1>2, <1>3, <2>1, <2>2, NoAnswer DEF QueriesInv
<1>5. CASE reader.query # "search"
  <2>1. PICK id : reader' = [pc |-> "reading", query |-> reader.query, id |-> id,
                             got |-> [table \in {} |-> {}]]
    BY <1>1, <1>5 DEF Ask
  <2>2. reader.query \in Query /\ reader.query \in Open
    BY <1>5, QueriesAssumption DEF QueriesInv, ReaderInv, Open
  <2>3. Asked(reader.query, 0) = {} /\ Len(Program(reader.query)) \in 1..3
    BY <2>2, ProgramSteps DEF Asked
  <2>4. /\ reader'.pc = "reading" /\ reader'.query = reader.query
        /\ DOMAIN reader'.got = {}
        /\ reader' = [pc |-> reader'.pc, query |-> reader'.query, id |-> reader'.id,
                      got |-> reader'.got]
    BY <2>1
  <2>5. ReaderInv'
    <3>. DEFINE N == Len(Program(reader.query))
    <3>1. 0 \in 0..N /\ 0 # N
      <4>1. N \in 1..3
        BY <2>3
      <4>. HIDE DEF N
      <4>. QED  BY <4>1
    <3>2. \E n \in 0..N : /\ DOMAIN reader'.got = Asked(reader.query, n)
                          /\ n = N <=> reader'.pc = "answered"
      <4>. HIDE DEF N
      <4>. QED  BY <2>3, <2>4, <3>1
    <3>. QED  BY <1>5, <2>2, <2>4, <3>2 DEF ReaderInv
  <2>6. GotInv'
    BY <2>4 DEF GotInv, ShownInv, SeenInv, ExportInv, VerifyInv
  <2>7. LexicalInv'
    BY <2>4 DEF LexicalInv
  <2>. QED  BY <1>2, <1>3, <2>4, <2>5, <2>6, <2>7, NoAnswer DEF QueriesInv
<1>. QED  BY <1>4, <1>5

\* The end of an answer, or an error: nothing is claimed any more.
LEMMA FinishStays ==
  ASSUME QueriesInv, Finish
  PROVE  QueriesInv'
<1>1. /\ reader'.pc = "idle" /\ reader'.query = reader.query
      /\ since' = Nothing /\ UNCHANGED db
  BY DEF Finish
<1>2. StoreInv'
  BY <1>1, StoreStays DEF QueriesInv
<1>3. SinceInv'
  BY <1>1 DEF SinceInv, Nothing
<1>4. ReaderInv' /\ LexicalInv' /\ GotInv'
  BY <1>1 DEF QueriesInv, ReaderInv, LexicalInv, GotInv
<1>. QED  BY <1>1, <1>2, <1>3, <1>4, NoAnswer DEF QueriesInv

\* The first query of Hybrid: of those current now, so none that was hidden.
LEMMA LexicalStays ==
  ASSUME QueriesInv, Lexical
  PROVE  QueriesInv'
<1>1. PICK list \in IF reader.fts5 THEN SearchMemories(BM25TopK) ELSE {<<>>} :
        reader' = [pc |-> "vector", query |-> "search", fts5 |-> reader.fts5, bm25 |-> list]
  BY DEF Lexical
<1>2. reader.pc = "lexical" /\ reader.query = "search" /\ UNCHANGED <<db, since>>
  BY DEF Lexical, QueriesInv, ReaderInv
<1>3. /\ reader'.pc = "vector" /\ reader'.query = "search" /\ reader'.bm25 = list
      /\ reader'.fts5 = reader.fts5
  BY <1>1
<1>4. StoreInv' /\ SinceInv'
  BY <1>2, <1>3, StoreStays, SinceStays DEF QueriesInv
<1>5. ReaderInv' /\ GotInv'
  BY <1>2, <1>3 DEF QueriesInv, ReaderInv, GotInv
<1>6. /\ list \in Seq(Ids) /\ ToSet(list) \cap since.hidden = {}
      /\ reader.fts5 => \A id \in since.steady : Contains(list, id) \/ Len(list) = BM25TopK
  <2>1. CASE reader.fts5
    <3>1. list \in SearchMemories(BM25TopK) /\ BM25TopK \in Nat
      BY <1>1, <2>1, QueriesAssumption
    <3>2. /\ list \in Seq(Matching)
          /\ Len(list) = BM25TopK \/ \A id \in Matching : Contains(list, id)
      BY <3>1, SearchMemoriesFinds DEF QueriesInv, StoreInv
    <3>3. Matching \subseteq Current /\ Matching \subseteq Ids
      BY DEF QueriesInv, StoreInv, TablesInv, Matching, Current
    <3>4. ToSet(list) \subseteq Matching
      BY <3>2, SeqToSet
    <3>5. list \in Seq(Ids)
      BY <3>2, <3>3
    <3>. QED  BY <3>2, <3>3, <3>4, <3>5 DEF QueriesInv, SinceInv
  <2>2. CASE ~reader.fts5
    <3>1. list = <<>>
      BY <1>1, <2>2
    <3>2. list \in Seq(Ids) /\ ToSet(list) = {}
      BY <3>1 DEF ToSet
    <3>. QED  BY <2>2, <3>2
  <2>. QED  BY <2>1, <2>2
<1>7. LexicalInv'
  BY <1>2, <1>3, <1>6 DEF LexicalInv
<1>. QED  BY <1>3, <1>4, <1>5, <1>7, NoAnswer DEF QueriesInv

\* What is fused is current; a steady memory that is not in the result is
\* there for FinalK others, or for those of its session.
LEMMA VectorStays ==
  ASSUME QueriesInv, Vector
  PROVE  QueriesInv'
<1>1. PICK vector \in {VectorResults, <<>>} :
        reader' = [pc |-> "answered", query |-> "search", fts5 |-> reader.fts5,
                   fused |-> TRUE, bm25 |-> reader.bm25, vector |-> vector,
                   list |-> FuseRRF(reader.bm25, vector, SessionOf, FinalK)]
  BY DEF Vector
<1>. DEFINE bm25 == reader.bm25
            list == FuseRRF(bm25, vector, SessionOf, FinalK)
<1>2. reader.pc = "vector" /\ reader.query = "search" /\ UNCHANGED <<db, since>>
  BY DEF Vector, QueriesInv, ReaderInv
<1>3. /\ reader'.pc = "answered" /\ reader'.query = "search" /\ reader'.fts5 = reader.fts5
      /\ reader'.fused = TRUE /\ reader'.bm25 = bm25 /\ reader'.vector = vector
      /\ reader'.list = list
  BY <1>1
<1>4. StoreInv' /\ SinceInv'
  BY <1>2, <1>3, StoreStays, SinceStays DEF QueriesInv
<1>5. ReaderInv' /\ GotInv' /\ LexicalInv'
  BY <1>2, <1>3 DEF QueriesInv, ReaderInv, GotInv, LexicalInv
<1>6. /\ bm25 \in Seq(Ids) /\ ToSet(bm25) \cap since.hidden = {}
      /\ reader.fts5 => \A id \in since.steady : Contains(bm25, id) \/ Len(bm25) = BM25TopK
  BY <1>2 DEF QueriesInv, LexicalInv
<1>7. vector \in Seq(Ids) /\ ToSet(vector) \cap since.hidden = {}
  <2>1. CASE vector = VectorResults
    <3>1. vector \in Seq(Candidates) /\ Candidates \subseteq Current \cap Ids
      BY <2>1, VectorResultsType DEF QueriesInv, StoreInv
    <3>2. ToSet(vector) \subseteq Candidates
      BY <3>1, SeqToSet
    <3>3. vector \in Seq(Ids)
      BY <3>1
    <3>. QED  BY <3>1, <3>2, <3>3 DEF QueriesInv, SinceInv
  <2>2. CASE vector = <<>>
    <3>1. vector \in Seq(Ids) /\ ToSet(vector) = {}
      BY <2>2 DEF ToSet
    <3>. QED  BY <3>1
  <2>. QED  BY <2>1, <2>2
<1>8. FinalK \in Nat
  BY QueriesAssumption DEF FinalK
<1>9. IsFusion(list, bm25, vector, SessionOf, FinalK) /\ list \in Seq(Found(bm25, vector))
  BY <1>6, <1>7, <1>8, FuseIsFusion
<1>. HIDE DEF list
<1>10. SessionOf' = SessionOf
  BY <1>2 DEF db, memoryTables, SessionOf
<1>11. FusionIsRight'
  BY <1>3, <1>9, <1>10 DEF FusionIsRight
<1>12. ToSet(list) \subseteq Found(bm25, vector) /\ IsFiniteSet(ToSet(list))
       /\ Cardinality(ToSet(list)) \in Nat /\ Cardinality(ToSet(list)) <= Len(list)
       /\ Len(list) \in Nat
  BY <1>9, SeqToSet
<1>13. NothingHidden'
  <2>1. ToSet(list) \cap since.hidden = {}
    BY <1>6, <1>7, <1>12 DEF Found
  <2>. QED  BY <1>2, <1>3, <2>1 DEF NothingHidden, Answered
<1>14. ASSUME reader.fts5, NEW id \in since.steady, ~Contains(list, id),
              Len(bm25) # BM25TopK, Len(list) # FinalK
       PROVE  Capped(list, SessionOf, id)
  <2>1. Contains(bm25, id)
    BY <1>6, <1>14
  <2>2. id \in ToSet(bm25)
    BY <1>6, <2>1 DEF Contains, ToSet
  <2>3. id \notin ToSet(list)
    BY <1>9, <1>14 DEF Contains, ToSet
  <2>. DEFINE ahead == {x \in ToSet(list) : Better(bm25, vector, x, id)}
              mates == InSession(ToSet(list), SessionOf, id)
  <2>4. \/ Cardinality(ahead) = FinalK
        \/ /\ SessionOf[id] # NoSession
           /\ Cardinality(ahead \cap mates) = MaxPerSession
    BY <1>9, <2>2, <2>3 DEF IsFusion
  <2>5. Len(list) <= FinalK
    BY <1>9 DEF IsFusion
  <2>6. /\ IsFiniteSet(mates) /\ Cardinality(ahead) <= Cardinality(ToSet(list))
        /\ Cardinality(ahead \cap mates) <= Cardinality(mates)
        /\ Cardinality(mates) \in Nat
    <3>1. ahead \subseteq ToSet(list) /\ mates \subseteq ToSet(list)
      BY DEF InSession
    <3>2. ahead \cap mates \subseteq mates
      OBVIOUS
    <3>. HIDE DEF ahead, mates
    <3>. QED  BY <1>12, <3>1, <3>2, FS_Subset, FS_CardinalityType
  <2>. HIDE DEF ahead, mates
  <2>7. SessionOf[id] # NoSession /\ Cardinality(ahead \cap mates) = MaxPerSession
    BY <1>8, <1>12, <1>14, <2>4, <2>5, <2>6
  <2>8. MaxPerSession \in Nat
    BY RankFusionAssumption
  <2>. QED  BY <2>6, <2>7, <2>8 DEF Capped, mates
<1>15. SteadyIsFound'
  BY <1>2, <1>3, <1>10, <1>14 DEF SteadyIsFound
<1>. QED  BY <1>3, <1>4, <1>5, <1>11, <1>13, <1>15, SearchAnswer DEF QueriesInv

\* Hybrid gives up, and its list is dropped.
LEMMA HybridFailsStays ==
  ASSUME QueriesInv, HybridFails
  PROVE  QueriesInv'
<1>1. /\ reader'.pc = "fallback" /\ reader'.query = "search" /\ reader.query = "search"
      /\ UNCHANGED <<db, since>>
  BY DEF HybridFails, QueriesInv, ReaderInv
<1>2. StoreInv' /\ SinceInv'
  BY <1>1, StoreStays, SinceStays DEF QueriesInv
<1>3. ReaderInv' /\ LexicalInv' /\ GotInv'
  BY <1>1 DEF QueriesInv, ReaderInv, LexicalInv, GotInv
<1>. QED  BY <1>1, <1>2, <1>3, NoAnswer DEF QueriesInv

\* The lexical search that follows, a snapshot of its own.
LEMMA FallbackStays ==
  ASSUME QueriesInv, Fallback
  PROVE  QueriesInv'
<1>1. PICK list \in SearchMemories(SearchLimit) :
        reader' = [pc |-> "answered", query |-> "search", fts5 |-> TRUE,
                   fused |-> FALSE, list |-> list]
  BY DEF Fallback
<1>2. reader.query = "search" /\ UNCHANGED <<db, since>>
  BY DEF Fallback, QueriesInv, ReaderInv
<1>3. /\ reader'.pc = "answered" /\ reader'.query = "search" /\ reader'.fused = FALSE
      /\ reader'.list = list
  BY <1>1
<1>4. StoreInv' /\ SinceInv'
  BY <1>2, <1>3, StoreStays, SinceStays DEF QueriesInv
<1>5. ReaderInv' /\ GotInv' /\ LexicalInv'
  BY <1>2, <1>3 DEF QueriesInv, ReaderInv, GotInv, LexicalInv
<1>6. /\ list \in Seq(Matching)
      /\ Len(list) = SearchLimit \/ \A id \in Matching : Contains(list, id)
  BY SearchMemoriesFinds, QueriesAssumption DEF QueriesInv, StoreInv
<1>7. ToSet(list) \subseteq Current
  BY <1>6, SeqToSet DEF Matching
<1>8. FusionIsRight'
  BY <1>3 DEF FusionIsRight
<1>9. NothingHidden'
  BY <1>2, <1>3, <1>7 DEF NothingHidden, Answered, QueriesInv, SinceInv
<1>10. SteadyIsFound'
  BY <1>2, <1>3, <1>6 DEF SteadyIsFound, QueriesInv, SinceInv
<1>. QED  BY <1>3, <1>4, <1>5, <1>8, <1>9, <1>10, SearchAnswer DEF QueriesInv

\* The tables asked for so far, spelled out.
LEMMA AskedIs ==
  ASSUME NEW query \in Open
  PROVE  LET p == Program(query)
         IN /\ Asked(query, 0) = {} /\ Asked(query, 1) = {p[1]}
            /\ Asked(query, 2) = {p[1], p[2]} /\ Asked(query, 3) = {p[1], p[2], p[3]}
<1>1. 1..0 = {} /\ 1..1 = {1} /\ 1..2 = {1, 2} /\ 1..3 = {1, 2, 3}
  OBVIOUS
<1>. QED  BY <1>1 DEF Asked

\* What each table yields.
LEMMA RowsAre ==
  ASSUME NEW id
  PROVE  /\ Rows("recent", id) = NewestMemories(Current)
         /\ Rows("mentioning", id) = NewestMemories(Matching)
         /\ Rows("memories", id) = NewestMemories(DOMAIN bank)
         /\ Rows("memory", id) = {bank[i] : i \in {id} \cap DOMAIN bank}
         /\ Rows("scanned", id) = ScannedMemories
         /\ Rows("sessions", id) = Listed(ListSessions)
         /\ Rows("observations", id) =
              Newest({i \in DOMAIN observations : observations[i].here},
                     ObservedAt, ReadLimit)
         /\ Rows("audit", id) = AuditEvents(id)
BY DEF Rows

\* One query of a program: which, and after which others.
LEMMA ReadIs ==
  ASSUME QueriesInv, Read
  PROVE  /\ reader.query \in Open /\ reader.pc = "reading" /\ reader'.query = reader.query
         /\ reader'.id = reader.id /\ UNCHANGED <<db, since>>
         /\ reader'.pc \in {"reading", "answered"} /\ ReaderInv'
         /\ \E n \in {1, 2, 3} : LET table == Program(reader.query)[n] IN
              /\ n <= Len(Program(reader.query))
              /\ DOMAIN reader.got = Asked(reader.query, n - 1)
              /\ DOMAIN reader'.got = DOMAIN reader.got \cup {table}
              /\ reader'.got[table] = Rows(table, reader.id)
              /\ \A t \in DOMAIN reader.got \ {table} : reader'.got[t] = reader.got[t]
              /\ n = Len(Program(reader.query)) <=> reader'.pc = "answered"
<1>. DEFINE q == reader.query
            p == Program(q)
            done == Cardinality(DOMAIN reader.got)
            table == p[done + 1]
            rows == Rows(table, reader.id)
<1>1. /\ reader.pc = "reading" /\ UNCHANGED <<db, since>>
      /\ reader' = [reader EXCEPT
           !.got = T!Put(reader.got, table, rows),
           !.pc = IF done + 1 = Len(p) THEN "answered" ELSE "reading"]
  BY DEF Read
<1>2. /\ q \in Open /\ q # "search" /\ q \in Query
      /\ reader = [pc |-> reader.pc, query |-> reader.query, id |-> reader.id,
                   got |-> reader.got]
  BY <1>1, QueriesAssumption DEF QueriesInv, ReaderInv, Open
<1>3. PICK m \in 0..Len(p) : /\ DOMAIN reader.got = Asked(q, m)
                             /\ m = Len(p) <=> reader.pc = "answered"
  BY <1>1, <1>2 DEF QueriesInv, ReaderInv
<1>4. /\ Len(p) \in 1..3 /\ done = m
      /\ m < Len(p) => Asked(q, m + 1) = Asked(q, m) \cup {p[m + 1]}
  <2>. HIDE DEF q
  <2>1. m \in 0..Len(Program(q))
    BY <1>3
  <2>2. /\ Len(Program(q)) \in 1..3 /\ Cardinality(Asked(q, m)) = m
        /\ m < Len(Program(q)) => Asked(q, m + 1) = Asked(q, m) \cup {Program(q)[m + 1]}
    BY <1>2, <2>1, AskedCounts
  <2>. QED  BY <1>3, <2>2
<1>. HIDE DEF p, q
<1>5. m < Len(p) /\ m \in 0..2 /\ m + 1 \in {1, 2, 3} /\ (m + 1) - 1 = m
  <2>1. m # Len(p)
    BY <1>1, <1>3
  <2>2. PICK L \in 1..3 : L = Len(p)
    BY <1>4
  <2>3. m \in 0..L /\ m # L
    BY <2>1, <2>2
  <2>. QED  BY <2>2, <2>3
<1>. HIDE DEF done
<1>6. /\ reader'.pc = IF m + 1 = Len(p) THEN "answered" ELSE "reading"
      /\ reader'.query = q /\ reader'.id = reader.id
      /\ reader'.got = T!Put(reader.got, p[m + 1], Rows(p[m + 1], reader.id))
      /\ reader' = [pc |-> reader'.pc, query |-> reader'.query, id |-> reader'.id,
                    got |-> reader'.got]
  BY <1>1, <1>2, <1>4 DEF q
<1>7. /\ DOMAIN reader'.got = DOMAIN reader.got \cup {p[m + 1]}
      /\ reader'.got[p[m + 1]] = Rows(p[m + 1], reader.id)
      /\ \A t \in DOMAIN reader.got \ {p[m + 1]} : reader'.got[t] = reader.got[t]
  BY <1>6 DEF T!Put
<1>8. ReaderInv'
  <2>1. \E n \in 0..Len(p) : /\ DOMAIN reader'.got = Asked(q, n)
                             /\ n = Len(p) <=> reader'.pc = "answered"
    <3>1. m + 1 \in 0..Len(p)
      BY <1>4, <1>5
    <3>2. DOMAIN reader'.got = Asked(q, m + 1)
      BY <1>3, <1>4, <1>5, <1>7
    <3>3. m + 1 = Len(p) <=> reader'.pc = "answered"
      BY <1>6
    <3>. QED  BY <3>1, <3>2, <3>3
  <2>. QED  BY <1>2, <1>6, <2>1 DEF ReaderInv, p, q
<1>9. m + 1 = Len(p) <=> reader'.pc = "answered"
  BY <1>6
<1>10. m + 1 <= Len(p)
  BY <1>4, <1>5
<1>11. \E n \in {1, 2, 3} :
              /\ n <= Len(p)
              /\ DOMAIN reader.got = Asked(q, n - 1)
              /\ DOMAIN reader'.got = DOMAIN reader.got \cup {p[n]}
              /\ reader'.got[p[n]] = Rows(p[n], reader.id)
              /\ \A t \in DOMAIN reader.got \ {p[n]} : reader'.got[t] = reader.got[t]
              /\ n = Len(p) <=> reader'.pc = "answered"
  <2>1. PICK n \in {1, 2, 3} : n = m + 1
    BY <1>5
  <2>2. DOMAIN reader.got = Asked(q, n - 1)
    BY <1>3, <1>5, <2>1
  <2>. QED  BY <1>7, <1>9, <1>10, <2>1, <2>2
<1>12. reader'.pc \in {"reading", "answered"}
  BY <1>6
<1>. QED  BY <1>1, <1>2, <1>6, <1>8, <1>11, <1>12 DEF p, q

\* The same, program by program.
Reads(table, before, last) ==
  /\ DOMAIN reader.got = before /\ DOMAIN reader'.got = before \cup {table}
  /\ reader'.got[table] = Rows(table, reader.id)
  /\ \A t \in before : reader'.got[t] = reader.got[t]
  /\ reader'.pc = IF last THEN "answered" ELSE "reading"

\* Each program reads its tables in its order, and answers after the last.
LEMMA ReadOrder ==
  ASSUME QueriesInv, Read
  PROVE  /\ reader.query = "context" => \/ Reads("recent", {}, FALSE)
                                        \/ Reads("summaries", {"recent"}, TRUE)
         /\ reader.query = "enrich" => Reads("mentioning", {}, TRUE)
         /\ reader.query = "history" => \/ Reads("scanned", {}, FALSE)
                                        \/ Reads("observations", {"scanned"}, TRUE)
         /\ reader.query = "timeline" => \/ Reads("observations", {}, FALSE)
                                         \/ Reads("memories", {"observations"}, TRUE)
         /\ reader.query = "export" => \/ Reads("memories", {}, FALSE)
                                       \/ Reads("sessions", {"memories"}, FALSE)
                                       \/ Reads("observations", {"memories", "sessions"}, TRUE)
         /\ reader.query = "verify" => \/ Reads("memory", {}, FALSE)
                                       \/ Reads("evidence", {"memory"}, FALSE)
                                       \/ Reads("audit", {"memory", "evidence"}, TRUE)
<1>. DEFINE p == Program(reader.query)
<1>1. PICK n \in {1, 2, 3} :
        /\ n <= Len(p)
        /\ DOMAIN reader.got = Asked(reader.query, n - 1)
        /\ DOMAIN reader'.got = DOMAIN reader.got \cup {p[n]}
        /\ reader'.got[p[n]] = Rows(p[n], reader.id)
        /\ \A t \in DOMAIN reader.got \ {p[n]} : reader'.got[t] = reader.got[t]
        /\ n = Len(p) <=> reader'.pc = "answered"
  BY ReadIs
<1>2. reader.query \in Open /\ reader'.pc \in {"reading", "answered"}
  BY ReadIs
<1>3. /\ Asked(reader.query, 0) = {} /\ Asked(reader.query, 1) = {p[1]}
      /\ Asked(reader.query, 2) = {p[1], p[2]}
  BY <1>2, AskedIs
<1>. HIDE DEF p
<1>4. CASE reader.query = "context"
  <2>1. Len(p) = 2 /\ p[1] = "recent" /\ p[2] = "summaries"
    BY <1>2, <1>4, ProgramSteps DEF p
  <2>. QED  BY <1>1, <1>2, <1>3, <1>4, <2>1 DEF Reads
<1>5. CASE reader.query = "enrich"
  <2>1. Len(p) = 1 /\ p[1] = "mentioning"
    BY <1>2, <1>5, ProgramSteps DEF p
  <2>. QED  BY <1>1, <1>2, <1>3, <1>5, <2>1 DEF Reads
<1>6. CASE reader.query = "history"
  <2>1. Len(p) = 2 /\ p[1] = "scanned" /\ p[2] = "observations"
    BY <1>2, <1>6, ProgramSteps DEF p
  <2>. QED  BY <1>1, <1>2, <1>3, <1>6, <2>1 DEF Reads
<1>7. CASE reader.query = "timeline"
  <2>1. Len(p) = 2 /\ p[1] = "observations" /\ p[2] = "memories"
    BY <1>2, <1>7, ProgramSteps DEF p
  <2>. QED  BY <1>1, <1>2, <1>3, <1>7, <2>1 DEF Reads
<1>8. CASE reader.query = "export"
  <2>1. Len(p) = 3 /\ p[1] = "memories" /\ p[2] = "sessions" /\ p[3] = "observations"
    BY <1>2, <1>8, ProgramSteps DEF p
  <2>. QED  BY <1>1, <1>2, <1>3, <1>8, <2>1 DEF Reads
<1>9. CASE reader.query = "verify"
  <2>1. Len(p) = 3 /\ p[1] = "memory" /\ p[2] = "evidence" /\ p[3] = "audit"
    BY <1>2, <1>9, ProgramSteps DEF p
  <2>. QED  BY <1>1, <1>2, <1>3, <1>9, <2>1 DEF Reads
<1>. QED  BY <1>2, <1>4, <1>5, <1>6, <1>7, <1>8, <1>9 DEF Open

\* What the next query of a read keeps.
LEMMA ReadShown ==
  ASSUME QueriesInv, Read
  PROVE  ShownInv'
<1>1. /\ since' = since /\ Current' = Current
      /\ reader.pc = "reading" /\ reader.query # "search" /\ ShownInv
  BY ReadIs DEF QueriesInv, ReaderInv, GotInv, db, memoryTables, Current
<1>2. PICK n \in {1, 2, 3} : LET table == Program(reader.query)[n] IN
        /\ DOMAIN reader'.got = DOMAIN reader.got \cup {table}
        /\ reader'.got[table] = Rows(table, reader.id)
        /\ \A t \in DOMAIN reader.got \ {table} : reader'.got[t] = reader.got[t]
  BY ReadIs
<1>. DEFINE table == Program(reader.query)[n]
<1>. HIDE DEF table
<1>3. /\ DOMAIN reader'.got = DOMAIN reader.got \cup {table}
      /\ reader'.got[table] = Rows(table, reader.id)
      /\ \A t \in DOMAIN reader.got \ {table} : reader'.got[t] = reader.got[t]
  BY <1>2 DEF table
<1>4. table \in {"recent", "mentioning", "scanned"} => reader'.got[table] \subseteq Current
  <2>1. \A ids : NewestMemories(ids) \subseteq ids
    BY DEF NewestMemories, Newest
  <2>2. Matching \subseteq Current
    BY DEF Matching
  <2>3. CASE table = "recent"
    <3>1. reader'.got[table] = NewestMemories(Current)
      BY <1>3, <2>3, RowsAre
    <3>. QED  BY <2>1, <3>1
  <2>4. CASE table = "mentioning"
    <3>1. reader'.got[table] = NewestMemories(Matching)
      BY <1>3, <2>4, RowsAre
    <3>. QED  BY <2>1, <2>2, <3>1
  <2>5. CASE table = "scanned"
    <3>1. reader'.got[table] = ScannedMemories
      BY <1>3, <2>5, RowsAre
    <3>2. \E ids : ScannedMemories = NewestMemories(ids \cap Matching)
      BY DEF ScannedMemories
    <3>. QED  BY <2>1, <2>2, <3>1, <3>2
  <2>. QED  BY <2>3, <2>4, <2>5
<1>5. since.hidden \cap Current = {}
  BY DEF QueriesInv, SinceInv
<1>. QED  BY <1>1, <1>3, <1>4, <1>5 DEF ShownInv

\* The observations read have no gap above the oldest of them.
LEMMA ReadSeen ==
  ASSUME QueriesInv, Read
  PROVE  SeenInv'
<1>1. /\ since' = since /\ observations' = observations
      /\ reader.pc = "reading" /\ reader.query # "search" /\ SeenInv
  BY ReadIs DEF QueriesInv, ReaderInv, GotInv, db, memoryTables
<1>2. PICK n \in {1, 2, 3} : LET table == Program(reader.query)[n] IN
        /\ DOMAIN reader'.got = DOMAIN reader.got \cup {table}
        /\ reader'.got[table] = Rows(table, reader.id)
        /\ \A t \in DOMAIN reader.got \ {table} : reader'.got[t] = reader.got[t]
  BY ReadIs
<1>. DEFINE table == Program(reader.query)[n]
<1>. HIDE DEF table
<1>3. /\ DOMAIN reader'.got = DOMAIN reader.got \cup {table}
      /\ reader'.got[table] = Rows(table, reader.id)
      /\ \A t \in DOMAIN reader.got \ {table} : reader'.got[t] = reader.got[t]
  BY <1>2 DEF table
<1>4. \A rows : SeenTimes(rows)' = SeenTimes(rows)
  BY <1>1 DEF SeenTimes
<1>5. ObservationTimes' = ObservationTimes
  BY <1>1 DEF ObservationTimes
<1>. SUFFICES ASSUME "observations" \in DOMAIN reader'.got PROVE SeenInv'
  BY DEF SeenInv
<1>. DEFINE rows == reader'.got["observations"]
<1>6. CASE table # "observations"
  <2>1. "observations" \in DOMAIN reader.got /\ rows = reader.got["observations"]
    BY <1>3, <1>6
  <2>. QED  BY <1>1, <1>4, <1>5, <2>1 DEF SeenInv
<1>7. CASE table = "observations"
  <2>1. rows = Newest(HereRows, ObservedAt, ReadLimit)
    BY <1>3, <1>7, RowsAre DEF HereRows
  <2>2. rows \subseteq HereRows /\ IsCutOf(SeenTimes(rows), ObservationTimes, ReadLimit)
    BY <2>1, ObservationTimesCut DEF QueriesInv
  <2>3. rows \subseteq DOMAIN observations
    BY <2>2 DEF HereRows
  <2>4. \A ts \in ObservationTimes :
          \/ ts \in SeenTimes(rows)
          \/ /\ Cardinality(SeenTimes(rows)) = ReadLimit /\ SeenTimes(rows) # {}
             /\ \A t \in SeenTimes(rows) : ts < t
    BY <2>2 DEF IsCutOf
  <2>. QED  BY <1>1, <1>4, <1>5, <2>3, <2>4 DEF SeenInv
<1>. QED  BY <1>6, <1>7

\* An export: the sessions of the memories read before are there, and what they
\* count is covered by the observations read after.
LEMMA ReadExport ==
  ASSUME QueriesInv, Read, reader.query = "export"
  PROVE  ExportInv' /\ ExportCloses'
<1>1. /\ UNCHANGED <<used, born, sessions, observations>>
      /\ reader.pc = "reading" /\ reader'.query = "export" /\ ExportInv
  BY ReadIs DEF QueriesInv, GotInv, db, memoryTables
<1>2. /\ SessionsHere' = SessionsHere
      /\ \A s : ObservationsOf(s)' = ObservationsOf(s)
      /\ \A s, rows : CutFromSessions(s, rows)' <=> CutFromSessions(s, rows)
  BY <1>1 DEF SessionsHere, ObservationsOf, CutFromSessions
<1>3. CASE Reads("memories", {}, FALSE)
  <2>1. reader'.got["memories"] \subseteq used
    <3>1. reader'.got["memories"] = NewestMemories(DOMAIN bank)
      BY <1>3, RowsAre DEF Reads
    <3>2. NewestMemories(DOMAIN bank) \subseteq DOMAIN bank
      BY DEF NewestMemories, Newest
    <3>. QED  BY <3>1, <3>2 DEF QueriesInv, StoreInv, TablesInv
  <2>2. DOMAIN reader'.got = {"memories"} /\ reader'.pc # "answered"
    BY <1>3 DEF Reads
  <2>. QED  BY <1>1, <2>1, <2>2 DEF ExportInv, ExportCloses, Answered
<1>4. CASE Reads("sessions", {"memories"}, FALSE)
  <2>1. /\ DOMAIN reader'.got = {"memories", "sessions"} /\ reader'.pc # "answered"
        /\ reader'.got["memories"] = reader.got["memories"]
        /\ reader'.got["sessions"] = Listed(ListSessions)
    BY <1>4, RowsAre DEF Reads
  <2>2. reader.got["memories"] \subseteq used
    BY <1>1, <1>4 DEF ExportInv, Reads
  <2>3. ASSUME NEW s \in SessionsHere
        PROVE  \/ s \in {row.id : row \in Listed(ListSessions)}
               \/ CutFromSessions(s, Listed(ListSessions))
    <3>1. CASE s \in ListSessions
      <4>1. [id |-> s, nObs |-> sessions[s].nObs] \in Listed(ListSessions)
        BY <3>1 DEF Listed
      <4>. QED  BY <4>1
    <3>2. CASE s \notin ListSessions
      BY <3>2, SessionsAreCut DEF QueriesInv
    <3>. QED  BY <3>1, <3>2
  <2>4. \A row \in Listed(ListSessions) :
          /\ row.nObs \in Nat /\ row.nObs <= Cardinality(ObservationsOf(row.id))
          /\ row.id \in DOMAIN sessions
    <3>1. ListSessions \subseteq DOMAIN sessions
      BY SessionsAreCut DEF QueriesInv, SessionsHere
    <3>. QED  BY <3>1 DEF Listed, QueriesInv, StoreInv, CountInv
  <2>. QED  BY <1>1, <1>2, <2>1, <2>2, <2>3, <2>4 DEF ExportInv, ExportCloses, Answered
<1>5. CASE Reads("observations", {"memories", "sessions"}, TRUE)
  <2>. DEFINE rows == reader'.got["observations"]
  <2>1. /\ DOMAIN reader'.got = {"memories", "sessions", "observations"}
        /\ reader'.got["memories"] = reader.got["memories"]
        /\ reader'.got["sessions"] = reader.got["sessions"]
        /\ rows = Newest(HereRows, ObservedAt, ReadLimit)
    BY <1>5, RowsAre DEF Reads, HereRows
  <2>2. "memories" \in DOMAIN reader.got /\ "sessions" \in DOMAIN reader.got
    BY <1>5 DEF Reads
  <2>3. ExportInv'
    BY <1>1, <1>2, <2>1, <2>2 DEF ExportInv
  <2>4. Cardinality(rows) # ReadLimit => rows = HereRows
    <3>1. /\ Cardinality(rows) <= ReadLimit /\ Cardinality(rows) \in Nat
          /\ Cardinality(rows) < ReadLimit => rows = HereRows
      BY <2>1, ObservationTimesCut DEF QueriesInv
    <3>2. ReadLimit \in Nat
      BY QueriesAssumption
    <3>. HIDE DEF rows
    <3>. QED  BY <3>1, <3>2
  <2>5. ASSUME Cardinality(rows) # ReadLimit, NEW row \in reader.got["sessions"]
        PROVE  row.nObs <= Cardinality({i \in {j \in DOMAIN observations :
                                                 observations[j].session = row.id} :
                                          observations[i].here => i \in rows})
    <3>1. {i \in {j \in DOMAIN observations : observations[j].session = row.id} :
             observations[i].here => i \in rows} = ObservationsOf(row.id)
      BY <2>4, <2>5 DEF HereRows, ObservationsOf
    <3>. QED  BY <1>1, <2>2, <3>1 DEF ExportInv
  <2>6. ExportCloses'
    BY <1>1, <1>2, <2>1, <2>2, <2>5 DEF ExportInv, ExportCloses
  <2>. QED  BY <2>3, <2>6
<1>. QED  BY <1>3, <1>4, <1>5, ReadOrder

\* memory_verify: the events that explain the row are read after it.
LEMMA ReadVerify ==
  ASSUME QueriesInv, Read, reader.query = "verify"
  PROVE  VerifyInv' /\ VerifyExplains'
<1>1. /\ UNCHANGED <<bank, used, born, audit>> /\ reader'.id = reader.id
      /\ reader.pc = "reading" /\ reader'.query = "verify" /\ VerifyInv
  BY ReadIs DEF QueriesInv, GotInv, db, memoryTables
<1>3. \A row, id : Explained(row, id)' <=> Explained(row, id)
  BY <1>1 DEF Explained, Logged
<1>4. CASE Reads("memory", {}, FALSE)
  <2>1. /\ DOMAIN reader'.got = {"memory"} /\ reader'.pc # "answered"
        /\ reader'.got["memory"] = {bank[i] : i \in {reader.id} \cap DOMAIN bank}
    BY <1>4, RowsAre DEF Reads
  <2>2. \A row \in reader'.got["memory"] : reader.id \in used /\ Explained(row, reader.id)
    BY <1>1, <2>1 DEF QueriesInv, StoreInv, TablesInv, AuditInv
  <2>. QED  BY <1>1, <1>3, <2>1, <2>2 DEF VerifyInv, VerifyExplains, Answered
<1>5. CASE Reads("evidence", {"memory"}, FALSE)
  <2>1. /\ "memory" \in DOMAIN reader.got /\ reader'.pc # "answered"
        /\ reader'.got["memory"] = reader.got["memory"]
    BY <1>5 DEF Reads
  <2>. QED  BY <1>1, <1>3, <2>1 DEF VerifyInv, VerifyExplains, Answered
<1>6. CASE Reads("audit", {"memory", "evidence"}, TRUE)
  <2>1. /\ "memory" \in DOMAIN reader.got
        /\ reader'.got["memory"] = reader.got["memory"]
        /\ reader'.got["audit"] = AuditEvents(reader.id)
    BY <1>6, RowsAre DEF Reads
  <2>2. \A row \in reader'.got["memory"] : reader.id \in used /\ Explained(row, reader.id)
    BY <1>1, <2>1 DEF VerifyInv
  <2>3. VerifyInv'
    BY <1>1, <1>3, <2>2 DEF VerifyInv
  <2>4. LET events == AuditEvents(reader.id)
            actions == {audit[i].action : i \in events}
        IN /\ Logged("update", reader.id) => "update" \in actions
           /\ Logged("supersede", reader.id) =>
                "supersede" \in actions \/ Cardinality(events) = VerifyLimit
    BY AuditIsCut DEF QueriesInv, Logged
  <2>5. VerifyExplains'
    BY <1>1, <2>1, <2>2, <2>4 DEF VerifyExplains, Explained
  <2>. QED  BY <2>3, <2>5
<1>. QED  BY <1>4, <1>5, <1>6, ReadOrder

\* What TimelineCuts says of one kind of rows.
CutAtAnEnd(lasting, times, listing) ==
  \A ts \in lasting \ listing :
    /\ Cardinality(listing) = ReadLimit
    /\ \/ \A x \in listing : x < ts
       \/ Cardinality(times) = ReadLimit /\ \A x \in times : ts < x

\* It says it of both.
LEMMA TwoKinds ==
  /\ TimelineCuts <=>
       (Answered("timeline") =>
          /\ CutAtAnEnd(Lasting(MemoryTimes), Remembered, Listing)
          /\ CutAtAnEnd(Lasting(ObservationTimes), Seen, Listing))
  /\ TimelineCuts' <=>
       (Answered("timeline")' =>
          /\ CutAtAnEnd(Lasting(MemoryTimes)', Remembered', Listing')
          /\ CutAtAnEnd(Lasting(ObservationTimes)', Seen', Listing'))
BY DEF TimelineCuts, CutAtAnEnd

\* A timeline: the observations read first and the memories after them.
LEMMA ReadTimeline ==
  ASSUME QueriesInv, Read, reader.query = "timeline"
  PROVE  TimelineCuts'
<1>1. /\ UNCHANGED <<bank, born, observations, since>>
      /\ reader.pc = "reading" /\ reader'.query = "timeline" /\ SeenInv
  BY ReadIs DEF QueriesInv, GotInv, db, memoryTables
<1>2. CASE Reads("observations", {}, FALSE)
  BY <1>2 DEF Reads, TimelineCuts, Answered
<1>3. CASE Reads("memories", {"observations"}, TRUE)
  <2>. DEFINE rows == reader.got["observations"]
              seen == SeenTimes(rows)
              memories == {born[id].ts : id \in NewestMemories(DOMAIN bank)}
              listed == Timeline(seen, memories)
  <2>1. /\ "observations" \in DOMAIN reader.got
        /\ reader'.got["observations"] = rows
        /\ reader'.got["memories"] = NewestMemories(DOMAIN bank)
    BY <1>3, RowsAre DEF Reads
  <2>2. /\ rows \subseteq DOMAIN observations
        /\ \A ts \in since.rows \cap ObservationTimes :
             \/ ts \in seen
             \/ /\ Cardinality(seen) = ReadLimit /\ seen # {}
                /\ \A t \in seen : ts < t
    BY <1>1, <2>1 DEF SeenInv
  <2>3. IsCutOf(memories, MemoryTimes, ReadLimit)
    BY MemoryTimesCut DEF QueriesInv
  <2>4. IsFiniteSet(seen) /\ seen \subseteq Nat
    <3>1. /\ Len(observations) \in Nat /\ DOMAIN observations = 1..Len(observations)
          /\ \A i \in DOMAIN observations : observations[i] \in Observation
      BY DEF QueriesInv, StoreInv, TablesInv
    <3>2. IsFiniteSet(1..Len(observations))
      BY <3>1, FS_Interval
    <3>3. IsFiniteSet(rows)
      BY <2>2, <3>1, <3>2, FS_Subset
    <3>4. [i \in rows |-> observations[i].ts] \in Surjection(rows, seen)
      BY DEF Surjection, SeenTimes
    <3>5. seen \subseteq Nat
      BY <2>2, <3>1 DEF SeenTimes, Observation
    <3>. HIDE DEF rows, seen
    <3>. QED  BY <3>3, <3>4, <3>5, FS_Surjection
  <2>5. /\ Seen' = seen /\ Remembered' = memories
        /\ Lasting(MemoryTimes)' = since.rows \cap MemoryTimes
        /\ Lasting(ObservationTimes)' = since.rows \cap ObservationTimes
    BY <1>1, <2>1 DEF Seen, Remembered, SeenTimes, Lasting, MemoryTimes, ObservationTimes
  <2>. HIDE DEF seen, memories
  <2>6. Listing' = listed
    BY <2>5 DEF Listing, Timeline, Oldest
  <2>7. /\ \A ts \in (seen \cup memories) \ listed :
             Cardinality(listed) = ReadLimit /\ \A x \in listed : x < ts
        /\ Cardinality(seen) = ReadLimit => Cardinality(listed) = ReadLimit
        /\ Cardinality(memories) = ReadLimit => Cardinality(listed) = ReadLimit
    BY <2>3, <2>4, TimelineIsCut DEF IsCutOf
  <2>. HIDE DEF listed
  <2>8. CutAtAnEnd(since.rows \cap ObservationTimes, seen, listed)
    BY <2>2, <2>7 DEF CutAtAnEnd
  <2>9. CutAtAnEnd(since.rows \cap MemoryTimes, memories, listed)
    BY <2>3, <2>7 DEF CutAtAnEnd, IsCutOf
  <2>. QED  BY <2>5, <2>6, <2>8, <2>9, TwoKinds
<1>. QED  BY <1>2, <1>3, ReadOrder

\* Every query of every program.
LEMMA ReadStays ==
  ASSUME QueriesInv, Read
  PROVE  QueriesInv'
<1>1. /\ reader.query \in Open /\ reader.query # "search" /\ reader'.query = reader.query
      /\ UNCHANGED <<db, since>> /\ reader'.pc \in {"reading", "answered"}
      /\ ReaderInv' /\ reader'.pc # "vector"
  BY ReadIs DEF Open
<1>2. StoreInv' /\ SinceInv' /\ LexicalInv'
  BY <1>1, StoreStays, SinceStays DEF QueriesInv, LexicalInv
<1>3. ShownInv' /\ SeenInv'
  BY ReadShown, ReadSeen
<1>4. GotInv'
  BY <1>1, <1>3, ReadExport, ReadVerify DEF GotInv
<1>5. FusionIsRight' /\ SteadyIsFound'
  BY <1>1 DEF FusionIsRight, SteadyIsFound, Answered
<1>6. ExportCloses'
  BY <1>1, ReadExport DEF ExportCloses, Answered
<1>7. VerifyExplains'
  BY <1>1, ReadVerify DEF VerifyExplains, Answered
<1>8. TimelineCuts'
  BY <1>1, ReadTimeline DEF TimelineCuts, Answered
<1>9. NothingHidden'
  <2>. SUFFICES ASSUME reader'.pc = "answered" PROVE NothingHidden'
    BY DEF NothingHidden, Answered
  <2>1. reader.query = "context" => "recent" \in DOMAIN reader'.got
    BY ReadOrder DEF Reads
  <2>2. /\ reader.query = "enrich" => "mentioning" \in DOMAIN reader'.got
        /\ reader.query = "history" => "scanned" \in DOMAIN reader'.got
    BY ReadOrder DEF Reads
  <2>. QED  BY <1>1, <1>3, <2>1, <2>2 DEF NothingHidden, Answered, ShownInv
<1>10. Answers'
  BY <1>5, <1>6, <1>7, <1>8, <1>9 DEF Answers
<1>. QED  BY <1>1, <1>2, <1>4, <1>10 DEF QueriesInv

\* Nor does anything change when nothing happens.
LEMMA StutterStays ==
  ASSUME QueriesInv, UNCHANGED vars
  PROVE  QueriesInv'
<1>. USE DEF vars, db, memoryTables
<1>1. StoreInv' /\ SinceInv'
  BY StoreStays, SinceStays DEF QueriesInv
<1>2. ReaderInv' /\ LexicalInv'
  BY DEF QueriesInv, ReaderInv, LexicalInv
<1>3. ShownInv => ShownInv'
  BY DEF ShownInv
<1>4. SeenInv => SeenInv'
  <2>1. ObservationTimes' = ObservationTimes /\ \A rows : SeenTimes(rows)' = SeenTimes(rows)
    BY DEF SeenTimes, ObservationTimes
  <2>2. since' = since /\ reader' = reader /\ observations' = observations
    OBVIOUS
  <2>. QED  BY <2>1, <2>2 DEF SeenInv
<1>5. ExportInv => ExportInv'
  BY DEF ExportInv, SessionsHere, ObservationsOf, CutFromSessions
<1>6. VerifyInv => VerifyInv'
  BY DEF VerifyInv, Explained, Logged
<1>7. GotInv'
  BY <1>3, <1>4, <1>5, <1>6 DEF QueriesInv, GotInv
<1>8. Answers'
  <2>1. /\ reader' = reader /\ since' = since
        /\ UNCHANGED <<bank, used, born, sessions, observations, audit>>
    OBVIOUS
  <2>2. SessionOf' = SessionOf /\ MemoryTimes' = MemoryTimes
    BY <2>1 DEF SessionOf, MemoryTimes
  <2>3. SessionsHere' = SessionsHere /\ ObservationTimes' = ObservationTimes
    BY <2>1 DEF SessionsHere, ObservationTimes
  <2>. USE DEF Answered
  <2>4. FusionIsRight' /\ SteadyIsFound'
    BY <2>1, <2>2 DEF QueriesInv, Answers, FusionIsRight, SteadyIsFound
  <2>5. NothingHidden'
    BY <2>1 DEF QueriesInv, Answers, NothingHidden
  <2>6. ExportCloses'
    BY <2>1, <2>3 DEF QueriesInv, Answers, ExportCloses, CutFromSessions
  <2>7. VerifyExplains'
    BY <2>1 DEF QueriesInv, Answers, VerifyExplains
  <2>8. TimelineCuts'
    <3>1. /\ Seen' = Seen /\ Remembered' = Remembered /\ Listing' = Listing
          /\ Lasting(MemoryTimes)' = Lasting(MemoryTimes)
          /\ Lasting(ObservationTimes)' = Lasting(ObservationTimes)
      BY <2>1, <2>2, <2>3 DEF Seen, Remembered, Listing, Timeline, Oldest, Lasting
    <3>2. Answered("timeline")' <=> Answered("timeline")
      BY <2>1
    <3>3. TimelineCuts
      BY DEF QueriesInv, Answers
    <3>. QED  BY <3>1, <3>2, <3>3, TwoKinds
  <2>. QED  BY <2>4, <2>5, <2>6, <2>7, <2>8 DEF Answers
<1>. QED  BY <1>1, <1>2, <1>7, <1>8 DEF QueriesInv
------------------------------------------------------------------------------
\* Whatever the tools and hooks write between the queries of a read: the
\* tables, the query under way and what it has read stay as QueriesInv says.
THEOREM QueriesInvariant == Spec => []QueriesInv
<1>1. Init => QueriesInv
  BY InitQueries
<1>2. QueriesInv /\ [Next]_vars => QueriesInv'
  <2>. SUFFICES ASSUME QueriesInv, [Next]_vars PROVE QueriesInv'
    OBVIOUS
  <2>1. CASE UNCHANGED vars
    BY <2>1, StutterStays
  <2>2. CASE Next
    BY <2>2, WriteStays, AskStays, LexicalStays, VectorStays, HybridFailsStays,
       FallbackStays, ReadStays, FinishStays DEF Next
  <2>. QED  BY <2>1, <2>2
<1>. QED  BY <1>1, <1>2, PTL DEF Spec

\* FuseRRF, for the two lists of a search between which anything was written.
THEOREM FusionIsRightHolds == Spec => []FusionIsRight
BY QueriesInvariant, PTL DEF QueriesInv, Answers

\* No answer shows a memory that was superseded or deleted before the question.
THEOREM NothingHiddenHolds == Spec => []NothingHidden
BY QueriesInvariant, PTL DEF QueriesInv, Answers

\* A memory that matches all through a search is found, or crowded out.
THEOREM SteadyIsFoundHolds == Spec => []SteadyIsFound
BY QueriesInvariant, PTL DEF QueriesInv, Answers

\* An export read in three snapshots refers to nothing that it does not hold but
\* for the sessions cut from its list, whatever the three limits are.
THEOREM ExportClosesHolds == Spec => []ExportCloses
BY QueriesInvariant, PTL DEF QueriesInv, Answers

\* memory_verify has the events that explain the row it has read before them.
THEOREM VerifyExplainsHolds == Spec => []VerifyExplains
BY QueriesInvariant, PTL DEF QueriesInv, Answers

\* A timeline merged from two snapshots leaves out rows at its two ends only, and
\* none unless it is full.
THEOREM TimelineCutsHolds == Spec => []TimelineCuts
BY QueriesInvariant, PTL DEF QueriesInv, Answers
=============================================================================
