----------------------------- MODULE OrdersProofs -----------------------------
(***************************************************************************)
(* What the operators of Orders return, for every finite set of numbers    *)
(* and every sequence.                                                     *)
(***************************************************************************)
EXTENDS Orders, FiniteSetTheorems, TLAPS

\* A function on 1..n is a sequence.
LEMMA FunctionIsSeq ==
    ASSUME NEW S, NEW n \in Nat, NEW r \in [1..n -> S]
    PROVE  r \in Seq(S) /\ Len(r) = n
OBVIOUS

\* A greater member has a greater rank, and ranks are places.
LEMMA RankGrows ==
    ASSUME NEW I \in SUBSET Nat, IsFiniteSet(I)
    PROVE  /\ \A i \in I : Rank(I, i) \in 1..Cardinality(I)
           /\ \A i, j \in I : i < j => Rank(I, i) < Rank(I, j)
<1> DEFINE Below(i) == {j \in I : j <= i}
<1>1. \A i \in I : /\ IsFiniteSet(Below(i)) /\ Cardinality(Below(i)) \in Nat
                   /\ Cardinality(Below(i)) <= Cardinality(I)
  <2> SUFFICES ASSUME NEW i \in I
               PROVE  /\ IsFiniteSet(Below(i)) /\ Cardinality(Below(i)) \in Nat
                      /\ Cardinality(Below(i)) <= Cardinality(I)
    OBVIOUS
  <2>1. Below(i) \subseteq I  OBVIOUS
  <2>2. IsFiniteSet(Below(i)) /\ Cardinality(Below(i)) <= Cardinality(I)  BY <2>1, FS_Subset
  <2> QED BY <2>2, FS_CardinalityType
<1>2. Cardinality(I) \in Nat  BY FS_CardinalityType
<1>3. ASSUME NEW i \in I  PROVE Rank(I, i) \in 1..Cardinality(I)
  <2>1. Below(i) # {}  OBVIOUS
  <2>2. Cardinality(Below(i)) # 0  BY <2>1, <1>1, FS_EmptySet
  <2> QED BY <2>2, <1>1, <1>2 DEF Rank
<1>4. ASSUME NEW i \in I, NEW j \in I, i < j  PROVE Rank(I, i) < Rank(I, j)
  <2>1. Below(i) \subseteq Below(j) /\ Below(i) # Below(j)
    <3>1. \A k \in I : k <= i => k <= j  BY <1>4
    <3>2. j \in Below(j) /\ j \notin Below(i)
      <4>1. j <= j /\ ~(j <= i)
        <5>1. i \in Nat /\ j \in Nat  OBVIOUS
        <5> QED BY <5>1, <1>4
      <4> QED BY <4>1
    <3>3. Below(i) \subseteq Below(j)  BY <3>1
    <3> QED BY <3>2, <3>3
  <2>2. Cardinality(Below(i)) <= Cardinality(Below(j))  BY <2>1, <1>1, FS_Subset
  <2>3. Cardinality(Below(i)) # Cardinality(Below(j))  BY <2>1, <1>1, FS_Subset
  <2> QED BY <2>2, <2>3, <1>1 DEF Rank
<1> QED BY <1>3, <1>4

\* Sorted(I) lists the members of I, each once, in increasing order.
LEMMA SortedIs ==
    ASSUME NEW I \in SUBSET Nat, IsFiniteSet(I)
    PROVE  /\ Sorted(I) \in Seq(I) /\ Len(Sorted(I)) = Cardinality(I)
           /\ \A m, n \in DOMAIN Sorted(I) : m < n => Sorted(I)[m] < Sorted(I)[n]
           /\ \A i \in I : \E k \in DOMAIN Sorted(I) : Sorted(I)[k] = i
<1> DEFINE n == Cardinality(I)
           f == [i \in I |-> Rank(I, i)]
<1>1. n \in Nat  BY FS_CardinalityType
<1>2. f \in Injection(I, 1..n)
  <2>1. f \in [I -> 1..n]  BY RankGrows
  <2>2. \A i, j \in I : f[i] = f[j] => i = j
    <3> SUFFICES ASSUME NEW i \in I, NEW j \in I, i # j  PROVE f[i] # f[j]
      OBVIOUS
    <3>1. i < j \/ j < i  OBVIOUS
    <3>2. f[i] \in Nat /\ f[j] \in Nat  BY <2>1, <1>1
    <3> QED BY <3>1, <3>2, RankGrows
  <2> QED BY <2>1, <2>2 DEF Injection, IsInjective
<1>3. IsFiniteSet(1..n) /\ Cardinality(1..n) = n  BY <1>1, FS_Interval
<1>4. f \in Surjection(I, 1..n)
  BY <1>1, <1>2, <1>3, FS_Injection
<1>5. \A k \in 1..n : \E i \in I : Rank(I, i) = k
  BY <1>4 DEF Surjection
<1> DEFINE s == Sorted(I)
<1>6. s = [k \in 1..n |-> CHOOSE i \in I : Rank(I, i) = k]  BY DEF Sorted
<1>7. \A k \in 1..n : s[k] \in I /\ Rank(I, s[k]) = k  BY <1>5, <1>6
<1>8. DOMAIN s = 1..n  BY <1>6
<1>9. s \in Seq(I) /\ Len(s) = n
  <2> HIDE DEF s, n
  <2>1. s \in [1..n -> I]  BY <1>6, <1>7
  <2> QED BY <2>1, <1>1
<1>10. ASSUME NEW k \in 1..n, NEW m \in 1..n, k < m  PROVE s[k] < s[m]
  <2>1. s[k] \in I /\ s[m] \in I /\ Rank(I, s[k]) = k /\ Rank(I, s[m]) = m  BY <1>7
  <2>2. s[k] \in Nat /\ s[m] \in Nat  BY <2>1
  <2>3. ~(s[m] < s[k])
    <3>1. s[m] < s[k] => Rank(I, s[m]) < Rank(I, s[k])  BY <2>1, RankGrows
    <3> HIDE DEF s
    <3>2. k \in Nat /\ m \in Nat  BY <1>1
    <3> QED BY <3>1, <3>2, <2>1, <1>10
  <2>4. s[m] # s[k]
    <3> HIDE DEF s
    <3>1. k # m  BY <1>1, <1>10
    <3> QED BY <3>1, <2>1
  <2> HIDE DEF s
  <2> QED BY <2>2, <2>3, <2>4
<1>11. ASSUME NEW i \in I  PROVE \E k \in 1..n : s[k] = i
  <2>1. Rank(I, i) \in 1..n  BY RankGrows
  <2>2. s[Rank(I, i)] \in I /\ Rank(I, s[Rank(I, i)]) = Rank(I, i)  BY <2>1, <1>7
  <2>3. s[Rank(I, i)] = i  BY <2>2, <1>2 DEF Injection, IsInjective
  <2> QED BY <2>1, <2>3
<1> QED BY <1>8, <1>9, <1>10, <1>11

\* What lists the members of I, each once, in increasing order is Sorted(I).
LEMMA SortedUnique ==
    ASSUME NEW I \in SUBSET Nat, NEW m \in Nat, NEW e \in [1..m -> I],
           \A a, b \in 1..m : a < b => e[a] < e[b], \A i \in I : \E a \in 1..m : e[a] = i
    PROVE  IsFiniteSet(I) /\ Cardinality(I) = m /\ Sorted(I) = e
<1>1. \A a, b \in 1..m : a < b => e[a] < e[b]
  OBVIOUS
<1>2. \A a \in 1..m : e[a] \in I /\ e[a] \in Nat
  OBVIOUS
<1>3. \A a, b \in 1..m : e[a] <= e[b] <=> a <= b
  <2> SUFFICES ASSUME NEW a \in 1..m, NEW b \in 1..m PROVE e[a] <= e[b] <=> a <= b
    OBVIOUS
  <2>1. a < b => e[a] < e[b]
    BY <1>1
  <2>2. b < a => e[b] < e[a]
    BY <1>1
  <2>3. e[a] \in Nat /\ e[b] \in Nat
    BY <1>2
  <2> QED
    BY <2>1, <2>2, <2>3
<1>4. ASSUME NEW a \in 1..m PROVE Rank(I, e[a]) = a
  <2> DEFINE J == {j \in I : j <= e[a]}
             f == [b \in 1..a |-> e[b]]
  <2>1. a \in Nat /\ a <= m /\ \A b \in 1..a : b \in 1..m /\ b <= a
    OBVIOUS
  <2>2. \A b \in 1..a : e[b] \in J
    BY <1>2, <1>3, <2>1
  <2>3. \A b, c \in 1..a : e[b] = e[c] => b = c
    <3> SUFFICES ASSUME NEW b \in 1..a, NEW c \in 1..a, e[b] = e[c] PROVE b = c
      OBVIOUS
    <3>1. b <= c /\ c <= b
      BY <1>2, <1>3, <2>1
    <3> QED
      BY <3>1
  <2>4. \A j \in J : \E b \in 1..a : e[b] = j
    <3> SUFFICES ASSUME NEW j \in J PROVE \E b \in 1..a : e[b] = j
      OBVIOUS
    <3>1. PICK b \in 1..m : e[b] = j
      OBVIOUS
    <3>2. b <= a
      BY <1>3, <3>1
    <3>3. b \in 1..a
      BY <2>1, <3>2
    <3> QED
      BY <3>1, <3>3
  <2> HIDE DEF J
  <2>5. f \in Bijection(1..a, J)
    BY <2>2, <2>3, <2>4 DEF Bijection, Injection, Surjection, IsInjective
  <2>6. IsFiniteSet(1..a) /\ Cardinality(1..a) = a
    <3>1. a = a - 1 + 1 /\ 1 \in Int /\ a \in Int
      BY <2>1
    <3> QED
      BY <2>1, <3>1, FS_Interval
  <2>7. Cardinality(J) = a
    <3> HIDE DEF f
    <3> QED
      BY <2>5, <2>6, FS_Bijection DEF ExistsBijection
  <2> QED
    BY <2>7 DEF Rank, J
<1>5. \A i \in I : Rank(I, i) \in 1..m /\ e[Rank(I, i)] = i
  BY <1>4
<1>6. IsFiniteSet(I) /\ Cardinality(I) = m
  <2>1. \A a, b \in 1..m : e[a] = e[b] => a = b
    BY <1>4
  <2>2. e \in Bijection(1..m, I)
    BY <2>1 DEF Bijection, Injection, Surjection, IsInjective
  <2>3. IsFiniteSet(1..m) /\ Cardinality(1..m) = m
    BY FS_Interval
  <2> QED
    BY <2>2, <2>3, FS_Bijection DEF ExistsBijection
<1>7. \A a \in 1..m : (CHOOSE i \in I : Rank(I, i) = a) = e[a]
  <2> SUFFICES ASSUME NEW a \in 1..m PROVE (CHOOSE i \in I : Rank(I, i) = a) = e[a]
    OBVIOUS
  <2>1. e[a] \in I /\ Rank(I, e[a]) = a
    BY <1>2, <1>4
  <2>2. \A i \in I : Rank(I, i) = a => i = e[a]
    BY <1>5
  <2> QED
    BY <2>1, <2>2
<1>8. Sorted(I) = [a \in 1..m |-> e[a]]
  BY <1>6, <1>7 DEF Sorted
<1> QED
  BY <1>6, <1>8

\* Where the elements of Only(s, S) are in s.
Places(s, S) == Sorted({i \in DOMAIN s : s[i] \in S})

\* Only(s, S) is the elements of s in S: each place of s with one is there
\* once, in the order of s.
LEMMA OnlyIs ==
    ASSUME NEW A, NEW s \in Seq(A), NEW S
    PROVE  /\ Only(s, S) \in Seq(A)
           /\ Places(s, S) \in Seq(DOMAIN s) /\ DOMAIN Only(s, S) = DOMAIN Places(s, S)
           /\ \A k \in DOMAIN Only(s, S) :
                /\ Places(s, S)[k] \in DOMAIN s
                /\ Only(s, S)[k] = s[Places(s, S)[k]] /\ Only(s, S)[k] \in S
           /\ \A k, m \in DOMAIN Only(s, S) : k < m => Places(s, S)[k] < Places(s, S)[m]
           /\ \A i \in DOMAIN s : s[i] \in S =>
                \E k \in DOMAIN Only(s, S) : Places(s, S)[k] = i
<1> DEFINE I == {i \in DOMAIN s : s[i] \in S}
           p == Places(s, S)
           r == Only(s, S)
<1>1. Len(s) \in Nat /\ DOMAIN s = 1..Len(s)  OBVIOUS
<1>2. I \in SUBSET Nat /\ IsFiniteSet(I)
  <2>1. IsFiniteSet(1..Len(s))  BY <1>1, FS_Interval
  <2> QED BY <1>1, <2>1, FS_Subset
<1>3. p = Sorted(I)  BY DEF Places
<1>4. /\ p \in Seq(I)
      /\ \A m, n \in DOMAIN p : m < n => p[m] < p[n]
      /\ \A i \in I : \E k \in DOMAIN p : p[k] = i
  <2> HIDE DEF I, p
  <2> QED BY <1>2, <1>3, SortedIs
<1>5. r = [k \in DOMAIN p |-> s[p[k]]]  BY DEF Only, Places
<1> HIDE DEF p, r
<1>6. \A k \in DOMAIN p : p[k] \in I  BY <1>4
<1>7. DOMAIN p = 1..Len(p) /\ Len(p) \in Nat  BY <1>4
<1>8. p \in Seq(DOMAIN s)
  <2>1. p \in [1..Len(p) -> DOMAIN s]  BY <1>4, <1>6, <1>7
  <2> QED BY <2>1, <1>7
<1>9. \A k \in DOMAIN r : p[k] \in DOMAIN s /\ r[k] = s[p[k]] /\ r[k] \in S
  BY <1>5, <1>6
<1>10. r \in Seq(A)
  <2>1. \A k \in DOMAIN p : s[p[k]] \in A  BY <1>6
  <2>2. r \in [1..Len(p) -> A]  BY <2>1, <1>5, <1>7
  <2> QED BY <2>2, <1>7
<1> QED
  <2>1. DOMAIN r = DOMAIN p  BY <1>5
  <2>2. \A i \in DOMAIN s : s[i] \in S => i \in I  OBVIOUS
  <2> HIDE DEF I
  <2> QED BY <1>4, <1>8, <1>9, <1>10, <2>1, <2>2 DEF p, r


------------------------------------------------------------------------------
(* Induction and recursion over numbers.                                   *)

\* A set of numbers that is not empty has a least member.
LEMMA LeastMember ==
    ASSUME NEW I \in SUBSET Nat, I # {}
    PROVE  \E m \in I : \A i \in I : m <= i
<1>1. PICK n \in I : TRUE  OBVIOUS
<1> DEFINE J == {i \in I : i <= n}
<1>2. J \in SUBSET Nat /\ IsFiniteSet(J) /\ J # {}
  <2>1. n \in Nat  OBVIOUS
  <2>2. n <= n  BY <2>1
  <2>3. IsFiniteSet(0..n)  BY <2>1, FS_Interval
  <2>4. J \subseteq 0..n
    <3>1. \A i \in Nat : i <= n => i \in 0..n  BY <2>1
    <3> QED BY <3>1
  <2> QED BY <2>2, <2>3, <2>4, FS_Subset
<1> HIDE DEF J
<1>3. PICK k \in DOMAIN Sorted(J) : TRUE  BY <1>2, SortedIs
<1>4. Sorted(J) \in Seq(J)  BY <1>2, SortedIs
<1>5. 1 \in DOMAIN Sorted(J) /\ Sorted(J)[1] \in J  BY <1>3, <1>4
<1>6. \A j \in J : Sorted(J)[1] <= j
  <2> SUFFICES ASSUME NEW j \in J PROVE Sorted(J)[1] <= j
    OBVIOUS
  <2>1. PICK m \in DOMAIN Sorted(J) : Sorted(J)[m] = j  BY <1>2, SortedIs
  <2>2. m = 1 \/ 1 < m  BY <1>4, <2>1
  <2>3. 1 < m => Sorted(J)[1] < j  BY <1>2, <1>5, <2>1, SortedIs
  <2>4. j \in Nat /\ Sorted(J)[1] \in Nat  BY <1>2, <1>5
  <2>5. m = 1 => Sorted(J)[1] = j  BY <2>1
  <2> QED BY <2>2, <2>3, <2>4, <2>5
<1> DEFINE m == Sorted(J)[1]
<1>7. m \in I /\ m \in Nat /\ m <= n  BY <1>5 DEF J
<1>8. \A i \in I : m <= i
  <2> SUFFICES ASSUME NEW i \in I PROVE m <= i
    OBVIOUS
  <2>1. i \in J \/ i > n  BY DEF J
  <2>2. n \in Nat /\ i \in Nat  OBVIOUS
  <2> HIDE DEF m
  <2>3. i \in J => m <= i  BY <1>6 DEF m
  <2> QED BY <1>7, <2>1, <2>2, <2>3
<1> QED BY <1>7, <1>8

\* A finite set of numbers that is not empty has a greatest member.
LEMMA GreatestMember ==
    ASSUME NEW n \in Nat, NEW I \in SUBSET (0..n), I # {}
    PROVE  \E m \in I : \A i \in I : i <= m
<1> DEFINE J == {n - i : i \in I}
<1>1. J \in SUBSET Nat /\ J # {}
  <2>1. \A i \in I : i \in 0..n  OBVIOUS
  <2>2. \A i \in 0..n : n - i \in Nat  OBVIOUS
  <2> QED BY <2>1, <2>2
<1>2. PICK k \in J : \A j \in J : k <= j
  <2> HIDE DEF J
  <2> QED BY <1>1, LeastMember
<1>3. PICK m \in I : k = n - m  OBVIOUS
<1>4. \A i \in I : n - m <= n - i  BY <1>2, <1>3
<1> QED BY <1>4

\* Induction up to n: what holds of 0, and of a number when of the one before.
LEMMA Induction ==
    ASSUME NEW n \in Nat, NEW I, 0 \in I, \A i \in 1..n : i - 1 \in I => i \in I
    PROVE  \A i \in 0..n : i \in I
<1> DEFINE J == {i \in 0..n : i \notin I}
<1> SUFFICES ASSUME J # {} PROVE FALSE
  OBVIOUS
<1>1. J \in SUBSET Nat  OBVIOUS
<1>2. PICK m \in J : \A j \in J : m <= j
  <2> HIDE DEF J
  <2> QED BY <1>1, LeastMember
<1>3. m \in 0..n /\ m \notin I  OBVIOUS
<1>4. m # 0 /\ m \in 1..n /\ m - 1 \in 0..n  BY <1>3
<1>5. m - 1 \notin J  BY <1>2, <1>4
<1>6. m - 1 \in I  BY <1>4, <1>5
<1> QED BY <1>3, <1>4, <1>6

\* Recursion up to n: each value is the step from the one before.
Steps(f, m, V, v, step) ==
    f \in [0..m -> V] /\ f[0] = v /\ \A i \in 1..m : f[i] = step[i][f[i - 1]]

LEMMA OneStepMore ==
    ASSUME NEW V, NEW v \in V, NEW m \in Nat, m > 0, NEW step, step[m] \in [V -> V],
           NEW f, Steps(f, m - 1, V, v, step)
    PROVE  \E g : Steps(g, m, V, v, step)
<1> DEFINE x == step[m][f[m - 1]]
           g == [i \in 0..m |-> IF i = m THEN x ELSE f[i]]
<1>1. f \in [0..(m - 1) -> V] /\ f[0] = v /\ \A i \in 1..(m - 1) : f[i] = step[i][f[i - 1]]
  BY DEF Steps
<1>2. m - 1 \in 0..(m - 1)  OBVIOUS
<1>3. f[m - 1] \in V  BY <1>1, <1>2
<1>4. x \in V  BY <1>3
<1> HIDE DEF x
<1>5. \A i \in 0..m : i = m \/ i \in 0..(m - 1)  OBVIOUS
<1>6. g \in [0..m -> V]  BY <1>1, <1>4, <1>5
<1>7. g[m] = x /\ \A i \in 0..(m - 1) : g[i] = f[i]  OBVIOUS
<1> HIDE DEF g
<1>8. g[0] = v  BY <1>1, <1>7
<1>9. ASSUME NEW i \in 1..m PROVE g[i] = step[i][g[i - 1]]
  <2>1. i - 1 \in 0..(m - 1) /\ g[i - 1] = f[i - 1]  BY <1>7
  <2>2. CASE i = m  BY <1>7, <2>1, <2>2 DEF x
  <2>3. CASE i # m
    <3>1. i \in 1..(m - 1) /\ i \in 0..(m - 1)  BY <2>3
    <3> QED BY <1>1, <1>7, <2>1, <3>1
  <2> QED BY <2>2, <2>3
<1> QED BY <1>6, <1>8, <1>9 DEF Steps

LEMMA Recursion ==
    ASSUME NEW n \in Nat, NEW V, NEW v \in V, NEW step \in [1..n -> [V -> V]]
    PROVE  \E f : Steps(f, n, V, v, step)
<1> DEFINE I == {m \in 0..n : \E f : Steps(f, m, V, v, step)}
<1>1. 0 \in I
  <2> DEFINE g == [i \in 0..0 |-> v]
  <2>1. g \in [0..0 -> V] /\ g[0] = v /\ 1..0 = {}  OBVIOUS
  <2> HIDE DEF g
  <2>2. Steps(g, 0, V, v, step)  BY <2>1 DEF Steps
  <2> QED BY <2>2
<1>2. ASSUME NEW m \in 1..n, m - 1 \in I PROVE m \in I
  <2>1. PICK f : Steps(f, m - 1, V, v, step)  BY <1>2
  <2>2. m \in Nat /\ m > 0 /\ step[m] \in [V -> V]  OBVIOUS
  <2>3. \E g : Steps(g, m, V, v, step)  BY <2>1, <2>2, OneStepMore
  <2> QED BY <2>3
<1>3. n \in I
  <2> HIDE DEF I
  <2>1. \A i \in 0..n : i \in I  BY <1>1, <1>2, Induction
  <2> QED BY <2>1
<1> QED BY <1>3

==============================================================================
