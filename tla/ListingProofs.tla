---------------------------- MODULE ListingProofs ----------------------------
(***************************************************************************)
(* The order of strings, the bounds of a prefix, and what one page of the  *)
(* listing engine takes from the keys that are there, for any characters,  *)
(* keys and queries.                                                       *)
(***************************************************************************)
EXTENDS Listing, OrdersProofs, SequenceTheorems

------------------------------------------------------------------------------
(* Prefixes and the order.                                                 *)

LEMMA StringIs ==
    ASSUME NEW s \in Strings
    PROVE  /\ s \in Seq(Nat) /\ Len(s) \in Nat /\ DOMAIN s = 1..Len(s)
           /\ \A i \in 1..Len(s) : s[i] \in Scalars /\ s[i] \in Nat
<1>1. Len(s) \in Nat /\ DOMAIN s = 1..Len(s) /\ \A i \in 1..Len(s) : s[i] \in Scalars
  BY DEF Strings
<1>2. \A i \in 1..Len(s) : s[i] \in Nat
  BY <1>1, ScalarsAssumption
<1>3. s \in [1..Len(s) -> Nat]
  BY <1>1, <1>2 DEF Strings
<1> QED
  BY <1>1, <1>2, <1>3, FunctionIsSeq

\* s begins with p, one by one.
LEMMA PrefixIs ==
    ASSUME NEW S, NEW p \in Seq(S), NEW s \in Seq(S)
    PROVE  IsPrefix(p, s) <=> Len(p) <= Len(s) /\ \A i \in 1..Len(p) : p[i] = s[i]
<1>1. Len(p) \in Nat /\ Len(s) \in Nat
  OBVIOUS
<1>2. ASSUME Len(p) <= Len(s)
      PROVE  /\ SubSeq(p, 1, Len(p)) \in Seq(S) /\ Len(SubSeq(p, 1, Len(p))) = Len(p)
             /\ SubSeq(s, 1, Len(p)) \in Seq(S) /\ Len(SubSeq(s, 1, Len(p))) = Len(p)
             /\ \A i \in 1..Len(p) : SubSeq(p, 1, Len(p))[i] = p[i] /\ SubSeq(s, 1, Len(p))[i] = s[i]
  BY <1>1, <1>2
<1>3. ASSUME Len(p) <= Len(s), \A i \in 1..Len(p) : p[i] = s[i]
      PROVE  SubSeq(p, 1, Len(p)) = SubSeq(s, 1, Len(p))
  <2> DEFINE a == SubSeq(p, 1, Len(p))
             b == SubSeq(s, 1, Len(p))
  <2>1. a \in Seq(S) /\ b \in Seq(S) /\ Len(a) = Len(b) /\ \A i \in 1..Len(a) : a[i] = b[i]
    BY <1>2, <1>3
  <2> HIDE DEF a, b
  <2>2. a = b
    BY <2>1, SeqEqual
  <2> QED
    BY <2>2 DEF a, b
<1>4. ASSUME Len(p) <= Len(s), SubSeq(p, 1, Len(p)) = SubSeq(s, 1, Len(p)), NEW i \in 1..Len(p)
      PROVE  p[i] = s[i]
  BY <1>2, <1>4
<1> QED
  BY <1>3, <1>4 DEF IsPrefix

\* s and t agree on n characters, and there s ends or is lower.
Parts(s, t, n) ==
    /\ n <= Len(s) /\ n < Len(t)
    /\ \A i \in 1..n : s[i] = t[i]
    /\ n = Len(s) \/ s[n + 1] < t[n + 1]

LEMMA LessIs ==
    ASSUME NEW s \in Seq(Nat), NEW t \in Seq(Nat)
    PROVE  Less(s, t) <=> \E n \in Nat : Parts(s, t, n)
<1>0. DOMAIN s = 1..Len(s) /\ DOMAIN t = 1..Len(t)
  OBVIOUS
<1>1. Len(s) \in Nat /\ Len(t) \in Nat
  OBVIOUS
<1>2. ASSUME IsStrictPrefix(s, t) PROVE Parts(s, t, Len(s))
  <2>1. Len(s) <= Len(t) /\ s # t /\ \A i \in 1..Len(s) : s[i] = t[i]
    BY <1>2, PrefixIs DEF IsStrictPrefix
  <2>2. Len(s) # Len(t)
    BY <2>1, SeqEqual
  <2>3. Len(s) < Len(t) /\ Len(s) <= Len(s)
    BY <1>1, <2>1, <2>2
  <2> QED
    BY <2>1, <2>3 DEF Parts
<1>3. ASSUME NEW i \in DOMAIN s \intersect DOMAIN t, s[i] < t[i], \A j \in 1..(i - 1) : s[j] = t[j]
      PROVE  i - 1 \in Nat /\ Parts(s, t, i - 1)
  BY <1>0, <1>1, <1>3 DEF Parts
<1>4. ASSUME NEW n \in Nat, Parts(s, t, n) PROVE Less(s, t)
  <2>1. CASE n = Len(s)
    <3>1. IsPrefix(s, t)
      BY <1>1, <1>4, <2>1, PrefixIs DEF Parts
    <3>2. s # t
      BY <1>1, <1>4, <2>1 DEF Parts
    <3> QED
      BY <3>1, <3>2 DEF Less, IsStrictPrefix
  <2>2. CASE n # Len(s)
    <3>0. n <= Len(s) /\ n < Len(t)
      BY <1>4 DEF Parts
    <3>1. n + 1 \in DOMAIN s \intersect DOMAIN t /\ n + 1 - 1 = n
      <4>1. n < Len(s)
        BY <1>1, <2>2, <3>0
      <4>2. n + 1 \in 1..Len(s) /\ n + 1 \in 1..Len(t)
        BY <1>1, <3>0, <4>1
      <4> QED
        BY <1>0, <4>2
    <3>2. s[n + 1] < t[n + 1] /\ \A j \in 1..(n + 1 - 1) : s[j] = t[j]
      BY <1>4, <2>2, <3>1 DEF Parts
    <3> QED
      BY <3>1, <3>2 DEF Less
  <2> QED
    BY <2>1, <2>2
<1> QED
  BY <1>1, <1>2, <1>3, <1>4 DEF Less

LEMMA LessIrreflexive ==
    ASSUME NEW s \in Seq(Nat)
    PROVE  ~Less(s, s)
<1>1. ASSUME NEW n \in Nat, Parts(s, s, n) PROVE FALSE
  <2>1. n + 1 \in 1..Len(s)
    BY <1>1 DEF Parts
  <2>2. s[n + 1] \in Nat
    BY <2>1
  <2> QED
    BY <1>1, <2>1, <2>2 DEF Parts
<1> QED
  BY <1>1, LessIs

LEMMA LessTransitive ==
    ASSUME NEW s \in Seq(Nat), NEW t \in Seq(Nat), NEW u \in Seq(Nat), Less(s, t), Less(t, u)
    PROVE  Less(s, u)
<1> DEFINE x == Len(s)
           y == Len(t)
           z == Len(u)
<1>1. PICK m \in Nat : Parts(s, t, m)
  BY LessIs
<1>2. PICK n \in Nat : Parts(t, u, n)
  BY LessIs
<1>3. x \in Nat /\ y \in Nat /\ z \in Nat
  OBVIOUS
<1>4. \A i \in 1..y : t[i] \in Nat
  OBVIOUS
<1>5. \A i \in 1..x : s[i] \in Nat
  OBVIOUS
<1>6. \A i \in 1..z : u[i] \in Nat
  OBVIOUS
<1>7. m <= x /\ m < y /\ (\A i \in 1..m : s[i] = t[i]) /\ (m = x \/ s[m + 1] < t[m + 1])
  BY <1>1 DEF Parts
<1>8. n <= y /\ n < z /\ (\A i \in 1..n : t[i] = u[i]) /\ (n = y \/ t[n + 1] < u[n + 1])
  BY <1>2 DEF Parts
<1>9. SUFFICES \E h \in Nat : /\ h <= x /\ h < z /\ \A i \in 1..h : s[i] = u[i]
                              /\ h = x \/ s[h + 1] < u[h + 1]
  BY <1>9, LessIs DEF Parts
<1> HIDE DEF x, y, z
<1>10. CASE m <= n
  <2>1. m < z
    BY <1>3, <1>8, <1>10
  <2>2. \A i \in 1..m : s[i] = u[i]
    <3>1. \A i \in 1..m : i \in 1..n
      BY <1>10
    <3> QED
      BY <1>7, <1>8, <3>1
  <2>3. ASSUME m # x PROVE s[m + 1] < u[m + 1]
    <3>1. m + 1 \in 1..x /\ m + 1 \in 1..y /\ m + 1 \in 1..z
      BY <1>3, <1>7, <2>1, <2>3
    <3>2. s[m + 1] \in Nat /\ t[m + 1] \in Nat /\ u[m + 1] \in Nat
      BY <1>4, <1>5, <1>6, <3>1
    <3>3. s[m + 1] < t[m + 1]
      BY <1>7, <2>3
    <3>4. CASE m = n
      <4>1. t[m + 1] < u[m + 1]
        <5>1. n # y
          BY <1>3, <1>7, <3>4
        <5> QED
          BY <1>8, <3>4, <5>1
      <4> QED
        BY <3>2, <3>3, <4>1
    <3>5. CASE m < n
      <4>1. m + 1 \in 1..n
        BY <3>5
      <4>2. t[m + 1] = u[m + 1]
        BY <1>8, <4>1
      <4> QED
        BY <3>3, <4>2
    <3> QED
      BY <1>10, <3>4, <3>5
  <2> QED
    BY <1>7, <2>1, <2>2, <2>3
<1>11. CASE n < m
  <2>1. n <= x /\ n < y /\ n + 1 \in 1..m
    BY <1>3, <1>7, <1>11
  <2>2. \A i \in 1..n : s[i] = u[i]
    <3>1. \A i \in 1..n : i \in 1..m
      BY <1>11
    <3> QED
      BY <1>7, <1>8, <3>1
  <2>3. n # y
    BY <1>3, <2>1
  <2>4. s[n + 1] = t[n + 1] /\ t[n + 1] < u[n + 1]
    BY <1>7, <1>8, <2>1, <2>3
  <2> QED
    BY <1>8, <2>1, <2>2, <2>4
<1> QED
  BY <1>10, <1>11

LEMMA LessTotal ==
    ASSUME NEW s \in Seq(Nat), NEW t \in Seq(Nat)
    PROVE  Less(s, t) \/ s = t \/ Less(t, s)
<1>1. Len(s) \in Nat /\ Len(t) \in Nat
  OBVIOUS
<1> DEFINE ends == {n \in Nat : n = Len(s) \/ n = Len(t) \/ s[n + 1] # t[n + 1]}
<1>2. ends \in SUBSET Nat /\ Len(s) \in ends
  BY <1>1
<1>3. PICK n \in ends : \A m \in ends : n <= m
  <2> HIDE DEF ends
  <2> QED
    BY <1>2, LeastMember
<1>4. n \in Nat /\ n <= Len(s) /\ n <= Len(t)
  BY <1>1, <1>3
<1>5. ASSUME NEW i \in 1..n PROVE s[i] = t[i]
  <2>1. i - 1 \in Nat /\ i - 1 < n /\ i - 1 + 1 = i
    BY <1>4
  <2>2. i - 1 \notin ends
    <3> SUFFICES ASSUME i - 1 \in ends PROVE FALSE
      OBVIOUS
    <3>1. n <= i - 1
      BY <1>3
    <3> QED
      BY <1>4, <2>1, <3>1
  <2> QED
    BY <2>1, <2>2
<1>6. n = Len(s) \/ n = Len(t) \/ s[n + 1] # t[n + 1]
  BY <1>3
<1> HIDE DEF ends
<1>7. CASE n = Len(s) /\ n = Len(t)
  BY <1>5, <1>7, SeqEqual
<1>8. CASE n = Len(s) /\ n # Len(t)
  <2>1. n <= Len(s) /\ n < Len(t)
    BY <1>1, <1>4, <1>8
  <2>2. Parts(s, t, n)
    BY <1>5, <1>8, <2>1 DEF Parts
  <2> QED
    BY <1>4, <2>2, LessIs
<1>9. CASE n # Len(s) /\ n = Len(t)
  <2>1. n <= Len(t) /\ n < Len(s)
    BY <1>1, <1>4, <1>9
  <2>2. Parts(t, s, n)
    BY <1>5, <1>9, <2>1 DEF Parts
  <2> QED
    BY <1>4, <2>2, LessIs
<1>10. CASE n # Len(s) /\ n # Len(t)
  <2>1. n + 1 \in 1..Len(s) /\ n + 1 \in 1..Len(t) /\ n < Len(s) /\ n < Len(t)
    BY <1>1, <1>4, <1>10
  <2>2. s[n + 1] \in Nat /\ t[n + 1] \in Nat /\ s[n + 1] # t[n + 1]
    BY <1>6, <1>10, <2>1
  <2>3. s[n + 1] < t[n + 1] \/ t[n + 1] < s[n + 1]
    BY <2>2
  <2>4. Parts(s, t, n) \/ Parts(t, s, n)
    BY <1>4, <1>5, <2>1, <2>3 DEF Parts
  <2> QED
    BY <1>4, <2>4, LessIs
<1> QED
  BY <1>7, <1>8, <1>9, <1>10


\* The order is strict and total.
LEMMA Order ==
    ASSUME NEW s \in Seq(Nat), NEW t \in Seq(Nat), NEW u \in Seq(Nat)
    PROVE  /\ ~Less(s, s) /\ (Less(s, t) => ~Less(t, s))
           /\ AtMost(s, t) <=> ~Less(t, s)
           /\ Less(s, t) /\ Less(t, u) => Less(s, u)
           /\ AtMost(s, t) /\ Less(t, u) => Less(s, u)
           /\ Less(s, t) /\ AtMost(t, u) => Less(s, u)
           /\ AtMost(s, t) /\ AtMost(t, u) => AtMost(s, u)
<1>1. ~Less(s, s)
  BY LessIrreflexive
<1>2. Less(s, t) => ~Less(t, s)
  BY <1>1, LessTransitive
<1>3. Less(s, t) \/ s = t \/ Less(t, s)
  BY LessTotal
<1>4. Less(s, t) /\ Less(t, u) => Less(s, u)
  BY LessTransitive
<1> QED
  BY <1>1, <1>2, <1>3, <1>4 DEF AtMost

\* A string is at least each prefix of it.
LEMMA PrefixOrder ==
    ASSUME NEW p \in Seq(Nat), NEW s \in Seq(Nat), IsPrefix(p, s)
    PROVE  AtMost(p, s)
BY DEF AtMost, Less, IsStrictPrefix

\* What is between a string and one that it begins begins with it too.
LEMMA Between ==
    ASSUME NEW p \in Seq(Nat), NEW s \in Seq(Nat), NEW t \in Seq(Nat),
           IsPrefix(p, s), AtMost(p, t), AtMost(t, s)
    PROVE  IsPrefix(p, t)
<1>1. CASE p = t
  BY <1>1, PrefixIs
<1>2. CASE Less(p, t)
  <2>1. PICK n \in Nat : Parts(p, t, n)
    BY <1>2, LessIs
  <2>2. Len(p) \in Nat /\ Len(s) \in Nat /\ Len(t) \in Nat
    OBVIOUS
  <2>3. Len(p) <= Len(s) /\ \A i \in 1..Len(p) : p[i] = s[i]
    BY PrefixIs
  <2>4. CASE n = Len(p)
    BY <2>1, <2>2, <2>4, PrefixIs DEF Parts
  <2>5. CASE n # Len(p)
    <3>1. n <= Len(p) /\ n < Len(t) /\ p[n + 1] < t[n + 1] /\ \A i \in 1..n : p[i] = t[i]
      BY <2>1, <2>5 DEF Parts
    <3>2. n < Len(p) /\ n < Len(s) /\ n <= Len(s) /\ n + 1 \in 1..Len(p)
      <4> DEFINE x == Len(p)
                 y == Len(s)
      <4>1. x \in Nat /\ y \in Nat /\ n \in Nat /\ n <= x /\ x <= y /\ n # x
        BY <2>2, <2>3, <2>5, <3>1
      <4> HIDE DEF x, y
      <4>2. n < x /\ n < y /\ n <= y /\ n + 1 \in 1..x
        BY <4>1
      <4> QED
        BY <4>2 DEF x, y
    <3>3. s[n + 1] < t[n + 1] /\ \A i \in 1..n : s[i] = t[i]
      <4>1. \A i \in 1..n : i \in 1..Len(p)
        BY <2>2, <3>1
      <4> QED
        BY <2>3, <3>1, <3>2, <4>1
    <3>4. Less(s, t)
      BY <3>1, <3>2, <3>3, LessIs DEF Parts
    <3> QED
      BY <3>4, Order
  <2> QED
    BY <2>4, <2>5
<1> QED
  BY <1>1, <1>2 DEF AtMost

\* Prefixes are transitive, and those of one string are prefixes of one another.
LEMMA PrefixChain ==
    ASSUME NEW S, NEW p \in Seq(S), NEW r \in Seq(S), NEW s \in Seq(S)
    PROVE  /\ IsPrefix(s, s)
           /\ IsPrefix(p, r) /\ IsPrefix(r, s) => IsPrefix(p, s)
           /\ IsPrefix(p, s) /\ IsPrefix(r, s) /\ Len(p) <= Len(r) => IsPrefix(p, r)
           /\ IsPrefix(p, s) /\ Len(p) = Len(s) => p = s
<1>1. Len(p) \in Nat /\ Len(r) \in Nat /\ Len(s) \in Nat
  OBVIOUS
<1>2. IsPrefix(s, s)
  BY <1>1, PrefixIs
<1>3. ASSUME IsPrefix(p, r), IsPrefix(r, s) PROVE IsPrefix(p, s)
  <2>1. Len(p) <= Len(r) /\ Len(r) <= Len(s)
    BY <1>3, PrefixIs
  <2>2. \A i \in 1..Len(p) : i \in 1..Len(r)
    BY <1>1, <2>1
  <2>3. \A i \in 1..Len(p) : p[i] = s[i]
    BY <1>3, <2>2, PrefixIs
  <2> QED
    BY <1>1, <2>1, <2>3, PrefixIs
<1>4. ASSUME IsPrefix(p, s), IsPrefix(r, s), Len(p) <= Len(r) PROVE IsPrefix(p, r)
  <2>1. \A i \in 1..Len(p) : i \in 1..Len(r)
    BY <1>1, <1>4
  <2>2. \A i \in 1..Len(p) : p[i] = r[i]
    BY <1>4, <2>1, PrefixIs
  <2> QED
    BY <1>4, <2>2, PrefixIs
<1>5. ASSUME IsPrefix(p, s), Len(p) = Len(s) PROVE p = s
  BY <1>5, PrefixIs, SeqEqual
<1>6. IsPrefix(p, r) /\ IsPrefix(r, s) => IsPrefix(p, s)
  BY <1>3
<1>7. IsPrefix(p, s) /\ IsPrefix(r, s) /\ Len(p) <= Len(r) => IsPrefix(p, r)
  BY <1>4
<1>8. IsPrefix(p, s) /\ Len(p) = Len(s) => p = s
  BY <1>5
<1> QED
  BY <1>2, <1>6, <1>7, <1>8

\* After(s) is the least string above s.
LEMMA AfterIs ==
    ASSUME NEW s \in Strings, NEW t \in Strings
    PROVE  /\ After(s) \in Strings
           /\ AtMost(After(s), t) <=> Less(s, t)
<1> DEFINE a == After(s)
<1>1. s \in Seq(Nat) /\ t \in Seq(Nat) /\ Len(s) \in Nat /\ Len(t) \in Nat
  BY StringIs
<1>2. a \in Strings
  BY ScalarsAssumption DEF After, Strings
<1>3. a \in Seq(Nat) /\ Len(a) = Len(s) + 1 /\ a[Len(s) + 1] = 0 /\ \A i \in 1..Len(s) : a[i] = s[i]
  <2>1. a \in Seq(Nat)
    BY <1>2, StringIs
  <2> QED
    BY <1>1, <2>1 DEF After, Nul
<1> HIDE DEF a
<1>4. Less(s, a)
  <2>1. Len(s) <= Len(s) /\ Len(s) < Len(a) /\ \A i \in 1..Len(s) : s[i] = a[i]
    BY <1>1, <1>3
  <2>2. Parts(s, a, Len(s))
    BY <2>1 DEF Parts
  <2> QED
    BY <1>1, <1>3, <2>2, LessIs
<1>5. ASSUME Less(s, t) PROVE AtMost(a, t)
  <2>1. PICK n \in Nat : Parts(s, t, n)
    BY <1>1, <1>5, LessIs
  <2>2. n <= Len(s) /\ n < Len(t) /\ \A i \in 1..n : s[i] = t[i]
    BY <2>1 DEF Parts
  <2>3. \A i \in 1..n : i \in 1..Len(s)
    BY <1>1, <2>2
  <2>4. \A i \in 1..n : a[i] = t[i]
    BY <1>3, <2>2, <2>3
  <2>5. CASE n = Len(s)
    <3>1. n + 1 \in 1..Len(t) /\ t[n + 1] \in Nat
      <4>1. n + 1 \in 1..Len(t)
        BY <1>1, <2>2
      <4> QED
        BY <1>1, <4>1
    <3>2. CASE t[n + 1] = 0
      <4>1. Len(a) <= Len(t)
        BY <1>1, <1>3, <2>2, <2>5
      <4>2. \A i \in 1..Len(a) : i = n + 1 \/ i \in 1..n
        BY <1>1, <1>3, <2>5
      <4>3. \A i \in 1..Len(a) : a[i] = t[i]
        BY <1>3, <2>4, <2>5, <3>2, <4>2
      <4> QED
        BY <1>1, <1>3, <4>1, <4>3, PrefixIs, PrefixOrder
    <3>3. CASE t[n + 1] # 0
      <4>1. a[n + 1] < t[n + 1] /\ n <= Len(a)
        BY <1>1, <1>3, <2>5, <3>1, <3>3
      <4>2. Parts(a, t, n)
        BY <2>2, <2>4, <4>1 DEF Parts
      <4> QED
        BY <1>1, <1>3, <4>2, LessIs DEF AtMost
    <3> QED
      BY <3>2, <3>3
  <2>6. CASE n # Len(s)
    <3>1. n + 1 \in 1..Len(s) /\ n <= Len(a)
      BY <1>1, <1>3, <2>2, <2>6
    <3>2. a[n + 1] < t[n + 1]
      BY <1>3, <2>1, <2>6, <3>1 DEF Parts
    <3>3. Parts(a, t, n)
      BY <2>2, <2>4, <3>1, <3>2 DEF Parts
    <3> QED
      BY <1>1, <1>3, <3>3, LessIs DEF AtMost
  <2> QED
    BY <2>5, <2>6
<1>6. AtMost(a, t) => Less(s, t)
  BY <1>1, <1>3, <1>4, Order
<1> QED
  BY <1>2, <1>5, <1>6 DEF a

------------------------------------------------------------------------------
(* The bound of a prefix.                                                  *)

LEMMA NextScalarIs ==
    ASSUME NEW c \in Scalars, NEW d \in Scalars, d > c
    PROVE  /\ NextScalar(c) \in Scalars /\ NextScalar(c) > c
           /\ \A e \in Scalars : e > c => NextScalar(c) <= e
<1> DEFINE above == {e \in Scalars : e > c}
<1>1. above \in SUBSET Nat /\ above # {}
  BY ScalarsAssumption
<1>2. PICK m \in above : \A e \in above : m <= e
  <2> HIDE DEF above
  <2> QED
    BY <1>1, LeastMember
<1>3. m \in Scalars /\ m > c /\ \A e \in Scalars : e > c => m <= e
  BY <1>2
<1> QED
  BY <1>3 DEF NextScalar



\* Successor(p): the last character that can go up does, and what follows it is
\* dropped; NoKey when none can.
LEMMA SuccessorForm ==
    ASSUME NEW p \in Strings
    PROVE  \/ /\ Successor(p) = NoKey
              /\ \A i \in 1..Len(p) : \A d \in Scalars : d <= p[i]
           \/ \E i \in 1..Len(p) :
                /\ Successor(p) \in Strings /\ Len(Successor(p)) = i
                /\ \A j \in 1..(i - 1) : Successor(p)[j] = p[j]
                /\ Successor(p)[i] > p[i]
                /\ \A e \in Scalars : e > p[i] => Successor(p)[i] <= e
                /\ \A j \in 1..Len(p) : j > i => \A d \in Scalars : d <= p[j]
<1>1. Len(p) \in Nat /\ DOMAIN p = 1..Len(p) /\ \A i \in 1..Len(p) : p[i] \in Scalars /\ p[i] \in Nat
  BY StringIs
<1>2. \A d \in Scalars : d \in Nat
  BY ScalarsAssumption
<1> DEFINE low == {i \in DOMAIN p : \E d \in Scalars : d > p[i]}
           high == CHOOSE i \in low : \A j \in low : j <= i
           next == NextScalar(p[high])
           form == Append(SubSeq(p, 1, high - 1), next)
<1>3. Successor(p) = IF low = {} THEN NoKey ELSE form
  BY DEF Successor
<1>4. \A i \in 1..Len(p) : i \notin low => \A d \in Scalars : d <= p[i]
  BY <1>1, <1>2
<1>5. CASE low = {}
  BY <1>3, <1>4, <1>5
<1>6. CASE low # {}
  <2>1. high \in low /\ \A j \in low : j <= high
    <3>1. low \in SUBSET (0..Len(p))
      BY <1>1
    <3>2. \E i \in low : \A j \in low : j <= i
      <4> HIDE DEF low
      <4> QED
        BY <1>1, <1>6, <3>1, GreatestMember
    <3> QED
      BY <3>2
  <2>2. high \in 1..Len(p) /\ \E d \in Scalars : d > p[high]
    BY <1>1, <2>1
  <2>3. \A j \in 1..Len(p) : j > high => j \notin low
    <3>1. high \in Nat /\ \A j \in 1..Len(p) : j > high => ~(j <= high)
      <4> HIDE DEF high
      <4> QED
        BY <1>1, <2>2
    <3> HIDE DEF low, high
    <3> QED
      BY <2>1, <3>1
  <2> HIDE DEF low, high
  <2>4. next \in Scalars /\ next > p[high] /\ \A e \in Scalars : e > p[high] => next <= e
    BY <1>1, <2>2, NextScalarIs
  <2> HIDE DEF next
  <2> DEFINE start == SubSeq(p, 1, high - 1)
  <2>5. start \in Strings /\ Len(start) = high - 1 /\ \A j \in 1..(high - 1) : start[j] = p[j]
    <3>1. p \in Seq(Scalars) /\ high - 1 <= Len(p) /\ high - 1 \in Nat
      BY <1>1, <2>2 DEF Strings
    <3> QED
      BY <3>1 DEF Strings
  <2> HIDE DEF start
  <2>6. /\ form \in Strings /\ Len(form) = high
        /\ form[high] = next /\ \A j \in 1..(high - 1) : form[j] = p[j]
    <3>1. form = Append(start, next)
      BY DEF start
    <3>2. Len(start) + 1 = high
      BY <1>1, <2>2, <2>5
    <3> HIDE DEF form
    <3> QED
      BY <2>4, <2>5, <3>1, <3>2 DEF Strings
  <2>7. Successor(p) = form
    BY <1>3, <1>6
  <2> HIDE DEF form
  <2> QED
    BY <1>4, <2>2, <2>3, <2>4, <2>6, <2>7
<1> QED
  BY <1>5, <1>6

\* Successor(p) is the least string above all that begin with p; when there is
\* none, all strings from p on begin with it.
LEMMA SuccessorIs ==
    ASSUME NEW p \in Strings, NEW k \in Strings
    PROVE  /\ Successor(p) = NoKey => /\ AtMost(p, k) => IsPrefix(p, k)
                                      /\ \A i \in 1..Len(p) : \A d \in Scalars : d <= p[i]
           /\ Successor(p) # NoKey => /\ Successor(p) \in Strings
                                      /\ IsPrefix(p, k) => Less(k, Successor(p))
                                      /\ AtMost(p, k) /\ ~IsPrefix(p, k) => AtMost(Successor(p), k)
<1>1. p \in Seq(Nat) /\ k \in Seq(Nat) /\ Len(p) \in Nat /\ Len(k) \in Nat
  BY StringIs
<1>2. \A i \in 1..Len(k) : k[i] \in Scalars /\ k[i] \in Nat
  BY StringIs
<1>3. \A i \in 1..Len(p) : p[i] \in Scalars /\ p[i] \in Nat
  BY StringIs
<1>4. ASSUME AtMost(p, k), ~IsPrefix(p, k)
      PROVE  \E n \in 1..Len(p) : /\ n <= Len(k) /\ p[n] < k[n]
                                  /\ \A i \in 1..(n - 1) : p[i] = k[i]
    <2>1. p # k
      BY <1>1, <1>4, PrefixChain
    <2>2. PICK m \in Nat : Parts(p, k, m)
      BY <1>1, <1>4, <2>1, LessIs DEF AtMost
    <2>3. m <= Len(p) /\ m < Len(k) /\ \A i \in 1..m : p[i] = k[i]
      BY <2>2 DEF Parts
    <2>4. m # Len(p)
      BY <1>1, <1>4, <2>3, PrefixIs
    <2>5. p[m + 1] < k[m + 1]
      BY <2>2, <2>4 DEF Parts
    <2>6. m + 1 \in 1..Len(p) /\ m + 1 <= Len(k) /\ m + 1 - 1 = m
      BY <1>1, <2>3, <2>4
    <2> QED
      BY <2>3, <2>5, <2>6
<1>5. CASE Successor(p) = NoKey
  <2>1. \A i \in 1..Len(p) : \A d \in Scalars : d <= p[i]
    BY <1>5, SuccessorForm, NoKeyAssumption
  <2>2. ASSUME AtMost(p, k), ~IsPrefix(p, k) PROVE FALSE
    <3>1. PICK n \in 1..Len(p) : n <= Len(k) /\ p[n] < k[n]
      BY <1>4, <2>2
    <3>2. n \in 1..Len(k)
      BY <1>1, <3>1
    <3>3. k[n] <= p[n] /\ k[n] \in Nat /\ p[n] \in Nat
      BY <1>2, <1>3, <2>1, <3>2
    <3> QED
      BY <3>1, <3>3
  <2> QED
    BY <1>5, <2>1, <2>2
<1>6. CASE Successor(p) # NoKey
  <2> DEFINE u == Successor(p)
  <2>1. PICK i \in 1..Len(p) :
                /\ u \in Strings /\ Len(u) = i
                /\ \A j \in 1..(i - 1) : u[j] = p[j]
                /\ u[i] > p[i]
                /\ \A e \in Scalars : e > p[i] => u[i] <= e
                /\ \A j \in 1..Len(p) : j > i => \A d \in Scalars : d <= p[j]
    BY <1>6, SuccessorForm
  <2> HIDE DEF u
  <2>2. u \in Seq(Nat) /\ i \in 1..Len(u) /\ u[i] \in Nat /\ i \in Nat /\ i - 1 \in Nat
    <3>1. i \in Nat /\ i - 1 \in Nat /\ i \in 1..Len(u)
      BY <1>1, <2>1
    <3> QED
      BY <2>1, <3>1, StringIs
  <2>3. ASSUME IsPrefix(p, k) PROVE Less(k, u)
    <3>1. Len(p) <= Len(k) /\ \A j \in 1..Len(p) : p[j] = k[j]
      BY <1>1, <1>3, <2>3, PrefixIs
    <3>2. i - 1 <= Len(k) /\ i - 1 < Len(u) /\ i - 1 + 1 = i
      BY <1>1, <2>1, <2>2, <3>1
    <3>3. \A j \in 1..(i - 1) : j \in 1..Len(p)
      BY <1>1, <2>2
    <3>4. \A j \in 1..(i - 1) : k[j] = u[j]
      BY <2>1, <3>1, <3>3
    <3>5. k[i] < u[i]
      BY <1>3, <2>1, <2>2, <3>1
    <3>6. Parts(k, u, i - 1)
      BY <3>2, <3>4, <3>5 DEF Parts
    <3> QED
      BY <1>1, <2>2, <3>6, LessIs
  <2>4. ASSUME AtMost(p, k), ~IsPrefix(p, k) PROVE AtMost(u, k)
    <3>1. PICK n \in 1..Len(p) : /\ n <= Len(k) /\ p[n] < k[n]
                                 /\ \A j \in 1..(n - 1) : p[j] = k[j]
      BY <1>4, <2>4
    <3>2. n \in 1..Len(k) /\ n \in Nat /\ n - 1 \in Nat /\ n - 1 + 1 = n
      BY <1>1, <3>1
    <3>3. k[n] \in Scalars /\ k[n] \in Nat /\ p[n] \in Nat
      BY <1>2, <1>3, <3>2
    <3>4. n <= i
      <4>1. ~(k[n] <= p[n])
        BY <3>1, <3>3
      <4> QED
        BY <2>1, <2>2, <3>2, <3>3, <4>1
    <3>5. \A j \in 1..(n - 1) : j \in 1..(i - 1)
      BY <2>2, <3>2, <3>4
    <3>6. \A j \in 1..(n - 1) : u[j] = k[j]
      BY <2>1, <3>1, <3>5
    <3>7. n - 1 <= Len(u) /\ n - 1 < Len(k)
      BY <1>1, <2>1, <2>2, <3>1, <3>2, <3>4
    <3>8. ASSUME u[n] < k[n] PROVE Less(u, k)
      <4>1. Parts(u, k, n - 1)
        BY <3>2, <3>6, <3>7, <3>8 DEF Parts
      <4> QED
        BY <1>1, <2>2, <3>2, <4>1, LessIs
    <3>9. CASE n = i
      <4>1. u[n] <= k[n]
        BY <2>1, <3>1, <3>3, <3>9
      <4>2. CASE u[n] = k[n]
        <5>1. \A j \in 1..Len(u) : j = n \/ j \in 1..(n - 1)
          BY <2>1, <3>2, <3>9
        <5>2. \A j \in 1..Len(u) : u[j] = k[j]
          BY <3>6, <4>2, <5>1
        <5>3. Len(u) <= Len(k)
          BY <2>1, <3>1, <3>9
        <5> QED
          BY <1>1, <2>2, <5>2, <5>3, PrefixIs, PrefixOrder
      <4>3. CASE u[n] # k[n]
        BY <2>2, <3>3, <3>8, <3>9, <4>1, <4>3 DEF AtMost
      <4> QED
        BY <4>2, <4>3
    <3>10. CASE n # i
      <4>1. n \in 1..(i - 1)
        BY <2>2, <3>2, <3>4, <3>10
      <4>2. u[n] = p[n]
        BY <2>1, <4>1
      <4> QED
        BY <3>1, <3>8, <4>2 DEF AtMost
    <3> QED
      BY <3>9, <3>10
  <2> QED
    BY <1>6, <2>1, <2>3, <2>4 DEF u
<1> QED
  BY <1>5, <1>6


------------------------------------------------------------------------------
(* Groups.                                                                 *)

IsDelimiter(d) == d = NoKey \/ (d \in Strings /\ d # <<>>)

LEMMA QueryHasDelimiter == ASSUME NEW q, IsQuery(q) PROVE IsDelimiter(q.delimiter)
BY DEF IsQuery, IsDelimiter

\* What a key is listed as: its group, or itself.
ListedAs(key, prefix, delimiter) ==
    LET group == GroupOf(key, prefix, delimiter) IN IF group = NoKey THEN key ELSE group

\* A group is the part of the key up to the first cut.
LEMMA GroupIs ==
    ASSUME NEW key \in Strings, NEW prefix, NEW delimiter
    PROVE  /\ Cuts(key, prefix, delimiter) \subseteq 1..Len(key)
           /\ GroupOf(key, prefix, delimiter) = NoKey => Cuts(key, prefix, delimiter) = {}
           /\ GroupOf(key, prefix, delimiter) # NoKey =>
                /\ GroupOf(key, prefix, delimiter) \in Strings
                /\ IsPrefix(GroupOf(key, prefix, delimiter), key)
                /\ Len(GroupOf(key, prefix, delimiter)) \in Cuts(key, prefix, delimiter)
                /\ \A i \in Cuts(key, prefix, delimiter) : Len(GroupOf(key, prefix, delimiter)) <= i
<1> DEFINE cuts == Cuts(key, prefix, delimiter)
           first == CHOOSE i \in cuts : \A j \in cuts : i <= j
           group == SubSeq(key, 1, first)
<1>1. Len(key) \in Nat /\ DOMAIN key = 1..Len(key)
  BY StringIs
<1>2. cuts \subseteq 1..Len(key)
  BY <1>1 DEF Cuts
<1>3. GroupOf(key, prefix, delimiter) = IF cuts = {} THEN NoKey ELSE group
  BY DEF GroupOf
<1> HIDE DEF cuts
<1>4. ASSUME cuts # {}
      PROVE  /\ group \in Strings /\ group # NoKey /\ IsPrefix(group, key)
             /\ Len(group) \in cuts /\ \A i \in cuts : Len(group) <= i
  <2>1. cuts \in SUBSET Nat
    BY <1>1, <1>2
  <2>2. \E i \in cuts : \A j \in cuts : i <= j
    BY <1>4, <2>1, LeastMember
  <2>3. first \in cuts /\ \A j \in cuts : first <= j
    BY <2>2
  <2> HIDE DEF first
  <2>4. first \in 1..Len(key) /\ key \in Seq(Scalars) /\ first <= Len(key) /\ first \in Nat
    BY <1>1, <1>2, <2>3 DEF Strings
  <2>5. group \in Seq(Scalars) /\ Len(group) = first /\ \A i \in 1..first : group[i] = key[i]
    BY <2>4
  <2> HIDE DEF group
  <2>6. IsPrefix(group, key)
    BY <2>4, <2>5, PrefixIs
  <2> QED
    BY <2>3, <2>5, <2>6, NoKeyAssumption DEF Strings
<1> QED
  BY <1>2, <1>3, <1>4 DEF cuts

\* Keys that agree on n characters have the same cuts among them.
LEMMA SameCuts ==
    ASSUME NEW j \in Strings, NEW k \in Strings, NEW prefix \in Strings, NEW delimiter,
           IsDelimiter(delimiter), NEW n \in Nat, n <= Len(j), n <= Len(k),
           \A i \in 1..n : j[i] = k[i]
    PROVE  \A i \in 1..n : i \in Cuts(j, prefix, delimiter) <=> i \in Cuts(k, prefix, delimiter)
<1>1. CASE delimiter = NoKey
  BY <1>1 DEF Cuts
<1>2. CASE delimiter # NoKey
  <2> SUFFICES ASSUME NEW i \in 1..n
               PROVE  i \in Cuts(j, prefix, delimiter) <=> i \in Cuts(k, prefix, delimiter)
    OBVIOUS
  <2>1. delimiter \in Strings /\ Len(delimiter) \in Nat /\ Len(prefix) \in Nat
    BY <1>2, StringIs DEF IsDelimiter
  <2>2. /\ Len(j) \in Nat /\ DOMAIN j = 1..Len(j) /\ Len(k) \in Nat /\ DOMAIN k = 1..Len(k)
    BY StringIs
  <2>3. i \in DOMAIN j /\ i \in DOMAIN k
    BY <2>2
  <2>4. ASSUME i >= Len(prefix) + Len(delimiter)
        PROVE  SubSeq(j, i - Len(delimiter) + 1, i) = SubSeq(k, i - Len(delimiter) + 1, i)
    <3> DEFINE m == i - Len(delimiter) + 1
               a == SubSeq(j, m, i)
               b == SubSeq(k, m, i)
    <3>1. m \in Nat /\ m >= 1 /\ i <= Len(j) /\ i <= Len(k) /\ i \in Nat
      BY <2>1, <2>2, <2>4
    <3>2. j \in Seq(Scalars) /\ k \in Seq(Scalars)
      BY DEF Strings
    <3> HIDE DEF m
    <3>3. \A l \in m..i : j[l] \in Scalars /\ k[l] \in Scalars /\ j[l] = k[l]
      <4>1. \A l \in m..i : l \in 1..n /\ l \in 1..Len(j) /\ l \in 1..Len(k)
        BY <2>2, <3>1
      <4> QED
        BY <3>2, <4>1
    <3>4. /\ a \in Seq(Scalars) /\ Len(a) = (IF m <= i THEN i - m + 1 ELSE 0)
          /\ \A l \in 1..(i - m + 1) : a[l] = j[m + l - 1]
      BY <3>1, <3>2, <3>3, SubSeqProperties
    <3>5. /\ b \in Seq(Scalars) /\ Len(b) = (IF m <= i THEN i - m + 1 ELSE 0)
          /\ \A l \in 1..(i - m + 1) : b[l] = k[m + l - 1]
      BY <3>1, <3>2, <3>3, SubSeqProperties
    <3> HIDE DEF a, b
    <3>6. \A l \in 1..Len(a) : a[l] = b[l]
      <4>1. \A l \in 1..Len(a) : l \in 1..(i - m + 1) /\ m + l - 1 \in m..i
        BY <3>1, <3>4
      <4> QED
        BY <3>3, <3>4, <3>5, <4>1
    <3>7. a = b
      BY <3>4, <3>5, <3>6, SeqEqual
    <3> QED
      BY <3>7 DEF a, b, m
  <2> QED
    BY <1>2, <2>3, <2>4 DEF Cuts
<1> QED
  BY <1>1, <1>2

\* A string that begins with the group of another is in that group.
LEMMA SameGroup ==
    ASSUME NEW j \in Strings, NEW k \in Strings, NEW prefix \in Strings, NEW delimiter,
           IsDelimiter(delimiter), GroupOf(j, prefix, delimiter) # NoKey,
           IsPrefix(GroupOf(j, prefix, delimiter), k)
    PROVE  GroupOf(k, prefix, delimiter) = GroupOf(j, prefix, delimiter)
<1> DEFINE g == GroupOf(j, prefix, delimiter)
           h == GroupOf(k, prefix, delimiter)
           n == Len(g)
           jcuts == Cuts(j, prefix, delimiter)
           kcuts == Cuts(k, prefix, delimiter)
<1>1. g \in Strings /\ IsPrefix(g, j) /\ n \in jcuts /\ \A i \in jcuts : n <= i
  BY GroupIs
<1>2. IsPrefix(g, k)
  OBVIOUS
<1>3. jcuts \subseteq 1..Len(j) /\ kcuts \subseteq 1..Len(k)
  BY GroupIs
<1>4. h = NoKey => kcuts = {}
  BY GroupIs
<1>5. h # NoKey => h \in Strings /\ IsPrefix(h, k) /\ Len(h) \in kcuts /\ \A i \in kcuts : Len(h) <= i
  BY GroupIs
<1> HIDE DEF g, h, jcuts, kcuts
<1>6. /\ n \in Nat /\ n <= Len(j) /\ n <= Len(k)
      /\ \A i \in 1..n : g[i] = j[i] /\ g[i] = k[i]
  <2>1. g \in Seq(Scalars) /\ j \in Seq(Scalars) /\ k \in Seq(Scalars)
    BY <1>1 DEF Strings
  <2> QED
    BY <1>1, <1>2, <2>1, PrefixIs
<1>7. \A i \in 1..n : i \in jcuts <=> i \in kcuts
  <2>1. \A i \in 1..n : j[i] = k[i]
    BY <1>6
  <2>2. n \in Nat /\ n <= Len(j) /\ n <= Len(k)
    BY <1>6
  <2> HIDE DEF n
  <2> QED
    BY <2>1, <2>2, SameCuts DEF jcuts, kcuts
<1>8. Len(j) \in Nat /\ Len(k) \in Nat
  BY StringIs
<1>9. n \in 1..n /\ n \in kcuts
  BY <1>1, <1>3, <1>6, <1>7, <1>8
<1>10. h \in Strings /\ IsPrefix(h, k) /\ Len(h) \in kcuts /\ Len(h) <= n
  BY <1>4, <1>5, <1>9
<1>11. Len(h) \in 1..n
  BY <1>3, <1>6, <1>8, <1>10
<1>12. n <= Len(h)
  BY <1>1, <1>7, <1>10, <1>11
<1>13. Len(h) = n
  BY <1>6, <1>11, <1>12
<1>14. g = h
  <2>1. g \in Seq(Scalars) /\ h \in Seq(Scalars) /\ k \in Seq(Scalars)
    BY <1>1, <1>10 DEF Strings
  <2>2. IsPrefix(h, g)
    BY <1>2, <1>6, <1>10, <1>13, <2>1, PrefixChain
  <2> QED
    BY <1>13, <2>1, <2>2, PrefixChain
<1> QED
  BY <1>14 DEF g, h

\* What is listed of keys in order is in order: a key above what another is
\* listed as is listed as more, or is in that group.
LEMMA ListedInOrder ==
    ASSUME NEW j \in Strings, NEW k \in Strings, NEW prefix \in Strings, NEW delimiter,
           IsDelimiter(delimiter), Less(ListedAs(j, prefix, delimiter), k)
    PROVE  \/ Less(ListedAs(j, prefix, delimiter), ListedAs(k, prefix, delimiter))
           \/ GroupOf(k, prefix, delimiter) = ListedAs(j, prefix, delimiter)
<1> DEFINE g == GroupOf(k, prefix, delimiter)
           x == ListedAs(j, prefix, delimiter)
           y == ListedAs(k, prefix, delimiter)
<1>1. x \in Strings /\ IsPrefix(x, j)
  <2>1. j \in Seq(Scalars)
    BY DEF Strings
  <2> QED
    BY <2>1, GroupIs, PrefixChain DEF ListedAs
<1>2. CASE g = NoKey
  BY <1>2 DEF ListedAs
<1>3. CASE g # NoKey
  <2>1. g \in Strings /\ IsPrefix(g, k) /\ y = g
    BY <1>3, GroupIs DEF ListedAs
  <2>2. Less(x, k)
    OBVIOUS
  <2> HIDE DEF x
  <2>3. x \in Seq(Nat) /\ g \in Seq(Nat) /\ k \in Seq(Nat)
    BY <1>1, <2>1, StringIs
  <2> SUFFICES ASSUME ~Less(x, g) PROVE g = x
    BY <2>1 DEF x
  <2>4. AtMost(g, x) /\ AtMost(x, k)
    BY <2>2, <2>3, Order DEF AtMost
  <2>5. IsPrefix(g, x)
    BY <2>1, <2>3, <2>4, Between
  <2>6. IsPrefix(g, j)
    <3>1. g \in Seq(Scalars) /\ x \in Seq(Scalars) /\ j \in Seq(Scalars)
      BY <1>1, <2>1 DEF Strings
    <3> QED
      BY <1>1, <2>5, <3>1, PrefixChain
  <2>7. GroupOf(j, prefix, delimiter) = g
    BY <1>3, <2>6, SameGroup
  <2> QED
    BY <1>3, <2>7 DEF x, ListedAs
<1> QED
  BY <1>2, <1>3


------------------------------------------------------------------------------
(* What is fetched.                                                        *)

\* The place of key k among those of R.
KeyRank(R, k) == Cardinality({j \in R : AtMost(j, k)})

\* Ranks are places, a greater key has a greater one, and every place is a rank.
LEMMA KeyRankIs ==
    ASSUME NEW R \in SUBSET Seq(Nat), IsFiniteSet(R)
    PROVE  /\ Cardinality(R) \in Nat
           /\ \A k \in R : KeyRank(R, k) \in 1..Cardinality(R)
           /\ \A j, k \in R : Less(j, k) <=> KeyRank(R, j) < KeyRank(R, k)
           /\ \A n \in 1..Cardinality(R) : \E k \in R : KeyRank(R, k) = n
<1> DEFINE Upto(k) == {j \in R : AtMost(j, k)}
           n == Cardinality(R)
           f == [k \in R |-> KeyRank(R, k)]
<1>0. \A k \in R : KeyRank(R, k) = Cardinality(Upto(k))
  BY DEF KeyRank
<1>1. n \in Nat
  BY FS_CardinalityType
<1>2. \A k \in R : /\ IsFiniteSet(Upto(k)) /\ Cardinality(Upto(k)) \in Nat
                   /\ Cardinality(Upto(k)) <= n
  <2> SUFFICES ASSUME NEW k \in R
               PROVE  /\ IsFiniteSet(Upto(k)) /\ Cardinality(Upto(k)) \in Nat
                      /\ Cardinality(Upto(k)) <= n
    OBVIOUS
  <2>1. Upto(k) \subseteq R
    OBVIOUS
  <2>2. IsFiniteSet(Upto(k)) /\ Cardinality(Upto(k)) <= n
    BY <2>1, FS_Subset
  <2> QED
    BY <2>2, FS_CardinalityType
<1>3. ASSUME NEW k \in R PROVE KeyRank(R, k) \in 1..n
  <2>1. k \in Upto(k)
    BY DEF AtMost
  <2>2. Cardinality(Upto(k)) # 0
    BY <2>1, <1>2, FS_EmptySet
  <2> HIDE DEF Upto, n
  <2> QED
    BY <1>0, <1>1, <1>2, <2>2
<1>4. ASSUME NEW j \in R, NEW k \in R, Less(j, k) PROVE KeyRank(R, j) < KeyRank(R, k)
  <2>1. Upto(j) \subseteq Upto(k)
    BY <1>4, Order DEF AtMost
  <2>2. k \in Upto(k) /\ k \notin Upto(j)
    BY <1>4, Order DEF AtMost
  <2>3. Upto(j) # Upto(k)
    BY <2>2
  <2>4. Cardinality(Upto(j)) <= Cardinality(Upto(k)) /\ Cardinality(Upto(j)) # Cardinality(Upto(k))
    BY <1>2, <2>1, <2>3, FS_Subset
  <2> HIDE DEF Upto, n
  <2>5. Cardinality(Upto(j)) \in Nat /\ Cardinality(Upto(k)) \in Nat
    BY <1>2
  <2>6. Cardinality(Upto(j)) < Cardinality(Upto(k))
    BY <2>4, <2>5
  <2> QED
    BY <1>0, <2>6
<1>5. ASSUME NEW j \in R, NEW k \in R, KeyRank(R, j) < KeyRank(R, k) PROVE Less(j, k)
  <2>1. KeyRank(R, j) \in Nat /\ KeyRank(R, k) \in Nat
    BY <1>1, <1>3
  <2>2. KeyRank(R, j) # KeyRank(R, k) /\ ~(KeyRank(R, k) < KeyRank(R, j))
    BY <1>5, <2>1
  <2>3. Less(j, k) \/ j = k \/ Less(k, j)
    BY LessTotal
  <2> QED
    BY <1>4, <2>2, <2>3
<1>6. f \in Injection(R, 1..n)
  <2>1. f \in [R -> 1..n]
    BY <1>3
  <2>2. \A j, k \in R : f[j] = f[k] => j = k
    <3> SUFFICES ASSUME NEW j \in R, NEW k \in R, j # k PROVE KeyRank(R, j) # KeyRank(R, k)
      OBVIOUS
    <3>1. Less(j, k) \/ Less(k, j)
      BY LessTotal
    <3>2. KeyRank(R, j) \in Nat /\ KeyRank(R, k) \in Nat
      BY <1>1, <1>3
    <3>3. KeyRank(R, j) < KeyRank(R, k) \/ KeyRank(R, k) < KeyRank(R, j)
      BY <1>4, <3>1
    <3> QED
      BY <3>2, <3>3
  <2> QED
    BY <2>1, <2>2 DEF Injection, IsInjective
<1>7. IsFiniteSet(1..n) /\ Cardinality(1..n) = n
  BY <1>1, FS_Interval
<1>8. f \in Surjection(R, 1..n)
  BY <1>1, <1>6, <1>7, FS_Injection
<1>9. \A m \in 1..n : \E k \in R : KeyRank(R, k) = m
  BY <1>8 DEF Surjection
<1> QED
  BY <1>1, <1>3, <1>4, <1>5, <1>9

\* The range of a fetch: the keys with the prefix from a cursor on.
Fetchable(keys, prefix, from) ==
    {k \in keys : IsPrefix(prefix, k) /\ (from = NoKey \/ AtMost(from, k))}

LEMMA RangeIs ==
    ASSUME NEW keys \in SUBSET Strings, NEW prefix \in Strings, NEW from \in Strings \union {NoKey}
    PROVE  LET upper == Successor(prefix)
               lower == IF from # NoKey /\ Less(prefix, from) THEN from ELSE prefix
           IN  {k \in keys : AtMost(lower, k) /\ (upper = NoKey \/ Less(k, upper))}
                 = Fetchable(keys, prefix, from)
<1> DEFINE upper == Successor(prefix)
           lower == IF from # NoKey /\ Less(prefix, from) THEN from ELSE prefix
<1> SUFFICES ASSUME NEW k \in keys
             PROVE  AtMost(lower, k) /\ (upper = NoKey \/ Less(k, upper))
                      <=> IsPrefix(prefix, k) /\ (from = NoKey \/ AtMost(from, k))
  BY DEF Fetchable
<1>1. k \in Strings /\ k \in Seq(Nat) /\ prefix \in Seq(Nat)
  BY StringIs
<1>2. from # NoKey => from \in Seq(Nat)
  BY StringIs
<1>3. AtMost(lower, k) <=> AtMost(prefix, k) /\ (from = NoKey \/ AtMost(from, k))
  <2>1. CASE from = NoKey
    BY <2>1
  <2>2. CASE from # NoKey /\ Less(prefix, from)
    BY <1>1, <1>2, <2>2, Order DEF AtMost
  <2>3. CASE from # NoKey /\ ~Less(prefix, from)
    <3>1. AtMost(from, prefix)
      BY <1>1, <1>2, <2>3, Order
    <3> QED
      BY <1>1, <1>2, <2>3, <3>1, Order
  <2> QED
    BY <2>1, <2>2, <2>3
<1>4. AtMost(prefix, k) /\ (upper = NoKey \/ Less(k, upper)) <=> IsPrefix(prefix, k)
  <2>1. IsPrefix(prefix, k) => AtMost(prefix, k)
    BY <1>1, PrefixOrder
  <2>2. CASE upper = NoKey
    BY <1>1, <2>1, <2>2, SuccessorIs
  <2>3. CASE upper # NoKey
    <3>1. upper \in Strings
      BY <1>1, <2>3, SuccessorIs
    <3>2. upper \in Seq(Nat)
      BY <3>1, StringIs
    <3>3. AtMost(upper, k) <=> ~Less(k, upper)
      BY <1>1, <3>2, Order
    <3> QED
      BY <1>1, <2>1, <2>3, <3>3, SuccessorIs
  <2> QED
    BY <2>2, <2>3
<1> HIDE DEF upper, lower
<1> QED
  BY <1>3, <1>4

\* A fetch returns the first keys of its range, in order: a key of the range that
\* is not among them is above them, and they are as many as were asked for.
LEMMA FetchIs ==
    ASSUME NEW keys \in SUBSET Strings, IsFiniteSet(keys), NEW prefix \in Strings,
           NEW from \in Strings \union {NoKey}, NEW limit \in Nat
    PROVE  /\ Fetch(keys, prefix, from, limit) \in Seq(Fetchable(keys, prefix, from))
           /\ Len(Fetch(keys, prefix, from, limit)) <= limit
           /\ \A m, n \in 1..Len(Fetch(keys, prefix, from, limit)) :
                m < n => Less(Fetch(keys, prefix, from, limit)[m], Fetch(keys, prefix, from, limit)[n])
           /\ \A k \in Fetchable(keys, prefix, from) :
                \/ \E m \in 1..Len(Fetch(keys, prefix, from, limit)) :
                      Fetch(keys, prefix, from, limit)[m] = k
                \/ /\ Len(Fetch(keys, prefix, from, limit)) = limit
                   /\ \A m \in 1..limit : Less(Fetch(keys, prefix, from, limit)[m], k)
<1> DEFINE R == Fetchable(keys, prefix, from)
           card == Cardinality(R)
           size == IF card < limit THEN card ELSE limit
           batch == [n \in 1..size |-> CHOOSE k \in R : KeyRank(R, k) = n]
<1>1. Fetch(keys, prefix, from, limit) = batch
  <2> DEFINE upper == Successor(prefix)
             lower == IF from # NoKey /\ Less(prefix, from) THEN from ELSE prefix
             range == {k \in keys : AtMost(lower, k) /\ (upper = NoKey \/ Less(k, upper))}
  <2>1. range = R
    BY RangeIs
  <2>2. Fetch(keys, prefix, from, limit) =
          [n \in 1..(IF Cardinality(range) < limit THEN Cardinality(range) ELSE limit) |->
             CHOOSE k \in range : Cardinality({j \in range : AtMost(j, k)}) = n]
    BY DEF Fetch
  <2> HIDE DEF R, range
  <2> QED
    BY <2>1, <2>2 DEF KeyRank
<1>2. R \in SUBSET Seq(Nat) /\ IsFiniteSet(R)
  <2>1. R \subseteq keys
    BY DEF Fetchable
  <2>2. \A k \in keys : k \in Seq(Nat)
    BY StringIs
  <2> QED
    BY <2>1, <2>2, FS_Subset
<1> HIDE DEF R
<1>3. /\ card \in Nat
      /\ \A k \in R : KeyRank(R, k) \in 1..card
      /\ \A j, k \in R : Less(j, k) <=> KeyRank(R, j) < KeyRank(R, k)
      /\ \A n \in 1..card : \E k \in R : KeyRank(R, k) = n
  BY <1>2, KeyRankIs
<1> HIDE DEF card
<1>4. size \in Nat /\ size <= limit /\ size <= card /\ (size = card \/ size = limit)
  BY <1>3
<1> HIDE DEF size
<1>5. \A n \in 1..size : batch[n] \in R /\ KeyRank(R, batch[n]) = n
  <2> SUFFICES ASSUME NEW n \in 1..size PROVE batch[n] \in R /\ KeyRank(R, batch[n]) = n
    OBVIOUS
  <2>1. \E k \in R : KeyRank(R, k) = n
    <3>1. n \in 1..card
      BY <1>3, <1>4
    <3> QED
      BY <1>3, <3>1
  <2> QED
    BY <2>1
<1>6. batch \in [1..size -> R]
  BY <1>5
<1> HIDE DEF batch
<1>7. batch \in Seq(R) /\ Len(batch) = size
  BY <1>4, <1>6, FunctionIsSeq
<1>8. \A m, n \in 1..size : m < n => Less(batch[m], batch[n])
  BY <1>3, <1>5
<1>9. ASSUME NEW k \in R
      PROVE  \/ \E m \in 1..size : batch[m] = k
             \/ size = limit /\ \A m \in 1..limit : Less(batch[m], k)
  <2>1. KeyRank(R, k) \in 1..card
    BY <1>3
  <2>2. CASE KeyRank(R, k) <= size
    <3> DEFINE m == KeyRank(R, k)
    <3>1. m \in 1..size
      <4> HIDE DEF m
      <4>1. m \in 1..card /\ m <= size
        BY <2>1, <2>2 DEF m
      <4> QED
        BY <1>3, <1>4, <4>1
    <3>2. batch[m] \in R /\ KeyRank(R, batch[m]) = KeyRank(R, k)
      BY <1>5, <3>1
    <3>3. ~Less(batch[m], k) /\ ~Less(k, batch[m])
      <4>1. KeyRank(R, k) \in Nat
        BY <1>3, <2>1
      <4>2. ~(KeyRank(R, k) < KeyRank(R, k))
        BY <4>1
      <4> HIDE DEF m
      <4> QED
        BY <1>3, <3>2, <4>2
    <3>4. batch[m] = k
      BY <1>2, <3>2, <3>3, LessTotal
    <3> QED
      BY <3>1, <3>4
  <2>3. CASE ~(KeyRank(R, k) <= size)
    <3>1. size < KeyRank(R, k) /\ size # card
      BY <1>3, <1>4, <2>1, <2>3
    <3>2. \A m \in 1..size : m < KeyRank(R, k)
      BY <1>3, <1>4, <2>1, <3>1
    <3> QED
      BY <1>3, <1>4, <1>5, <3>1, <3>2
  <2> QED
    BY <2>2, <2>3
<1> QED
  BY <1>1, <1>4, <1>7, <1>8, <1>9 DEF R


------------------------------------------------------------------------------
(* What is made of a batch.                                                *)

States == [from : Strings \union {NoKey}, page : Seq(Strings), cursor : Strings \union {NoKey},
           marker : Strings \union {NoKey}, skip : Strings \union {NoKey},
           way : {"go", "full", "stop"}]

\* A key makes a state of a state.
LEMMA AbsorbTyped ==
    ASSUME NEW q, NEW st \in States, NEW key \in Strings
    PROVE  Absorb(q, st, key) \in States
<1>1. Absorb(q, st, key) \in {st, [st EXCEPT !.way = "full"],
                              AbsorbGroup(st, GroupOf(key, q.prefix, q.delimiter)), AbsorbKey(st, key)}
  BY DEF Absorb
<1>2. [st EXCEPT !.way = "full"] \in States
  BY DEF States
<1>3. AbsorbKey(st, key) \in States
  <2>1. After(key) \in Strings /\ Append(st.page, key) \in Seq(Strings)
    BY AfterIs DEF States
  <2> QED
    BY <2>1 DEF AbsorbKey, States
<1>4. ASSUME GroupOf(key, q.prefix, q.delimiter) # NoKey
      PROVE  AbsorbGroup(st, GroupOf(key, q.prefix, q.delimiter)) \in States
  <2> DEFINE group == GroupOf(key, q.prefix, q.delimiter)
  <2>1. group \in Strings
    BY <1>4, GroupIs
  <2> HIDE DEF group
  <2>2. Successor(group) # NoKey => Successor(group) \in Strings
    BY <2>1, SuccessorIs
  <2>3. Append(st.page, group) \in Seq(Strings) /\ st.page \in Seq(Strings)
    BY <2>1 DEF States
  <2> QED
    BY <2>2, <2>3 DEF AbsorbGroup, States, group
<1>5. Absorb(q, st, key) = AbsorbGroup(st, GroupOf(key, q.prefix, q.delimiter))
        => GroupOf(key, q.prefix, q.delimiter) # NoKey \/ Absorb(q, st, key) \in States
  BY <1>2, <1>3 DEF Absorb
<1> QED
  BY <1>1, <1>2, <1>3, <1>4, <1>5

\* t is what the keys of the batch make of st, one by one.
TakesAll(q, st, batch, t) ==
    /\ t \in [0..Len(batch) -> States] /\ t[0] = [st EXCEPT !.skip = NoKey]
    /\ \A n \in 1..Len(batch) : t[n] = Absorb(q, t[n - 1], batch[n])

LEMMA TakenIs ==
    ASSUME NEW q, NEW st \in States, NEW batch \in Seq(Strings)
    PROVE  TakesAll(q, st, batch, Taken(q, st, batch))
<1> DEFINE size == Len(batch)
           first == [st EXCEPT !.skip = NoKey]
           step == [n \in 1..size |-> [s \in States |-> Absorb(q, s, batch[n])]]
           Recurs(f) == f = [n \in 0..size |-> IF n = 0 THEN first ELSE Absorb(q, f[n - 1], batch[n])]
<1>1. Taken(q, st, batch) = CHOOSE f : Recurs(f)
  BY DEF Taken
<1>2. size \in Nat /\ \A n \in 1..size : batch[n] \in Strings
  OBVIOUS
<1>3. first \in States
  BY DEF States
<1>4. step \in [1..size -> [States -> States]]
  BY <1>2, AbsorbTyped
<1>5. \A n \in 1..size : \A s \in States : step[n][s] = Absorb(q, s, batch[n])
  OBVIOUS
<1> HIDE DEF size, first, step
<1>6. ASSUME NEW f, Steps(f, size, States, first, step) PROVE Recurs(f)
  <2>1. f \in [0..size -> States] /\ f[0] = first /\ \A n \in 1..size : f[n] = step[n][f[n - 1]]
    BY <1>6 DEF Steps
  <2>2. \A n \in 1..size : f[n] = Absorb(q, f[n - 1], batch[n])
    <3> SUFFICES ASSUME NEW n \in 1..size PROVE f[n] = Absorb(q, f[n - 1], batch[n])
      OBVIOUS
    <3>1. n - 1 \in 0..size
      BY <1>2
    <3>2. f[n - 1] \in States
      BY <2>1, <3>1
    <3> QED
      BY <1>5, <2>1, <3>2
  <2>3. \A n \in 0..size : n = 0 \/ n \in 1..size
    BY <1>2
  <2>4. \A n \in 0..size : f[n] = IF n = 0 THEN first ELSE Absorb(q, f[n - 1], batch[n])
    BY <2>1, <2>2, <2>3
  <2>5. f = [n \in 0..size |-> f[n]]
    BY <2>1
  <2> QED
    BY <2>4, <2>5
<1>7. \E f : Recurs(f)
  <2>1. PICK f : Steps(f, size, States, first, step)
    BY <1>2, <1>3, <1>4, Recursion
  <2> HIDE DEF Recurs
  <2> QED
    BY <1>6, <2>1
<1> DEFINE t == Taken(q, st, batch)
<1>8. Recurs(t)
  <2> HIDE DEF Recurs
  <2> QED
    BY <1>1, <1>7
<1> HIDE DEF t
<1>9. t[0] = first /\ \A n \in 1..size : t[n] = Absorb(q, t[n - 1], batch[n])
  <2>1. \A n \in 0..size : t[n] = IF n = 0 THEN first ELSE Absorb(q, t[n - 1], batch[n])
    BY <1>8
  <2>2. 0 \in 0..size /\ \A n \in 1..size : n \in 0..size /\ n # 0
    BY <1>2
  <2> QED
    BY <2>1, <2>2
<1>10. \A n \in 0..size : t[n] \in States
  <2> DEFINE I == {n \in 0..size : t[n] \in States}
  <2>1. 0 \in I
    BY <1>2, <1>3, <1>9
  <2>2. \A n \in 1..size : n - 1 \in I => n \in I
    <3> SUFFICES ASSUME NEW n \in 1..size, t[n - 1] \in States PROVE n \in 0..size /\ t[n] \in States
      OBVIOUS
    <3> QED
      BY <1>2, <1>9, AbsorbTyped
  <2> HIDE DEF I
  <2>3. \A n \in 0..size : n \in I
    BY <1>2, <2>1, <2>2, Induction
  <2> QED
    BY <2>3 DEF I
<1>11. t \in [0..size -> States]
  BY <1>8, <1>10
<1> QED
  BY <1>9, <1>11 DEF TakesAll, t, size, first

==============================================================================
