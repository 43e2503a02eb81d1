---------------------------- MODULE KeyspaceProofs ----------------------------
(***************************************************************************)
(* Theorems about Keyspace, for any keys, dropped files and listings: the  *)
(* files and directories of a bucket are a tree, keys are refused only     *)
(* where they are in one another's way, a row has its bytes at its path,   *)
(* and a listing shows every key once, although keys come and go.          *)
(***************************************************************************)
EXTENDS Keyspace, ListingProofs

------------------------------------------------------------------------------
(* Paths.                                                                  *)

\* The sequences of ss one after another: what is there after n of them, and so
\* after all.
LEMMA FlattenIs ==
    ASSUME NEW S, NEW ss \in Seq(Seq(S))
    PROVE  \E f \in [0..Len(ss) -> Seq(S)] :
              /\ f[0] = <<>> /\ \A n \in 1..Len(ss) : f[n] = f[n - 1] \o ss[n]
              /\ FlattenSeq(ss) = f[Len(ss)]
<1> DEFINE size == Len(ss)
           step == [n \in 1..size |-> [s \in Seq(S) |-> s \o ss[n]]]
           Recurs(g) == g = [n \in 1..size |-> IF n = 1 THEN ss[n] ELSE g[n - 1] \o ss[n]]
<1>1. size \in Nat /\ <<>> \in Seq(S) /\ \A n \in 1..size : ss[n] \in Seq(S)
  OBVIOUS
<1>2. step \in [1..size -> [Seq(S) -> Seq(S)]]
  BY <1>1
<1>3. \A n \in 1..size : \A s \in Seq(S) : step[n][s] = s \o ss[n]
  OBVIOUS
<1> HIDE DEF size, step
<1>4. PICK f : Steps(f, size, Seq(S), <<>>, step)
  BY <1>1, <1>2, Recursion
<1>5. f \in [0..size -> Seq(S)] /\ f[0] = <<>> /\ \A n \in 1..size : f[n] = step[n][f[n - 1]]
  BY <1>4 DEF Steps
<1>6. \A n \in 1..size : f[n] = f[n - 1] \o ss[n]
  <2> SUFFICES ASSUME NEW n \in 1..size PROVE f[n] = f[n - 1] \o ss[n]
    OBVIOUS
  <2>1. n - 1 \in 0..size
    BY <1>1
  <2> QED
    BY <1>3, <1>5, <2>1
<1>7. CASE size = 0
  BY <1>5, <1>7 DEF FlattenSeq, size
<1>8. CASE size # 0
  <2> DEFINE g == [n \in 1..size |-> f[n]]
  <2>1. \A n \in 1..size : n # 1 => n - 1 \in 1..size
    BY <1>1
  <2>2. \A n \in 1..size : n = 1 => f[n - 1] \o ss[n] = ss[n]
    <3> SUFFICES ASSUME NEW n \in 1..size, n = 1 PROVE f[n - 1] \o ss[n] = ss[n]
      OBVIOUS
    <3>1. n - 1 = 0 /\ f[0] = <<>>
      BY <1>5
    <3>2. f[n - 1] = <<>>
      BY <3>1
    <3>3. ss[n] \in Seq(S)
      BY <1>1
    <3>4. <<>> \o ss[n] = ss[n]
      BY <3>3
    <3> QED
      BY <3>2, <3>4
  <2>3. \A n \in 1..size : f[n] = IF n = 1 THEN ss[n] ELSE g[n - 1] \o ss[n]
    BY <1>6, <2>1, <2>2
  <2>4. Recurs(g)
    BY <2>3
  <2> DEFINE t == CHOOSE h : Recurs(h)
  <2>5. Recurs(t)
    <3> HIDE DEF Recurs, g
    <3> QED
      BY <2>4
  <2>6. FlattenSeq(ss) = t[size]
    BY <1>8 DEF FlattenSeq, size
  <2> HIDE DEF t
  <2>7. \A n \in 1..size : t[n] = IF n = 1 THEN ss[n] ELSE t[n - 1] \o ss[n]
    BY <2>5
  <2> DEFINE I == {n \in 0..size : n > 0 => t[n] = f[n]}
  <2>8. 0 \in I
    BY <1>1
  <2>9. ASSUME NEW n \in 1..size, n - 1 \in I PROVE n \in I
    <3>1. CASE n = 1
      <4>1. t[n] = f[n]
        BY <1>6, <2>2, <2>7, <3>1
      <4> QED
        BY <1>1, <4>1
    <3>2. CASE n # 1
      <4>1. t[n - 1] = f[n - 1]
        BY <1>1, <2>9, <3>2
      <4>2. t[n] = f[n]
        BY <1>6, <2>7, <3>2, <4>1
      <4> QED
        BY <1>1, <4>2
    <3> QED
      BY <3>1, <3>2
  <2> HIDE DEF I
  <2>10. \A n \in 0..size : n \in I
    BY <1>1, <2>8, <2>9, Induction
  <2>11. t[size] = f[size]
    BY <1>1, <1>8, <2>10 DEF I
  <2> QED
    BY <1>5, <1>6, <2>6, <2>11 DEF size
<1> QED
  BY <1>7, <1>8

LEMMA FlattenTyped ==
    ASSUME NEW S, NEW ss \in Seq(Seq(S))
    PROVE  FlattenSeq(ss) \in Seq(S)
<1>1. PICK f \in [0..Len(ss) -> Seq(S)] : FlattenSeq(ss) = f[Len(ss)]
  BY FlattenIs
<1>2. Len(ss) \in 0..Len(ss)
  OBVIOUS
<1> QED
  BY <1>1, <1>2

\* L[n] is where the first n sequences of ss end, one after another.
PartsAt(ss, L) ==
    /\ L \in [0..Len(ss) -> Nat] /\ L[0] = 0
    /\ \A n \in 1..Len(ss) : L[n] = L[n - 1] + Len(ss[n])

\* They are what there is in the whole.
Laid(ss, whole, L) ==
    /\ PartsAt(ss, L) /\ Len(whole) = L[Len(ss)]
    /\ \A n \in 1..Len(ss) : \A i \in 1..Len(ss[n]) : whole[L[n - 1] + i] = ss[n][i]

LEMMA FlattenAt ==
    ASSUME NEW S, NEW ss \in Seq(Seq(S))
    PROVE  \E L : Laid(ss, FlattenSeq(ss), L)
<1> DEFINE size == Len(ss)
<1>1. size \in Nat /\ \A n \in 1..size : ss[n] \in Seq(S) /\ Len(ss[n]) \in Nat
  OBVIOUS
<1>2. PICK f \in [0..size -> Seq(S)] :
         /\ f[0] = <<>> /\ \A n \in 1..size : f[n] = f[n - 1] \o ss[n]
         /\ FlattenSeq(ss) = f[size]
  BY FlattenIs
<1> DEFINE L == [n \in 0..size |-> Len(f[n])]
<1> HIDE DEF size
<1>3. \A n \in 0..size : f[n] \in Seq(S) /\ Len(f[n]) \in Nat
  BY <1>2
<1>4. \A n \in 1..size : n - 1 \in 0..size /\ n \in 0..size
  BY <1>1
<1>5. ASSUME NEW n \in 1..size
      PROVE  /\ Len(f[n]) = Len(f[n - 1]) + Len(ss[n])
             /\ \A i \in 1..Len(f[n - 1]) : f[n][i] = f[n - 1][i]
             /\ \A i \in 1..Len(ss[n]) : f[n][Len(f[n - 1]) + i] = ss[n][i]
  <2>1. f[n - 1] \in Seq(S) /\ ss[n] \in Seq(S) /\ f[n] = f[n - 1] \o ss[n]
    BY <1>1, <1>2, <1>3, <1>4
  <2> DEFINE s == f[n - 1]
             t == ss[n]
  <2>2. s \in Seq(S) /\ t \in Seq(S) /\ f[n] = s \o t
    BY <2>1
  <2> HIDE DEF s, t
  <2>3. /\ Len(s \o t) = Len(s) + Len(t)
        /\ \A i \in 1..Len(s) : (s \o t)[i] = s[i]
        /\ \A i \in 1..Len(t) : (s \o t)[Len(s) + i] = t[i]
    BY <2>2
  <2>4. /\ Len(f[n]) = Len(s) + Len(t)
        /\ \A i \in 1..Len(s) : f[n][i] = s[i]
        /\ \A i \in 1..Len(t) : f[n][Len(s) + i] = t[i]
    BY <2>2, <2>3
  <2> QED
    BY <2>4 DEF s, t
<1>6. PartsAt(ss, L)
  <2>1. \A n \in 1..size : L[n] = L[n - 1] + Len(ss[n])
    BY <1>4, <1>5
  <2>2. L \in [0..size -> Nat]
    BY <1>3
  <2>3. L[0] = 0
    BY <1>1, <1>2
  <2> QED
    BY <2>1, <2>2, <2>3 DEF PartsAt, size
<1>7. ASSUME NEW n \in 1..size, NEW i \in 1..Len(ss[n])
      PROVE  f[size][Len(f[n - 1]) + i] = ss[n][i]
  <2> DEFINE place == Len(f[n - 1]) + i
             I == {h \in 0..size : h >= n => place \in 1..Len(f[h]) /\ f[h][place] = ss[n][i]}
  <2>1. n \in Nat /\ i \in Nat /\ Len(ss[n]) \in Nat /\ Len(f[n - 1]) \in Nat /\ place \in Nat
    BY <1>1, <1>3, <1>4
  <2>2. 0 \in I
    BY <1>1
  <2>3. ASSUME NEW h \in 1..size, h - 1 \in I PROVE h \in I
    <3>1. h \in 0..size /\ h \in Nat /\ Len(f[h]) \in Nat /\ Len(f[h - 1]) \in Nat /\ Len(ss[h]) \in Nat
      BY <1>1, <1>3, <1>4
    <3>2. CASE h < n
      BY <2>1, <3>1, <3>2
    <3>3. CASE h = n
      <4>1. place \in 1..Len(f[h])
        <5>1. Len(f[h]) = Len(f[n - 1]) + Len(ss[n])
          BY <1>5, <3>3
        <5>2. \A x, y \in Nat : \A j \in 1..y : x + j \in 1..(x + y)
          OBVIOUS
        <5>3. place \in 1..(Len(f[n - 1]) + Len(ss[n]))
          BY <2>1, <5>2
        <5> QED
          BY <5>1, <5>3
      <4>2. f[h][place] = ss[n][i]
        BY <1>5, <3>3
      <4> QED
        BY <3>1, <4>1, <4>2
    <3>4. CASE h > n
      <4>1. place \in 1..Len(f[h - 1]) /\ f[h - 1][place] = ss[n][i]
        BY <2>1, <2>3, <3>1, <3>4
      <4>2. f[h][place] = f[h - 1][place] /\ Len(f[h]) = Len(f[h - 1]) + Len(ss[h])
        BY <1>5, <4>1
      <4>3. place \in 1..Len(f[h])
        <5>1. \A x, y \in Nat : \A j \in 1..x : j \in 1..(x + y)
          OBVIOUS
        <5>2. place \in 1..(Len(f[h - 1]) + Len(ss[h]))
          BY <3>1, <4>1, <5>1
        <5> QED
          BY <4>2, <5>2
      <4> QED
        BY <3>1, <4>1, <4>2, <4>3
    <3> QED
      BY <2>1, <3>1, <3>2, <3>3, <3>4
  <2> HIDE DEF I
  <2>4. \A h \in 0..size : h \in I
    BY <1>1, <2>2, <2>3, Induction
  <2>5. size \in I /\ size >= n
    BY <1>1, <2>1, <2>4
  <2> QED
    BY <2>5 DEF I
<1>8. Len(FlattenSeq(ss)) = L[size]
  BY <1>1, <1>2
<1>9. \A n \in 1..size : L[n - 1] = Len(f[n - 1])
  BY <1>4
<1> HIDE DEF L
<1>10. \A n \in 1..size : \A i \in 1..Len(ss[n]) : FlattenSeq(ss)[L[n - 1] + i] = ss[n][i]
  BY <1>2, <1>7, <1>9
<1> QED
  BY <1>6, <1>8, <1>10 DEF Laid, size

\* The parts end in order, and each place of the whole is in one.
LEMMA PartsCover ==
    ASSUME NEW S, NEW ss \in Seq(Seq(S)), NEW L, PartsAt(ss, L)
    PROVE  /\ \A a, b \in 0..Len(ss) : a <= b => L[a] <= L[b]
           /\ \A i \in 1..L[Len(ss)] : \E n \in 1..Len(ss) : L[n - 1] < i /\ i <= L[n]
<1> DEFINE size == Len(ss)
<1>1. size \in Nat /\ \A n \in 1..size : Len(ss[n]) \in Nat /\ n \in 0..size /\ n - 1 \in 0..size
  OBVIOUS
<1>2. /\ \A n \in 0..size : L[n] \in Nat
      /\ L[0] = 0
      /\ \A n \in 1..size : L[n] = L[n - 1] + Len(ss[n])
  BY DEF PartsAt
<1> HIDE DEF size
<1>3. ASSUME NEW a \in 0..size PROVE \A b \in 0..size : a <= b => L[a] <= L[b]
  <2> DEFINE I == {b \in 0..size : a <= b => L[a] <= L[b]}
  <2>1. 0 \in I
    BY <1>1, <1>2
  <2>2. ASSUME NEW b \in 1..size, b - 1 \in I PROVE b \in I
    <3>1. a = b \/ b < a \/ a <= b - 1
      BY <1>1
    <3>2. L[b] \in Nat /\ L[b - 1] \in Nat /\ L[b - 1] <= L[b]
      BY <1>1, <1>2
    <3>3. L[a] \in Nat
      BY <1>2
    <3>4. a <= b => L[a] <= L[b]
      <4>1. CASE a = b
        BY <3>2, <4>1
      <4>2. CASE b < a
        BY <1>1, <4>2
      <4>3. CASE a <= b - 1
        BY <2>2, <3>2, <3>3, <4>3
      <4> QED
        BY <3>1, <4>1, <4>2, <4>3
    <3> QED
      BY <1>1, <3>4
  <2> HIDE DEF I
  <2>3. \A b \in 0..size : b \in I
    BY <1>1, <2>1, <2>2, Induction
  <2> QED
    BY <2>3 DEF I
<1>4. \A i \in 1..L[size] : \E n \in 1..size : L[n - 1] < i /\ i <= L[n]
  <2> DEFINE I == {h \in 0..size : \A i \in 1..L[h] : \E n \in 1..size : L[n - 1] < i /\ i <= L[n]}
  <2>1. 0 \in I
    BY <1>1, <1>2
  <2>2. ASSUME NEW h \in 1..size, h - 1 \in I PROVE h \in I
    <3> SUFFICES ASSUME NEW i \in 1..L[h] PROVE \E n \in 1..size : L[n - 1] < i /\ i <= L[n]
      BY <1>1
    <3>1. L[h] \in Nat /\ L[h - 1] \in Nat
      BY <1>1, <1>2
    <3>2. CASE i <= L[h - 1]
      <4>1. i \in 1..L[h - 1]
        BY <3>1, <3>2
      <4> QED
        BY <2>2, <4>1
    <3>3. CASE L[h - 1] < i
      BY <3>1, <3>3
    <3> QED
      BY <3>1, <3>2, <3>3
  <2> HIDE DEF I
  <2>3. \A h \in 0..size : h \in I
    BY <1>1, <2>1, <2>2, Induction
  <2>4. size \in I
    BY <1>1, <2>3
  <2> QED
    BY <2>4 DEF I
<1> QED
  BY <1>3, <1>4 DEF size

\* The segments of a key are strings, and so are the names that they become.
LEMMA SegmentsAre ==
    ASSUME NEW k \in Strings
    PROVE  Segments(k) \in Seq(Strings)
<1> DEFINE cuts == {0} \union {i \in DOMAIN k : k[i] = Slash}
           ends == Append(Sorted(cuts), Len(k) + 1)
<1>1. Len(k) \in Nat /\ DOMAIN k = 1..Len(k) /\ k \in Seq(Scalars)
  BY StringIs DEF Strings
<1>2. cuts \in SUBSET (0..Len(k)) /\ cuts \in SUBSET Nat /\ IsFiniteSet(cuts) /\ 0 \in cuts
  <2>1. IsFiniteSet(0..Len(k)) /\ cuts \subseteq 0..Len(k)
    BY <1>1, FS_Interval
  <2> QED
    BY <1>1, <2>1, FS_Subset
<1> HIDE DEF cuts
<1>3. /\ Sorted(cuts) \in Seq(cuts) /\ Len(Sorted(cuts)) \in Nat
      /\ \A m, n \in DOMAIN Sorted(cuts) : m < n => Sorted(cuts)[m] < Sorted(cuts)[n]
  BY <1>2, SortedIs
<1>4. Sorted(cuts) \in Seq(0..(Len(k) + 1))
  <2>1. cuts \subseteq 0..(Len(k) + 1)
    BY <1>1, <1>2
  <2> QED
    BY <1>3, <2>1, SeqMonotonic
<1>5. ends \in Seq(0..(Len(k) + 1)) /\ Len(ends) = Len(Sorted(cuts)) + 1
  <2>1. Len(k) + 1 \in 0..(Len(k) + 1)
    BY <1>1
  <2> QED
    BY <1>4, <2>1, AppendProperties
<1>6. Segments(k) = [n \in 1..(Len(ends) - 1) |-> SubSeq(k, ends[n] + 1, ends[n + 1] - 1)]
  BY DEF Segments, cuts
<1> HIDE DEF ends
<1>7. ASSUME NEW n \in 1..(Len(ends) - 1)
      PROVE  SubSeq(k, ends[n] + 1, ends[n + 1] - 1) \in Strings
  <2>1. ends[n] \in 0..(Len(k) + 1) /\ ends[n + 1] \in 0..(Len(k) + 1)
    <3>1. n \in 1..Len(ends) /\ n + 1 \in 1..Len(ends)
      BY <1>3, <1>5
    <3> QED
      BY <1>5, <3>1
  <2>2. \A i \in (ends[n] + 1)..(ends[n + 1] - 1) : k[i] \in Scalars
    BY <1>1, <2>1
  <2>3. ends[n] + 1 \in Int /\ ends[n + 1] - 1 \in Int
    BY <1>1, <2>1
  <2> HIDE DEF ends
  <2> QED
    BY <1>1, <2>2, <2>3, SubSeqProperties DEF Strings
<1>8. Len(ends) - 1 \in Nat
  BY <1>3, <1>5
<1> QED
  BY <1>6, <1>7, <1>8, FunctionIsSeq

LEMMA EncodeTyped ==
    ASSUME NEW s \in Strings
    PROVE  EncodeSegment(s) \in Strings
<1> DEFINE ss == [i \in 1..Len(s) |->
                    IF s[i] \in Illegal \/ i >= TrailingFrom(s) \/ (i = 1 /\ IsDevice(s))
                    THEN Escape(s[i]) ELSE <<s[i]>>]
<1>1. Len(s) \in Nat /\ DOMAIN s = 1..Len(s) /\ \A i \in 1..Len(s) : s[i] \in Scalars
  BY StringIs
<1>2. \A i \in 1..Len(s) : Escape(s[i]) \in Seq(Scalars) /\ <<s[i]>> \in Seq(Scalars)
  BY <1>1, CharactersAssumption DEF Escape
<1>3. ss \in [1..Len(s) -> Seq(Scalars)]
  BY <1>2
<1>4. EncodeSegment(s) = FlattenSeq(ss)
  BY <1>1 DEF EncodeSegment
<1> HIDE DEF ss
<1>5. ss \in Seq(Seq(Scalars))
  BY <1>1, <1>3, FunctionIsSeq
<1> QED
  BY <1>4, <1>5, FlattenTyped DEF Strings

LEMMA PathIs ==
    ASSUME NEW k \in Strings
    PROVE  PathOf(k) \in Seq(Strings)
<1> DEFINE names == Only(Segments(k), Range(Segments(k)) \ {<<>>})
<1>1. names \in Seq(Strings)
  BY SegmentsAre, OnlyIs
<1> HIDE DEF names
<1>2. DOMAIN names = 1..Len(names) /\ Len(names) \in Nat /\ \A n \in 1..Len(names) : names[n] \in Strings
  BY <1>1
<1>3. PathOf(k) = [n \in 1..Len(names) |-> EncodeSegment(names[n])]
  BY <1>2 DEF PathOf, names
<1>4. PathOf(k) \in [1..Len(names) -> Strings]
  BY <1>2, <1>3, EncodeTyped
<1> QED
  BY <1>2, <1>4, FunctionIsSeq

\* The key that a path stands for is a string.
LEMMA DecodeTyped ==
    ASSUME NEW name \in Strings
    PROVE  Decode(name) \in Strings
<1>1. Len(name) \in Nat /\ DOMAIN name = 1..Len(name) /\ \A i \in 1..Len(name) : name[i] \in Scalars
  BY StringIs
<1>2. PICK I : I \subseteq DOMAIN name /\ Decode(name) = [n \in DOMAIN Sorted(I) |-> name[Sorted(I)[n]]]
  BY DEF Decode
<1>3. I \in SUBSET Nat /\ IsFiniteSet(I)
  <2>1. IsFiniteSet(1..Len(name)) /\ I \subseteq 1..Len(name)
    BY <1>1, <1>2, FS_Interval
  <2>2. I \subseteq Nat
    BY <2>1
  <2> QED
    BY <2>1, <2>2, FS_Subset
<1>4. Sorted(I) \in Seq(I)
  BY <1>3, SortedIs
<1>5. DOMAIN Sorted(I) = 1..Len(Sorted(I)) /\ Len(Sorted(I)) \in Nat
      /\ \A n \in 1..Len(Sorted(I)) : Sorted(I)[n] \in I
  BY <1>4
<1>6. Decode(name) \in [1..Len(Sorted(I)) -> Scalars]
  BY <1>1, <1>2, <1>5
<1> QED
  BY <1>5, <1>6, FunctionIsSeq DEF Strings

LEMMA KeyOfTyped ==
    ASSUME NEW path \in Seq(Strings)
    PROVE  KeyOf(path) \in Strings
<1> DEFINE ss == [n \in 1..Len(path) |-> (IF n > 1 THEN <<Slash>> ELSE <<>>) \o Decode(path[n])]
<1>1. Len(path) \in Nat /\ DOMAIN path = 1..Len(path) /\ \A n \in 1..Len(path) : path[n] \in Strings
  OBVIOUS
<1>2. \A n \in 1..Len(path) : Decode(path[n]) \in Seq(Scalars)
  BY <1>1, DecodeTyped DEF Strings
<1>3. <<Slash>> \in Seq(Scalars) /\ <<>> \in Seq(Scalars)
  BY CharactersAssumption
<1>4. ss \in [1..Len(path) -> Seq(Scalars)]
  BY <1>2, <1>3
<1>5. KeyOf(path) = FlattenSeq(ss)
  BY <1>1 DEF KeyOf
<1> HIDE DEF ss
<1>6. ss \in Seq(Seq(Scalars))
  BY <1>1, <1>4, FunctionIsSeq
<1> QED
  BY <1>5, <1>6, FlattenTyped DEF Strings

\* Which characters of a name are escaped, and what it is decoded to.
LEMMA DecodeIs ==
    ASSUME NEW name \in Strings
    PROVE  \E E \in [1..Len(name) -> BOOLEAN] :
              /\ \A i \in 1..Len(name) : E[i] <=> (i > 1 /\ name[i - 1] = Percent /\ ~E[i - 1])
              /\ LET literal == {i \in 1..Len(name) : name[i] # Percent \/ E[i] \/ i = Len(name)}
                 IN  Decode(name) = [n \in DOMAIN Sorted(literal) |-> name[Sorted(literal)[n]]]
<1> DEFINE size == Len(name)
           step == [i \in 1..size |-> [b \in BOOLEAN |-> i > 1 /\ name[i - 1] = Percent /\ ~b]]
           Recurs(g) == g = [i \in DOMAIN name |-> i > 1 /\ name[i - 1] = Percent /\ ~g[i - 1]]
           E == CHOOSE g : Recurs(g)
<1>1. size \in Nat /\ DOMAIN name = 1..size
  BY StringIs
<1>2. step \in [1..size -> [BOOLEAN -> BOOLEAN]]
  OBVIOUS
<1>3. \A i \in 1..size : \A b \in BOOLEAN : step[i][b] <=> (i > 1 /\ name[i - 1] = Percent /\ ~b)
  OBVIOUS
<1> HIDE DEF size, step
<1>4. PICK f : Steps(f, size, BOOLEAN, FALSE, step)
  BY <1>1, <1>2, Recursion
<1>5. f \in [0..size -> BOOLEAN] /\ \A i \in 1..size : f[i] = step[i][f[i - 1]]
  BY <1>4 DEF Steps
<1>6. \A i \in 1..size : f[i] <=> (i > 1 /\ name[i - 1] = Percent /\ ~f[i - 1])
  <2> SUFFICES ASSUME NEW i \in 1..size PROVE f[i] <=> (i > 1 /\ name[i - 1] = Percent /\ ~f[i - 1])
    OBVIOUS
  <2>1. i - 1 \in 0..size
    BY <1>1
  <2>2. f[i - 1] \in BOOLEAN
    BY <1>5, <2>1
  <2> QED
    BY <1>3, <1>5, <2>2
<1>7. \E g : Recurs(g)
  <2> DEFINE g == [i \in 1..size |-> f[i]]
  <2>1. \A i \in 1..size : i > 1 => i - 1 \in 1..size
    BY <1>1
  <2>2. \A i \in 1..size : f[i] \in BOOLEAN
    <3>1. \A i \in 1..size : i \in 0..size
      BY <1>1
    <3> QED
      BY <1>5, <3>1
  <2>3. \A i \in 1..size : f[i] = (i > 1 /\ name[i - 1] = Percent /\ ~g[i - 1])
    <3> SUFFICES ASSUME NEW i \in 1..size
                 PROVE  f[i] <=> (i > 1 /\ name[i - 1] = Percent /\ ~g[i - 1])
      BY <2>2
    <3> QED
      BY <1>6, <2>1
  <2>4. Recurs(g)
    BY <1>1, <2>3
  <2> HIDE DEF g, Recurs
  <2> QED
    BY <2>4
<1>8. Recurs(E)
  <2> HIDE DEF Recurs
  <2> QED
    BY <1>7
<1> DEFINE literal == {i \in DOMAIN name : name[i] # Percent \/ E[i] \/ i = Len(name)}
<1>9. Decode(name) = [n \in DOMAIN Sorted(literal) |-> name[Sorted(literal)[n]]]
  BY DEF Decode
<1> HIDE DEF E
<1>10. E \in [1..size -> BOOLEAN]
  BY <1>1, <1>8
<1>11. \A i \in 1..size : E[i] <=> (i > 1 /\ name[i - 1] = Percent /\ ~E[i - 1])
  <2> SUFFICES ASSUME NEW i \in 1..size PROVE E[i] <=> (i > 1 /\ name[i - 1] = Percent /\ ~E[i - 1])
    OBVIOUS
  <2>1. E[i] = (i > 1 /\ name[i - 1] = Percent /\ ~E[i - 1])
    BY <1>1, <1>8
  <2> QED
    BY <2>1
<1>12. literal = {i \in 1..size : name[i] # Percent \/ E[i] \/ i = size}
  BY <1>1 DEF size
<1> HIDE DEF literal, Recurs
<1> QED
  BY <1>9, <1>10, <1>11, <1>12 DEF size

\* The name of a segment gives the segment back: the percent sign is always
\* escaped, and so nothing else is taken for an escape.
LEMMA DecodeEncode ==
    ASSUME NEW s \in Strings
    PROVE  Decode(EncodeSegment(s)) = s
<1> DEFINE m == Len(s)
           Escaped(i) == s[i] \in Illegal \/ i >= TrailingFrom(s) \/ (i = 1 /\ IsDevice(s))
           ss == [i \in 1..m |-> IF Escaped(i) THEN Escape(s[i]) ELSE <<s[i]>>]
           name == EncodeSegment(s)
<1>1. m \in Nat /\ DOMAIN s = 1..m /\ (\A i \in 1..m : s[i] \in Scalars) /\ s = [i \in 1..m |-> s[i]]
  <2>1. s \in Seq(Scalars)
    BY DEF Strings
  <2> QED
    BY <2>1, StringIs
<1>2. \A i \in 1..m : \/ ss[i] = <<s[i]>> /\ s[i] # Percent
                      \/ ss[i] = <<Percent, s[i]>>
  BY PercentAssumption DEF Escape
<1>3. ss \in Seq(Seq(Scalars)) /\ Len(ss) = m
  <2>1. \A i \in 1..m : Escape(s[i]) \in Seq(Scalars) /\ <<s[i]>> \in Seq(Scalars)
    BY <1>1, CharactersAssumption DEF Escape
  <2>2. ss \in [1..m -> Seq(Scalars)]
    BY <2>1
  <2> HIDE DEF ss
  <2> QED
    BY <1>1, <2>2, FunctionIsSeq
<1>4. name = FlattenSeq(ss) /\ name \in Strings
  <2>1. name = FlattenSeq(ss)
    BY <1>1 DEF EncodeSegment
  <2> QED
    BY <2>1, EncodeTyped
<1> HIDE DEF ss, name
<1>5. PICK L : /\ PartsAt(ss, L) /\ Len(name) = L[m]
               /\ \A n \in 1..m : \A i \in 1..Len(ss[n]) : name[L[n - 1] + i] = ss[n][i]
  <2>1. PICK L : Laid(ss, name, L)
    BY <1>3, <1>4, FlattenAt
  <2> QED
    BY <1>3, <2>1 DEF Laid
<1>6. /\ \A a, b \in 0..m : a <= b => L[a] <= L[b]
      /\ \A i \in 1..L[m] : \E n \in 1..m : L[n - 1] < i /\ i <= L[n]
  BY <1>3, <1>5, PartsCover
<1>7. /\ \A n \in 0..m : L[n] \in Nat
      /\ L[0] = 0
      /\ \A n \in 1..m : L[n] = L[n - 1] + Len(ss[n])
  BY <1>3, <1>5 DEF PartsAt
<1> HIDE DEF m
<1>8. \A n \in 1..m : n - 1 \in 0..m /\ n \in 0..m /\ m \in 0..m
  BY <1>1
<1>9. ASSUME NEW n \in 1..m
      PROVE  \/ L[n] = L[n - 1] + 1 /\ name[L[n - 1] + 1] = s[n] /\ s[n] # Percent
             \/ /\ L[n] = L[n - 1] + 2 /\ name[L[n - 1] + 1] = Percent
                /\ name[L[n - 1] + 2] = s[n]
  <2>1. CASE ss[n] = <<s[n]>> /\ s[n] # Percent
    <3>1. Len(ss[n]) = 1 /\ ss[n][1] = s[n]
      BY <2>1
    <3>2. 1 \in 1..Len(ss[n])
      BY <3>1
    <3>3. name[L[n - 1] + 1] = s[n] /\ L[n] = L[n - 1] + 1
      BY <1>5, <1>7, <3>1, <3>2
    <3> QED
      BY <2>1, <3>3
  <2>2. CASE ss[n] = <<Percent, s[n]>>
    <3>1. Len(ss[n]) = 2 /\ ss[n][1] = Percent /\ ss[n][2] = s[n]
      BY <2>2
    <3>2. 1 \in 1..Len(ss[n]) /\ 2 \in 1..Len(ss[n])
      BY <3>1
    <3> QED
      BY <1>5, <1>7, <3>1, <3>2
  <2> QED
    BY <1>2, <2>1, <2>2
<1>10. \A n \in 1..m : L[n - 1] \in Nat /\ L[n] \in Nat /\ L[n - 1] < L[n] /\ L[n] <= Len(name)
  <2> SUFFICES ASSUME NEW n \in 1..m
               PROVE  L[n - 1] \in Nat /\ L[n] \in Nat /\ L[n - 1] < L[n] /\ L[n] <= Len(name)
    OBVIOUS
  <2>1. L[n - 1] \in Nat /\ L[n] \in Nat
    BY <1>7, <1>8
  <2>2. n <= m
    BY <1>1
  <2>3. L[n] <= Len(name)
    BY <1>5, <1>6, <1>8, <2>2
  <2>4. L[n] = L[n - 1] + 1 \/ L[n] = L[n - 1] + 2
    BY <1>9
  <2> QED
    BY <2>1, <2>3, <2>4
<1>11. PICK E \in [1..Len(name) -> BOOLEAN] :
          /\ \A i \in 1..Len(name) : E[i] <=> (i > 1 /\ name[i - 1] = Percent /\ ~E[i - 1])
          /\ LET literal == {i \in 1..Len(name) : name[i] # Percent \/ E[i] \/ i = Len(name)}
             IN  Decode(name) = [n \in DOMAIN Sorted(literal) |-> name[Sorted(literal)[n]]]
  BY <1>4, DecodeIs
<1> DEFINE literal == {i \in 1..Len(name) : name[i] # Percent \/ E[i] \/ i = Len(name)}
           I == {n \in 0..m : n > 0 => (name[L[n]] = Percent => E[L[n]])}
<1>12. ASSUME NEW n \in 1..m, n - 1 \in I
       PROVE  /\ n \in I /\ L[n] \in literal
              /\ \A i \in literal : L[n - 1] < i /\ i <= L[n] => i = L[n]
  <2> DEFINE a == L[n - 1] + 1
  <2>1. a \in 1..Len(name) /\ L[n] \in 1..Len(name) /\ Len(name) \in Nat
    BY <1>4, <1>10, StringIs
  <2>2. ~E[a]
    <3>1. CASE a = 1
      BY <1>11, <2>1, <3>1
    <3>2. CASE a # 1
      <4>1. n - 1 > 0 /\ a - 1 = L[n - 1]
        BY <1>1, <1>7, <1>10, <3>2
      <4>2. name[a - 1] = Percent => E[a - 1]
        BY <1>12, <4>1
      <4> QED
        BY <1>11, <2>1, <4>2
    <3> QED
      BY <3>1, <3>2
  <2>3. CASE L[n] = a /\ name[a] = s[n] /\ s[n] # Percent
    <3>1. n \in I /\ L[n] \in literal
      BY <1>8, <2>1, <2>3
    <3>2. \A i \in literal : L[n - 1] < i /\ i <= L[n] => i = L[n]
      BY <1>10, <2>1, <2>3
    <3> QED
      BY <3>1, <3>2
  <2>4. CASE L[n] = a + 1 /\ name[a] = Percent /\ name[a + 1] = s[n]
    <3>1. E[a + 1]
      <4>1. a + 1 \in 1..Len(name) /\ a + 1 > 1 /\ a + 1 - 1 = a
        BY <2>1, <2>4
      <4> DEFINE b == a + 1
      <4> HIDE DEF a
      <4>2. b \in 1..Len(name) /\ b > 1 /\ b - 1 = a
        BY <2>1, <4>1
      <4> HIDE DEF b
      <4>3. name[b - 1] = Percent /\ ~E[b - 1]
        BY <2>2, <2>4, <4>2
      <4>4. E[b]
        BY <1>11, <4>2, <4>3
      <4> QED
        BY <4>4 DEF b
    <3>2. n \in I /\ L[n] \in literal
      BY <1>8, <2>1, <2>4, <3>1
    <3>3. a \notin literal
      BY <2>1, <2>2, <2>4
    <3>4. \A i \in literal : L[n - 1] < i /\ i <= L[n] => i = a \/ i = L[n]
      BY <1>10, <2>1, <2>4
    <3> QED
      BY <3>2, <3>3, <3>4
  <2> QED
    BY <1>9, <1>10, <2>3, <2>4
<1>13. \A n \in 0..m : n \in I
  <2>1. 0 \in I
    BY <1>1
  <2> HIDE DEF I, literal
  <2> QED
    BY <1>1, <1>12, <2>1, Induction
<1> HIDE DEF I
<1>14. \A n \in 1..m : /\ L[n] \in literal
                       /\ \A i \in literal : L[n - 1] < i /\ i <= L[n] => i = L[n]
  BY <1>8, <1>12, <1>13
<1> DEFINE e == [n \in 1..m |-> L[n]]
<1>15. Sorted(literal) = e
  <2>1. literal \in SUBSET Nat
    OBVIOUS
  <2>2. \A i \in literal : \E n \in 1..m : e[n] = i
    <3> SUFFICES ASSUME NEW i \in literal PROVE \E n \in 1..m : e[n] = i
      OBVIOUS
    <3>1. i \in 1..L[m]
      BY <1>5
    <3>2. PICK n \in 1..m : L[n - 1] < i /\ i <= L[n]
      BY <1>6, <3>1
    <3> QED
      BY <1>14, <3>2
  <2> HIDE DEF literal
  <2>3. e \in [1..m -> literal]
    BY <1>14
  <2>4. \A a, b \in 1..m : a < b => e[a] < e[b]
    <3> SUFFICES ASSUME NEW a \in 1..m, NEW b \in 1..m, a < b PROVE L[a] < L[b]
      OBVIOUS
    <3>1. a <= b - 1
      BY <1>1
    <3>2. L[a] <= L[b - 1] /\ L[b - 1] < L[b] /\ L[a] \in Nat
      BY <1>6, <1>8, <1>10, <3>1
    <3> QED
      BY <1>10, <3>2
  <2> HIDE DEF e
  <2> QED
    BY <1>1, <2>1, <2>2, <2>3, <2>4, SortedUnique
<1>16. \A n \in 1..m : name[L[n]] = s[n]
  BY <1>9
<1>17. Decode(name) = [n \in DOMAIN e |-> name[e[n]]]
  BY <1>11, <1>15
<1>18. Decode(name) = [n \in 1..m |-> s[n]]
  BY <1>16, <1>17
<1> QED
  BY <1>1, <1>18 DEF name

------------------------------------------------------------------------------
(* The names of a path, and the key that it gives back.                    *)

\* Where the segments of k are cut.
CutAt(k, segments, E) ==
    /\ Len(segments) \in Nat \ {0}
    /\ E \in [1..(Len(segments) + 1) -> 0..(Len(k) + 1)]
    /\ E[1] = 0 /\ E[Len(segments) + 1] = Len(k) + 1
    /\ \A x, y \in 1..(Len(segments) + 1) : x < y => E[x] < E[y]
    /\ \A x \in 1..(Len(segments) + 1) : E[x] \in 1..Len(k) => k[E[x]] = Slash
    /\ \A i \in 1..Len(k) : k[i] = Slash => \E x \in 1..(Len(segments) + 1) : E[x] = i
    /\ \A n \in 1..Len(segments) : segments[n] = SubSeq(k, E[n] + 1, E[n + 1] - 1)

LEMMA SegmentsCut ==
    ASSUME NEW k \in Strings
    PROVE  \E E : CutAt(k, Segments(k), E)
<1> DEFINE cuts == {0} \union {i \in DOMAIN k : k[i] = Slash}
           sorted == Sorted(cuts)
           ends == Append(sorted, Len(k) + 1)
           m == Len(sorted)
<1>1. Len(k) \in Nat /\ DOMAIN k = 1..Len(k)
  BY StringIs
<1>2. /\ cuts \in SUBSET (0..Len(k)) /\ cuts \in SUBSET Nat /\ IsFiniteSet(cuts) /\ 0 \in cuts
      /\ \A i \in cuts : i # 0 => i \in 1..Len(k) /\ k[i] = Slash
      /\ \A i \in 1..Len(k) : k[i] = Slash => i \in cuts
  <2>1. IsFiniteSet(0..Len(k)) /\ cuts \subseteq 0..Len(k)
    BY <1>1, FS_Interval
  <2> QED
    BY <1>1, <2>1, FS_Subset
<1>3. Segments(k) = [n \in 1..(Len(ends) - 1) |-> SubSeq(k, ends[n] + 1, ends[n + 1] - 1)]
  BY DEF Segments
<1> HIDE DEF cuts
<1>4. /\ sorted \in Seq(cuts)
      /\ \A x, y \in DOMAIN sorted : x < y => sorted[x] < sorted[y]
      /\ \A i \in cuts : \E x \in DOMAIN sorted : sorted[x] = i
  BY <1>2, SortedIs
<1> HIDE DEF sorted
<1>5. m \in Nat /\ DOMAIN sorted = 1..m /\ \A x \in 1..m : sorted[x] \in cuts /\ sorted[x] \in 0..Len(k)
  <2>1. m \in Nat /\ DOMAIN sorted = 1..m /\ \A x \in 1..m : sorted[x] \in cuts
    BY <1>4
  <2>2. \A i \in cuts : i \in 0..Len(k)
    BY <1>2
  <2> QED
    BY <2>1, <2>2
<1>6. m # 0
  <2>1. PICK x \in 1..m : sorted[x] = 0
    BY <1>2, <1>4, <1>5
  <2> QED
    BY <1>5
<1>7. /\ Len(ends) = m + 1 /\ ends[m + 1] = Len(k) + 1
      /\ \A x \in 1..m : ends[x] = sorted[x]
  BY <1>4, <1>5
<1> HIDE DEF ends, m
<1>8. Segments(k) = [n \in 1..m |-> SubSeq(k, ends[n] + 1, ends[n + 1] - 1)]
  <2>1. Len(ends) - 1 = m
    BY <1>5, <1>7
  <2> QED
    BY <1>3, <2>1
<1>9. Len(Segments(k)) = m
  BY <1>5, <1>8
<1> DEFINE E == [x \in 1..(m + 1) |-> ends[x]]
<1>10. \A x \in 1..(m + 1) : x \in 1..m \/ x = m + 1
  BY <1>5
<1>11. \A x \in 1..(m + 1) : ends[x] \in 0..(Len(k) + 1)
  <2>1. Len(k) + 1 \in 0..(Len(k) + 1) /\ \A i \in 0..Len(k) : i \in 0..(Len(k) + 1)
    BY <1>1
  <2> QED
    BY <1>5, <1>7, <1>10, <2>1
<1>12. ends[1] = 0
  <2>1. PICK x \in 1..m : sorted[x] = 0
    BY <1>2, <1>4, <1>5
  <2>2. 1 \in 1..m /\ (x = 1 \/ 1 < x)
    BY <1>5, <1>6
  <2>3. sorted[1] \in Nat
    BY <1>1, <1>5, <2>2
  <2>4. ~(1 < x)
    BY <1>4, <1>5, <2>1, <2>2, <2>3
  <2> QED
    BY <1>7, <2>1, <2>2, <2>4
<1>13. ASSUME NEW x \in 1..(m + 1), NEW y \in 1..(m + 1), x < y PROVE ends[x] < ends[y]
  <2>1. x \in 1..m
    BY <1>5, <1>13
  <2>2. CASE y \in 1..m
    BY <1>4, <1>5, <1>7, <1>13, <2>1, <2>2
  <2>3. CASE y = m + 1
    <3>1. ends[x] \in 0..Len(k)
      BY <1>5, <1>7, <2>1
    <3> QED
      BY <1>1, <1>7, <2>3, <3>1
  <2> QED
    BY <1>10, <2>2, <2>3
<1>14. \A x \in 1..(m + 1) : ends[x] \in 1..Len(k) => k[ends[x]] = Slash
  <2> SUFFICES ASSUME NEW x \in 1..(m + 1), ends[x] \in 1..Len(k) PROVE k[ends[x]] = Slash
    OBVIOUS
  <2>1. x # m + 1
    BY <1>1, <1>7
  <2>2. ends[x] \in cuts /\ ends[x] # 0
    BY <1>5, <1>7, <1>10, <2>1
  <2> QED
    BY <1>2, <2>2
<1>15. \A i \in 1..Len(k) : k[i] = Slash => \E x \in 1..(m + 1) : ends[x] = i
  <2> SUFFICES ASSUME NEW i \in 1..Len(k), k[i] = Slash PROVE \E x \in 1..(m + 1) : ends[x] = i
    OBVIOUS
  <2>1. PICK x \in 1..m : sorted[x] = i
    BY <1>2, <1>4, <1>5
  <2>2. x \in 1..(m + 1)
    BY <1>5
  <2> QED
    BY <1>7, <2>1, <2>2
<1>16. 1 \in 1..(m + 1) /\ m + 1 \in 1..(m + 1) /\ \A n \in 1..m : n \in 1..(m + 1) /\ n + 1 \in 1..(m + 1)
  BY <1>5
<1>17. \A n \in 1..m : Segments(k)[n] = SubSeq(k, E[n] + 1, E[n + 1] - 1)
  BY <1>8, <1>16
<1>18. E \in [1..(m + 1) -> 0..(Len(k) + 1)] /\ \A x \in 1..(m + 1) : E[x] = ends[x]
  BY <1>11
<1> HIDE DEF E
<1>19. CutAt(k, Segments(k), E)
  BY <1>5, <1>6, <1>7, <1>9, <1>12, <1>13, <1>14, <1>15, <1>16, <1>17, <1>18 DEF CutAt
<1> QED
  BY <1>19

\* The names of a path, before they are encoded.
Names(k) == Only(Segments(k), Range(Segments(k)) \ {<<>>})

\* The runs of k without a slash are ns, between a[n] and b[n].
Runs(k, ns, a, b) ==
    /\ Len(ns) \in Nat /\ a \in [1..Len(ns) -> 0..Len(k)] /\ b \in [1..Len(ns) -> 1..(Len(k) + 1)]
    /\ \A n \in 1..Len(ns) :
          /\ a[n] + 1 < b[n] /\ ns[n] = SubSeq(k, a[n] + 1, b[n] - 1)
          /\ a[n] # 0 => k[a[n]] = Slash
          /\ b[n] # Len(k) + 1 => k[b[n]] = Slash
          /\ \A i \in 1..Len(k) : a[n] < i /\ i < b[n] => k[i] # Slash
    /\ \A n, h \in 1..Len(ns) : n < h => b[n] <= a[h]
    /\ \A i \in 1..Len(k) : k[i] # Slash => \E n \in 1..Len(ns) : a[n] < i /\ i < b[n]

LEMMA NamesAre ==
    ASSUME NEW k \in Strings
    PROVE  Names(k) \in Seq(Strings) /\ \E a, b : Runs(k, Names(k), a, b)
<1> DEFINE segments == Segments(k)
           S == Range(segments) \ {<<>>}
           ns == Names(k)
           P == Places(segments, S)
           m == Len(ns)
<1>1. segments \in Seq(Strings) /\ Len(k) \in Nat
  BY SegmentsAre, StringIs
<1>2. PICK E : CutAt(k, segments, E)
  BY SegmentsCut
<1>3. \A x \in 1..Len(segments) : segments[x] \in S <=> segments[x] # <<>>
  <2>1. DOMAIN segments = 1..Len(segments)
    BY <1>1
  <2> QED
    BY <2>1 DEF Range
<1> HIDE DEF segments, S
<1>4. /\ ns \in Seq(Strings)
      /\ P \in Seq(DOMAIN segments) /\ DOMAIN ns = DOMAIN P
      /\ \A n \in DOMAIN ns : /\ P[n] \in DOMAIN segments
                              /\ ns[n] = segments[P[n]] /\ ns[n] \in S
      /\ \A n, h \in DOMAIN ns : n < h => P[n] < P[h]
      /\ \A x \in DOMAIN segments : segments[x] \in S => \E n \in DOMAIN ns : P[n] = x
  <2>1. ns = Only(segments, S)
    BY DEF Names, segments, S
  <2> QED
    BY <1>1, <2>1, OnlyIs
<1> HIDE DEF ns, P
<1>5. /\ m \in Nat /\ DOMAIN ns = 1..m /\ DOMAIN segments = 1..Len(segments)
      /\ Len(segments) \in Nat
  BY <1>1, <1>4
<1> HIDE DEF m
<1> DEFINE M == Len(segments)
           a == [n \in 1..m |-> E[P[n]]]
           b == [n \in 1..m |-> E[P[n] + 1]]
<1>6. \A n \in 1..m : P[n] \in 1..M /\ ns[n] = segments[P[n]] /\ ns[n] # <<>>
  BY <1>3, <1>4, <1>5
<1>7. \A x \in 1..M : x \in 1..(M + 1) /\ x + 1 \in 1..(M + 1)
  BY <1>5
<1>8. /\ \A x \in 1..(M + 1) : E[x] \in 0..(Len(k) + 1)
      /\ E[1] = 0 /\ E[M + 1] = Len(k) + 1
      /\ \A x, y \in 1..(M + 1) : x < y => E[x] < E[y]
      /\ \A x \in 1..(M + 1) : E[x] \in 1..Len(k) => k[E[x]] = Slash
      /\ \A i \in 1..Len(k) : k[i] = Slash => \E x \in 1..(M + 1) : E[x] = i
      /\ \A n \in 1..M : segments[n] = SubSeq(k, E[n] + 1, E[n + 1] - 1)
  BY <1>2 DEF CutAt
<1> HIDE DEF M
<1>9. ASSUME NEW x \in 1..M
      PROVE  /\ E[x] \in 0..Len(k) /\ E[x + 1] \in 1..(Len(k) + 1) /\ E[x] < E[x + 1]
             /\ E[x] # 0 => k[E[x]] = Slash
             /\ E[x + 1] # Len(k) + 1 => k[E[x + 1]] = Slash
             /\ \A i \in 1..Len(k) : E[x] < i /\ i < E[x + 1] => k[i] # Slash
  <2>1. E[x] \in 0..(Len(k) + 1) /\ E[x + 1] \in 0..(Len(k) + 1) /\ E[x] < E[x + 1]
    <3>1. x < x + 1
      BY <1>5
    <3> QED
      BY <1>7, <1>8, <3>1
  <2>2. E[x] \in 0..Len(k) /\ E[x + 1] \in 1..(Len(k) + 1)
    BY <1>1, <2>1
  <2>3. E[x] # 0 => E[x] \in 1..Len(k)
    BY <2>2
  <2>4. E[x + 1] # Len(k) + 1 => E[x + 1] \in 1..Len(k)
    BY <1>1, <2>2
  <2>5. ASSUME NEW i \in 1..Len(k), E[x] < i, i < E[x + 1], k[i] = Slash PROVE FALSE
    <3>1. PICK y \in 1..(M + 1) : E[y] = i
      BY <1>8, <2>5
    <3>2. y <= x \/ x + 1 <= y
      BY <1>5
    <3>3. CASE y <= x
      <4>1. y = x \/ y < x
        BY <3>3
      <4>2. E[y] <= E[x]
        BY <1>7, <1>8, <2>1, <4>1
      <4> QED
        BY <2>1, <2>5, <3>1, <4>2
    <3>4. CASE x + 1 <= y
      <4>1. y = x + 1 \/ x + 1 < y
        BY <3>4
      <4>2. E[x + 1] <= E[y]
        BY <1>7, <1>8, <2>1, <4>1
      <4> QED
        BY <2>1, <2>5, <3>1, <4>2
    <3> QED
      BY <3>2, <3>3, <3>4
  <2> QED
    BY <1>7, <1>8, <2>1, <2>2, <2>3, <2>4, <2>5
<1>10. a \in [1..m -> 0..Len(k)] /\ b \in [1..m -> 1..(Len(k) + 1)]
  BY <1>6, <1>9
<1>11. ASSUME NEW n \in 1..m
       PROVE  /\ a[n] + 1 < b[n] /\ ns[n] = SubSeq(k, a[n] + 1, b[n] - 1)
              /\ a[n] # 0 => k[a[n]] = Slash
              /\ b[n] # Len(k) + 1 => k[b[n]] = Slash
              /\ \A i \in 1..Len(k) : a[n] < i /\ i < b[n] => k[i] # Slash
  <2>1. P[n] \in 1..M
    BY <1>6
  <2>2. ns[n] = SubSeq(k, a[n] + 1, b[n] - 1)
    BY <1>6, <1>8, <2>1
  <2>3. a[n] \in Nat /\ b[n] \in Nat /\ a[n] < b[n]
    BY <1>9, <1>10, <2>1
  <2>4. a[n] + 1 # b[n]
    <3> SUFFICES ASSUME a[n] + 1 = b[n] PROVE FALSE
      OBVIOUS
    <3>1. SubSeq(k, a[n] + 1, b[n] - 1) = <<>>
      <4> DEFINE x == a[n]
      <4>1. k \in Seq(Scalars) /\ x \in Nat /\ a[n] + 1 = x + 1 /\ b[n] - 1 = x
        BY <2>3 DEF Strings
      <4> HIDE DEF x
      <4>2. SubSeq(k, x + 1, x) = <<>>
        BY <4>1
      <4> QED
        BY <4>1, <4>2
    <3> QED
      BY <1>6, <2>2, <3>1
  <2>5. a[n] + 1 < b[n]
    BY <2>3, <2>4
  <2> QED
    BY <1>9, <2>1, <2>2, <2>5
<1>12. \A n, h \in 1..m : n < h => b[n] <= a[h]
  <2> SUFFICES ASSUME NEW n \in 1..m, NEW h \in 1..m, n < h PROVE E[P[n] + 1] <= E[P[h]]
    OBVIOUS
  <2>1. P[n] \in 1..M /\ P[h] \in 1..M /\ P[n] < P[h]
    BY <1>4, <1>5, <1>6
  <2>2. P[n] + 1 = P[h] \/ P[n] + 1 < P[h]
    BY <2>1
  <2>3. E[P[h]] \in Nat
    BY <1>9, <2>1
  <2> QED
    BY <1>7, <1>8, <2>1, <2>2, <2>3, SMTT(30)
<1>13. ASSUME NEW i \in 1..Len(k), k[i] # Slash PROVE \E n \in 1..m : a[n] < i /\ i < b[n]
  <2> DEFINE B == {x \in 1..M : E[x] < i}
  <2>1. B \in SUBSET (0..M) /\ B # {} /\ M \in Nat
    <3>1. M \in Nat /\ 1 \in 1..M
      BY <1>2, <1>5 DEF CutAt, M
    <3>2. 1 \in B
      BY <1>8, <3>1
    <3> QED
      BY <3>1, <3>2
  <2>2. PICK x \in B : \A y \in B : y <= x
    <3> HIDE DEF B
    <3> QED
      BY <2>1, GreatestMember
  <2>3. x \in 1..M /\ E[x] < i
    BY <2>2
  <2>4. ~(E[x + 1] < i)
    <3>1. CASE x + 1 \in 1..M
      BY <2>2, <3>1
    <3>2. CASE x + 1 \notin 1..M
      <4>1. x + 1 = M + 1
        BY <2>1, <2>3, <3>2
      <4> QED
        BY <1>1, <1>8, <4>1
    <3> QED
      BY <3>1, <3>2
  <2>5. E[x + 1] # i
    <3> SUFFICES ASSUME E[x + 1] = i PROVE FALSE
      OBVIOUS
    <3>1. E[x + 1] \in 1..Len(k) /\ x + 1 \in 1..(M + 1)
      BY <1>7, <2>3
    <3> QED
      BY <1>8, <1>13, <3>1
  <2>6. E[x + 1] \in Nat /\ E[x] \in Nat
    BY <1>9, <2>3
  <2>7. i < E[x + 1]
    BY <2>4, <2>5, <2>6
  <2>8. segments[x] # <<>>
    <3>1. segments[x] = SubSeq(k, E[x] + 1, E[x + 1] - 1)
      BY <1>8, <2>3
    <3>2. k \in Seq(Scalars) /\ E[x] + 1 \in 1..Len(k) /\ E[x + 1] - 1 \in (E[x] + 1)..Len(k)
      <4>1. E[x + 1] <= Len(k) + 1
        BY <1>9, <2>3
      <4> QED
        BY <1>1, <2>3, <2>6, <2>7, <4>1, SMTT(30) DEF Strings
    <3> DEFINE u == E[x] + 1
               v == E[x + 1] - 1
    <3> HIDE DEF u, v
    <3>3. u \in 1..Len(k) /\ v \in u..Len(k) /\ segments[x] = SubSeq(k, u, v)
      BY <3>1, <3>2 DEF u, v
    <3>4. Len(SubSeq(k, u, v)) = v - u + 1 /\ v - u + 1 # 0
      BY <1>1, <3>2, <3>3
    <3> QED
      BY <3>3, <3>4
  <2>9. PICK n \in 1..m : P[n] = x
    BY <1>3, <1>4, <1>5, <2>3, <2>8 DEF M
  <2> QED
    BY <2>3, <2>7, <2>9
<1> HIDE DEF a, b
<1>14. Runs(k, ns, a, b)
  BY <1>5, <1>10, <1>11, <1>12, <1>13 DEF Runs, m
<1> QED
  BY <1>4, <1>14 DEF ns

\* A part of a sequence, and when two sequences are one.
LEMMA PartIs ==
    ASSUME NEW S, NEW s \in Seq(S), NEW x \in 0..Len(s), NEW y \in x..Len(s)
    PROVE  /\ SubSeq(s, x + 1, y) \in Seq(S) /\ Len(SubSeq(s, x + 1, y)) = y - x
           /\ \A i \in 1..(y - x) : SubSeq(s, x + 1, y)[i] = s[x + i]
<1>1. Len(s) \in Nat /\ x \in Nat /\ y \in Nat /\ x <= y /\ y <= Len(s)
  OBVIOUS
<1>2. SubSeq(s, x + 1, y) = [i \in 1..(y - x) |-> s[x + i]]
  BY <1>1
<1>3. \A i \in 1..(y - x) : x + i \in 1..Len(s)
  BY <1>1
<1>4. y - x \in Nat /\ [i \in 1..(y - x) |-> s[x + i]] \in [1..(y - x) -> S]
  BY <1>1, <1>3
<1> DEFINE part == [i \in 1..(y - x) |-> s[x + i]]
           n == y - x
<1>5. part \in [1..n -> S] /\ n \in Nat
  BY <1>4
<1>6. part \in Seq(S) /\ Len(part) = n
  <2> HIDE DEF part, n
  <2> QED
    BY <1>5, FunctionIsSeq
<1> QED
  BY <1>2, <1>6

LEMMA SameSequence ==
    ASSUME NEW S, NEW s \in Seq(S), NEW t \in Seq(S), Len(s) = Len(t),
           \A i \in 1..Len(s) : s[i] = t[i]
    PROVE  s = t
OBVIOUS

\* Where runs begin and end: they can be told from k, and so there is one way to
\* divide k into runs, and that is its names.
Begins(k) == {i \in 0..Len(k) : i < Len(k) /\ k[i + 1] # Slash /\ (i # 0 => k[i] = Slash)}

Ends(k) == {i \in 1..(Len(k) + 1) : /\ i > 1 /\ k[i - 1] # Slash
                                    /\ i # Len(k) + 1 => k[i] = Slash}

LEMMA RunsUnique ==
    ASSUME NEW k \in Strings, NEW ns, NEW a, NEW b, Runs(k, ns, a, b)
    PROVE  Len(ns) = Cardinality(Begins(k)) /\ a = Sorted(Begins(k)) /\ b = Sorted(Ends(k))
<1> DEFINE m == Len(ns)
           N == Len(k)
<1>1. /\ m \in Nat /\ a \in [1..m -> 0..N] /\ b \in [1..m -> 1..(N + 1)]
      /\ \A n \in 1..m : /\ a[n] + 1 < b[n]
                         /\ a[n] # 0 => k[a[n]] = Slash
                         /\ b[n] # N + 1 => k[b[n]] = Slash
                         /\ \A i \in 1..N : a[n] < i /\ i < b[n] => k[i] # Slash
      /\ \A n, h \in 1..m : n < h => b[n] <= a[h]
      /\ \A i \in 1..N : k[i] # Slash => \E n \in 1..m : a[n] < i /\ i < b[n]
  BY DEF Runs
<1>2. N \in Nat
  BY StringIs
<1> HIDE DEF m, N
<1>3. \A n \in 1..m : a[n] \in Nat /\ b[n] \in Nat /\ a[n] <= N /\ b[n] <= N + 1
  BY <1>1, <1>2
<1>4. ASSUME NEW n \in 1..m, NEW h \in 1..m, n < h PROVE a[n] < a[h] /\ b[n] < b[h]
  BY <1>1, <1>3, <1>4
<1>5. ASSUME NEW n \in 1..m PROVE a[n] \in Begins(k) /\ b[n] \in Ends(k)
  <2>1. a[n] + 1 \in 1..N /\ b[n] - 1 \in 1..N /\ a[n] < N /\ b[n] > 1
    BY <1>1, <1>2, <1>3
  <2>2. a[n] < a[n] + 1 /\ a[n] + 1 < b[n] /\ a[n] < b[n] - 1 /\ b[n] - 1 < b[n]
    BY <1>1, <1>3
  <2>3. k[a[n] + 1] # Slash /\ k[b[n] - 1] # Slash
    BY <1>1, <2>1, <2>2
  <2> QED
    BY <1>1, <2>1, <2>3 DEF Begins, Ends, N
<1>6. ASSUME NEW i \in Begins(k) PROVE \E n \in 1..m : a[n] = i
  <2>1. i \in 0..N /\ i < N /\ k[i + 1] # Slash /\ (i # 0 => k[i] = Slash)
    BY DEF Begins, N
  <2>2. i + 1 \in 1..N
    BY <1>2, <2>1
  <2>3. PICK n \in 1..m : a[n] < i + 1 /\ i + 1 < b[n]
    BY <1>1, <2>1, <2>2
  <2>4. CASE a[n] # i
    <3>1. i \in 1..N /\ a[n] < i /\ i < b[n]
      BY <1>2, <1>3, <2>1, <2>3, <2>4
    <3>2. k[i] # Slash
      BY <1>1, <3>1
    <3> QED
      BY <2>1, <3>1, <3>2
  <2> QED
    BY <2>4
<1>7. ASSUME NEW i \in Ends(k) PROVE \E n \in 1..m : b[n] = i
  <2>1. i \in 1..(N + 1) /\ i > 1 /\ k[i - 1] # Slash /\ (i # N + 1 => k[i] = Slash)
    BY DEF Ends, N
  <2>2. i - 1 \in 1..N
    BY <1>2, <2>1
  <2>3. PICK n \in 1..m : a[n] < i - 1 /\ i - 1 < b[n]
    BY <1>1, <2>1, <2>2
  <2>4. CASE b[n] # i
    <3>1. i \in 1..N /\ a[n] < i /\ i < b[n] /\ i # N + 1
      BY <1>2, <1>3, <2>1, <2>3, <2>4
    <3>2. k[i] # Slash
      BY <1>1, <3>1
    <3> QED
      BY <2>1, <3>1, <3>2
  <2> QED
    BY <2>4
<1>8. Begins(k) \in SUBSET Nat /\ Ends(k) \in SUBSET Nat
  BY DEF Begins, Ends
<1>9. a \in [1..m -> Begins(k)] /\ b \in [1..m -> Ends(k)]
  BY <1>1, <1>5
<1>10. m \in Nat
  BY <1>1
<1>11. Cardinality(Begins(k)) = m /\ Sorted(Begins(k)) = a
  <2>1. /\ \A n, h \in 1..m : n < h => a[n] < a[h]
        /\ \A i \in Begins(k) : \E n \in 1..m : a[n] = i
    BY <1>4, <1>6
  <2> QED
    BY <1>8, <1>9, <1>10, <2>1, SortedUnique
<1>12. Sorted(Ends(k)) = b
  <2>1. /\ \A n, h \in 1..m : n < h => b[n] < b[h]
        /\ \A i \in Ends(k) : \E n \in 1..m : b[n] = i
    BY <1>4, <1>7
  <2> QED
    BY <1>8, <1>9, <1>10, <2>1, SortedUnique
<1> QED
  BY <1>11, <1>12 DEF m

LEMMA NamesUnique ==
    ASSUME NEW k \in Strings, NEW ns \in Seq(Strings), NEW a, NEW b, Runs(k, ns, a, b)
    PROVE  ns = Names(k)
<1>1. PICK c, d : Runs(k, Names(k), c, d)
  BY NamesAre
<1>2. Len(ns) = Len(Names(k)) /\ a = c /\ b = d
  BY <1>1, RunsUnique
<1>3. /\ \A n \in 1..Len(ns) : ns[n] = SubSeq(k, a[n] + 1, b[n] - 1)
      /\ \A n \in 1..Len(ns) : Names(k)[n] = SubSeq(k, a[n] + 1, b[n] - 1)
  BY <1>1, <1>2 DEF Runs
<1>4. Names(k) \in Seq(Strings)
  BY NamesAre
<1> QED
  BY <1>2, <1>3, <1>4, SameSequence

\* The key that names give: the names with slashes between them.
Joined(ns) == FlattenSeq([n \in DOMAIN ns |-> (IF n > 1 THEN <<Slash>> ELSE <<>>) \o ns[n]])

LEMMA KeyOfPath ==
    ASSUME NEW k \in Strings
    PROVE  KeyOf(PathOf(k)) = Joined(Names(k))
<1> DEFINE ns == Names(k)
           path == PathOf(k)
<1>1. ns \in Seq(Strings)
  BY NamesAre
<1>2. path = [n \in DOMAIN ns |-> EncodeSegment(ns[n])]
  BY DEF PathOf, Names
<1>3. KeyOf(path) = FlattenSeq([n \in DOMAIN path |->
                                   (IF n > 1 THEN <<Slash>> ELSE <<>>) \o Decode(path[n])])
  BY DEF KeyOf
<1> HIDE DEF ns, path
<1>4. \A n \in DOMAIN ns : Decode(path[n]) = ns[n]
  BY <1>1, <1>2, DecodeEncode
<1>5. DOMAIN path = DOMAIN ns
  BY <1>2
<1>6. [n \in DOMAIN path |-> (IF n > 1 THEN <<Slash>> ELSE <<>>) \o Decode(path[n])]
         = [n \in DOMAIN ns |-> (IF n > 1 THEN <<Slash>> ELSE <<>>) \o ns[n]]
  BY <1>4, <1>5
<1> QED
  BY <1>3, <1>6 DEF Joined, ns, path

\* Names are not empty and have no slash.
Plain(ns) == \A n \in 1..Len(ns) :
                Len(ns[n]) > 0 /\ \A i \in 1..Len(ns[n]) : ns[n][i] # Slash

\* The runs follow one another, with one slash between them and none around.
Packed(w, ns, A, B) ==
    /\ Runs(w, ns, A, B)
    /\ \A n \in 1..Len(ns) : n = Len(ns) => B[n] = Len(w) + 1
    /\ \A p \in 1..Len(w) : \E n \in 1..Len(ns) : A[n] < p /\ p <= B[n]

LEMMA NamesPlain ==
    ASSUME NEW k \in Strings
    PROVE  Plain(Names(k))
<1> DEFINE ns == Names(k)
<1>1. PICK a, b : Runs(k, ns, a, b)
  BY NamesAre
<1> HIDE DEF ns
<1>2. SUFFICES ASSUME NEW n \in 1..Len(ns)
               PROVE  Len(ns[n]) > 0 /\ \A i \in 1..Len(ns[n]) : ns[n][i] # Slash
  BY <1>2 DEF Plain, ns
<1>3. /\ a[n] \in 0..Len(k) /\ b[n] \in 1..(Len(k) + 1) /\ a[n] + 1 < b[n]
      /\ ns[n] = SubSeq(k, a[n] + 1, b[n] - 1)
      /\ \A i \in 1..Len(k) : a[n] < i /\ i < b[n] => k[i] # Slash
  BY <1>1 DEF Runs
<1> DEFINE x == a[n]
           y == b[n] - 1
<1>4. Len(k) \in Nat /\ x \in 0..Len(k) /\ y \in x..Len(k) /\ y - x > 0
  <2>1. /\ a[n] \in Nat /\ b[n] \in Nat /\ Len(k) \in Nat
        /\ a[n] <= Len(k) /\ b[n] <= Len(k) + 1 /\ a[n] + 1 < b[n]
    BY <1>3, StringIs
  <2> QED
    BY <2>1
<1>5. \A i \in 1..(y - x) : x + i \in 1..Len(k) /\ x < x + i /\ x + i < y + 1
  BY <1>4
<1>6. k \in Seq(Scalars) /\ ns[n] = SubSeq(k, x + 1, y) /\ b[n] = y + 1
  BY <1>3 DEF Strings
<1> HIDE DEF x, y
<1>7. Len(ns[n]) = y - x /\ \A i \in 1..(y - x) : ns[n][i] = k[x + i]
  BY <1>4, <1>6, PartIs
<1>8. \A i \in 1..Len(k) : x < i /\ i < y + 1 => k[i] # Slash
  BY <1>3, <1>6 DEF x
<1> QED
  BY <1>4, <1>5, <1>7, <1>8

LEMMA JoinedIs ==
    ASSUME NEW ns \in Seq(Strings), Plain(ns)
    PROVE  Joined(ns) \in Strings /\ \E A, B : Packed(Joined(ns), ns, A, B)
<1> DEFINE m == Len(ns)
           ss == [n \in DOMAIN ns |-> (IF n > 1 THEN <<Slash>> ELSE <<>>) \o ns[n]]
           w == Joined(ns)
<1>1. m \in Nat /\ DOMAIN ns = 1..m /\ \A n \in 1..m : ns[n] \in Seq(Scalars)
  BY DEF Strings
<1>2. <<Slash>> \in Seq(Scalars) /\ <<>> \in Seq(Scalars)
  BY CharactersAssumption
<1>3. \A n \in 1..m : ss[n] \in Seq(Scalars)
  BY <1>1, <1>2
<1>4. ss \in [1..m -> Seq(Scalars)]
  BY <1>1, <1>3
<1>5. w = FlattenSeq(ss)
  BY DEF Joined
<1>6. \A n \in 1..m :
         /\ n = 1 => ss[n] = ns[n]
         /\ n # 1 => /\ Len(ss[n]) = 1 + Len(ns[n]) /\ ss[n][1] = Slash
                     /\ \A i \in 1..Len(ns[n]) : ss[n][1 + i] = ns[n][i]
  <2> SUFFICES ASSUME NEW n \in 1..m
               PROVE  /\ n = 1 => ss[n] = ns[n]
                      /\ n # 1 => /\ Len(ss[n]) = 1 + Len(ns[n]) /\ ss[n][1] = Slash
                                  /\ \A i \in 1..Len(ns[n]) : ss[n][1 + i] = ns[n][i]
    OBVIOUS
  <2> DEFINE t == ns[n]
  <2>1. t \in Seq(Scalars) /\ (n = 1 \/ n > 1)
    BY <1>1
  <2>2. ss[n] = (IF n > 1 THEN <<Slash>> ELSE <<>>) \o t
    BY <1>1
  <2> HIDE DEF t, ss
  <2>3. <<>> \o t = t
    BY <2>1
  <2>4. Len(<<Slash>> \o t) = 1 + Len(t) /\ (<<Slash>> \o t)[1] = Slash
    BY <1>2, <2>1
  <2>5. \A i \in 1..Len(t) : (<<Slash>> \o t)[1 + i] = t[i]
    BY <1>2, <2>1
  <2>6. n = 1 => ss[n] = t
    BY <2>2, <2>3
  <2>7. n # 1 => ss[n] = <<Slash>> \o t
    BY <2>1, <2>2
  <2> QED
    BY <2>4, <2>5, <2>6, <2>7 DEF t
<1> HIDE DEF ss, m
<1>7. ss \in Seq(Seq(Scalars)) /\ Len(ss) = m
  BY <1>1, <1>4, FunctionIsSeq
<1>8. w \in Seq(Scalars)
  BY <1>5, <1>7, FlattenTyped
<1>9. PICK L : Laid(ss, w, L)
  BY <1>5, <1>7, FlattenAt
<1> HIDE DEF w
<1>10. /\ PartsAt(ss, L)
       /\ L \in [0..m -> Nat] /\ L[0] = 0 /\ Len(w) = L[m]
       /\ \A n \in 1..m : /\ L[n] = L[n - 1] + Len(ss[n])
                          /\ \A i \in 1..Len(ss[n]) : w[L[n - 1] + i] = ss[n][i]
  BY <1>7, <1>9 DEF Laid, PartsAt
<1>11. /\ \A x, y \in 0..m : x <= y => L[x] <= L[y]
       /\ \A p \in 1..L[m] : \E n \in 1..m : L[n - 1] < p /\ p <= L[n]
  BY <1>7, <1>10, PartsCover
<1> DEFINE N == Len(w)
           len == [n \in 1..m |-> Len(ns[n])]
           A == [n \in 1..m |-> L[n] - len[n]]
           B == [n \in 1..m |-> L[n] + 1]
<1>12. \A n \in 1..m : len[n] = Len(ns[n])
  OBVIOUS
<1>13. \A n \in 1..m : /\ n \in 0..m /\ n - 1 \in 0..m
                       /\ L[n] \in Nat /\ L[n - 1] \in Nat /\ L[n] <= N
                       /\ len[n] \in Nat /\ len[n] > 0
  <2> SUFFICES ASSUME NEW n \in 1..m
               PROVE  /\ n \in 0..m /\ n - 1 \in 0..m
                      /\ L[n] \in Nat /\ L[n - 1] \in Nat /\ L[n] <= N
                      /\ len[n] \in Nat /\ len[n] > 0
    OBVIOUS
  <2>1. n \in 0..m /\ n - 1 \in 0..m /\ m \in 0..m /\ n <= m
    BY <1>1
  <2>2. len[n] \in Nat /\ len[n] > 0
    BY <1>1 DEF Plain, m
  <2>3. N = L[m]
    BY <1>10
  <2> HIDE DEF N, len
  <2> QED
    BY <1>10, <1>11, <2>1, <2>2, <2>3
<1> HIDE DEF len, N
<1>14. ASSUME NEW n \in 1..m
       PROVE  /\ A[n] = L[n - 1] + (IF n = 1 THEN 0 ELSE 1)
              /\ n = 1 => A[n] = 0
              /\ n # 1 => w[A[n]] = Slash
              /\ \A i \in 1..len[n] : w[A[n] + i] = ns[n][i]
  <2>1. CASE n = 1
    <3>1. ss[n] = ns[n] /\ Len(ss[n]) = len[n]
      BY <1>6, <1>12, <2>1
    <3>2. L[n - 1] = 0
      BY <1>10, <2>1
    <3>3. A[n] = L[n - 1]
      BY <1>10, <1>13, <3>1
    <3> QED
      BY <1>10, <2>1, <3>1, <3>2, <3>3
  <2>2. CASE n # 1
    <3>1. /\ Len(ss[n]) = 1 + len[n] /\ ss[n][1] = Slash
          /\ \A i \in 1..len[n] : ss[n][1 + i] = ns[n][i]
      BY <1>6, <1>12, <2>2
    <3>2. A[n] = L[n - 1] + 1
      BY <1>10, <1>13, <3>1
    <3>3. 1 \in 1..Len(ss[n])
      BY <1>13, <3>1
    <3>4. w[A[n]] = Slash
      BY <1>10, <3>1, <3>2, <3>3
    <3>5. ASSUME NEW i \in 1..len[n] PROVE w[A[n] + i] = ns[n][i]
      <4>1. len[n] \in Nat /\ L[n - 1] \in Nat
        BY <1>13
      <4>2. 1 + i \in 1..(1 + len[n]) /\ A[n] + i = L[n - 1] + (1 + i)
        BY <3>2, <4>1, SMTT(30)
      <4>3. 1 + i \in 1..Len(ss[n])
        BY <3>1, <4>2
      <4> QED
        BY <1>10, <3>1, <4>2, <4>3
    <3> QED
      BY <2>2, <3>2, <3>4, <3>5
  <2> QED
    BY <2>1, <2>2
<1>15. \A n \in 1..m : /\ A[n] \in Nat /\ B[n] = L[n] + 1 /\ A[n] + len[n] = L[n]
                       /\ A[n] + 1 < B[n] /\ A[n] \in 0..N /\ B[n] \in 1..(N + 1)
  <2> SUFFICES ASSUME NEW n \in 1..m
               PROVE  /\ A[n] \in Nat /\ B[n] = L[n] + 1 /\ A[n] + len[n] = L[n]
                      /\ A[n] + 1 < B[n] /\ A[n] \in 0..N /\ B[n] \in 1..(N + 1)
    OBVIOUS
  <2>1. /\ L[n] \in Nat /\ len[n] \in Nat /\ L[n - 1] \in Nat /\ N \in Nat
        /\ len[n] > 0 /\ L[n] <= N
    BY <1>8, <1>13 DEF N
  <2>2. A[n] = L[n] - len[n] /\ B[n] = L[n] + 1
    OBVIOUS
  <2>3. A[n] = L[n - 1] + (IF n = 1 THEN 0 ELSE 1)
    BY <1>14
  <2> HIDE DEF A, B
  <2>4. A[n] \in Nat /\ A[n] + len[n] = L[n]
    BY <2>1, <2>2, <2>3
  <2>5. A[n] + 1 < B[n] /\ A[n] \in 0..N /\ B[n] \in 1..(N + 1)
    BY <2>1, <2>2, <2>4, SMTT(30)
  <2> QED
    BY <2>2, <2>4, <2>5
<1>16. A \in [1..m -> 0..N] /\ B \in [1..m -> 1..(N + 1)]
  BY <1>15
<1> HIDE DEF A, B
<1>17. \A n, h \in 1..m : n < h => B[n] <= A[h]
  <2> SUFFICES ASSUME NEW n \in 1..m, NEW h \in 1..m, n < h PROVE B[n] <= A[h]
    OBVIOUS
  <2>1. n <= h - 1 /\ h # 1
    BY <1>1
  <2>2. L[n] <= L[h - 1]
    BY <1>11, <1>13, <2>1
  <2>3. A[h] = L[h - 1] + 1
    BY <1>14, <2>1
  <2> QED
    BY <1>13, <1>15, <2>2, <2>3
<1>18. ASSUME NEW p \in 1..N
       PROVE  \E n \in 1..m : A[n] < p /\ p <= B[n] /\ (w[p] # Slash => p < B[n])
  <2>1. PICK n \in 1..m : L[n - 1] < p /\ p <= L[n]
    BY <1>10, <1>11 DEF N
  <2>2. p < B[n] /\ p <= B[n] /\ p \in Nat
    BY <1>13, <1>15, <2>1
  <2>3. CASE A[n] < p
    BY <2>2, <2>3
  <2>4. CASE ~(A[n] < p)
    <3>1. n # 1 /\ A[n] = L[n - 1] + 1 /\ p = A[n]
      <4>1. A[n] = L[n - 1] + (IF n = 1 THEN 0 ELSE 1)
        BY <1>14
      <4>2. L[n - 1] \in Nat /\ L[n - 1] < p /\ A[n] \in Nat /\ p \in Nat /\ p <= A[n]
        BY <1>13, <1>15, <2>1, <2>2, <2>4
      <4> QED
        BY <4>1, <4>2
    <3>2. w[p] = Slash
      BY <1>14, <3>1
    <3>3. n - 1 \in 1..m /\ n - 1 < n
      BY <1>1, <3>1
    <3>4. p = B[n - 1]
      BY <1>15, <3>1, <3>3
    <3>5. A[n - 1] < B[n - 1]
      <4> DEFINE h == n - 1
      <4>1. h \in 1..m
        BY <3>3
      <4> HIDE DEF h
      <4>2. A[h] \in Nat /\ B[h] \in 1..(N + 1) /\ A[h] + 1 < B[h]
        BY <1>15, <4>1
      <4>3. A[h] < B[h]
        BY <4>2
      <4> QED
        BY <4>3 DEF h
    <3>6. A[n - 1] < p /\ p <= B[n - 1]
      BY <2>2, <3>4, <3>5
    <3> QED
      BY <3>2, <3>3, <3>6
  <2> QED
    BY <2>3, <2>4
<1>19. ASSUME NEW n \in 1..m
       PROVE  /\ A[n] + 1 < B[n] /\ ns[n] = SubSeq(w, A[n] + 1, B[n] - 1)
              /\ A[n] # 0 => w[A[n]] = Slash
              /\ B[n] # N + 1 => w[B[n]] = Slash
              /\ n = m => B[n] = N + 1
              /\ \A i \in 1..N : A[n] < i /\ i < B[n] => w[i] # Slash
  <2>1. A[n] + 1 < B[n]
    BY <1>15
  <2>2. A[n] # 0 => w[A[n]] = Slash
    BY <1>14
  <2>3. n = m => B[n] = N + 1
    BY <1>10, <1>15 DEF N
  <2>4. ASSUME n # m PROVE w[B[n]] = Slash
    <3>1. n + 1 \in 1..m /\ n + 1 # 1 /\ n + 1 - 1 = n
      BY <1>1, <2>4
    <3> DEFINE h == n + 1
    <3>2. h \in 1..m /\ h # 1 /\ h - 1 = n
      BY <3>1
    <3> HIDE DEF h
    <3>3. A[h] = B[n] /\ w[A[h]] = Slash
      BY <1>14, <1>15, <3>2
    <3> QED
      BY <3>3
  <2>5. B[n] # N + 1 => w[B[n]] = Slash
    BY <2>3, <2>4
  <2>6. ASSUME NEW i \in 1..N, A[n] < i, i < B[n] PROVE w[i] # Slash
    <3> DEFINE j == i - A[n]
    <3>1. j \in 1..len[n] /\ i = A[n] + j
      <4>1. /\ A[n] \in Nat /\ len[n] \in Nat /\ i \in Nat /\ B[n] = A[n] + len[n] + 1
            /\ A[n] < i /\ i < B[n]
        <5>1. len[n] \in Nat /\ L[n] \in Nat
          BY <1>13
        <5>2. A[n] \in Nat /\ B[n] = L[n] + 1 /\ A[n] + len[n] = L[n]
          BY <1>15
        <5> QED
          BY <2>6, <5>1, <5>2
      <4> QED
        BY <4>1
    <3> HIDE DEF j
    <3>2. w[i] = ns[n][j] /\ ns[n][j] # Slash
      BY <1>14, <1>12, <3>1 DEF Plain, m
    <3> QED
      BY <3>2
  <2>7. ns[n] = SubSeq(w, A[n] + 1, B[n] - 1)
    <3> DEFINE x == A[n]
               y == L[n]
    <3>1. /\ x \in 0..N /\ y \in x..N /\ y - x = len[n] /\ B[n] - 1 = y
          /\ N \in Nat
      <4>1. N \in Nat
        BY <1>8 DEF N
      <4>2. L[n] \in Nat /\ L[n] <= N /\ len[n] \in Nat
        BY <1>13
      <4>3. A[n] \in Nat /\ B[n] = L[n] + 1 /\ A[n] + len[n] = L[n]
        BY <1>15
      <4> QED
        BY <4>1, <4>2, <4>3
    <3>2. \A i \in 1..len[n] : w[x + i] = ns[n][i]
      BY <1>14
    <3> HIDE DEF x, y
    <3> DEFINE part == SubSeq(w, x + 1, y)
    <3>3. /\ part \in Seq(Scalars) /\ Len(part) = len[n]
          /\ \A i \in 1..(y - x) : part[i] = w[x + i]
      BY <1>8, <3>1, PartIs DEF N
    <3> HIDE DEF part
    <3>4. \A i \in 1..len[n] : part[i] = ns[n][i]
      BY <3>1, <3>2, <3>3
    <3>5. ns[n] \in Seq(Scalars) /\ Len(ns[n]) = len[n]
      BY <1>1, <1>12
    <3>6. part = ns[n]
      BY <3>3, <3>4, <3>5, SameSequence
    <3> QED
      BY <3>1, <3>6 DEF part, x
  <2> QED
    BY <2>1, <2>2, <2>3, <2>5, <2>6, <2>7
<1>20. Runs(w, ns, A, B)
  BY <1>1, <1>16, <1>17, <1>18, <1>19 DEF Runs, m, N
<1>21. Packed(w, ns, A, B)
  BY <1>18, <1>19, <1>20 DEF Packed, m, N
<1> QED
  BY <1>8, <1>21 DEF w, Strings

\* Joining the names leaves out what Canonical leaves out: slashes at the ends,
\* and those that follow a slash.
LEMMA JoinedIsCanonical ==
    ASSUME NEW k \in Strings
    PROVE  Joined(Names(k)) = Canonical(k)
<1> DEFINE ns == Names(k)
           w == Joined(ns)
           m == Len(ns)
           N == Len(k)
           W == Len(w)
           stays == {i \in 1..N : k[i] = Slash => /\ i > 1 /\ k[i - 1] # Slash
                                                  /\ \E j \in i..N : k[j] # Slash}
<1>1. ns \in Seq(Strings) /\ Plain(ns) /\ \E a, b : Runs(k, ns, a, b)
  BY NamesAre, NamesPlain
<1>2. PICK a, b : Runs(k, ns, a, b)
  BY <1>1
<1> HIDE DEF ns
<1>3. w \in Strings
  BY <1>1, JoinedIs
<1>4. PICK A, B : Packed(w, ns, A, B)
  BY <1>1, JoinedIs
<1>5. N \in Nat /\ W \in Nat
  BY <1>3, StringIs
<1>6. DOMAIN k = 1..N /\ DOMAIN w = 1..W
  BY <1>3, StringIs
<1>7. Canonical(k) = [n \in DOMAIN Sorted(stays) |-> k[Sorted(stays)[n]]]
  BY <1>6 DEF Canonical
<1> HIDE DEF w
<1>8. /\ m \in Nat /\ a \in [1..m -> 0..N] /\ b \in [1..m -> 1..(N + 1)]
      /\ \A n \in 1..m : /\ a[n] + 1 < b[n]
                         /\ b[n] # N + 1 => k[b[n]] = Slash
                         /\ \A i \in 1..N : a[n] < i /\ i < b[n] => k[i] # Slash
      /\ \A n, h \in 1..m : n < h => b[n] <= a[h]
      /\ \A i \in 1..N : k[i] # Slash => \E n \in 1..m : a[n] < i /\ i < b[n]
  BY <1>2 DEF Runs
<1>9. /\ A \in [1..m -> 0..W] /\ B \in [1..m -> 1..(W + 1)]
      /\ \A n \in 1..m : /\ A[n] + 1 < B[n]
                         /\ B[n] # W + 1 => w[B[n]] = Slash
                         /\ n = m => B[n] = W + 1
      /\ \A n, h \in 1..m : n < h => B[n] <= A[h]
      /\ \A p \in 1..W : \E n \in 1..m : A[n] < p /\ p <= B[n]
  BY <1>4 DEF Runs, Packed
<1> HIDE DEF m, N, W
\* Both have the names: a run is as long in one as in the other.
<1>10. ASSUME NEW n \in 1..m
      PROVE  /\ b[n] - a[n] = B[n] - A[n]
             /\ \A i \in 1..(b[n] - a[n] - 1) : k[a[n] + i] = w[A[n] + i]
  <2> DEFINE x == a[n]
             y == b[n] - 1
             X == A[n]
             Y == B[n] - 1
  <2>1. /\ SubSeq(k, a[n] + 1, b[n] - 1) = ns[n]
        /\ SubSeq(w, A[n] + 1, B[n] - 1) = ns[n]
    BY <1>2, <1>4 DEF Runs, Packed, m
  <2>2. /\ a[n] \in Nat /\ b[n] \in Nat /\ a[n] + 1 < b[n] /\ a[n] <= N /\ b[n] <= N + 1
        /\ A[n] \in Nat /\ B[n] \in Nat /\ A[n] + 1 < B[n] /\ A[n] <= W /\ B[n] <= W + 1
    <3>1. a[n] \in 0..N /\ b[n] \in 1..(N + 1) /\ A[n] \in 0..W /\ B[n] \in 1..(W + 1)
      BY <1>8, <1>9
    <3>2. a[n] + 1 < b[n] /\ A[n] + 1 < B[n]
      BY <1>8, <1>9
    <3> QED
      BY <1>5, <3>1, <3>2
  <2>3. /\ x \in 0..N /\ y \in x..N /\ X \in 0..W /\ Y \in X..W
        /\ y - x = b[n] - a[n] - 1 /\ Y - X = B[n] - A[n] - 1
    BY <1>5, <2>2
  <2>4. SubSeq(k, x + 1, y) = ns[n] /\ SubSeq(w, X + 1, Y) = ns[n]
    BY <2>1
  <2> HIDE DEF x, y, X, Y
  <2>5. k \in Seq(Scalars) /\ w \in Seq(Scalars)
    BY <1>3 DEF Strings
  <2>6. Len(ns[n]) = y - x /\ \A i \in 1..(y - x) : ns[n][i] = k[x + i]
    <3> DEFINE part == SubSeq(k, x + 1, y)
    <3>1. x \in 0..Len(k) /\ y \in x..Len(k)
      BY <2>3 DEF N
    <3>2. Len(part) = y - x /\ \A i \in 1..(y - x) : part[i] = k[x + i]
      BY <2>5, <3>1, PartIs
    <3>3. part = ns[n]
      BY <2>4
    <3> HIDE DEF part
    <3> QED
      BY <3>2, <3>3
  <2>7. Len(ns[n]) = Y - X /\ \A i \in 1..(Y - X) : ns[n][i] = w[X + i]
    <3> DEFINE part == SubSeq(w, X + 1, Y)
    <3>1. X \in 0..Len(w) /\ Y \in X..Len(w)
      BY <2>3 DEF W
    <3>2. Len(part) = Y - X /\ \A i \in 1..(Y - X) : part[i] = w[X + i]
      BY <2>5, <3>1, PartIs
    <3>3. part = ns[n]
      BY <2>4
    <3> HIDE DEF part
    <3> QED
      BY <3>2, <3>3
  <2>8. y - x = Y - X /\ \A i \in 1..(y - x) : k[x + i] = w[X + i]
    BY <2>6, <2>7
  <2>9. b[n] - a[n] - 1 = B[n] - A[n] - 1
    BY <2>3, <2>8
  <2>10. b[n] - a[n] = B[n] - A[n]
    BY <2>2, <2>9
  <2>11. \A i \in 1..(b[n] - a[n] - 1) : k[a[n] + i] = w[A[n] + i]
    BY <2>3, <2>8 DEF x, X
  <2> QED
    BY <2>10, <2>11
\* Where a place of w is in k, when run n is the last that begins before it.
<1> DEFINE In(p, n) == n \in 1..m /\ A[n] < p /\ p <= B[n]
           e == [p \in 1..W |-> (p + b[CHOOSE n : In(p, n)]) - B[CHOOSE n : In(p, n)]]
<1>11. ASSUME NEW n \in 1..m
       PROVE  /\ a[n] \in Nat /\ b[n] \in Nat /\ A[n] \in Nat /\ B[n] \in Nat
              /\ a[n] + 1 < b[n] /\ b[n] <= N + 1 /\ A[n] + 1 < B[n] /\ B[n] <= W + 1
              /\ b[n] - a[n] = B[n] - A[n]
  <2>1. a[n] \in 0..N /\ b[n] \in 1..(N + 1) /\ A[n] \in 0..W /\ B[n] \in 1..(W + 1)
    BY <1>8, <1>9
  <2>2. a[n] + 1 < b[n] /\ A[n] + 1 < B[n]
    BY <1>8, <1>9
  <2>3. b[n] - a[n] = B[n] - A[n]
    BY <1>10
  <2>4. /\ a[n] \in Nat /\ b[n] \in Nat /\ A[n] \in Nat /\ B[n] \in Nat
        /\ b[n] <= N + 1 /\ B[n] <= W + 1
    BY <1>5, <2>1
  <2> QED
    BY <2>2, <2>3, <2>4
<1>12. ASSUME NEW p \in 1..W
       PROVE  \E n \in 1..m : In(p, n) /\ e[p] = (p + b[n]) - B[n]
  <2> DEFINE n == CHOOSE x : In(p, x)
  <2>1. \E x : In(p, x)
    BY <1>9
  <2>2. In(p, n)
    BY <2>1
  <2>3. e[p] = (p + b[n]) - B[n]
    OBVIOUS
  <2> HIDE DEF n, e
  <2> QED
    BY <2>2, <2>3
<1> HIDE DEF e
<1>13. ASSUME NEW p \in 1..W, NEW n \in 1..m, In(p, n), e[p] = (p + b[n]) - B[n]
       PROVE  /\ e[p] \in Nat /\ a[n] < e[p] /\ e[p] <= b[n]
              /\ p < B[n] => e[p] \in 1..N /\ e[p] < b[n] /\ w[p] = k[e[p]]
              /\ p = B[n] => e[p] = b[n] /\ n # m /\ w[p] = Slash
  <2>1. /\ a[n] \in Nat /\ b[n] \in Nat /\ A[n] \in Nat /\ B[n] \in Nat
        /\ a[n] + 1 < b[n] /\ b[n] <= N + 1 /\ A[n] + 1 < B[n] /\ B[n] <= W + 1
        /\ b[n] - a[n] = B[n] - A[n] /\ p \in Nat /\ A[n] < p /\ p <= B[n] /\ p <= W
    BY <1>5, <1>11, <1>13
  <2>2. e[p] \in Nat /\ a[n] < e[p] /\ e[p] <= b[n]
    BY <1>13, <2>1
  <2>3. ASSUME p < B[n] PROVE e[p] \in 1..N /\ e[p] < b[n] /\ w[p] = k[e[p]]
    <3> DEFINE i == p - A[n]
    <3>1. i \in 1..(b[n] - a[n] - 1) /\ A[n] + i = p /\ a[n] + i = e[p]
      BY <1>13, <2>1, <2>3
    <3> HIDE DEF i
    <3>2. k[a[n] + i] = w[A[n] + i]
      BY <1>10, <3>1
    <3>3. e[p] \in 1..N /\ e[p] < b[n]
      BY <1>5, <1>13, <2>1, <2>2, <2>3
    <3> QED
      BY <3>1, <3>2, <3>3
  <2>4. ASSUME p = B[n] PROVE e[p] = b[n] /\ n # m /\ w[p] = Slash
    <3>1. e[p] = b[n] /\ B[n] # W + 1
      BY <1>5, <1>13, <2>1, <2>4
    <3> QED
      BY <1>9, <2>4, <3>1
  <2> QED
    BY <2>2, <2>3, <2>4
\* After a run that is not the last comes a slash, and later a name.
<1>14. ASSUME NEW n \in 1..m, n # m
       PROVE  /\ b[n] \in 1..N /\ b[n] \in stays /\ k[b[n]] = Slash /\ B[n] \in 1..W
  <2>1. m \in 1..m /\ n < m
    BY <1>8, <1>14
  <2>2. /\ b[n] <= a[m] /\ B[n] <= A[m] /\ a[m] + 1 < b[m] /\ A[m] + 1 < B[m]
        /\ b[m] <= N + 1 /\ B[m] <= W + 1 /\ a[m] \in Nat /\ b[m] \in Nat
        /\ A[m] \in Nat /\ B[m] \in Nat
    BY <1>8, <1>9, <1>11, <2>1
  <2>3. b[n] \in Nat /\ B[n] \in Nat /\ a[n] \in Nat /\ A[n] \in Nat /\ a[n] + 1 < b[n] /\ A[n] + 1 < B[n]
    BY <1>11
  <2>4. b[n] \in 1..N /\ b[n] # N + 1 /\ B[n] \in 1..W
    BY <1>5, <2>2, <2>3
  <2>5. b[n] > 1 /\ b[n] - 1 \in 1..N /\ a[n] < b[n] - 1 /\ b[n] - 1 < b[n]
    BY <1>5, <2>3, <2>4
  <2>6. a[m] + 1 \in b[n]..N /\ a[m] + 1 \in 1..N /\ a[m] < a[m] + 1
    BY <1>5, <2>2, <2>3
  <2>7. k[b[n]] = Slash /\ k[b[n] - 1] # Slash /\ k[a[m] + 1] # Slash
    BY <1>8, <2>1, <2>2, <2>4, <2>5, <2>6
  <2> QED
    BY <2>4, <2>5, <2>6, <2>7
<1>15. \A p \in 1..W : e[p] \in stays /\ w[p] = k[e[p]]
  <2> SUFFICES ASSUME NEW p \in 1..W PROVE e[p] \in stays /\ w[p] = k[e[p]]
    OBVIOUS
  <2>1. PICK n \in 1..m : In(p, n) /\ e[p] = (p + b[n]) - B[n]
    BY <1>12
  <2>2. /\ a[n] < e[p]
        /\ p < B[n] => e[p] \in 1..N /\ e[p] < b[n] /\ w[p] = k[e[p]]
        /\ p = B[n] => e[p] = b[n] /\ n # m /\ w[p] = Slash
    BY <1>13, <2>1
  <2>3. p < B[n] \/ p = B[n]
    BY <1>11, <2>1
  <2>4. CASE p < B[n]
    <3>1. k[e[p]] # Slash
      BY <1>8, <2>2, <2>4
    <3> QED
      BY <2>2, <2>4, <3>1
  <2>5. CASE p = B[n]
    <3>1. e[p] \in stays /\ k[e[p]] = Slash
      BY <1>14, <2>2, <2>5
    <3> QED
      BY <2>2, <2>5, <3>1
  <2> QED
    BY <2>3, <2>4, <2>5
<1>16. \A p, q \in 1..W : p < q => e[p] < e[q]
  <2> SUFFICES ASSUME NEW p \in 1..W, NEW q \in 1..W, p < q PROVE e[p] < e[q]
    OBVIOUS
  <2>1. PICK n \in 1..m : In(p, n) /\ e[p] = (p + b[n]) - B[n]
    BY <1>12
  <2>2. PICK h \in 1..m : In(q, h) /\ e[q] = (q + b[h]) - B[h]
    BY <1>12
  <2>3. n = h \/ n < h \/ h < n
    BY <1>8
  <2>4. CASE n = h
    BY <1>11, <2>1, <2>2, <2>4
  <2>5. CASE n < h
    <3>1. b[n] <= a[h]
      BY <1>8, <2>5
    <3>2. e[p] <= b[n] /\ a[h] < e[q] /\ e[p] \in Nat /\ e[q] \in Nat
      BY <1>13, <2>1, <2>2
    <3> QED
      BY <1>11, <3>1, <3>2
  <2>6. CASE h < n
    <3>1. B[h] <= A[n]
      BY <1>9, <2>6
    <3>2. A[n] < p /\ q <= B[h]
      BY <2>1, <2>2
    <3> QED
      BY <1>11, <3>1, <3>2
  <2> QED
    BY <2>3, <2>4, <2>5, <2>6
<1>17. \A i \in stays : \E p \in 1..W : e[p] = i
  <2> SUFFICES ASSUME NEW i \in stays PROVE \E p \in 1..W : e[p] = i
    OBVIOUS
  <2>1. PICK n \in 1..m : a[n] < i /\ i <= b[n] /\ (i = b[n] => n # m)
    <3>1. CASE k[i] # Slash
      <4>1. PICK n \in 1..m : a[n] < i /\ i < b[n]
        BY <1>8, <3>1
      <4>2. b[n] \in Nat /\ i \in Nat
        BY <1>11
      <4>3. i <= b[n] /\ i # b[n]
        BY <4>1, <4>2
      <4> QED
        BY <4>1, <4>3
    <3>2. CASE k[i] = Slash
      <4>1. i \in 1..N /\ i > 1 /\ k[i - 1] # Slash
        BY <3>2
      <4>2. PICK j \in i..N : k[j] # Slash
        BY <3>2
      <4>3. i - 1 \in 1..N /\ j \in 1..N
        BY <1>5, <4>1
      <4>4. PICK n \in 1..m : a[n] < i - 1 /\ i - 1 < b[n]
        BY <1>8, <4>1, <4>3
      <4>5. PICK h \in 1..m : a[h] < j /\ j < b[h]
        BY <1>8, <4>2, <4>3
      <4>6. a[n] < i /\ i <= b[n]
        BY <1>11, <4>1, <4>4
      <4>7. n # m
        <5> SUFFICES ASSUME n = m PROVE FALSE
          OBVIOUS
        <5>1. h = n \/ h < n
          BY <1>8
        <5>2. b[h] <= b[n]
          <6>1. CASE h = n
            BY <1>11, <6>1
          <6>2. CASE h < n
            <7>1. b[h] <= a[n]
              BY <1>8, <6>2
            <7> QED
              BY <1>11, <7>1
          <6> QED
            BY <5>1, <6>1, <6>2
        <5>3. i < b[n]
          BY <1>11, <4>1, <4>2, <4>5, <5>2
        <5>4. k[i] # Slash
          BY <1>8, <4>1, <4>6, <5>3
        <5> QED
          BY <3>2, <5>4
      <4> QED
        BY <4>6, <4>7
    <3> QED
      BY <3>1, <3>2
  <2> DEFINE p == (i + B[n]) - b[n]
  <2>2. /\ a[n] \in Nat /\ b[n] \in Nat /\ A[n] \in Nat /\ B[n] \in Nat
        /\ a[n] + 1 < b[n] /\ A[n] + 1 < B[n] /\ B[n] <= W + 1
        /\ b[n] - a[n] = B[n] - A[n] /\ i \in Nat
    BY <1>11
  <2>3. p \in Nat /\ A[n] < p /\ p <= B[n] /\ (p = B[n] => i = b[n]) /\ p > 0
    BY <2>1, <2>2
  <2>4. p \in 1..W
    <3>1. p = B[n] => B[n] \in 1..W
      BY <1>14, <2>1, <2>3
    <3> HIDE DEF p
    <3> QED
      BY <1>5, <2>2, <2>3, <3>1
  <2>5. i = (p + b[n]) - B[n]
    BY <2>2
  <2> HIDE DEF p
  <2>6. PICK h \in 1..m : In(p, h) /\ e[p] = (p + b[h]) - B[h]
    BY <1>12, <2>4
  <2>7. h = n
    <3>1. h = n \/ h < n \/ n < h
      BY <1>8
    <3>2. h < n => B[h] <= A[n]
      BY <1>9
    <3>3. n < h => B[n] <= A[h]
      BY <1>9
    <3>4. A[h] < p /\ p <= B[h] /\ A[h] \in Nat /\ B[h] \in Nat
      BY <1>11, <2>6
    <3> QED
      BY <2>2, <2>3, <3>1, <3>2, <3>3, <3>4
  <2> QED
    BY <2>4, <2>5, <2>6, <2>7
<1>18. stays \in SUBSET Nat
  BY <1>5
<1> HIDE DEF stays
<1>19. e \in [1..W -> stays]
  BY <1>15 DEF e
<1>20. Sorted(stays) = e
  BY <1>5, <1>16, <1>17, <1>18, <1>19, SortedUnique
<1>21. DOMAIN e = 1..W
  BY <1>19
<1>22. Canonical(k) = [n \in 1..W |-> w[n]]
  BY <1>7, <1>15, <1>20, <1>21
<1>23. w = [n \in 1..W |-> w[n]]
  BY <1>3, <1>6 DEF Strings
<1> QED
  BY <1>22, <1>23 DEF w, ns

\* The path of a key gives its canonical form back, which has the same path:
\* relpath_to_key undoes key_to_relpath, but for the segments that are empty.
THEOREM KeyOfPathIs ==
    ASSUME NEW k \in Strings
    PROVE  /\ KeyOf(PathOf(k)) = Canonical(k)
           /\ Canonical(k) \in Strings /\ PathOf(Canonical(k)) = PathOf(k)
<1> DEFINE ns == Names(k)
<1>1. ns \in Seq(Strings) /\ Plain(ns)
  BY NamesAre, NamesPlain
<1>2. KeyOf(PathOf(k)) = Canonical(k) /\ Joined(ns) = Canonical(k)
  BY KeyOfPath, JoinedIsCanonical
<1> HIDE DEF ns
<1>3. Joined(ns) \in Strings /\ \E A, B : Packed(Joined(ns), ns, A, B)
  BY <1>1, JoinedIs
<1>4. ns = Names(Joined(ns))
  BY <1>1, <1>3, NamesUnique DEF Packed
<1>5. \A j : PathOf(j) = [n \in DOMAIN Names(j) |-> EncodeSegment(Names(j)[n])]
  BY DEF PathOf, Names
<1>6. PathOf(Joined(ns)) = PathOf(k)
  BY <1>4, <1>5 DEF ns
<1> QED
  BY <1>2, <1>3, <1>6

\* Two keys have one path only if they differ in empty segments alone: no two
\* names are encoded alike.
THEOREM PathsShared ==
    ASSUME NEW j \in Strings, NEW k \in Strings
    PROVE  PathOf(j) = PathOf(k) <=> Canonical(j) = Canonical(k)
<1>1. KeyOf(PathOf(j)) = Canonical(j) /\ PathOf(Canonical(j)) = PathOf(j)
  BY KeyOfPathIs
<1>2. KeyOf(PathOf(k)) = Canonical(k) /\ PathOf(Canonical(k)) = PathOf(k)
  BY KeyOfPathIs
<1> QED
  BY <1>1, <1>2

\* The part of a path that ends at n.
Upto(path, n) == SubSeq(path, 1, n)

LEMMA UptoIs ==
    ASSUME NEW S, NEW path \in Seq(S), NEW n \in 0..Len(path)
    PROVE  /\ Upto(path, n) \in Seq(S) /\ Len(Upto(path, n)) = n
           /\ \A i \in 1..n : Upto(path, n)[i] = path[i]
<1>1. n \in Nat /\ n <= Len(path) /\ Len(path) \in Nat
  OBVIOUS
<1>2. \A i \in 1..n : path[i] \in S
  BY <1>1
<1>3. (IF 1 <= n THEN n - 1 + 1 ELSE 0) = n /\ n - 1 + 1 = n /\ \A i \in 1..n : 1 + i - 1 = i
  BY <1>1
<1> QED
  BY <1>1, <1>2, <1>3, SubSeqProperties DEF Upto

\* A directory above a path is a strict prefix of it, and what is above that
\* is above the path too.
LEMMA AncestorIs ==
    ASSUME NEW S, NEW path \in Seq(S), NEW above \in Ancestors(path)
    PROVE  /\ above \in Seq(S) /\ above # path /\ IsStrictPrefix(above, path)
           /\ Ancestors(above) \subseteq Ancestors(path)
<1>1. PICK n \in 0..(Len(path) - 1) : above = Upto(path, n)
  BY DEF Ancestors, Upto
<1>2. Len(path) \in Nat /\ n \in Nat /\ n < Len(path) /\ n \in 0..Len(path)
  OBVIOUS
<1>3. above \in Seq(S) /\ Len(above) = n /\ \A i \in 1..n : above[i] = path[i]
  BY <1>1, <1>2, UptoIs
<1>4. above # path
  BY <1>2, <1>3
<1>5. IsStrictPrefix(above, path)
  <2>1. SubSeq(above, 1, Len(above)) = above
    BY <1>3, SubSeqFull
  <2> QED
    BY <1>1, <1>2, <1>3, <1>4, <2>1 DEF IsStrictPrefix, IsPrefix, Upto
<1>6. ASSUME NEW m \in 0..(n - 1) PROVE Upto(above, m) \in Ancestors(path)
  <2>1. m \in 0..n /\ m \in 0..(Len(path) - 1) /\ m \in 0..Len(path)
    BY <1>2
  <2>2. Upto(above, m) \in Seq(S) /\ Len(Upto(above, m)) = m /\ \A i \in 1..m : Upto(above, m)[i] = above[i]
    BY <1>3, <2>1, UptoIs
  <2>3. Upto(path, m) \in Seq(S) /\ Len(Upto(path, m)) = m /\ \A i \in 1..m : Upto(path, m)[i] = path[i]
    BY <2>1, UptoIs
  <2>4. \A i \in 1..m : Upto(above, m)[i] = Upto(path, m)[i]
    BY <1>2, <1>3, <2>2, <2>3
  <2>5. Upto(above, m) = Upto(path, m)
    BY <2>2, <2>3, <2>4, SeqEqual
  <2> QED
    BY <2>1, <2>5 DEF Ancestors, Upto
<1>7. Ancestors(above) \subseteq Ancestors(path)
  BY <1>3, <1>6 DEF Ancestors, Upto
<1> QED
  BY <1>3, <1>4, <1>5, <1>7

------------------------------------------------------------------------------
(* The tree of files and directories.                                      *)

\* The paths that keys and users have named.
PathsNamed == {PathOf(j) : j \in used} \union dropped

PastTyped == used \subseteq Keys /\ dropped \subseteq Strays /\ refused \subseteq used

\* Files and directories are a tree: no path is both, and what is above one is a
\* directory.
IsTree ==
    /\ <<>> \in dirs /\ DOMAIN files \intersect dirs = {}
    /\ \A p \in dirs \union DOMAIN files : Ancestors(p) \subseteq dirs

\* Nothing is where no key and no user has named it: files are at such paths,
\* and directories above them, also when the file is gone.
IsNamed ==
    /\ DOMAIN files \subseteq PathsNamed
    /\ \A d \in dirs : d = <<>> \/ \E p \in PathsNamed : d \in Ancestors(p)

TreeInv == PastTyped /\ IsTree /\ IsNamed /\ RefusedOnConflict

\* Every named path is a sequence.
LEMMA NamedAreSequences ==
    ASSUME PastTyped, NEW p \in PathsNamed
    PROVE  p \in Seq(Strings)
<1>1. CASE p \in dropped
  BY <1>1, StringsAssumption DEF PastTyped
<1>2. CASE p \in {PathOf(j) : j \in used}
  BY <1>2, PathIs, StringsAssumption DEF PastTyped
<1> QED
  BY <1>1, <1>2 DEF PathsNamed

\* Whoever is in the way of a path that is written has named it: a file above
\* it, or a directory where it would be.
LEMMA InTheWay ==
    ASSUME TreeInv, NEW k \in Keys,
           Blocked(PathOf(k)) \/ PathOf(k) \in dirs
    PROVE  \/ PathOf(k) = <<>>
           \/ \E p \in PathsNamed : IsStrictPrefix(p, PathOf(k)) \/ IsStrictPrefix(PathOf(k), p)
<1> DEFINE path == PathOf(k)
<1>1. path \in Seq(Strings)
  BY PathIs, StringsAssumption
<1>2. CASE Blocked(path)
  <2>1. PICK p \in Ancestors(path) : p \in DOMAIN files
    BY <1>2 DEF Blocked
  <2>2. p \in PathsNamed
    BY <2>1 DEF TreeInv, IsNamed
  <2>3. IsStrictPrefix(p, path)
    BY <1>1, <2>1, AncestorIs
  <2> QED
    BY <2>2, <2>3
<1>3. CASE path \in dirs /\ path # <<>>
  <2>1. PICK p \in PathsNamed : path \in Ancestors(p)
    BY <1>3 DEF TreeInv, IsNamed
  <2>2. p \in Seq(Strings)
    BY <2>1, NamedAreSequences DEF TreeInv
  <2>3. IsStrictPrefix(path, p)
    BY <2>1, <2>2, AncestorIs
  <2> QED
    BY <2>1, <2>3
<1> QED
  BY <1>2, <1>3

\* The directories above a path are made where no file is in the way: the tree
\* remains one.
LEMMA DirsMade ==
    ASSUME IsTree, NEW S, NEW path \in Seq(S), ~Blocked(path),
           dirs' = dirs \union Ancestors(path),
           files' = files \/ (DOMAIN files' = DOMAIN files \union {path} /\ path \notin dirs')
    PROVE  IsTree'
<1>1. DOMAIN files \intersect dirs' = {}
  BY DEF IsTree, Blocked
<1>2. \A p \in dirs \union DOMAIN files : Ancestors(p) \subseteq dirs'
  BY DEF IsTree
<1>3. \A p \in Ancestors(path) : Ancestors(p) \subseteq dirs'
  BY AncestorIs
<1>4. Ancestors(path) \subseteq dirs' /\ <<>> \in dirs'
  BY DEF IsTree
<1>5. CASE files' = files
  BY <1>1, <1>2, <1>3, <1>4, <1>5 DEF IsTree
<1>6. CASE DOMAIN files' = DOMAIN files \union {path} /\ path \notin dirs'
  BY <1>1, <1>2, <1>3, <1>4, <1>6 DEF IsTree
<1> QED
  BY <1>5, <1>6

\* What was named stays named, and so conflicts do.
LEMMA NamedStays ==
    ASSUME used \subseteq used', dropped \subseteq dropped'
    PROVE  PathsNamed \subseteq PathsNamed'
BY DEF PathsNamed

LEMMA ConflictsStay ==
    ASSUME RefusedOnConflict, used \subseteq used', dropped \subseteq dropped',
           NEW k \in refused
    PROVE  \/ NamesDirectory(k)
           \/ \E p \in PathsNamed' : IsStrictPrefix(p, PathOf(k)) \/ IsStrictPrefix(PathOf(k), p)
BY NamedStays DEF RefusedOnConflict, PathsNamed

LEMMA PutKept ==
    ASSUME TreeInv, NEW k \in Keys, PutObject(k)
    PROVE  TreeInv'
<1> DEFINE path == PathOf(k)
<1>1. used' = used \union {k} /\ dropped' = dropped
  BY DEF PutObject
<1>2. path \in PathsNamed' /\ PathsNamed \subseteq PathsNamed'
  BY <1>1, NamedStays DEF PathsNamed
<1>3. path \in Seq(Strings)
  BY PathIs, StringsAssumption
<1>4. dirs' = IF Blocked(path) THEN dirs ELSE dirs \union Ancestors(path)
  BY DEF PutObject, MakeDirs
<1>5. path \notin Ancestors(path)
  BY <1>3, AncestorIs
<1>6. CASE Blocked(path) \/ NamesDirectory(k) \/ path \in dirs'
  <2>1. refused' = refused \union {k} /\ files' = files
    BY <1>6 DEF PutObject
  <2>2. PastTyped'
    BY <1>1, <2>1 DEF TreeInv, PastTyped
  <2>3. IsTree'
    <3>1. CASE Blocked(path)
      BY <1>4, <2>1, <3>1 DEF TreeInv, IsTree
    <3>2. CASE ~Blocked(path)
      <4>1. IsTree /\ dirs' = dirs \union Ancestors(path) /\ files' = files /\ ~Blocked(path)
        BY <1>4, <2>1, <3>2 DEF TreeInv
      <4> HIDE DEF path
      <4> QED
        BY <1>3, <4>1, DirsMade
    <3> QED
      BY <3>1, <3>2
  <2>4. IsNamed'
    BY <1>2, <1>4, <2>1 DEF TreeInv, IsNamed
  <2>5. \/ NamesDirectory(k)
        \/ \E p \in PathsNamed : IsStrictPrefix(p, path) \/ IsStrictPrefix(path, p)
    <3>1. Blocked(path) \/ NamesDirectory(k) \/ path \in dirs
      BY <1>4, <1>5, <1>6
    <3> QED
      BY <3>1, InTheWay DEF NamesDirectory
  <2>6. RefusedOnConflict'
    BY <1>1, <1>2, <2>1, <2>5, ConflictsStay DEF TreeInv, RefusedOnConflict, PathsNamed
  <2> QED
    BY <2>2, <2>3, <2>4, <2>6 DEF TreeInv
<1>7. CASE ~(Blocked(path) \/ NamesDirectory(k) \/ path \in dirs')
  <2>1. refused' = refused /\ DOMAIN files' = DOMAIN files \union {path}
    BY <1>7 DEF PutObject, Store
  <2>2. PastTyped'
    BY <1>1, <2>1 DEF TreeInv, PastTyped
  <2>3. IsTree'
    BY <1>3, <1>4, <1>7, <2>1, DirsMade DEF TreeInv
  <2>4. IsNamed'
    BY <1>2, <1>4, <1>7, <2>1 DEF TreeInv, IsNamed
  <2>5. RefusedOnConflict'
    BY <1>1, <2>1, ConflictsStay DEF TreeInv, RefusedOnConflict, PathsNamed
  <2> QED
    BY <2>2, <2>3, <2>4, <2>5 DEF TreeInv
<1> QED
  BY <1>6, <1>7

LEMMA DeleteKept ==
    ASSUME TreeInv, NEW k \in Keys, DeleteObject(k)
    PROVE  TreeInv'
<1>1. /\ used' = used \union {k} /\ UNCHANGED <<dropped, dirs, refused>>
      /\ DOMAIN files' \subseteq DOMAIN files
  BY DEF DeleteObject
<1>2. PathsNamed \subseteq PathsNamed'
  BY <1>1, NamedStays
<1>3. PastTyped' /\ IsTree' /\ IsNamed'
  BY <1>1, <1>2 DEF TreeInv, PastTyped, IsTree, IsNamed
<1>4. RefusedOnConflict'
  BY <1>1, ConflictsStay DEF TreeInv, RefusedOnConflict, PathsNamed
<1> QED
  BY <1>3, <1>4 DEF TreeInv

LEMMA DropKept ==
    ASSUME TreeInv, NEW path \in Strays, Drop(path)
    PROVE  TreeInv'
<1>1. /\ dropped' = dropped \union {path} /\ UNCHANGED <<used, refused>>
      /\ dirs' = dirs \union Ancestors(path) /\ ~Blocked(path) /\ path \notin dirs
      /\ DOMAIN files' = DOMAIN files \union {path}
  BY DEF Drop, Store, MakeDirs
<1>2. path \in PathsNamed' /\ PathsNamed \subseteq PathsNamed'
  BY <1>1, NamedStays DEF PathsNamed
<1>3. path \in Seq(Strings)
  BY StringsAssumption
<1>4. path \notin dirs'
  BY <1>1, <1>3, AncestorIs
<1>5. PastTyped' /\ IsNamed'
  BY <1>1, <1>2 DEF TreeInv, PastTyped, IsNamed
<1>6. IsTree'
  BY <1>1, <1>3, <1>4, DirsMade DEF TreeInv
<1>7. RefusedOnConflict'
  BY <1>1, ConflictsStay DEF TreeInv, RefusedOnConflict, PathsNamed
<1> QED
  BY <1>5, <1>6, <1>7 DEF TreeInv

LEMMA TreeBegins == Init => TreeInv
<1> SUFFICES ASSUME Init PROVE TreeInv
  OBVIOUS
<1>1. DOMAIN files = {} /\ dirs = {<<>>} /\ used = {} /\ dropped = {} /\ refused = {}
  BY DEF Init
<1>2. Ancestors(<<>>) = {}
  BY DEF Ancestors
<1> QED
  BY <1>1, <1>2 DEF TreeInv, PastTyped, IsTree, IsNamed, RefusedOnConflict

\* The inductive invariant: files and directories are a tree, nothing is where
\* nobody has named it, and refused keys are in the way of named paths.
THEOREM TreeInductive == Spec => []TreeInv
<1>1. Init => TreeInv
  BY TreeBegins
<1>2. TreeInv /\ [Next]_vars => TreeInv'
  <2> SUFFICES ASSUME TreeInv, [Next]_vars PROVE TreeInv'
    OBVIOUS
  <2>1. ASSUME UNCHANGED <<files, dirs, past>> PROVE TreeInv'
    BY <2>1 DEF past, TreeInv, PastTyped, IsTree, IsNamed, PathsNamed, RefusedOnConflict
  <2>2. CASE UNCHANGED vars
    BY <2>1, <2>2 DEF vars, tree
  <2>3. CASE Next
    BY <2>1, <2>3, PutKept, DeleteKept, DropKept
    DEF Next, Reindex, BeginListing, FetchBatch, FetchFails, NextPage, tree
  <2> QED
    BY <2>2, <2>3
<1> QED
  BY <1>1, <1>2, PTL DEF Spec

\* No path is a file and a directory, and what is above a file or a directory is
\* a directory, whatever keys contain one another and in whatever order they
\* are put, deleted and dropped.
THEOREM FilesAreATree == Spec => []IsTree
<1>1. TreeInv => IsTree
  BY DEF TreeInv
<1> QED
  BY <1>1, TreeInductive, PTL

\* A PUT is refused only of a key whose path names a directory, or is above or
\* below the path of another that was put, deleted or dropped.
THEOREM RefusedOnlyOnConflict == Spec => []RefusedOnConflict
<1>1. TreeInv => RefusedOnConflict
  BY DEF TreeInv
<1> QED
  BY <1>1, TreeInductive, PTL


------------------------------------------------------------------------------
(* The bytes of keys.                                                      *)

\* A file is a stray where a user dropped it, or has the bytes of a key that was
\* put and whose path is there.
FilesInv ==
    \A p \in DOMAIN files :
        \/ files[p] = NoKey /\ p \in dropped
        \/ files[p] \in used /\ p = PathOf(files[p])

\* A key whose path nobody else has touched, and whose bytes must be there.
Untouched(k) ==
    /\ \A j \in used \ {k} : PathOf(j) # PathOf(k)
    /\ \A p \in dropped : KeyOf(p) = k => PathOf(k) = p

Known(k) == k \in used \union {Canonical(j) : j \in used} \union Recovered

Held(k) == PathOf(k) \in DOMAIN files /\ files[PathOf(k)] \in {k, NoKey}

RowsHold == \A k \in rows : Known(k) /\ (Untouched(k) => Held(k))

BytesInv == PastTyped /\ FilesInv /\ RowsHold

\* What was known stays so, and what is untouched was.
LEMMA KnownStays ==
    ASSUME used \subseteq used', dropped \subseteq dropped', NEW k
    PROVE  (Known(k) => Known(k)') /\ (Untouched(k)' => Untouched(k))
BY DEF Known, Untouched, Recovered

LEMMA PutHolds ==
    ASSUME BytesInv, NEW k \in Keys, PutObject(k)
    PROVE  BytesInv'
<1> DEFINE path == PathOf(k)
<1>1. used' = used \union {k} /\ UNCHANGED dropped
  BY DEF PutObject
<1>2. PastTyped'
  <2>1. refused' \in {refused, refused \union {k}}
    BY DEF PutObject
  <2> QED
    BY <1>1, <2>1 DEF BytesInv, PastTyped
<1>3. \A j : (Known(j) => Known(j)') /\ (Untouched(j)' => Untouched(j))
  BY <1>1, KnownStays
<1>4. CASE UNCHANGED <<rows, files>>
  <2>1. FilesInv'
    BY <1>1, <1>4 DEF BytesInv, FilesInv
  <2>2. \A j : Held(j) => Held(j)'
    BY <1>4 DEF Held
  <2> QED
    BY <1>2, <1>3, <1>4, <2>1, <2>2 DEF BytesInv, RowsHold
<1>5. CASE Store(path, k) /\ rows' = rows \union {k}
  <2>1. /\ DOMAIN files' = DOMAIN files \union {path} /\ files'[path] = k
        /\ \A p \in DOMAIN files : p # path => files'[p] = files[p]
    BY <1>5 DEF Store
  <2>2. FilesInv'
    BY <1>1, <2>1 DEF BytesInv, FilesInv
  <2>3. Known(k)' /\ Held(k)'
    BY <1>1, <2>1 DEF Known, Held
  <2>4. \A j : j # k /\ Untouched(j)' => PathOf(j) # path
    BY <1>1 DEF Untouched
  <2>5. \A j : Held(j) /\ PathOf(j) # path => Held(j)'
    BY <2>1 DEF Held
  <2> QED
    BY <1>2, <1>3, <1>5, <2>2, <2>3, <2>4, <2>5 DEF BytesInv, RowsHold
<1> QED
  BY <1>4, <1>5 DEF PutObject, SetRows

LEMMA DeleteHolds ==
    ASSUME BytesInv, NEW k \in Keys, DeleteObject(k)
    PROVE  BytesInv'
<1>1. used' = used \union {k} /\ UNCHANGED <<dropped, refused>> /\ rows' = rows \ {k}
  BY DEF DeleteObject, SetRows
<1>2. /\ DOMAIN files' \subseteq DOMAIN files /\ DOMAIN files \ {PathOf(k)} \subseteq DOMAIN files'
      /\ \A p \in DOMAIN files' : files'[p] = files[p]
  BY DEF DeleteObject
<1>3. PastTyped'
  BY <1>1 DEF BytesInv, PastTyped
<1>4. FilesInv'
  BY <1>1, <1>2 DEF BytesInv, FilesInv
<1>5. \A j : (Known(j) => Known(j)') /\ (Untouched(j)' => Untouched(j))
  BY <1>1, KnownStays
<1>6. \A j : j # k /\ Untouched(j)' => PathOf(j) # PathOf(k)
  BY <1>1 DEF Untouched
<1>7. \A j : Held(j) /\ PathOf(j) # PathOf(k) => Held(j)'
  BY <1>2 DEF Held
<1> QED
  BY <1>1, <1>3, <1>4, <1>5, <1>6, <1>7 DEF BytesInv, RowsHold

LEMMA DropHolds ==
    ASSUME BytesInv, NEW path \in Strays, Drop(path)
    PROVE  BytesInv'
<1>1. /\ dropped' = dropped \union {path} /\ UNCHANGED <<used, refused, rows>>
      /\ path \notin DOMAIN files
  BY DEF Drop
<1>2. /\ DOMAIN files' = DOMAIN files \union {path} /\ files'[path] = NoKey
      /\ \A p \in DOMAIN files : files'[p] = files[p]
  BY <1>1 DEF Drop, Store
<1>3. PastTyped'
  BY <1>1 DEF BytesInv, PastTyped
<1>4. FilesInv'
  BY <1>1, <1>2 DEF BytesInv, FilesInv
<1>5. \A j : (Known(j) => Known(j)') /\ (Untouched(j)' => Untouched(j))
  BY <1>1, KnownStays
<1>6. \A j : Held(j) => Held(j)'
  BY <1>2 DEF Held
<1> QED
  BY <1>1, <1>3, <1>4, <1>5, <1>6 DEF BytesInv, RowsHold

LEMMA ReindexHolds ==
    ASSUME BytesInv, Reindex
    PROVE  BytesInv'
<1>1. rows' = rows \union {KeyOf(p) : p \in DOMAIN files} /\ UNCHANGED <<files, past>>
  BY DEF Reindex, SetRows
<1>2. PastTyped' /\ FilesInv'
  BY <1>1 DEF BytesInv, PastTyped, FilesInv, past
<1>3. ASSUME NEW p \in DOMAIN files PROVE Known(KeyOf(p)) /\ (Untouched(KeyOf(p)) => Held(KeyOf(p)))
  <2> DEFINE k == KeyOf(p)
  <2>1. CASE files[p] = NoKey /\ p \in dropped
    <3>1. Known(k)
      BY <2>1 DEF Known, Recovered
    <3>2. Untouched(k) => PathOf(k) = p
      BY <2>1 DEF Untouched
    <3> QED
      BY <2>1, <3>1, <3>2 DEF Held
  <2>2. CASE files[p] \in used /\ p = PathOf(files[p])
    <3> DEFINE j == files[p]
    <3>1. j \in Strings
      BY <2>2, StringsAssumption DEF BytesInv, PastTyped
    <3>2. k = Canonical(j) /\ PathOf(k) = PathOf(j)
      BY <2>2, <3>1, KeyOfPathIs
    <3>3. Known(k)
      BY <2>2, <3>2 DEF Known
    <3>4. Untouched(k) => j = k
      BY <2>2, <3>2 DEF Untouched
    <3> QED
      BY <2>2, <3>2, <3>3, <3>4 DEF Held
  <2> QED
    BY <2>1, <2>2 DEF BytesInv, FilesInv
<1>4. \A k : /\ Known(k)' <=> Known(k)
             /\ Untouched(k)' <=> Untouched(k)
             /\ Held(k)' <=> Held(k)
  BY <1>1 DEF Known, Untouched, Held, Recovered, past
<1> QED
  BY <1>1, <1>2, <1>3, <1>4 DEF BytesInv, RowsHold

\* The inductive invariant of the files: where each comes from, and with that
\* which keys have theirs.
THEOREM BytesInductive == Spec => []BytesInv
<1>1. Init => BytesInv
  BY DEF Init, BytesInv, PastTyped, FilesInv, RowsHold
<1>2. BytesInv /\ [Next]_vars => BytesInv'
  <2> SUFFICES ASSUME BytesInv, [Next]_vars PROVE BytesInv'
    OBVIOUS
  <2>1. CASE UNCHANGED <<tree, past>>
    BY <2>1 DEF BytesInv, PastTyped, FilesInv, RowsHold, Known, Untouched, Held, Recovered, tree, past
  <2>2. ASSUME NEW q \in Queries, BeginListing(q) PROVE UNCHANGED <<tree, past>>
    BY <2>2 DEF BeginListing
  <2>3. ASSUME FetchBatch \/ FetchFails \/ NextPage PROVE UNCHANGED <<tree, past>>
    BY <2>3 DEF FetchBatch, FetchFails, NextPage
  <2>4. ASSUME UNCHANGED vars PROVE UNCHANGED <<tree, past>>
    BY <2>4 DEF vars
  <2> QED
    BY <2>1, <2>2, <2>3, <2>4, PutHolds, DeleteHolds, DropHolds, ReindexHolds DEF Next
<1> QED
  BY <1>1, <1>2, PTL DEF Spec

\* A row is of a key that was put, of its canonical form or of a dropped file,
\* and unless another key or a user has been at its path, the file there has its
\* bytes, whatever the keys, the files and the order in which they are put,
\* deleted, dropped and indexed.
THEOREM FilesHoldKeysAlways == Spec => []FilesHoldKeys
<1>1. BytesInv => FilesHoldKeys
  BY DEF BytesInv, RowsHold, Known, Untouched, Held, FilesHoldKeys
<1> QED
  BY <1>1, BytesInductive, PTL

------------------------------------------------------------------------------
(* The listing, in the terms of the query.                                 *)

\* What a key with the prefix of the query is listed as.
LEMMA ItemIs ==
    ASSUME NEW q, IsQuery(q), NEW k \in Strings, IsPrefix(q.prefix, k)
    PROVE  /\ Item(q, k) = ListedAs(k, q.prefix, q.delimiter)
           /\ Groups(q, k) = {} <=> GroupOf(k, q.prefix, q.delimiter) = NoKey
           /\ Item(q, k) \in Strings /\ IsPrefix(Item(q, k), k) /\ AtMost(Item(q, k), k)
<1> DEFINE cuts == Cuts(k, q.prefix, q.delimiter)
           g == GroupOf(k, q.prefix, q.delimiter)
           ends == {n \in DOMAIN k : \E i \in Len(q.prefix)..n : SubSeq(k, i + 1, n) = q.delimiter}
<1>1. Len(k) \in Nat /\ DOMAIN k = 1..Len(k) /\ k \in Seq(Scalars) /\ k \in Seq(Nat)
  BY StringIs DEF Strings
<1>2. q.prefix \in Strings /\ Len(q.prefix) \in Nat
  BY StringIs DEF IsQuery
<1>3. ASSUME q.delimiter # NoKey PROVE ends = cuts
  <2> DEFINE d == q.delimiter
             p == Len(q.prefix)
  <2>1. d \in Strings /\ Len(d) \in Nat /\ Len(d) # 0
    <3>1. d \in Strings /\ d # <<>>
      BY <1>3 DEF IsQuery
    <3>2. d \in Seq(Scalars)
      BY <3>1 DEF Strings
    <3> QED
      BY <3>1, <3>2
  <2> HIDE DEF d, p
  <2>2. ASSUME NEW n \in 1..Len(k), NEW i \in p..n, SubSeq(k, i + 1, n) = d
        PROVE  n >= p + Len(d) /\ SubSeq(k, n - Len(d) + 1, n) = d
    <3>1. i \in Nat /\ n \in Nat /\ p <= i /\ i <= n /\ n <= Len(k)
      BY <1>1, <1>2 DEF p
    <3>2. Len(SubSeq(k, i + 1, n)) = n - i
      <4>1. CASE i = n
        <5>1. SubSeq(k, i + 1, n) = <<>>
          BY <1>1, <3>1, <4>1
        <5> QED
          BY <3>1, <4>1, <5>1
      <4>2. CASE i # n
        BY <1>1, <3>1, <4>2
      <4> QED
        BY <4>1, <4>2
    <3>3. i = n - Len(d)
      BY <2>1, <2>2, <3>1, <3>2
    <3> QED
      BY <1>2, <2>1, <2>2, <3>1, <3>3 DEF p
  <2>3. ASSUME NEW n \in 1..Len(k), n >= p + Len(d), SubSeq(k, n - Len(d) + 1, n) = d
        PROVE  \E i \in p..n : SubSeq(k, i + 1, n) = d
    <3>1. n - Len(d) \in p..n
      BY <1>1, <1>2, <2>1, <2>3 DEF p
    <3> QED
      BY <2>3, <3>1
  <2>4. \A n \in 1..Len(k) : n \in ends <=> n >= p + Len(d) /\ SubSeq(k, n - Len(d) + 1, n) = d
    BY <1>1, <2>2, <2>3 DEF d, p
  <2>5. cuts = {n \in DOMAIN k : n >= p + Len(d) /\ SubSeq(k, n - Len(d) + 1, n) = d}
    BY <1>3 DEF Cuts, d, p
  <2>6. cuts \subseteq DOMAIN k /\ ends \subseteq DOMAIN k
    BY <2>5
  <2> HIDE DEF cuts, ends
  <2> QED
    BY <1>1, <2>4, <2>5, <2>6
<1>4. Groups(q, k) = {SubSeq(k, 1, n) : n \in cuts}
  <2>1. CASE q.delimiter = NoKey
    BY <2>1 DEF Groups, Cuts
  <2>2. CASE q.delimiter # NoKey
    <3>1. Groups(q, k) = {SubSeq(k, 1, n) : n \in ends}
      BY <2>2 DEF Groups
    <3> QED
      BY <1>3, <2>2, <3>1
  <2> QED
    BY <2>1, <2>2
<1>5. cuts \subseteq 1..Len(k) /\ (g = NoKey => cuts = {})
  BY GroupIs
<1>6. g # NoKey => /\ g \in Strings /\ IsPrefix(g, k) /\ Len(g) \in cuts
                   /\ \A i \in cuts : Len(g) <= i
  BY GroupIs
<1> HIDE DEF cuts, g, ends
<1>7. ASSUME NEW n \in cuts
      PROVE  /\ SubSeq(k, 1, n) \in Seq(Scalars) /\ Len(SubSeq(k, 1, n)) = n
             /\ IsPrefix(SubSeq(k, 1, n), k)
  <2>1. n \in Nat /\ n <= Len(k) /\ 1 <= n
    BY <1>1, <1>5
  <2>2. /\ SubSeq(k, 1, n) \in Seq(Scalars) /\ Len(SubSeq(k, 1, n)) = n
        /\ \A i \in 1..n : SubSeq(k, 1, n)[i] = k[i]
    BY <1>1, <2>1
  <2> QED
    BY <1>1, <2>1, <2>2, PrefixIs
<1>8. Groups(q, k) = {} <=> g = NoKey
  BY <1>4, <1>5, <1>6
<1>9. CASE g = NoKey
  <2>1. Item(q, k) = k
    BY <1>8, <1>9 DEF Item
  <2>2. ListedAs(k, q.prefix, q.delimiter) = k
    BY <1>9 DEF ListedAs, g
  <2> QED
    BY <1>1, <1>8, <2>1, <2>2, PrefixChain DEF AtMost, g
<1>10. CASE g # NoKey
  <2>1. g \in Seq(Scalars) /\ Len(g) \in Nat
    BY <1>6, <1>10 DEF Strings
  <2>2. SubSeq(k, 1, Len(g)) = g
    <3>1. Len(g) \in cuts
      BY <1>6, <1>10
    <3>2. IsPrefix(SubSeq(k, 1, Len(g)), k) /\ Len(SubSeq(k, 1, Len(g))) = Len(g) /\ SubSeq(k, 1, Len(g)) \in Seq(Scalars)
      BY <1>7, <3>1
    <3> DEFINE h == SubSeq(k, 1, Len(g))
    <3>3. h \in Seq(Scalars) /\ IsPrefix(h, k) /\ Len(h) = Len(g) /\ IsPrefix(g, k)
      BY <1>6, <1>10, <3>2
    <3> HIDE DEF h
    <3>4. IsPrefix(h, g)
      BY <1>1, <2>1, <3>3, PrefixChain
    <3>5. h = g
      BY <2>1, <3>3, <3>4, PrefixChain
    <3> QED
      BY <3>5 DEF h
  <2>3. g \in Groups(q, k)
    BY <1>4, <1>6, <1>10, <2>2
  <2>4. \A h \in Groups(q, k) : h \in Seq(Scalars) /\ IsPrefix(g, h)
    <3> SUFFICES ASSUME NEW n \in cuts
                 PROVE  SubSeq(k, 1, n) \in Seq(Scalars) /\ IsPrefix(g, SubSeq(k, 1, n))
      BY <1>4
    <3> DEFINE h == SubSeq(k, 1, n)
    <3>1. h \in Seq(Scalars) /\ IsPrefix(h, k) /\ Len(h) = n
      BY <1>7
    <3>2. IsPrefix(g, k) /\ Len(g) <= Len(h)
      BY <1>6, <1>10, <3>1
    <3> HIDE DEF h
    <3>3. IsPrefix(g, h)
      BY <1>1, <2>1, <3>1, <3>2, PrefixChain
    <3> QED
      BY <3>1, <3>3 DEF h
  <2>5. \A f \in Groups(q, k) : (\A h \in Groups(q, k) : IsPrefix(f, h)) => f = g
    <3> SUFFICES ASSUME NEW f \in Groups(q, k), \A h \in Groups(q, k) : IsPrefix(f, h) PROVE f = g
      OBVIOUS
    <3>1. f \in Seq(Scalars) /\ IsPrefix(g, f) /\ IsPrefix(f, g)
      BY <2>3, <2>4
    <3>2. Len(f) = Len(g)
      <4>1. Len(f) <= Len(g) /\ Len(g) <= Len(f)
        BY <2>1, <3>1, PrefixIs
      <4>2. Len(f) \in Nat
        BY <3>1
      <4> QED
        BY <2>1, <4>1, <4>2
    <3> QED
      BY <2>1, <3>1, <3>2, PrefixChain
  <2>6. Item(q, k) = g
    BY <1>8, <1>10, <2>3, <2>4, <2>5 DEF Item
  <2>7. AtMost(g, k)
    <3>1. g \in Seq(Nat)
      BY <1>6, <1>10, StringIs
    <3> QED
      BY <1>1, <1>6, <1>10, <3>1, PrefixOrder
  <2> QED
    BY <1>6, <1>8, <1>10, <2>6, <2>7 DEF ListedAs, g
<1> QED
  BY <1>9, <1>10

\* The order, of strings.
LEMMA StringOrder ==
    ASSUME NEW s \in Strings, NEW t \in Strings, NEW u \in Strings
    PROVE  /\ ~Less(s, s) /\ AtMost(s, s)
           /\ AtMost(s, t) <=> ~Less(t, s)
           /\ Less(s, t) /\ Less(t, u) => Less(s, u)
           /\ AtMost(s, t) /\ Less(t, u) => Less(s, u)
           /\ Less(s, t) /\ AtMost(t, u) => Less(s, u)
           /\ AtMost(s, t) /\ AtMost(t, u) => AtMost(s, u)
<1>1. s \in Seq(Nat) /\ t \in Seq(Nat) /\ u \in Seq(Nat)
  BY StringIs
<1>2. AtMost(s, s)
  BY DEF AtMost
<1> QED
  BY <1>1, <1>2, Order

\* The group of a key in a listing.
Group(q, k) == GroupOf(k, q.prefix, q.delimiter)

LEMMA ItemOfKey ==
    ASSUME NEW q, IsQuery(q), NEW k \in Strings, IsPrefix(q.prefix, k)
    PROVE  /\ Group(q, k) = NoKey => Item(q, k) = k /\ Groups(q, k) = {}
           /\ Group(q, k) # NoKey => /\ Item(q, k) = Group(q, k) /\ Groups(q, k) # {}
                                     /\ Group(q, k) \in Strings /\ IsPrefix(Group(q, k), k)
           /\ Item(q, k) \in Strings /\ AtMost(Item(q, k), k)
BY ItemIs, GroupIs DEF Group, ListedAs

\* A key above what another is listed as is listed above that, or in that group.
LEMMA ItemsInOrder ==
    ASSUME NEW q, IsQuery(q), NEW j \in Strings, NEW k \in Strings,
           IsPrefix(q.prefix, j), IsPrefix(q.prefix, k), Less(Item(q, j), k)
    PROVE  Less(Item(q, j), Item(q, k)) \/ (Group(q, k) # NoKey /\ Group(q, k) = Item(q, j))
<1>1. q.prefix \in Strings /\ IsDelimiter(q.delimiter)
  BY QueryHasDelimiter DEF IsQuery
<1>2. /\ Item(q, j) = ListedAs(j, q.prefix, q.delimiter) /\ Item(q, j) \in Strings
      /\ Item(q, k) = ListedAs(k, q.prefix, q.delimiter)
  BY ItemIs
<1>3. Less(ListedAs(j, q.prefix, q.delimiter), k)
  BY <1>2
<1>4. \/ Less(ListedAs(j, q.prefix, q.delimiter), ListedAs(k, q.prefix, q.delimiter))
      \/ GroupOf(k, q.prefix, q.delimiter) = ListedAs(j, q.prefix, q.delimiter)
  BY <1>1, <1>3, ListedInOrder
<1> QED
  BY <1>2, <1>4, NoKeyAssumption DEF Group

LEMMA GroupShared ==
    ASSUME NEW q, IsQuery(q), NEW j \in Strings, NEW k \in Strings,
           Group(q, j) # NoKey, IsPrefix(Group(q, j), k)
    PROVE  Group(q, k) = Group(q, j)
<1>1. q.prefix \in Strings /\ IsDelimiter(q.delimiter)
  BY QueryHasDelimiter DEF IsQuery
<1> QED
  BY <1>1, SameGroup DEF Group

------------------------------------------------------------------------------
(* What has been shown, and what is left.                                  *)

\* The keys that a listing will look at from a cursor on.
Ahead(q, cursor, marker, k) ==
    /\ IsPrefix(q.prefix, k)
    /\ cursor = NoKey \/ AtMost(cursor, k)
    /\ Group(q, k) # NoKey /\ marker # NoKey => ~AtMost(Group(q, k), marker)

Ordered(shown) == \A i, j \in DOMAIN shown : i < j => Less(shown[i], shown[j])

\* All that is shown is of the keys C.
Sourced(q, shown, C) ==
    \A i \in DOMAIN shown : \E k \in C : Asked(q, k) /\ Item(q, k) = shown[i]

\* The keys K are shown.
Complete(q, shown, K) ==
    \A k \in K : Asked(q, k) /\ ~LeftOut(q, k) => \E i \in DOMAIN shown : shown[i] = Item(q, k)

\* A listing of the keys K may go on at the cursor: what is ahead of it was asked
\* for and follows what is shown, and what is not ahead of it is shown.
Resumable(q, shown, cursor, marker, K) ==
    /\ \A k \in Strings : Ahead(q, cursor, marker, k) =>
          Asked(q, k) /\ \A i \in DOMAIN shown : Less(shown[i], Item(q, k))
    /\ Complete(q, shown, {k \in K : ~Ahead(q, cursor, marker, k)})

LEMMA Shorter ==
    ASSUME NEW q, NEW shown, NEW cursor, NEW marker, NEW K, NEW L \in SUBSET K,
           Resumable(q, shown, cursor, marker, K)
    PROVE  Resumable(q, shown, cursor, marker, L)
BY DEF Resumable, Complete

\* A listing may go on at next when it lists a key: the keys from there on are
\* listed as more, and the keys before it as the same.
GoesOn(q, K, cursor, marker, key, next) ==
    /\ \A k \in Strings : Ahead(q, next, marker, k) =>
          Ahead(q, cursor, marker, k) /\ Less(Item(q, key), Item(q, k))
    /\ \A k \in K : Ahead(q, cursor, marker, k) /\ ~Ahead(q, next, marker, k) =>
          Item(q, k) = Item(q, key)

\* A key that is ahead of the cursor is listed.
LEMMA OneListed ==
    ASSUME NEW q, IsQuery(q), NEW shown \in Seq(Strings), NEW K \in SUBSET Strings,
           NEW C \in SUBSET Strings, NEW cursor, NEW marker, NEW next, NEW key \in C,
           Ordered(shown), Sourced(q, shown, C), Resumable(q, shown, cursor, marker, K),
           Ahead(q, cursor, marker, key), GoesOn(q, K, cursor, marker, key, next)
    PROVE  /\ Ordered(Append(shown, Item(q, key))) /\ Sourced(q, Append(shown, Item(q, key)), C)
           /\ Resumable(q, Append(shown, Item(q, key)), next, marker, K)
<1> DEFINE item == Item(q, key)
           more == Append(shown, item)
<1>1. key \in Strings /\ IsPrefix(q.prefix, key)
  BY DEF Ahead
<1>2. item \in Strings
  BY <1>1, ItemOfKey
<1>3. /\ Len(shown) \in Nat /\ DOMAIN shown = 1..Len(shown) /\ DOMAIN more = 1..(Len(shown) + 1)
      /\ \A i \in 1..Len(shown) : more[i] = shown[i]
      /\ more[Len(shown) + 1] = item
  BY <1>2
<1>4. /\ \A i \in DOMAIN more : i \in DOMAIN shown \/ i = Len(shown) + 1
      /\ \A i \in DOMAIN shown : i \in DOMAIN more /\ more[i] = shown[i]
      /\ Len(shown) + 1 \in DOMAIN more
  BY <1>3
<1>5. Asked(q, key) /\ \A i \in DOMAIN shown : Less(shown[i], item)
  BY <1>1 DEF Resumable
<1> HIDE DEF more, item
<1>6. Ordered(more)
  <2> SUFFICES ASSUME NEW i \in DOMAIN more, NEW j \in DOMAIN more, i < j
               PROVE  Less(more[i], more[j])
    BY DEF Ordered
  <2>1. i \in DOMAIN shown
    <3>1. i \in 1..(Len(shown) + 1) /\ j \in 1..(Len(shown) + 1)
      BY <1>3
    <3>2. i \in 1..Len(shown)
      BY <1>3, <3>1
    <3> QED
      BY <1>3, <3>2
  <2>2. CASE j \in DOMAIN shown
    BY <1>4, <2>1, <2>2 DEF Ordered
  <2>3. CASE j = Len(shown) + 1
    BY <1>3, <1>4, <1>5, <2>1, <2>3
  <2> QED
    BY <1>4, <2>2, <2>3
<1>7. Sourced(q, more, C)
  BY <1>3, <1>4, <1>5 DEF Sourced, item
<1>8. ASSUME NEW k \in Strings, Ahead(q, next, marker, k)
      PROVE  Asked(q, k) /\ \A i \in DOMAIN more : Less(more[i], Item(q, k))
  <2>1. Ahead(q, cursor, marker, k) /\ Less(item, Item(q, k))
    BY <1>8 DEF GoesOn, item
  <2>2. Asked(q, k) /\ \A i \in DOMAIN shown : Less(shown[i], Item(q, k))
    BY <2>1 DEF Resumable
  <2> QED
    BY <1>3, <1>4, <2>1, <2>2
<1>9. ASSUME NEW k \in K, ~Ahead(q, next, marker, k), Asked(q, k), ~LeftOut(q, k)
      PROVE  \E i \in DOMAIN more : more[i] = Item(q, k)
  <2>1. CASE Ahead(q, cursor, marker, k)
    <3>1. Item(q, k) = item
      BY <1>9, <2>1 DEF GoesOn, item
    <3> QED
      BY <1>3, <1>4, <3>1
  <2>2. CASE ~Ahead(q, cursor, marker, k)
    <3>1. \E i \in DOMAIN shown : shown[i] = Item(q, k)
      BY <1>9, <2>2 DEF Resumable, Complete
    <3> QED
      BY <1>4, <3>1
  <2> QED
    BY <2>1, <2>2
<1>10. Resumable(q, more, next, marker, K)
  BY <1>8, <1>9 DEF Resumable, Complete
<1> QED
  BY <1>6, <1>7, <1>10 DEF more, item


\* A page of a listing that has shown the pages before: the keys C were there some
\* time, and the keys K are still.
PageInv(q, before, st, C, K) ==
    /\ st \in States /\ Len(st.page) <= q.max
    /\ Ordered(before \o st.page) /\ Sourced(q, before \o st.page, C)
    /\ st.way # "stop" => Resumable(q, before \o st.page, st.cursor, st.marker, K)
    /\ st.way = "full" => Len(st.page) = q.max
    /\ st.way = "stop" => Complete(q, before \o st.page, K)

LEMMA PageLonger ==
    ASSUME NEW before \in Seq(Strings), NEW page \in Seq(Strings), NEW item \in Strings
    PROVE  /\ before \o Append(page, item) = Append(before \o page, item)
           /\ before \o page \in Seq(Strings)
           /\ Append(page, item) \in Seq(Strings) /\ Len(Append(page, item)) = Len(page) + 1
<1>1. before \o page \in Seq(Strings) /\ Append(page, item) \in Seq(Strings)
  OBVIOUS
<1>2. before \o Append(page, item) \in Seq(Strings) /\ Append(before \o page, item) \in Seq(Strings)
  BY <1>1
<1>3. Len(before \o Append(page, item)) = Len(Append(before \o page, item))
  BY <1>1
<1>4. \A i \in 1..Len(before \o Append(page, item)) :
         (before \o Append(page, item))[i] = Append(before \o page, item)[i]
  OBVIOUS
<1>5. before \o Append(page, item) = Append(before \o page, item)
  BY <1>2, <1>3, <1>4, SeqEqual
<1> QED
  BY <1>1, <1>5

\* A cursor has not passed key k, and no key of K that it has not passed is less.
Reached(q, cursor, k) == IsPrefix(q.prefix, k) /\ (cursor = NoKey \/ AtMost(cursor, k))

FirstLeft(q, K, cursor, key) ==
    Reached(q, cursor, key) /\ \A k \in K : Reached(q, cursor, k) => AtMost(key, k)

\* A key that is not in a group is listed, and the listing goes on after it.
LEMMA KeyListed ==
    ASSUME NEW q, IsQuery(q), NEW K \in SUBSET Strings, NEW cursor, NEW marker,
           NEW key \in Strings, cursor \in Strings \union {NoKey}, Group(q, key) = NoKey,
           FirstLeft(q, K, cursor, key)
    PROVE  /\ Ahead(q, cursor, marker, key) /\ After(key) \in Strings /\ Less(key, After(key))
           /\ GoesOn(q, K, cursor, marker, key, After(key))
<1> USE DEF FirstLeft, Reached
<1>1. Ahead(q, cursor, marker, key)
  BY DEF Ahead
<1>2. After(key) \in Strings /\ Less(key, After(key))
  <2>1. After(key) \in Strings
    BY AfterIs
  <2>2. AtMost(After(key), After(key))
    BY DEF AtMost
  <2> QED
    BY <2>1, <2>2, AfterIs
<1>3. After(key) # NoKey
  BY <1>2, NoKeyAssumption
<1>4. Item(q, key) = key
  BY ItemOfKey
<1>5. ASSUME NEW k \in Strings, Ahead(q, After(key), marker, k)
      PROVE  Ahead(q, cursor, marker, k) /\ Less(Item(q, key), Item(q, k))
  <2>1. Less(key, k) /\ IsPrefix(q.prefix, k)
    BY <1>3, <1>5, AfterIs DEF Ahead
  <2>2. cursor = NoKey \/ AtMost(cursor, k)
    BY <2>1, StringOrder DEF AtMost
  <2>3. Ahead(q, cursor, marker, k)
    BY <1>5, <2>1, <2>2 DEF Ahead
  <2>4. ASSUME Group(q, k) # NoKey, Group(q, k) = key PROVE FALSE
    <3>1. IsPrefix(Group(q, k), key)
      <4>1. key \in Seq(Scalars)
        BY DEF Strings
      <4> QED
        BY <2>4, <4>1, PrefixChain
    <3>2. Group(q, key) = Group(q, k)
      BY <2>4, <3>1, GroupShared
    <3> QED
      BY <2>4, <3>2
  <2>5. Less(key, Item(q, k))
    BY <1>4, <2>1, <2>4, ItemsInOrder
  <2> QED
    BY <1>4, <2>3, <2>5
<1>6. ASSUME NEW k \in K, Ahead(q, cursor, marker, k), ~Ahead(q, After(key), marker, k)
      PROVE  Item(q, k) = Item(q, key)
  <2>1. AtMost(key, k)
    BY <1>6 DEF Ahead
  <2>2. ~AtMost(After(key), k)
    BY <1>6 DEF Ahead
  <2>3. ~Less(key, k)
    BY <2>2, AfterIs
  <2> QED
    BY <2>1, <2>3 DEF AtMost
<1> QED
  BY <1>1, <1>2, <1>5, <1>6 DEF GoesOn

\* What follows a key in a group: keys of that group, and then keys that are listed
\* as more.
LEMMA GroupPassed ==
    ASSUME NEW q, IsQuery(q), NEW K \in SUBSET Strings, NEW cursor, NEW marker,
           NEW key \in Strings, cursor \in Strings \union {NoKey}, Group(q, key) # NoKey,
           FirstLeft(q, K, cursor, key)
    PROVE  LET next == Successor(Group(q, key)) IN
           /\ next # NoKey => next \in Strings /\ Less(key, next)
           /\ next # NoKey => \A k \in Strings : Ahead(q, next, marker, k) =>
                Ahead(q, cursor, marker, k) /\ Less(Item(q, key), Item(q, k))
           /\ \A k \in K : /\ Ahead(q, cursor, marker, k)
                           /\ next # NoKey => ~Ahead(q, next, marker, k)
                           => Group(q, k) = Group(q, key)
<1> DEFINE g == Group(q, key)
           next == Successor(g)
<1> USE DEF FirstLeft, Reached
<1>1. Item(q, key) = g /\ g \in Strings /\ IsPrefix(g, key) /\ AtMost(g, key)
  BY ItemOfKey
<1>2. next # NoKey => next \in Strings /\ Less(key, next)
  BY <1>1, SuccessorIs
<1> HIDE DEF g, next
<1>3. ASSUME next # NoKey, NEW k \in Strings, Ahead(q, next, marker, k)
      PROVE  Ahead(q, cursor, marker, k) /\ Less(Item(q, key), Item(q, k))
  <2>1. AtMost(next, k) /\ IsPrefix(q.prefix, k)
    BY <1>3 DEF Ahead
  <2>2. Less(key, k)
    BY <1>2, <1>3, <2>1, StringOrder
  <2>3. cursor = NoKey \/ AtMost(cursor, k)
    BY <2>2, StringOrder DEF AtMost
  <2>4. Ahead(q, cursor, marker, k)
    BY <1>3, <2>1, <2>3 DEF Ahead
  <2>5. Less(g, k)
    BY <1>1, <2>2, StringOrder
  <2>6. ASSUME Group(q, k) # NoKey, Group(q, k) = g PROVE FALSE
    <3>1. IsPrefix(g, k)
      BY <2>1, <2>6, ItemOfKey
    <3>2. Less(k, next)
      BY <1>1, <1>3, <3>1, SuccessorIs DEF next
    <3> QED
      BY <1>2, <1>3, <2>1, <3>2, StringOrder
  <2>7. Less(Item(q, key), k)
    BY <1>1, <2>5
  <2>8. Less(Item(q, key), Item(q, k)) \/ (Group(q, k) # NoKey /\ Group(q, k) = Item(q, key))
    BY <2>1, <2>7, ItemsInOrder
  <2> QED
    BY <1>1, <2>4, <2>6, <2>8
<1>4. ASSUME NEW k \in K, Ahead(q, cursor, marker, k), next # NoKey => ~Ahead(q, next, marker, k)
      PROVE  Group(q, k) = g
  <2>1. AtMost(key, k) /\ k \in Strings
    BY <1>4 DEF Ahead
  <2>2. AtMost(g, k)
    BY <1>1, <2>1, StringOrder
  <2>3. IsPrefix(g, k)
    <3>1. CASE next = NoKey
      BY <1>1, <2>1, <2>2, <3>1, SuccessorIs DEF next
    <3>2. CASE next # NoKey
      <4>1. ~AtMost(next, k)
        BY <1>4, <3>2 DEF Ahead
      <4> QED
        BY <1>1, <2>1, <2>2, <3>2, <4>1, SuccessorIs DEF next
    <3> QED
      BY <3>1, <3>2
  <2>4. g # NoKey
    BY DEF g
  <2> QED
    BY <2>1, <2>3, <2>4, GroupShared DEF g
<1> QED
  BY <1>2, <1>3, <1>4 DEF g, next


\* Where a page stands after a key of the batch: it is past the key, and it skips
\* keys only up to its cursor.
Past(st, key) ==
    /\ st.cursor \in Strings /\ Less(key, st.cursor)
    /\ st.skip = NoKey => st.cursor = After(key)
    /\ st.skip # NoKey => st.skip = st.cursor

\* A key that the page has reached and does not skip, the first of those that are
\* left, is listed, or its group is, or has been, or ends the listing.
LEMMA AbsorbKept ==
    ASSUME NEW q, IsQuery(q), NEW before \in Seq(Strings), NEW C \in SUBSET Strings,
           NEW K \in SUBSET Strings, NEW st, PageInv(q, before, st, C, K), st.way = "go",
           NEW key \in C, FirstLeft(q, K, st.cursor, key),
           ~(st.skip # NoKey /\ Less(key, st.skip))
    PROVE  LET new == Absorb(q, st, key) IN
           /\ PageInv(q, before, new, C, K) /\ new.from = st.from /\ new.marker = st.marker
           /\ new.way = "go" => Past(new, key)
<1> DEFINE new == Absorb(q, st, key)
           g == Group(q, key)
           shown == before \o st.page
<1>1. /\ st \in States /\ key \in Strings /\ Len(st.page) <= q.max
      /\ IsPrefix(q.prefix, key) /\ (st.cursor = NoKey \/ AtMost(st.cursor, key))
  BY DEF PageInv, FirstLeft, Reached
<1>2. /\ st.page \in Seq(Strings) /\ Len(st.page) \in Nat /\ q.max \in Nat
      /\ st.cursor \in Strings \union {NoKey} /\ st.marker \in Strings \union {NoKey}
      /\ shown \in Seq(Strings)
  BY <1>1 DEF States, IsQuery
<1>3. new \in States
  BY <1>1, AbsorbTyped
<1>4. /\ Ordered(shown) /\ Sourced(q, shown, C)
      /\ Resumable(q, shown, st.cursor, st.marker, K)
  BY DEF PageInv
<1>5. CASE Len(st.page) = q.max
  <2>1. new = [st EXCEPT !.way = "full"]
    BY <1>5 DEF Absorb
  <2>2. /\ new.way = "full" /\ new.page = st.page /\ new.cursor = st.cursor
        /\ new.marker = st.marker /\ new.from = st.from
    BY <1>1, <2>1 DEF States
  <2> HIDE DEF new
  <2>3. PageInv(q, before, new, C, K)
    BY <1>3, <1>4, <1>5, <1>1, <2>2 DEF PageInv
  <2> QED
    BY <2>2, <2>3 DEF new
<1>6. CASE Len(st.page) # q.max /\ g = NoKey
  <2>1. new = [st EXCEPT !.cursor = After(key), !.skip = NoKey, !.page = Append(@, key)]
    BY <1>6 DEF Absorb, AbsorbKey, Group
  <2>2. /\ new.way = "go" /\ new.page = Append(st.page, key) /\ new.cursor = After(key)
        /\ new.marker = st.marker /\ new.from = st.from /\ new.skip = NoKey
    BY <1>1, <2>1 DEF States
  <2> HIDE DEF new, g, shown
  <2>3. Item(q, key) = key
    BY <1>1, <1>6, ItemOfKey DEF g
  <2>4. /\ Ahead(q, st.cursor, st.marker, key) /\ After(key) \in Strings /\ Less(key, After(key))
        /\ GoesOn(q, K, st.cursor, st.marker, key, After(key))
    <3>1. Group(q, key) = NoKey
      BY <1>6 DEF g
    <3> QED
      BY <1>1, <1>2, <3>1, KeyListed
  <2>5. /\ Ordered(Append(shown, Item(q, key))) /\ Sourced(q, Append(shown, Item(q, key)), C)
        /\ Resumable(q, Append(shown, Item(q, key)), After(key), st.marker, K)
    BY <1>2, <1>4, <2>4, OneListed
  <2>6. before \o new.page = Append(shown, key) /\ Len(new.page) = Len(st.page) + 1
    BY <1>1, <1>2, <2>2, PageLonger DEF shown
  <2>7. Len(new.page) <= q.max
    BY <1>1, <1>2, <1>6, <2>6
  <2>8. PageInv(q, before, new, C, K)
    BY <1>3, <2>2, <2>3, <2>5, <2>6, <2>7 DEF PageInv
  <2>9. Past(new, key)
    BY <2>2, <2>4 DEF Past
  <2> QED
    BY <2>2, <2>8, <2>9 DEF new
<1>7. CASE Len(st.page) # q.max /\ g # NoKey
  <2> DEFINE next == Successor(g)
  <2>1. new = AbsorbGroup(st, g)
    BY <1>7 DEF Absorb, Group
  <2> HIDE DEF new, g, shown
  <2>2. Item(q, key) = g /\ g \in Strings /\ Groups(q, key) # {}
    BY <1>1, <1>7, ItemOfKey DEF g
  <2>3. /\ next # NoKey => next \in Strings /\ Less(key, next)
        /\ next # NoKey => \A k \in Strings : Ahead(q, next, st.marker, k) =>
             Ahead(q, st.cursor, st.marker, k) /\ Less(Item(q, key), Item(q, k))
        /\ \A k \in K : /\ Ahead(q, st.cursor, st.marker, k)
                        /\ next # NoKey => ~Ahead(q, next, st.marker, k)
                        => Group(q, k) = g
    BY <1>1, <1>2, <1>7, GroupPassed DEF g
  <2>4. CASE next = NoKey
    <3>1. /\ new.way = "stop" /\ new.page = st.page /\ new.marker = st.marker
          /\ new.from = st.from
      BY <1>1, <2>1, <2>4 DEF States, AbsorbGroup
    <3>2. ASSUME NEW k \in K, Asked(q, k), ~LeftOut(q, k)
          PROVE  \E i \in DOMAIN shown : shown[i] = Item(q, k)
      <4>1. CASE ~Ahead(q, st.cursor, st.marker, k)
        BY <1>4, <3>2, <4>1 DEF Resumable, Complete
      <4>2. CASE Ahead(q, st.cursor, st.marker, k)
        <5>1. Group(q, k) = g /\ k \in Strings /\ IsPrefix(q.prefix, k)
          BY <2>3, <2>4, <4>2 DEF Ahead
        <5>2. Item(q, k) = g /\ Groups(q, k) # {}
          BY <1>7, <5>1, ItemOfKey
        <5>3. \A i \in 1..Len(g) : \A d \in Scalars : d <= g[i]
          BY <2>2, <2>4, SuccessorIs
        <5>4. DOMAIN g = 1..Len(g)
          BY <2>2, StringIs
        <5>5. LeftOut(q, k)
          BY <5>2, <5>3, <5>4 DEF LeftOut
        <5> QED
          BY <3>2, <5>5
      <4> QED
        BY <4>1, <4>2
    <3>3. Complete(q, shown, K)
      BY <3>2 DEF Complete
    <3>4. PageInv(q, before, new, C, K)
      BY <1>1, <1>3, <1>4, <3>1, <3>3 DEF PageInv, shown
    <3> QED
      BY <3>1, <3>4 DEF new
  <2>5. CASE next # NoKey /\ Covered(st, g)
    <3>1. /\ new.way = "go" /\ new.page = st.page /\ new.marker = st.marker
          /\ new.from = st.from /\ new.cursor = next /\ new.skip = next
      BY <1>1, <2>1, <2>5 DEF States, AbsorbGroup
    <3>2. st.marker # NoKey /\ AtMost(g, st.marker)
      BY <2>5 DEF Covered
    <3> HIDE DEF next
    <3>3. Resumable(q, shown, next, st.marker, K)
      <4>1. \A k \in Strings : Ahead(q, next, st.marker, k) => Ahead(q, st.cursor, st.marker, k)
        BY <2>3, <2>5
      <4>2. ASSUME NEW k \in K, Ahead(q, st.cursor, st.marker, k), ~Ahead(q, next, st.marker, k)
            PROVE  FALSE
        <5>1. Group(q, k) = g
          BY <2>3, <4>2
        <5> QED
          BY <1>7, <3>2, <4>2, <5>1 DEF Ahead
      <4> QED
        BY <1>4, <4>1, <4>2 DEF Resumable, Complete
    <3>4. PageInv(q, before, new, C, K)
      BY <1>1, <1>3, <1>4, <3>1, <3>3 DEF PageInv, shown
    <3>5. Past(new, key)
      BY <2>3, <2>5, <3>1 DEF Past
    <3> QED
      BY <3>1, <3>4, <3>5 DEF new
  <2>6. CASE next # NoKey /\ ~Covered(st, g)
    <3>1. /\ new.way = "go" /\ new.page = Append(st.page, g) /\ new.marker = st.marker
          /\ new.from = st.from /\ new.cursor = next /\ new.skip = next
      BY <1>1, <2>1, <2>6 DEF States, AbsorbGroup
    <3>2. Ahead(q, st.cursor, st.marker, key)
      BY <1>1, <2>6 DEF Ahead, Covered, g
    <3> HIDE DEF next
    <3>3. ASSUME NEW k \in K, Ahead(q, st.cursor, st.marker, k), ~Ahead(q, next, st.marker, k)
          PROVE  Item(q, k) = Item(q, key)
      <4>1. Group(q, k) = g /\ k \in Strings /\ IsPrefix(q.prefix, k)
        BY <2>3, <3>3 DEF Ahead
      <4> QED
        BY <1>7, <2>2, <4>1, ItemOfKey
    <3>4. GoesOn(q, K, st.cursor, st.marker, key, next)
      BY <2>3, <2>6, <3>3 DEF GoesOn
    <3>5. /\ Ordered(Append(shown, Item(q, key))) /\ Sourced(q, Append(shown, Item(q, key)), C)
          /\ Resumable(q, Append(shown, Item(q, key)), next, st.marker, K)
      BY <1>2, <1>4, <3>2, <3>4, OneListed
    <3>6. before \o new.page = Append(shown, g) /\ Len(new.page) = Len(st.page) + 1
      BY <1>2, <2>2, <3>1, PageLonger, SMTT(30) DEF shown
    <3>7. Len(new.page) <= q.max
      BY <1>1, <1>2, <1>7, <3>6
    <3>8. PageInv(q, before, new, C, K)
      BY <1>3, <2>2, <3>1, <3>5, <3>6, <3>7 DEF PageInv
    <3>9. Past(new, key)
      BY <2>3, <2>6, <3>1 DEF Past
    <3> QED
      BY <3>1, <3>8, <3>9 DEF new
  <2> QED
    BY <2>4, <2>5, <2>6
<1> QED
  BY <1>5, <1>6, <1>7


\* A batch fetched from a cursor on: keys of C in order, with all of K that are not
\* above it.
IsBatch(q, C, K, cursor, batch) ==
    /\ batch \in Seq(C)
    /\ \A m \in 1..Len(batch) : Reached(q, cursor, batch[m])
    /\ \A m, n \in 1..Len(batch) : m < n => Less(batch[m], batch[n])
    /\ \A k \in K : Reached(q, cursor, k) =>
          (\E m \in 1..Len(batch) : batch[m] = k) \/ \A m \in 1..Len(batch) : Less(batch[m], k)

\* The state s after n keys of the batch that was fetched in state st: while it
\* goes on, the n keys are behind its cursor, and those that it will not skip are
\* not.
InBatch(q, before, C, K, st, batch, s, n) ==
    /\ PageInv(q, before, s, C, K) /\ s.from = st.from /\ s.marker = st.marker
    /\ s.way = "go" =>
          /\ \A m \in 1..n : s.cursor # NoKey /\ Less(batch[m], s.cursor)
          /\ st.cursor = NoKey \/ (s.cursor # NoKey /\ AtMost(st.cursor, s.cursor))
          /\ s.skip = NoKey =>
                \A m \in (n + 1)..Len(batch) : s.cursor = NoKey \/ AtMost(s.cursor, batch[m])
          /\ s.skip # NoKey => s.skip = s.cursor

LEMMA BatchStep ==
    ASSUME NEW q, IsQuery(q), NEW before \in Seq(Strings), NEW C \in SUBSET Strings,
           NEW K \in SUBSET Strings, NEW st \in States, NEW batch,
           IsBatch(q, C, K, st.cursor, batch), NEW n \in 1..Len(batch), NEW s,
           InBatch(q, before, C, K, st, batch, s, n - 1)
    PROVE  InBatch(q, before, C, K, st, batch, Absorb(q, s, batch[n]), n)
<1> DEFINE key == batch[n]
           new == Absorb(q, s, key)
           size == Len(batch)
<1>1. /\ size \in Nat /\ n \in Nat /\ n >= 1 /\ n <= size
      /\ \A m \in 1..size : batch[m] \in C /\ batch[m] \in Strings
  BY DEF IsBatch
<1>2. /\ PageInv(q, before, s, C, K) /\ s.from = st.from /\ s.marker = st.marker
      /\ s \in States
  BY DEF InBatch, PageInv
<1>3. /\ s.cursor \in Strings \union {NoKey} /\ s.skip \in Strings \union {NoKey}
      /\ st.cursor \in Strings \union {NoKey}
  BY <1>2 DEF States
<1>4. key \in C /\ key \in Strings
  BY <1>1
<1>5. \A m \in 1..n : m \in 1..(n - 1) \/ m = n
  BY <1>1
<1>6. \A m \in (n + 1)..size : m \in 1..size /\ n < m
  BY <1>1
<1>7. CASE s.way # "go"
  <2>1. new = s
    BY <1>7 DEF Absorb
  <2> QED
    BY <1>2, <1>7, <2>1 DEF InBatch
<1>8. CASE s.way = "go" /\ s.skip # NoKey /\ Less(key, s.skip)
  <2>1. new = s
    BY <1>8 DEF Absorb
  <2>2. s.skip = s.cursor
    BY <1>8 DEF InBatch
  <2>3. \A m \in 1..n : s.cursor # NoKey /\ Less(batch[m], s.cursor)
    BY <1>5, <1>8, <2>2 DEF InBatch
  <2> QED
    BY <1>2, <1>8, <2>1, <2>3 DEF InBatch
<1>9. CASE s.way = "go" /\ ~(s.skip # NoKey /\ Less(key, s.skip))
  <2>1. s.cursor = NoKey \/ AtMost(s.cursor, key)
    <3>1. CASE s.skip = NoKey
      <4>1. \A m \in (n - 1 + 1)..size : s.cursor = NoKey \/ AtMost(s.cursor, batch[m])
        BY <1>9, <3>1 DEF InBatch
      <4>2. n \in (n - 1 + 1)..size
        BY <1>1
      <4> QED
        BY <4>1, <4>2
    <3>2. CASE s.skip # NoKey
      <4>1. s.skip = s.cursor /\ ~Less(key, s.skip)
        BY <1>9, <3>2 DEF InBatch
      <4> QED
        BY <1>3, <1>4, <3>2, <4>1, StringOrder
    <3> QED
      BY <3>1, <3>2
  <2>2. Reached(q, s.cursor, key)
    BY <2>1 DEF Reached, IsBatch
  <2>3. ASSUME NEW k \in K, Reached(q, s.cursor, k) PROVE AtMost(key, k)
    <3>1. Reached(q, st.cursor, k)
      <4>1. st.cursor = NoKey \/ (s.cursor # NoKey /\ AtMost(st.cursor, s.cursor))
        BY <1>9 DEF InBatch
      <4> QED
        BY <1>3, <2>3, <4>1, StringOrder DEF Reached
    <3>2. (\E m \in 1..size : batch[m] = k) \/ \A m \in 1..size : Less(batch[m], k)
      BY <3>1 DEF IsBatch
    <3>3. CASE \A m \in 1..size : Less(batch[m], k)
      BY <3>3 DEF AtMost
    <3>4. CASE \E m \in 1..size : batch[m] = k
      <4>1. PICK m \in 1..size : batch[m] = k
        BY <3>4
      <4>2. CASE m \in 1..(n - 1)
        <5>1. s.cursor # NoKey /\ Less(k, s.cursor)
          BY <1>9, <4>1, <4>2 DEF InBatch
        <5> QED
          BY <1>3, <2>3, <5>1, StringOrder DEF Reached
      <4>3. CASE m = n
        BY <4>1, <4>3 DEF AtMost
      <4>4. CASE n < m
        BY <4>1, <4>4 DEF AtMost, IsBatch
      <4>5. m \in 1..(n - 1) \/ m = n \/ n < m
        BY <1>1
      <4> QED
        BY <4>2, <4>3, <4>4, <4>5
    <3> QED
      BY <3>2, <3>3, <3>4
  <2>4. FirstLeft(q, K, s.cursor, key)
    BY <2>2, <2>3 DEF FirstLeft
  <2> HIDE DEF new, key
  <2>5. /\ PageInv(q, before, new, C, K) /\ new.from = s.from /\ new.marker = s.marker
        /\ new.way = "go" => Past(new, key)
    <3>1. PageInv(q, before, s, C, K) /\ s.way = "go" /\ ~(s.skip # NoKey /\ Less(key, s.skip))
      BY <1>2, <1>9
    <3>2. key \in C
      BY <1>4
    <3>3. LET absorbed == Absorb(q, s, key) IN
          /\ PageInv(q, before, absorbed, C, K)
          /\ absorbed.from = s.from /\ absorbed.marker = s.marker
          /\ absorbed.way = "go" => Past(absorbed, key)
      BY <2>4, <3>1, <3>2, AbsorbKept
    <3> QED
      BY <3>3 DEF new
  <2>6. CASE new.way # "go"
    BY <1>2, <2>5, <2>6 DEF InBatch, new, key
  <2>7. CASE new.way = "go"
    <3>1. /\ new.cursor \in Strings /\ Less(key, new.cursor) /\ new.cursor # NoKey
          /\ new.skip = NoKey => new.cursor = After(key)
          /\ new.skip # NoKey => new.skip = new.cursor
      BY <2>5, <2>7, NoKeyAssumption DEF Past
    <3>2. ASSUME NEW m \in 1..n PROVE Less(batch[m], new.cursor)
      <4>1. CASE m = n
        BY <3>1, <4>1 DEF key
      <4>2. CASE m \in 1..(n - 1)
        <5>1. Less(batch[m], key) /\ batch[m] \in Strings
          <6>1. m \in 1..size /\ m < n
            BY <1>1, <4>2
          <6> QED
            BY <1>1, <6>1 DEF IsBatch, key
        <5> QED
          BY <1>4, <3>1, <5>1, StringOrder
      <4> QED
        BY <1>5, <4>1, <4>2
    <3>3. st.cursor = NoKey \/ AtMost(st.cursor, new.cursor)
      <4>1. Reached(q, st.cursor, key)
        BY DEF IsBatch, key
      <4> QED
        BY <1>3, <1>4, <3>1, <4>1, StringOrder DEF Reached, AtMost
    <3>4. ASSUME new.skip = NoKey, NEW m \in (n + 1)..size PROVE AtMost(new.cursor, batch[m])
      <4>1. Less(key, batch[m]) /\ batch[m] \in Strings
        BY <1>1, <1>6 DEF IsBatch, key
      <4> QED
        BY <1>4, <3>1, <3>4, <4>1, AfterIs
    <3> QED
      BY <1>2, <2>5, <2>7, <3>1, <3>2, <3>3, <3>4 DEF InBatch, new, key
  <2> QED
    BY <2>6, <2>7
<1> QED
  BY <1>7, <1>8, <1>9


\* What one turn of list_page makes of a page, from the keys R that are there.
LEMMA TurnKept ==
    ASSUME NEW q, IsQuery(q), NEW before \in Seq(Strings), NEW C \in SUBSET Strings,
           NEW R \in SUBSET C, IsFiniteSet(R), NEW K \in SUBSET R,
           NEW st, PageInv(q, before, st, C, K), st.way = "go"
    PROVE  /\ PageInv(q, before, Turn(q, st, R), C, K)
           /\ Turn(q, st, R).from = st.from /\ Turn(q, st, R).marker = st.marker
<1> DEFINE want == Want(q, st)
           batch == Fetch(R, q.prefix, st.cursor, want)
           size == Len(batch)
           t == Taken(q, st, batch)
           next == t[size]
           new == Turn(q, st, R)
<1>1. /\ st \in States /\ st.page \in Seq(Strings) /\ Len(st.page) \in Nat
      /\ st.cursor \in Strings \union {NoKey} /\ Len(st.page) <= q.max /\ q.max \in Nat
      /\ q.prefix \in Strings
  BY DEF PageInv, States, IsQuery
<1>2. want \in Nat
  BY <1>1 DEF Want
<1>3. R \in SUBSET Strings /\ K \in SUBSET Strings
  OBVIOUS
<1> HIDE DEF want
<1>4. \A k \in R : k \in Fetchable(R, q.prefix, st.cursor) <=> Reached(q, st.cursor, k)
  BY DEF Fetchable, Reached
<1>5. /\ batch \in Seq(Fetchable(R, q.prefix, st.cursor))
      /\ size <= want
      /\ \A m, n \in 1..size : m < n => Less(batch[m], batch[n])
      /\ \A k \in Fetchable(R, q.prefix, st.cursor) :
            \/ \E m \in 1..size : batch[m] = k
            \/ size = want /\ \A m \in 1..want : Less(batch[m], k)
  BY <1>1, <1>2, <1>3, FetchIs
<1>6. new = IF next.way = "go" /\ size < want THEN [next EXCEPT !.way = "stop"] ELSE next
  BY DEF Turn, want
<1> HIDE DEF batch, new
<1>7. /\ size \in Nat /\ batch \in Seq(C) /\ batch \in Seq(Strings)
      /\ \A m \in 1..size : batch[m] \in R /\ Reached(q, st.cursor, batch[m])
  <2>1. Fetchable(R, q.prefix, st.cursor) \subseteq R
    BY DEF Fetchable
  <2>2. size \in Nat /\ \A m \in 1..size : batch[m] \in Fetchable(R, q.prefix, st.cursor)
    BY <1>5
  <2>3. \A m \in 1..size : batch[m] \in R /\ Reached(q, st.cursor, batch[m])
    BY <1>4, <2>1, <2>2
  <2>4. Fetchable(R, q.prefix, st.cursor) \subseteq C /\ Fetchable(R, q.prefix, st.cursor) \subseteq Strings
    BY <1>3, <2>1
  <2> QED
    BY <1>5, <2>2, <2>3, <2>4, SeqMonotonic
<1>8. IsBatch(q, C, K, st.cursor, batch)
  BY <1>4, <1>5, <1>7 DEF IsBatch
<1>9. /\ t \in [0..size -> States] /\ t[0] = [st EXCEPT !.skip = NoKey]
      /\ \A n \in 1..size : t[n] = Absorb(q, t[n - 1], batch[n])
  <2>1. st \in States /\ batch \in Seq(Strings)
    BY <1>1, <1>7
  <2>2. TakesAll(q, st, batch, t)
    BY <2>1, TakenIs
  <2> QED
    BY <2>2 DEF TakesAll
<1> HIDE DEF t
<1>10. InBatch(q, before, C, K, st, batch, t[0], 0)
  <2>1. /\ t[0] \in States /\ t[0].from = st.from /\ t[0].page = st.page /\ t[0].cursor = st.cursor
        /\ t[0].marker = st.marker /\ t[0].skip = NoKey /\ t[0].way = st.way
    BY <1>1, <1>9 DEF States
  <2>2. PageInv(q, before, t[0], C, K)
    BY <2>1 DEF PageInv
  <2>3. \A m \in 1..0 : FALSE
    OBVIOUS
  <2>4. \A m \in (0 + 1)..size : st.cursor = NoKey \/ AtMost(st.cursor, batch[m])
    BY <1>7 DEF Reached
  <2> QED
    BY <2>1, <2>2, <2>3, <2>4 DEF InBatch, AtMost
<1> DEFINE I == {n \in 0..size : InBatch(q, before, C, K, st, batch, t[n], n)}
<1>11. 0 \in I
  BY <1>7, <1>10
<1>12. ASSUME NEW n \in 1..size, n - 1 \in I PROVE n \in I
  <2>1. InBatch(q, before, C, K, st, batch, t[n - 1], n - 1)
    BY <1>12
  <2>2. InBatch(q, before, C, K, st, batch, Absorb(q, t[n - 1], batch[n]), n)
    BY <1>1, <1>3, <1>8, <2>1, BatchStep
  <2>3. n \in 0..size /\ t[n] = Absorb(q, t[n - 1], batch[n])
    BY <1>7, <1>9
  <2> QED
    BY <2>2, <2>3
<1>13. InBatch(q, before, C, K, st, batch, next, size)
  <2> HIDE DEF I
  <2>1. \A n \in 0..size : n \in I
    BY <1>7, <1>11, <1>12, Induction
  <2>2. size \in I
    BY <1>7, <2>1
  <2> QED
    BY <2>2 DEF I
<1> HIDE DEF next
<1>14. PageInv(q, before, next, C, K) /\ next.from = st.from /\ next.marker = st.marker
  BY <1>13 DEF InBatch
<1>15. CASE ~(next.way = "go" /\ size < want)
  <2>1. new = next
    BY <1>6, <1>15
  <2> QED
    BY <1>14, <2>1 DEF new
<1>16. CASE next.way = "go" /\ size < want
  <2>1. new = [next EXCEPT !.way = "stop"]
    BY <1>6, <1>16
  <2>2. /\ new \in States /\ new.way = "stop" /\ new.page = next.page
        /\ new.from = next.from /\ new.marker = next.marker
    BY <1>14, <2>1 DEF PageInv, States
  <2>3. ASSUME NEW k \in K, Ahead(q, next.cursor, next.marker, k) PROVE FALSE
    <3>1. Reached(q, next.cursor, k) /\ k \in Strings /\ k \in R
      BY <2>3 DEF Ahead, Reached
    <3>2. st.cursor = NoKey \/ (next.cursor # NoKey /\ AtMost(st.cursor, next.cursor))
      BY <1>13, <1>16 DEF InBatch
    <3>3. next.cursor \in Strings \union {NoKey}
      BY <1>14 DEF PageInv, States
    <3>4. Reached(q, st.cursor, k)
      BY <1>1, <3>1, <3>2, <3>3, StringOrder DEF Reached
    <3>5. PICK m \in 1..size : batch[m] = k
      <4>1. k \in Fetchable(R, q.prefix, st.cursor)
        BY <1>4, <3>1, <3>4
      <4>2. size # want
        BY <1>2, <1>7, <1>16
      <4> QED
        BY <1>5, <4>1, <4>2
    <3>6. next.cursor # NoKey /\ Less(k, next.cursor)
      BY <1>13, <1>16, <3>5 DEF InBatch
    <3> QED
      BY <3>1, <3>3, <3>6, StringOrder DEF Reached
  <2>4. Complete(q, before \o next.page, K)
    <3>1. Resumable(q, before \o next.page, next.cursor, next.marker, K)
      BY <1>14, <1>16 DEF PageInv
    <3> QED
      BY <2>3, <3>1 DEF Resumable, Complete
  <2>5. PageInv(q, before, new, C, K)
    BY <1>14, <2>2, <2>4 DEF PageInv
  <2> QED
    BY <1>14, <2>2, <2>5 DEF new
<1> QED
  BY <1>15, <1>16


------------------------------------------------------------------------------
(* From page to page.                                                      *)

\* A page remains one when more keys have been there and fewer have stayed.
LEMMA PageStays ==
    ASSUME NEW q, NEW before, NEW st, NEW C, NEW K, PageInv(q, before, st, C, K),
           NEW D, C \subseteq D, NEW L \in SUBSET K
    PROVE  PageInv(q, before, st, D, L)
<1>1. Sourced(q, before \o st.page, D)
  BY DEF PageInv, Sourced
<1>2. st.way # "stop" => Resumable(q, before \o st.page, st.cursor, st.marker, L)
  BY Shorter DEF PageInv
<1>3. st.way = "stop" => Complete(q, before \o st.page, L)
  BY DEF PageInv, Complete
<1> QED
  BY <1>1, <1>2, <1>3 DEF PageInv

\* An empty page that may go on where it begins.
LEMMA PageBegins ==
    ASSUME NEW q, IsQuery(q), NEW before \in Seq(Strings), NEW C, NEW K,
           NEW from \in Strings \union {NoKey}, NEW marker \in Strings \union {NoKey},
           Ordered(before), Sourced(q, before, C), Resumable(q, before, from, marker, K)
    PROVE  PageInv(q, before, EmptyPage(from, marker), C, K)
<1> DEFINE st == EmptyPage(from, marker)
<1>1. st \in States
  <2>1. <<>> \in Seq(Strings)
    OBVIOUS
  <2> QED
    BY <2>1 DEF EmptyPage, States
<1>2. st.page = <<>> /\ st.cursor = from /\ st.marker = marker /\ st.way = "go"
  BY DEF EmptyPage
<1>3. before \o <<>> = before
  OBVIOUS
<1>4. before \o st.page = before
  BY <1>2, <1>3
<1>5. Len(st.page) <= q.max
  <2>1. Len(<<>>) = 0 /\ q.max \in Nat
    BY DEF IsQuery
  <2> QED
    BY <1>2, <2>1
<1> QED
  BY <1>1, <1>2, <1>4, <1>5 DEF PageInv

\* What was shown before a page is in order, and of the keys that were there.
LEMMA PageLeft ==
    ASSUME NEW q, NEW before \in Seq(Strings), NEW st, NEW C, NEW K, PageInv(q, before, st, C, K)
    PROVE  Ordered(before) /\ Sourced(q, before, C)
<1>1. st.page \in Seq(Strings)
  BY DEF PageInv, States
<1>2. /\ DOMAIN before \subseteq DOMAIN (before \o st.page)
      /\ \A i \in DOMAIN before : (before \o st.page)[i] = before[i]
  BY <1>1
<1>3. Ordered(before \o st.page) /\ Sourced(q, before \o st.page, C)
  BY DEF PageInv
<1>4. Ordered(before)
  BY <1>2, <1>3 DEF Ordered
<1>5. Sourced(q, before, C)
  BY <1>2, <1>3 DEF Sourced
<1> QED
  BY <1>4, <1>5

\* The first page may go on where the query says.
LEMMA QueryBegins ==
    ASSUME NEW q, IsQuery(q), NEW K \in SUBSET Strings
    PROVE  /\ EmptyPage(IF q.after = NoKey THEN NoKey ELSE After(q.after),
                        IF q.version = 1 THEN q.after ELSE NoKey).way = "go"
           /\ PageInv(q, <<>>, EmptyPage(IF q.after = NoKey THEN NoKey ELSE After(q.after),
                                         IF q.version = 1 THEN q.after ELSE NoKey), K, K)
           /\ Resumable(q, <<>>, IF q.after = NoKey THEN NoKey ELSE After(q.after),
                        IF q.version = 1 THEN q.after ELSE NoKey, K)
<1> DEFINE from == IF q.after = NoKey THEN NoKey ELSE After(q.after)
           marker == IF q.version = 1 THEN q.after ELSE NoKey
<1>1. q.after \in Strings \union {NoKey}
  BY DEF IsQuery
<1>2. from \in Strings \union {NoKey} /\ (q.after # NoKey => from # NoKey)
  BY <1>1, AfterIs, NoKeyAssumption
<1>3. marker \in Strings \union {NoKey}
  BY <1>1
<1>4. ASSUME NEW k \in Strings, IsPrefix(q.prefix, k)
      PROVE  Ahead(q, from, marker, k) <=> Asked(q, k)
  <2>1. /\ Group(q, k) = NoKey => Item(q, k) = k
        /\ Group(q, k) # NoKey => Item(q, k) = Group(q, k)
        /\ Item(q, k) \in Strings /\ AtMost(Item(q, k), k)
    BY <1>4, ItemOfKey
  <2>2. CASE q.after = NoKey
    BY <1>4, <2>2 DEF Ahead, Asked
  <2>3. CASE q.after # NoKey
    <3>1. q.after \in Strings
      BY <1>1, <2>3
    <3>2. (from = NoKey \/ AtMost(from, k)) <=> Less(q.after, k)
      BY <1>2, <2>3, <3>1, AfterIs
    <3>3. Less(q.after, Item(q, k)) => Less(q.after, k)
      BY <2>1, <3>1, StringOrder
    <3>4. Less(q.after, Item(q, k)) <=> ~AtMost(Item(q, k), q.after)
      BY <2>1, <3>1, StringOrder
    <3>5. CASE q.version = 1
      BY <1>4, <2>1, <2>3, <3>2, <3>3, <3>4, <3>5 DEF Ahead, Asked
    <3>6. CASE q.version # 1
      BY <1>4, <2>3, <3>2, <3>6 DEF Ahead, Asked
    <3> QED
      BY <3>5, <3>6
  <2> QED
    BY <2>2, <2>3
<1> HIDE DEF from, marker
<1>5. Resumable(q, <<>>, from, marker, K)
  <2>1. \A k \in Strings : Ahead(q, from, marker, k) => Asked(q, k)
    BY <1>4 DEF Ahead
  <2>2. \A k \in K : Asked(q, k) => Ahead(q, from, marker, k)
    BY <1>4 DEF Asked
  <2>3. DOMAIN <<>> = {}
    OBVIOUS
  <2> QED
    BY <2>1, <2>2, <2>3 DEF Resumable, Complete
<1>6. Ordered(<<>>) /\ Sourced(q, <<>>, K) /\ <<>> \in Seq(Strings)
  <2>1. DOMAIN <<>> = {} /\ <<>> \in Seq(Strings)
    OBVIOUS
  <2> QED
    BY <2>1 DEF Ordered, Sourced
<1>7. PageInv(q, <<>>, EmptyPage(from, marker), K, K)
  BY <1>2, <1>3, <1>5, <1>6, PageBegins
<1>8. EmptyPage(from, marker).way = "go"
  BY DEF EmptyPage
<1> QED
  BY <1>5, <1>7, <1>8 DEF from, marker

\* A listing may go on after the last of what it has shown, with that as marker.
LEMMA MarkerGoesOn ==
    ASSUME NEW q, IsQuery(q), q.version = 1, NEW before \in Seq(Strings), NEW C \in SUBSET Strings,
           NEW K \in SUBSET Strings, NEW st, PageInv(q, before, st, C, K), st.way = "full"
    PROVE  /\ Last(st.page) \in Strings
           /\ Resumable(q, before \o st.page, After(Last(st.page)), Last(st.page), K)
<1> DEFINE shown == before \o st.page
           last == Last(st.page)
<1>1. /\ st.page \in Seq(Strings) /\ Len(st.page) = q.max /\ q.max \in Nat /\ q.max # 0
      /\ Ordered(shown) /\ Sourced(q, shown, C)
      /\ Resumable(q, shown, st.cursor, st.marker, K)
  BY DEF PageInv, States, IsQuery
<1>2. /\ Len(before) \in Nat /\ shown \in Seq(Strings) /\ Len(shown) = Len(before) + Len(st.page)
      /\ Len(st.page) \in 1..Len(st.page)
  BY <1>1
<1>3. last \in Strings /\ shown[Len(shown)] = last
  BY <1>1, <1>2 DEF Last
<1>4. DOMAIN shown = 1..Len(shown) /\ Len(shown) \in Nat /\ Len(shown) \in DOMAIN shown
  BY <1>1, <1>2
<1> HIDE DEF shown, last
<1>5. ASSUME NEW i \in DOMAIN shown PROVE shown[i] \in Strings /\ AtMost(shown[i], last)
  <2>1. i \in 1..Len(shown)
    BY <1>4
  <2>2. i = Len(shown) \/ i < Len(shown)
    BY <1>4, <2>1
  <2>3. shown[i] \in Strings
    BY <1>2, <2>1
  <2> QED
    BY <1>1, <1>3, <1>4, <2>2, <2>3 DEF Ordered, AtMost
<1>6. PICK j \in C : Asked(q, j) /\ Item(q, j) = last
  BY <1>1, <1>3, <1>4 DEF Sourced
<1>7. After(last) \in Strings /\ After(last) # NoKey /\ last # NoKey
  BY <1>3, AfterIs, NoKeyAssumption
<1>8. q.after \in Strings \union {NoKey} /\ (q.after # NoKey => Less(q.after, last))
  BY <1>6 DEF Asked, IsQuery
<1>9. ASSUME NEW k \in Strings, Ahead(q, After(last), last, k)
      PROVE  Asked(q, k) /\ \A i \in DOMAIN shown : Less(shown[i], Item(q, k))
  <2>1. IsPrefix(q.prefix, k) /\ Less(last, k)
    BY <1>3, <1>7, <1>9, AfterIs DEF Ahead
  <2>2. Item(q, k) \in Strings
    BY <2>1, ItemOfKey
  <2>3. Less(last, Item(q, k))
    <3>1. IsPrefix(q.prefix, j) /\ Less(Item(q, j), k)
      BY <1>6, <2>1 DEF Asked
    <3>2. Less(Item(q, j), Item(q, k)) \/ (Group(q, k) # NoKey /\ Group(q, k) = Item(q, j))
      BY <2>1, <3>1, ItemsInOrder
    <3>3. Group(q, k) # NoKey => ~AtMost(Group(q, k), last)
      BY <1>7, <1>9 DEF Ahead
    <3> QED
      BY <1>6, <3>2, <3>3 DEF AtMost
  <2>4. Asked(q, k)
    BY <1>3, <1>8, <2>1, <2>2, <2>3, StringOrder DEF Asked
  <2>5. \A i \in DOMAIN shown : Less(shown[i], Item(q, k))
    BY <1>3, <1>5, <2>2, <2>3, StringOrder
  <2> QED
    BY <2>4, <2>5
<1>10. ASSUME NEW k \in K, ~Ahead(q, After(last), last, k), Asked(q, k), ~LeftOut(q, k)
       PROVE  \E i \in DOMAIN shown : shown[i] = Item(q, k)
  <2>1. k \in Strings /\ IsPrefix(q.prefix, k)
    BY <1>10 DEF Asked
  <2>2. CASE ~Ahead(q, st.cursor, st.marker, k)
    BY <1>1, <1>10, <2>2 DEF Resumable, Complete
  <2>3. CASE Ahead(q, st.cursor, st.marker, k)
    <3>1. Less(last, Item(q, k))
      BY <1>1, <1>3, <1>4, <2>1, <2>3 DEF Resumable
    <3>2. /\ Group(q, k) # NoKey => Item(q, k) = Group(q, k)
          /\ Item(q, k) \in Strings /\ AtMost(Item(q, k), k)
      BY <2>1, ItemOfKey
    <3>3. Less(last, k)
      BY <1>3, <2>1, <3>1, <3>2, StringOrder
    <3>4. AtMost(After(last), k)
      BY <1>3, <2>1, <3>3, AfterIs
    <3>5. ~AtMost(Item(q, k), last)
      BY <1>3, <3>1, <3>2, StringOrder
    <3> QED
      BY <1>10, <2>1, <3>2, <3>4, <3>5 DEF Ahead
  <2> QED
    BY <2>2, <2>3
<1>11. Resumable(q, shown, After(last), last, K)
  BY <1>9, <1>10 DEF Resumable, Complete
<1> QED
  BY <1>3, <1>11 DEF shown, last


------------------------------------------------------------------------------
(* The bucket and the listing of it.                                       *)

LEMMA KeysAreStrings ==
    /\ AllKeys \subseteq Strings /\ Keys \subseteq AllKeys
    /\ \A p \in AllPaths : KeyOf(p) \in AllKeys
<1>1. \A k \in Keys : PathOf(k) \in Seq(Strings)
  BY StringsAssumption, PathIs
<1>2. \A p \in AllPaths : p \in Seq(Strings)
  BY <1>1, StringsAssumption DEF AllPaths
<1>3. \A p \in AllPaths : KeyOf(p) \in AllKeys
  BY DEF AllPaths, AllKeys
<1>4. AllKeys = Keys \union {KeyOf(p) : p \in AllPaths}
  BY DEF AllPaths, AllKeys
<1>5. \A p \in AllPaths : KeyOf(p) \in Strings
  BY <1>2, KeyOfTyped
<1> QED
  BY <1>3, <1>4, <1>5, StringsAssumption

LEMMA FiniteImage ==
    ASSUME NEW P, IsFiniteSet(P)
    PROVE  IsFiniteSet({KeyOf(p) : p \in P})
<1> DEFINE f == [p \in P |-> KeyOf(p)]
           T == {KeyOf(p) : p \in P}
<1>1. f \in [P -> T] /\ \A k \in T : \E p \in P : f[p] = k
  OBVIOUS
<1>2. f \in Surjection(P, T)
  BY <1>1 DEF Surjection
<1> QED
  BY <1>2, FS_Surjection

\* There are finitely many rows and files, and they are of keys and paths that
\* there are.
BucketInv ==
    /\ TreeInv
    /\ rows \subseteq AllKeys /\ IsFiniteSet(rows)
    /\ DOMAIN files \subseteq AllPaths /\ IsFiniteSet(DOMAIN files)
    /\ \A p \in DOMAIN files : files[p] \in Keys \union {NoKey}

\* What a listing sees of new rows.
LEMMA RowsSet ==
    ASSUME NEW new, SetRows(new)
    PROVE  /\ rows' = new
           /\ UNCHANGED watch \/ (new # rows /\ query # NoKey /\ changes < MaxChanges
                                  /\ changes' = changes + 1 /\ stayed' = stayed \intersect new
                                  /\ came' = came \union new)
BY DEF SetRows

LEMMA BucketKept ==
    ASSUME BucketInv, TreeInv', [Next]_vars
    PROVE  BucketInv'
<1>1. DOMAIN files' \subseteq AllPaths
  BY DEF TreeInv, PastTyped, IsNamed, PathsNamed, AllPaths
<1>2. CASE UNCHANGED <<rows, files>>
  BY <1>1, <1>2 DEF BucketInv
<1>3. ASSUME NEW k \in Keys, PutObject(k) PROVE BucketInv'
  <2>1. CASE UNCHANGED <<rows, files>>
    BY <1>2, <2>1
  <2>2. CASE Store(PathOf(k), k) /\ SetRows(rows \union {k})
    <3>1. rows' = rows \union {k} /\ DOMAIN files' = DOMAIN files \union {PathOf(k)}
      BY <2>2, RowsSet DEF Store
    <3>2. \A p \in DOMAIN files' : files'[p] \in Keys \union {NoKey}
      BY <2>2 DEF Store, BucketInv
    <3>3. rows' \subseteq AllKeys
      BY <3>1, KeysAreStrings DEF BucketInv
    <3>4. IsFiniteSet(rows') /\ IsFiniteSet(DOMAIN files')
      BY <3>1, FS_AddElement DEF BucketInv
    <3> QED
      BY <1>1, <3>2, <3>3, <3>4 DEF BucketInv
  <2> QED
    BY <1>3, <2>1, <2>2 DEF PutObject
<1>4. ASSUME NEW k \in Keys, DeleteObject(k) PROVE BucketInv'
  <2>1. rows' = rows \ {k}
    BY <1>4, RowsSet DEF DeleteObject
  <2>2. /\ DOMAIN files' \subseteq DOMAIN files
        /\ \A p \in DOMAIN files' : files'[p] = files[p]
    BY <1>4 DEF DeleteObject
  <2>3. IsFiniteSet(rows') /\ IsFiniteSet(DOMAIN files')
    BY <2>1, <2>2, FS_Subset DEF BucketInv
  <2> QED
    BY <1>1, <2>1, <2>2, <2>3 DEF BucketInv
<1>5. ASSUME NEW path \in Strays, Drop(path) PROVE BucketInv'
  <2>1. rows' = rows /\ DOMAIN files' = DOMAIN files \union {path}
    BY <1>5 DEF Drop, Store
  <2>2. \A p \in DOMAIN files' : files'[p] \in Keys \union {NoKey}
    BY <1>5 DEF Drop, Store, BucketInv
  <2>3. IsFiniteSet(DOMAIN files')
    BY <2>1, FS_AddElement DEF BucketInv
  <2> QED
    BY <1>1, <2>1, <2>2, <2>3 DEF BucketInv
<1>6. CASE Reindex
  <2>1. rows' = rows \union {KeyOf(p) : p \in DOMAIN files} /\ files' = files
    BY <1>6, RowsSet DEF Reindex
  <2>2. IsFiniteSet({KeyOf(p) : p \in DOMAIN files})
    BY FiniteImage DEF BucketInv
  <2>3. IsFiniteSet(rows')
    BY <2>1, <2>2, FS_Union DEF BucketInv
  <2>4. rows' \subseteq AllKeys
    BY <2>1, KeysAreStrings DEF BucketInv
  <2> QED
    BY <1>1, <2>1, <2>3, <2>4 DEF BucketInv
<1>7. CASE (\E q \in Queries : BeginListing(q)) \/ FetchBatch \/ FetchFails \/ NextPage
  BY <1>2, <1>7 DEF BeginListing, FetchBatch, FetchFails, NextPage, tree
<1>8. CASE UNCHANGED vars
  BY <1>2, <1>8 DEF vars, tree
<1> QED
  BY <1>3, <1>4, <1>5, <1>6, <1>7, <1>8 DEF Next

\* The inductive invariant of the listing: the page is one that has shown what it
\* should, and a page that is asked for again may go on where it began.
ListingInv ==
    /\ query \in Queries \union {NoKey} /\ changes \in 0..MaxChanges
    /\ query = NoKey => at = "end" /\ stayed = {} /\ came = {}
    /\ query # NoKey =>
          /\ stayed \subseteq rows /\ rows \subseteq came /\ came \subseteq AllKeys
          /\ listed \in Seq(Strings)
          /\ PageInv(query, listed, state, came, stayed)
          /\ at = [go |-> "fetch", full |-> "page", stop |-> "end"][state.way]
          /\ query.version = 2 => state.marker = NoKey
          /\ at = "fetch" => Resumable(query, listed, state.from, state.marker, stayed)

LEMMA QueryIs ==
    ASSUME ListingInv, query # NoKey
    PROVE  IsQuery(query) /\ query \in Queries
BY QueriesAssumption DEF ListingInv

\* A listing is as good when rows come and go.
LEMMA ListingSees ==
    ASSUME ListingInv, NEW new \in SUBSET AllKeys, SetRows(new), UNCHANGED listing
    PROVE  ListingInv'
<1>1. UNCHANGED <<query, at, state, listed>>
  BY DEF listing
<1>2. CASE UNCHANGED watch
  <2>1. rows' = rows \/ query = NoKey
    BY <1>2, BoundsAssumption DEF SetRows, watch, ListingInv
  <2> QED
    BY <1>1, <1>2, <2>1 DEF ListingInv, watch
<1>3. CASE ~UNCHANGED watch
  <2>1. /\ rows' = new /\ query # NoKey /\ changes < MaxChanges
        /\ changes' = changes + 1 /\ stayed' = stayed \intersect new
        /\ came' = came \union new
    BY <1>3, RowsSet
  <2>2. changes' \in 0..MaxChanges
    BY <2>1, BoundsAssumption DEF ListingInv
  <2>3. PageInv(query, listed, state, came', stayed')
    <3>1. PageInv(query, listed, state, came, stayed) /\ came \subseteq came' /\ stayed' \in SUBSET stayed
      BY <2>1 DEF ListingInv
    <3> QED
      BY <3>1, PageStays
  <2>4. at = "fetch" => Resumable(query, listed, state.from, state.marker, stayed')
    <3>1. stayed' \in SUBSET stayed
      BY <2>1
    <3> QED
      BY <2>1, <3>1, Shorter DEF ListingInv
  <2> QED
    BY <1>1, <2>1, <2>2, <2>3, <2>4 DEF ListingInv
<1> QED
  BY <1>2, <1>3


LEMMA BeginKept ==
    ASSUME BucketInv, ListingInv, NEW q \in Queries, BeginListing(q)
    PROVE  ListingInv'
<1> DEFINE from == IF q.after = NoKey THEN NoKey ELSE After(q.after)
           marker == IF q.version = 1 THEN q.after ELSE NoKey
<1>1. /\ query' = q /\ at' = "fetch" /\ state' = EmptyPage(from, marker) /\ listed' = <<>>
      /\ stayed' = rows /\ came' = rows /\ changes' = 0 /\ rows' = rows
  BY DEF BeginListing, tree
<1>2. IsQuery(q) /\ q # NoKey
  BY QueriesAssumption
<1>3. rows \in SUBSET Strings /\ rows \subseteq AllKeys
  BY KeysAreStrings DEF BucketInv
<1>4. /\ EmptyPage(from, marker).way = "go"
      /\ PageInv(q, <<>>, EmptyPage(from, marker), rows, rows)
      /\ Resumable(q, <<>>, from, marker, rows)
  BY <1>2, <1>3, QueryBegins
<1>5. /\ EmptyPage(from, marker).from = from /\ EmptyPage(from, marker).marker = marker
      /\ q.version = 2 => marker = NoKey
  BY DEF EmptyPage
<1>6. <<>> \in Seq(Strings) /\ 0 \in 0..MaxChanges
  BY BoundsAssumption
<1> HIDE DEF from, marker
<1> QED
  BY <1>1, <1>2, <1>3, <1>4, <1>5, <1>6 DEF ListingInv

LEMMA FetchKept ==
    ASSUME BucketInv, ListingInv, FetchBatch
    PROVE  ListingInv'
<1> DEFINE new == Turn(query, state, rows)
<1>1. /\ at = "fetch" /\ state' = new
      /\ at' = [go |-> "fetch", full |-> "page", stop |-> "end"][new.way]
      /\ UNCHANGED <<query, listed, rows, stayed, came, changes>>
  BY DEF FetchBatch, tree, watch
<1>2. query # NoKey
  BY <1>1 DEF ListingInv
<1>3. IsQuery(query)
  BY <1>2, QueryIs
<1>4. /\ stayed \in SUBSET rows /\ rows \in SUBSET came /\ came \in SUBSET Strings
      /\ listed \in Seq(Strings) /\ PageInv(query, listed, state, came, stayed)
      /\ IsFiniteSet(rows)
  BY <1>2, KeysAreStrings DEF ListingInv, BucketInv
<1>5. state.way = "go"
  <2>1. at = [go |-> "fetch", full |-> "page", stop |-> "end"][state.way]
    BY <1>2 DEF ListingInv
  <2>2. state.way \in {"go", "full", "stop"}
    BY <1>4 DEF PageInv, States
  <2> QED
    BY <1>1, <2>1, <2>2
<1> HIDE DEF new
<1>6. /\ PageInv(query, listed, new, came, stayed)
      /\ new.from = state.from /\ new.marker = state.marker
  BY <1>3, <1>4, <1>5, TurnKept, SMTT(30) DEF new
<1>7. /\ query.version = 2 => new.marker = NoKey
      /\ Resumable(query, listed, new.from, new.marker, stayed)
  BY <1>1, <1>2, <1>6 DEF ListingInv
<1> QED
  BY <1>1, <1>2, <1>6, <1>7 DEF ListingInv

LEMMA FailKept ==
    ASSUME ListingInv, FetchFails
    PROVE  ListingInv'
<1> DEFINE new == EmptyPage(state.from, state.marker)
<1>1. /\ at = "fetch" /\ state' = new
      /\ UNCHANGED <<query, at, listed, rows, stayed, came, changes>>
  BY DEF FetchFails, tree, watch
<1>2. query # NoKey
  BY <1>1 DEF ListingInv
<1>3. IsQuery(query)
  BY <1>2, QueryIs
<1>4. /\ listed \in Seq(Strings) /\ PageInv(query, listed, state, came, stayed)
      /\ Resumable(query, listed, state.from, state.marker, stayed)
      /\ state.from \in Strings \union {NoKey} /\ state.marker \in Strings \union {NoKey}
  BY <1>1, <1>2 DEF ListingInv, PageInv, States
<1>5. PageInv(query, listed, new, came, stayed)
  BY <1>3, <1>4, PageLeft, PageBegins
<1>6. new.way = "go" /\ new.from = state.from /\ new.marker = state.marker
  BY DEF EmptyPage
<1> HIDE DEF new
<1> QED
  BY <1>1, <1>2, <1>4, <1>5, <1>6 DEF ListingInv

LEMMA NextKept ==
    ASSUME ListingInv, NextPage
    PROVE  ListingInv'
<1> DEFINE last == Last(state.page)
           from == IF query.version = 2 THEN state.cursor ELSE After(last)
           marker == IF query.version = 2 THEN NoKey ELSE last
           new == EmptyPage(from, marker)
           more == listed \o state.page
<1>1. /\ at = "page" /\ at' = "fetch" /\ listed' = more /\ state' = new
      /\ UNCHANGED <<query, rows, stayed, came, changes>>
  BY DEF NextPage, tree, watch
<1>2. query # NoKey
  BY <1>1 DEF ListingInv
<1>3. IsQuery(query)
  BY <1>2, QueryIs
<1>4. /\ listed \in Seq(Strings) /\ PageInv(query, listed, state, came, stayed)
      /\ stayed \in SUBSET Strings /\ came \in SUBSET Strings
      /\ state.page \in Seq(Strings) /\ state.cursor \in Strings \union {NoKey}
  BY <1>2, KeysAreStrings DEF ListingInv, PageInv, States
<1>5. state.way = "full"
  <2>1. at = [go |-> "fetch", full |-> "page", stop |-> "end"][state.way]
    BY <1>2 DEF ListingInv
  <2>2. state.way \in {"go", "full", "stop"}
    BY <1>4 DEF PageInv, States
  <2> QED
    BY <1>1, <2>1, <2>2
<1>6. more \in Seq(Strings) /\ Ordered(more) /\ Sourced(query, more, came)
  BY <1>4 DEF PageInv
<1>7. /\ Resumable(query, more, from, marker, stayed)
      /\ from \in Strings \union {NoKey} /\ marker \in Strings \union {NoKey}
  <2>1. CASE query.version = 2
    <3>1. state.marker = NoKey
      BY <1>2, <2>1 DEF ListingInv
    <3>2. Resumable(query, more, state.cursor, state.marker, stayed)
      BY <1>4, <1>5 DEF PageInv
    <3> QED
      BY <1>4, <2>1, <3>1, <3>2
  <2>2. CASE query.version # 2
    <3>1. query.version = 1
      BY <1>3, <2>2 DEF IsQuery
    <3>2. last \in Strings /\ Resumable(query, more, After(last), last, stayed)
      BY <1>3, <1>4, <1>5, <3>1, MarkerGoesOn
    <3>3. After(last) \in Strings
      BY <3>2, AfterIs
    <3> QED
      BY <2>2, <3>2, <3>3
  <2> QED
    BY <2>1, <2>2
<1>8. query.version = 2 => marker = NoKey
  OBVIOUS
<1> HIDE DEF last, from, marker, more
<1>9. PageInv(query, more, new, came, stayed)
  BY <1>3, <1>6, <1>7, PageBegins
<1>10. new.way = "go" /\ new.from = from /\ new.marker = marker
  BY DEF EmptyPage
<1> HIDE DEF new
<1> QED
  BY <1>1, <1>2, <1>6, <1>7, <1>8, <1>9, <1>10 DEF ListingInv

LEMMA ListingKept ==
    ASSUME BucketInv, BucketInv', ListingInv, [Next]_vars
    PROVE  ListingInv'
<1>1. ASSUME UNCHANGED <<rows, listing, watch>> PROVE ListingInv'
  BY <1>1 DEF listing, watch, ListingInv
<1>2. ASSUME NEW new, SetRows(new), UNCHANGED listing PROVE ListingInv'
  <2>1. new \in SUBSET AllKeys
    BY <1>2, RowsSet DEF BucketInv
  <2> QED
    BY <1>2, <2>1, ListingSees
<1>3. ASSUME NEW k \in Keys, PutObject(k) PROVE ListingInv'
  BY <1>1, <1>2, <1>3 DEF PutObject
<1>4. ASSUME NEW k \in Keys, DeleteObject(k) PROVE ListingInv'
  BY <1>2, <1>4 DEF DeleteObject
<1>5. ASSUME NEW path \in Strays, Drop(path) PROVE ListingInv'
  BY <1>1, <1>5 DEF Drop
<1>6. CASE Reindex
  BY <1>2, <1>6 DEF Reindex
<1>7. CASE UNCHANGED vars
  BY <1>1, <1>7 DEF vars, tree
<1> QED
  BY <1>3, <1>4, <1>5, <1>6, <1>7, BeginKept, FetchKept, FailKept, NextKept DEF Next

\* The inductive invariant of the bucket and of a listing of it: whatever is put,
\* deleted, dropped or indexed meanwhile, what has been shown is what should be.
THEOREM ListingInductive == Spec => [](BucketInv /\ ListingInv)
<1>1. Init => BucketInv /\ ListingInv
  <2> SUFFICES ASSUME Init, TreeInv PROVE BucketInv /\ ListingInv
    BY TreeBegins
  <2>1. DOMAIN files = {} /\ rows = {} /\ query = NoKey /\ at = "end" /\ stayed = {}
        /\ came = {} /\ changes = 0
    BY DEF Init
  <2>2. BucketInv
    BY <2>1, FS_EmptySet DEF BucketInv
  <2>3. ListingInv
    BY <2>1, BoundsAssumption DEF ListingInv
  <2> QED
    BY <2>2, <2>3
<1>2. BucketInv /\ ListingInv /\ TreeInv' /\ [Next]_vars => (BucketInv /\ ListingInv)'
  BY BucketKept, ListingKept
<1> QED
  BY <1>1, <1>2, TreeInductive, PTL DEF Spec

\* A listing of any number of pages shows each key that was there throughout, or
\* its group, exactly once, nothing that was never there, and all of it in order,
\* although keys come and go between its fetches and its pages, fetches fail, and
\* v1 goes on from the last key that the client has seen.
THEOREM ListedOnceAlways == Spec => []ListedOnce
<1>1. ListingInv => ListedOnce
  <2> SUFFICES ASSUME ListingInv, query # NoKey
               PROVE  /\ Ordered(Shown) /\ Sourced(query, Shown, came)
                      /\ at = "end" => Complete(query, Shown, stayed)
    BY DEF ListedOnce, Ordered, Sourced, Complete
  <2>1. /\ PageInv(query, listed, state, came, stayed)
        /\ at = [go |-> "fetch", full |-> "page", stop |-> "end"][state.way]
    BY DEF ListingInv
  <2>2. at = "end" => state.way = "stop"
    BY <2>1 DEF PageInv, States
  <2> QED
    BY <2>1, <2>2 DEF PageInv, Shown
<1> QED
  BY <1>1, ListingInductive, PTL

\* The variables keep their types: no page has more than the client asked for, files
\* and directories are a tree, and no row or file is of a key that nobody has.
THEOREM KeyspaceTyped == Spec => []TypeOK
<1>1. BucketInv /\ ListingInv => TypeOK
  <2> SUFFICES ASSUME BucketInv, ListingInv PROVE TypeOK
    OBVIOUS
  <2>1. /\ rows \subseteq AllKeys /\ DOMAIN files \subseteq AllPaths
        /\ \A p \in DOMAIN files : files[p] \in Keys \union {NoKey}
    BY DEF BucketInv
  <2>2. PastTyped /\ IsTree
    BY DEF BucketInv, TreeInv
  <2>3. at \in {"fetch", "page", "end"}
    <3>1. query # NoKey => state.way \in {"go", "full", "stop"}
      BY DEF ListingInv, PageInv, States
    <3> QED
      BY <3>1 DEF ListingInv
  <2>4. query # NoKey => Len(state.page) <= query.max
    BY DEF ListingInv, PageInv
  <2>5. stayed \subseteq came /\ came \subseteq AllKeys
    BY DEF ListingInv
  <2>6. query \in Queries \union {NoKey} /\ changes \in 0..MaxChanges
    BY DEF ListingInv
  <2> QED
    BY <2>1, <2>2, <2>3, <2>4, <2>5, <2>6 DEF TypeOK, PastTyped, IsTree
<1> QED
  BY <1>1, ListingInductive, PTL


==============================================================================
