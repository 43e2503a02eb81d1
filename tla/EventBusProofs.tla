---------------------------- MODULE EventBusProofs ----------------------------
(***************************************************************************)
(* The safety properties of EventBus, for any threads, tabs, capacities    *)
(* and bounds.                                                             *)
(*                                                                         *)
(* The inductive invariant says why the live log works: an event keeps an  *)
(* id of its own from its stamp to the end of the run, so that the replay  *)
(* of a stream, a sequence of ids, stands for places in what was           *)
(* broadcast; the ring is the tail of what was broadcast; and the places a *)
(* stream was handed or has in its replay lie among those it is due.       *)
(***************************************************************************)
EXTENDS EventBus, OrdersProofs, SequenceTheorems

\* The threads that have an id for an event and have not recorded it yet.
Stamping == {t \in Emitters : stamped[t] # 0}

\* Ids are not used again: those broadcast and those stamped are below the
\* counter and differ.
IdsInv ==
    /\ Len(sent) + Cardinality(Stamping) <= MaxSignals
    /\ nextId <= Len(sent) + Cardinality(Stamping) + 1
    /\ \A i \in DOMAIN sent : sent[i] < nextId
    /\ \A i, j \in DOMAIN sent : sent[i] = sent[j] /\ sent[i] # Clear => i = j
    /\ \A t \in Stamping : stamped[t] < nextId /\ \A i \in DOMAIN sent : sent[i] # stamped[t]
    /\ \A t, u \in Stamping : stamped[t] = stamped[u] => t = u

\* The ring is the tail of what was broadcast.
RingInv == Len(ring) <= Len(sent) /\ RingIsRecent

\* A tab that is not connected has the values of NoStream.
Idle(c) ==
    /\ after[c] = 0 /\ backlog[c] = <<>> /\ feed[c] = <<>> /\ told[c] = 0
    /\ pos[c] = 1 /\ start[c] = 1 /\ joined[c] = 1

\* The places of a stream: where its ring began, where it joined and where its
\* receiver is are in order; the ring it found has no Clear; what it has yet to
\* replay was broadcast; and what it was handed is in order, is due to it, and
\* is all that is due but for what it was told.
Going(c) ==
    /\ 1 <= start[c] /\ start[c] <= joined[c] /\ joined[c] <= pos[c]
    /\ pos[c] <= Len(sent) + 1
    /\ \A i \in start[c]..(joined[c] - 1) : sent[i] # Clear
    /\ \A k \in DOMAIN backlog[c] : \E i \in DOMAIN sent : sent[i] = backlog[c][k]
    /\ \A i, j \in DOMAIN Handed(c) : i < j => Handed(c)[i] < Handed(c)[j]
    /\ Items(Handed(c)) \subseteq Due(c)
    /\ Cardinality(Due(c) \ Items(Handed(c))) = told[c]

Stream(c) == IF conn[c] THEN Going(c) ELSE Idle(c)

StreamsInv == \A c \in Clients : Stream(c)

\* The types, without the bounds that follow from the rest.
TypeInv ==
    /\ boot \in 1..MaxBoots
    /\ nextId \in Nat \ {0}
    /\ stamped \in [Emitters -> Nat]
    /\ ring \in Seq(Nat) /\ Len(ring) <= RingCapacity
    /\ sent \in Seq(Nat)
    /\ conn \in [Clients -> BOOLEAN]
    /\ lastId \in [Clients -> Ids \union {0}]
    /\ after \in [Clients -> Ids \union {0}]
    /\ backlog \in [Clients -> Seq(Ids)]
    /\ pos \in [Clients -> Nat]
    /\ start \in [Clients -> Nat]
    /\ joined \in [Clients -> Nat]
    /\ feed \in [Clients -> Seq(Nat)]
    /\ told \in [Clients -> Nat]
    /\ got \in [Clients -> SUBSET ((1..MaxBoots) \X Ids)]

\* The invariant.
BusInv == TypeInv /\ IdsInv /\ RingInv /\ StreamsInv

------------------------------------------------------------------------------
(* Sequences of places.                                                    *)

\* Where id is in s.
PlaceIn(s, id) == CHOOSE i \in DOMAIN s : s[i] = id

\* The places handed over, followed by those of what is to be replayed.
Shown(f, s, b) == f \o [k \in DOMAIN b |-> PlaceIn(s, b[k])]

Distinct(s) == \A i, j \in DOMAIN s : s[i] = s[j] /\ s[i] # Clear => i = j

Contains(s, b) == \A k \in DOMAIN b : \E i \in DOMAIN s : s[i] = b[k]

\* An event has one place.
LEMMA PlaceIs ==
    ASSUME NEW s, Distinct(s), NEW i \in DOMAIN s, s[i] # Clear
    PROVE  PlaceIn(s, s[i]) = i
<1>1. \A j \in DOMAIN s : s[j] = s[i] => j = i  BY DEF Distinct
<1> QED BY <1>1 DEF PlaceIn

\* What has a place is there.
LEMMA PlaceThere ==
    ASSUME NEW s, NEW id, \E i \in DOMAIN s : s[i] = id
    PROVE  PlaceIn(s, id) \in DOMAIN s /\ s[PlaceIn(s, id)] = id
BY DEF PlaceIn

\* Shown, one by one.
LEMMA ShownIs ==
    ASSUME NEW f \in Seq(Nat), NEW s \in Seq(Nat), NEW b \in Seq(Nat), Contains(s, b)
    PROVE  /\ Shown(f, s, b) \in Seq(Nat)
           /\ Len(Shown(f, s, b)) = Len(f) + Len(b)
           /\ \A i \in 1..Len(f) : Shown(f, s, b)[i] = f[i]
           /\ \A k \in 1..Len(b) : Shown(f, s, b)[Len(f) + k] = PlaceIn(s, b[k])
<1> DEFINE r == [k \in DOMAIN b |-> PlaceIn(s, b[k])]
<1>1. Len(f) \in Nat /\ Len(b) \in Nat /\ DOMAIN b = 1..Len(b) /\ DOMAIN s = 1..Len(s) /\ Len(s) \in Nat
  OBVIOUS
<1>2. \A k \in DOMAIN b : PlaceIn(s, b[k]) \in Nat
  <2> TAKE k \in DOMAIN b
  <2>1. \E i \in DOMAIN s : s[i] = b[k]  BY DEF Contains
  <2>2. PlaceIn(s, b[k]) \in DOMAIN s  BY <2>1, PlaceThere
  <2> QED BY <1>1, <2>2
<1>3. r \in [1..Len(b) -> Nat]  BY <1>1, <1>2
<1>4. r \in Seq(Nat) /\ Len(r) = Len(b)
  <2> HIDE DEF r
  <2> QED BY <1>1, <1>3, FunctionIsSeq
<1>5. \A k \in 1..Len(b) : r[k] = PlaceIn(s, b[k])  BY <1>1
<1>6. Shown(f, s, b) = f \o r  BY DEF Shown
<1> HIDE DEF r
<1>7. /\ f \o r \in Seq(Nat) /\ Len(f \o r) = Len(f) + Len(r)
      /\ \A i \in 1..(Len(f) + Len(r)) : (f \o r)[i] = IF i <= Len(f) THEN f[i] ELSE r[i - Len(f)]
  BY <1>4, ConcatProperties
<1>8. \A i \in 1..Len(f) : (f \o r)[i] = f[i]  BY <1>7, <1>4, <1>1
<1>9. \A k \in 1..Len(b) : (f \o r)[Len(f) + k] = r[k]
  <2> SUFFICES ASSUME NEW k \in 1..Len(b)  PROVE (f \o r)[Len(f) + k] = r[k]
    OBVIOUS
  <2>1. Len(f) + k \in 1..(Len(f) + Len(r)) /\ ~(Len(f) + k <= Len(f)) /\ Len(f) + k - Len(f) = k
    BY <1>1, <1>4
  <2> QED BY <2>1, <1>7
<1> QED BY <1>4, <1>5, <1>6, <1>7, <1>8, <1>9

\* What was handed over is among it.
LEMMA FeedAmong ==
    ASSUME NEW f \in Seq(Nat), NEW s \in Seq(Nat), NEW b \in Seq(Nat), Contains(s, b),
           NEW S, Items(Shown(f, s, b)) \subseteq S
    PROVE  f \in Seq(S)
<1> DEFINE h == Shown(f, s, b)
<1>1. /\ h \in Seq(Nat) /\ Len(h) = Len(f) + Len(b) /\ \A i \in 1..Len(f) : h[i] = f[i]
      /\ Len(f) \in Nat /\ Len(b) \in Nat
  BY ShownIs, SMTT(30)
<1> HIDE DEF h
<1>2. ASSUME NEW i \in 1..Len(f)  PROVE f[i] \in S
  <2>1. i \in 1..(Len(f) + Len(b))  BY <1>1
  <2>2. i \in DOMAIN h  BY <1>1, <2>1
  <2>3. h[i] \in Items(h)  BY <2>2 DEF Items
  <2> QED BY <2>3, <1>1 DEF h
<1>3. f \in [1..Len(f) -> Nat]  OBVIOUS
<1>4. f \in [1..Len(f) -> S]  BY <1>2, <1>3
<1> QED BY <1>1, <1>4, FunctionIsSeq

\* A set of the first n places has no more than n.
LEMMA AtMost ==
    ASSUME NEW n \in Nat, NEW D \in SUBSET (1..n)
    PROVE  Cardinality(D) <= n
<1>1. IsFiniteSet(1..n) /\ Cardinality(1..n) = n  BY FS_Interval
<1>2. Cardinality(D) <= Cardinality(1..n)  BY <1>1, FS_Subset
<1> QED BY <1>1, <1>2

\* With nothing to replay it is what was handed over.
LEMMA ShownAlone ==
    ASSUME NEW f \in Seq(Nat), NEW s \in Seq(Nat)
    PROVE  Shown(f, s, <<>>) = f
<1>1. Contains(s, <<>>)  BY DEF Contains
<1>2. <<>> \in Seq(Nat) /\ Len(<<>>) = 0  OBVIOUS
<1>3. /\ Shown(f, s, <<>>) \in Seq(Nat) /\ Len(Shown(f, s, <<>>)) = Len(f)
      /\ \A i \in 1..Len(f) : Shown(f, s, <<>>)[i] = f[i]
  <2>1. /\ Shown(f, s, <<>>) \in Seq(Nat) /\ Len(Shown(f, s, <<>>)) = Len(f) + Len(<<>>)
        /\ \A i \in 1..Len(f) : Shown(f, s, <<>>)[i] = f[i]
    <3> DEFINE e == <<>>
    <3>1. e \in Seq(Nat) /\ Contains(s, e)  BY <1>1, <1>2
    <3> HIDE DEF e
    <3>2. /\ Shown(f, s, e) \in Seq(Nat) /\ Len(Shown(f, s, e)) = Len(f) + Len(e)
          /\ \A i \in 1..Len(f) : Shown(f, s, e)[i] = f[i]
      BY <3>1, ShownIs
    <3> QED BY <3>2 DEF e
  <2> QED BY <2>1, <1>2
<1> QED BY <1>3, SeqEqual

\* It does not change as more is broadcast.
LEMMA ShownGrows ==
    ASSUME NEW f \in Seq(Nat), NEW s \in Seq(Nat), NEW b \in Seq(Nat \ {0}), NEW x \in Nat,
           Contains(s, b), Distinct(Append(s, x))
    PROVE  Contains(Append(s, x), b) /\ Shown(f, Append(s, x), b) = Shown(f, s, b)
<1> DEFINE t == Append(s, x)
<1>1. /\ DOMAIN s = 1..Len(s) /\ Len(s) \in Nat /\ t \in Seq(Nat) /\ DOMAIN t = 1..(Len(s) + 1)
      /\ \A i \in DOMAIN s : t[i] = s[i]
  OBVIOUS
<1> HIDE DEF t
<1>2. \A i \in DOMAIN s : i \in DOMAIN t  BY <1>1
<1>3. ASSUME NEW k \in DOMAIN b
      PROVE  (\E i \in DOMAIN t : t[i] = b[k]) /\ PlaceIn(t, b[k]) = PlaceIn(s, b[k])
  <2>1. PICK i \in DOMAIN s : s[i] = b[k]  BY DEF Contains
  <2>2. b[k] # Clear
    <3>1. b[k] \in Nat \ {0}  OBVIOUS
    <3> QED BY <3>1 DEF Clear
  <2>3. i \in DOMAIN t /\ t[i] = b[k]  BY <2>1, <1>1, <1>2
  <2>4. PlaceIn(t, b[k]) = i  BY <2>2, <2>3, PlaceIs DEF t
  <2>5. PlaceIn(s, b[k]) \in DOMAIN s /\ s[PlaceIn(s, b[k])] = b[k]  BY <2>1, PlaceThere
  <2>6. t[PlaceIn(s, b[k])] = b[k] /\ PlaceIn(s, b[k]) \in DOMAIN t  BY <2>5, <1>1, <1>2
  <2>7. PlaceIn(s, b[k]) = i  BY <2>2, <2>3, <2>6 DEF Distinct, t
  <2> QED BY <2>3, <2>4, <2>7
<1>4. Contains(t, b)  BY <1>3 DEF Contains
<1>5. [k \in DOMAIN b |-> PlaceIn(t, b[k])] = [k \in DOMAIN b |-> PlaceIn(s, b[k])]
  BY <1>3
<1> QED BY <1>4, <1>5 DEF t, Shown

\* It does not change as the first of the replay is handed over.
LEMMA ShownTail ==
    ASSUME NEW f \in Seq(Nat), NEW s \in Seq(Nat), NEW b \in Seq(Nat), b # <<>>, Contains(s, b)
    PROVE  /\ PlaceIn(s, Head(b)) \in DOMAIN s /\ s[PlaceIn(s, Head(b))] = Head(b)
           /\ Contains(s, Tail(b))
           /\ Shown(Append(f, PlaceIn(s, Head(b))), s, Tail(b)) = Shown(f, s, b)
<1> DEFINE p == PlaceIn(s, Head(b))
           g == Append(f, p)
           b2 == Tail(b)
<1>1. /\ Len(b) \in Nat \ {0} /\ Head(b) = b[1] /\ b2 \in Seq(Nat) /\ Len(b2) = Len(b) - 1
      /\ \A k \in 1..Len(b2) : b2[k] = b[k + 1]
      /\ Len(f) \in Nat
  OBVIOUS
<1>2. p \in DOMAIN s /\ s[p] = Head(b)
  <2>1. 1 \in DOMAIN b  BY <1>1
  <2>2. \E i \in DOMAIN s : s[i] = Head(b)  BY <1>1, <2>1 DEF Contains
  <2> QED BY <2>2, PlaceThere
<1>3. p \in Nat
  <2>1. DOMAIN s \in SUBSET Nat  OBVIOUS
  <2> QED BY <2>1, <1>2
<1>4. Contains(s, b2)
  <2>0. DOMAIN b2 = 1..Len(b2) /\ DOMAIN b = 1..Len(b)  BY <1>1
  <2> HIDE DEF b2
  <2>1. \A k \in DOMAIN b2 : k + 1 \in DOMAIN b /\ b2[k] = b[k + 1]  BY <1>1, <2>0, SMTT(30)
  <2> QED BY <2>1 DEF Contains
<1> HIDE DEF p, b2
<1>5. g \in Seq(Nat) /\ Len(g) = Len(f) + 1 /\ g[Len(f) + 1] = p /\ \A i \in 1..Len(f) : g[i] = f[i]
  BY <1>1, <1>3
<1> HIDE DEF g
<1> DEFINE u == Shown(g, s, b2)
           v == Shown(f, s, b)
<1>6. /\ u \in Seq(Nat) /\ Len(u) = Len(g) + Len(b2)
      /\ \A i \in 1..Len(g) : u[i] = g[i]
      /\ \A k \in 1..Len(b2) : u[Len(g) + k] = PlaceIn(s, b2[k])
  <2>1. g \in Seq(Nat)  BY <1>5
  <2>2. b2 \in Seq(Nat)  BY <1>1
  <2> QED BY <2>1, <2>2, <1>4, ShownIs, ZenonT(60)
<1>7. /\ v \in Seq(Nat) /\ Len(v) = Len(f) + Len(b)
      /\ \A i \in 1..Len(f) : v[i] = f[i]
      /\ \A k \in 1..Len(b) : v[Len(f) + k] = PlaceIn(s, b[k])
  BY ShownIs
<1> HIDE DEF u, v
<1>8. /\ Len(u) = Len(v) /\ Len(u) \in Nat
      /\ Len(g) = Len(f) + 1 /\ Len(b2) = Len(b) - 1 /\ Len(u) = Len(f) + Len(b)
  BY <1>1, <1>5, <1>6, <1>7
<1>9. ASSUME NEW i \in 1..Len(u)  PROVE u[i] = v[i]
  <2>1. CASE i <= Len(f)
    <3>1. i \in 1..Len(f) /\ i \in 1..Len(g)  BY <2>1, <1>1, <1>8
    <3> QED BY <3>1, <1>5, <1>6, <1>7
  <2>2. CASE i = Len(f) + 1
    <3>0. 1 \in 1..Len(b) /\ b[1] = Head(b)  BY <1>1
    <3>1. v[Len(f) + 1] = p
      <4>1. v[Len(f) + 1] = PlaceIn(s, b[1])  BY <3>0, <1>7
      <4> QED BY <3>0, <4>1 DEF p
    <3>2. u[Len(f) + 1] = p
      <4> DEFINE m == Len(f) + 1
      <4>1. m \in 1..Len(g) /\ g[m] = p  BY <1>1, <1>5
      <4>2. \A j \in 1..Len(g) : u[j] = g[j]  BY <1>6
      <4> HIDE DEF m
      <4>3. u[m] = p  BY <4>1, <4>2
      <4> QED BY <4>3 DEF m
    <3> QED BY <2>2, <3>1, <3>2
  <2>3. CASE i > Len(f) + 1
    <3> DEFINE k == i - Len(f) - 1
    <3>1. k \in 1..Len(b2) /\ i = Len(g) + k /\ k + 1 \in 1..Len(b) /\ i = Len(f) + (k + 1)
      BY <2>3, <1>1, <1>8
    <3> HIDE DEF k
    <3>2. u[i] = PlaceIn(s, b2[k])  BY <3>1, <1>6
    <3>3. v[i] = PlaceIn(s, b[k + 1])  BY <3>1, <1>7
    <3> QED BY <3>1, <3>2, <3>3, <1>1
  <2> QED BY <2>1, <2>2, <2>3, <1>1, <1>8
<1>10. u = v  BY <1>6, <1>7, <1>8, <1>9, SeqEqual
<1> QED BY <1>2, <1>4, <1>10 DEF p, g, b2, u, v

------------------------------------------------------------------------------
(* Streams that do not move.                                               *)

\* Handed, as sequences of places.
LEMMA HandedIs ==
    ASSUME NEW c
    PROVE  /\ Handed(c) = Shown(feed[c], sent, backlog[c])
           /\ Handed(c)' = Shown(feed'[c], sent', backlog'[c])
<1>1. Handed(c) = Shown(feed[c], sent, backlog[c])
  BY DEF Handed, Shown, Index, PlaceIn
<1>2. Handed(c)' = Shown(feed'[c], sent', backlog'[c])
  BY DEF Handed, Shown, Index, PlaceIn
<1> QED BY <1>1, <1>2

\* What a stream that is going was handed is a sequence of places.
LEMMA HandedTyped ==
    ASSUME TypeInv, NEW c \in Clients, Going(c)
    PROVE  /\ feed[c] \in Seq(Nat) /\ backlog[c] \in Seq(Nat) /\ sent \in Seq(Nat)
           /\ backlog[c] \in Seq(Nat \ {0})
           /\ Contains(sent, backlog[c]) /\ Handed(c) \in Seq(Nat)
<1>1. feed[c] \in Seq(Nat) /\ backlog[c] \in Seq(Ids) /\ sent \in Seq(Nat)  BY DEF TypeInv
<1>2. backlog[c] \in Seq(Nat) /\ backlog[c] \in Seq(Nat \ {0})
  <2>1. Ids \subseteq Nat \ {0}  BY DEF Ids
  <2> QED BY <1>1, <2>1
<1>3. Contains(sent, backlog[c])  BY DEF Going, Contains
<1> QED BY <1>1, <1>2, <1>3, HandedIs, ShownIs

\* A stream stays sound when a signal is broadcast.
LEMMA StreamSurvivesSignal ==
    ASSUME TypeInv, IdsInv', NEW c \in Clients, Stream(c), NEW x \in Nat,
           sent' = Append(sent, x), UNCHANGED <<conn, stream>>
    PROVE  Stream(c)'
<1>1. CASE ~conn[c]  BY <1>1 DEF Stream, Idle, stream
<1>2. CASE conn[c]
  <2>1. Going(c)  BY <1>2 DEF Stream
  <2>2. /\ DOMAIN sent = 1..Len(sent) /\ Len(sent) \in Nat /\ Len(sent') = Len(sent) + 1
        /\ DOMAIN sent' = 1..(Len(sent) + 1) /\ \A i \in DOMAIN sent : sent'[i] = sent[i]
    <3>1. sent \in Seq(Nat)  BY DEF TypeInv
    <3> QED BY <3>1
  <2>3. Distinct(Append(sent, x))  BY DEF IdsInv, Distinct
  <2>4. Contains(sent', backlog'[c]) /\ Handed(c)' = Handed(c)
    <3>1. /\ feed[c] \in Seq(Nat) /\ backlog[c] \in Seq(Nat \ {0}) /\ sent \in Seq(Nat)
          /\ Contains(sent, backlog[c])
      BY <2>1, HandedTyped
    <3>2. /\ Contains(Append(sent, x), backlog[c])
          /\ Shown(feed[c], Append(sent, x), backlog[c]) = Shown(feed[c], sent, backlog[c])
      BY <3>1, <2>3, ShownGrows
    <3>3. feed' = feed /\ backlog' = backlog  BY DEF stream
    <3>4. Handed(c) = Shown(feed[c], sent, backlog[c])  BY HandedIs
    <3>5. Handed(c)' = Shown(feed[c], sent', backlog[c])  BY <3>3, HandedIs
    <3> QED BY <3>2, <3>3, <3>4, <3>5
  <2>5. start[c] \in Nat /\ pos[c] \in Nat /\ joined[c] \in Nat  BY DEF TypeInv
  <2>6. \A i \in start[c]..(pos[c] - 1) : sent'[i] = sent[i]
    BY <2>1, <2>2, <2>5 DEF Going
  <2>7. Due(c)' = Due(c)  BY <2>6 DEF Due, stream
  <2>8. \A i \in start[c]..(joined[c] - 1) : sent'[i] # Clear
    BY <2>1, <2>5, <2>6 DEF Going
  <2>9. Going(c)'
    <3>1. /\ 1 <= start'[c] /\ start'[c] <= joined'[c] /\ joined'[c] <= pos'[c]
          /\ pos'[c] <= Len(sent') + 1
      BY <2>1, <2>2, <2>5 DEF Going, stream
    <3>2. \A i \in start'[c]..(joined'[c] - 1) : sent'[i] # Clear'
      BY <2>8 DEF stream, Clear
    <3>3. \A k \in DOMAIN backlog'[c] : \E i \in DOMAIN sent' : sent'[i] = backlog'[c][k]
      BY <2>4 DEF Contains
    <3>4. told'[c] = told[c]  BY DEF stream
    <3>5. Items(Handed(c))' = Items(Handed(c))  BY <2>4 DEF Items
    <3> QED BY <2>1, <2>4, <2>7, <3>1, <3>2, <3>3, <3>4, <3>5 DEF Going
  <2> QED BY <1>2, <2>9 DEF Stream
<1> QED BY <1>1, <1>2

\* A stream stays sound when nothing is broadcast and its own part is kept.
LEMMA StreamSurvivesOthers ==
    ASSUME NEW c \in Clients, Stream(c), sent' = sent, conn'[c] = conn[c],
           after'[c] = after[c], backlog'[c] = backlog[c], pos'[c] = pos[c],
           start'[c] = start[c], joined'[c] = joined[c], feed'[c] = feed[c], told'[c] = told[c]
    PROVE  Stream(c)'
<1>1. Handed(c)' = Handed(c)  BY HandedIs
<1>2. Items(Handed(c))' = Items(Handed(c))  BY <1>1 DEF Items
<1>3. Due(c)' = Due(c)  BY DEF Due
<1>4. Idle(c)' = Idle(c)  BY DEF Idle
<1>5. Going(c)' = Going(c)  BY <1>1, <1>2, <1>3 DEF Going, Clear
<1> QED BY <1>4, <1>5 DEF Stream

------------------------------------------------------------------------------
(* The steps of the bus.                                                   *)

\* The threads that are stamping are finitely many.
LEMMA StampingFinite ==
    IsFiniteSet(Stamping) /\ Cardinality(Stamping) \in Nat
<1>1. Stamping \subseteq Emitters  BY DEF Stamping
<1>2. IsFiniteSet(Stamping)  BY <1>1, BoundsAssumption, FS_Subset
<1> QED BY <1>2, FS_CardinalityType

\* A stamp takes a new id; nothing is broadcast.
LEMMA StampKeeps ==
    ASSUME BusInv, NEW t \in Emitters, Stamp(t)
    PROVE  BusInv'
<1> USE DEF BusInv
<1>1. Stamping' = Stamping \union {t} /\ t \notin Stamping
  BY DEF Stamp, Stamping, TypeInv
<1>2. Cardinality(Stamping') = Cardinality(Stamping) + 1
  BY <1>1, StampingFinite, FS_AddElement
<1>3. Len(sent) + Cardinality(Stamping) < MaxSignals  BY DEF Stamp, Room, Stamping
<1>4. sent' = sent /\ ring' = ring /\ nextId' = nextId + 1 /\ Len(sent) \in Nat /\ nextId \in Nat \ {0}
  BY DEF Stamp, TypeInv
<1>5. TypeInv'
  <2>1. stamped' \in [Emitters -> Nat]  BY DEF Stamp, TypeInv
  <2> QED BY <1>4, <2>1 DEF Stamp, TypeInv, page, stream, Ids
<1>6. IdsInv'
  <2>1. Len(sent') + Cardinality(Stamping') <= MaxSignals
    BY <1>2, <1>3, <1>4, StampingFinite, BoundsAssumption
  <2>2. nextId' <= Len(sent') + Cardinality(Stamping') + 1
    BY <1>2, <1>4, StampingFinite DEF IdsInv
  <2>3. \A i \in DOMAIN sent : sent[i] \in Nat  BY DEF TypeInv
  <2>4. \A i \in DOMAIN sent' : sent'[i] < nextId'  BY <1>4, <2>3 DEF IdsInv
  <2>5. \A u \in Stamping' : (u = t /\ stamped'[u] = nextId) \/ (u \in Stamping /\ u # t /\ stamped'[u] = stamped[u])
    BY <1>1 DEF Stamp, TypeInv, Stamping
  <2>6. \A u \in Stamping' : stamped'[u] < nextId' /\ \A i \in DOMAIN sent' : sent'[i] # stamped'[u]
    <3> SUFFICES ASSUME NEW u \in Stamping'
                 PROVE  stamped'[u] < nextId' /\ \A i \in DOMAIN sent : sent[i] # stamped'[u]
      BY <1>4
    <3>1. CASE stamped'[u] = nextId  BY <3>1, <1>4, <2>3 DEF IdsInv
    <3>2. CASE u \in Stamping /\ stamped'[u] = stamped[u]
      <4>1. stamped[u] \in Nat  BY <3>2 DEF Stamping, TypeInv
      <4> QED BY <3>2, <4>1, <1>4 DEF IdsInv
    <3> QED BY <3>1, <3>2, <2>5
  <2>7. \A u, v \in Stamping' : stamped'[u] = stamped'[v] => u = v
    <3>1. \A u \in Stamping : stamped[u] < nextId /\ stamped[u] \in Nat
      BY DEF IdsInv, Stamping, TypeInv
    <3>2. \A u \in Stamping : stamped[u] # nextId  BY <3>1, <1>4
    <3> QED BY <2>5, <3>2 DEF IdsInv
  <2> QED BY <1>4, <2>1, <2>2, <2>4, <2>6, <2>7 DEF IdsInv, Clear
<1>7. RingInv'  BY <1>4 DEF RingInv, RingIsRecent, Items, Clear
<1>8. StreamsInv'
  BY <1>4, StreamSurvivesOthers DEF Stamp, page, stream, StreamsInv
<1> QED BY <1>5, <1>6, <1>7, <1>8

\* An event is broadcast with its id and joins the ring.
LEMMA PushKeeps ==
    ASSUME BusInv, NEW t \in Emitters, Push(t)
    PROVE  BusInv'
<1> USE DEF BusInv
<1>1. Stamping' = Stamping \ {t} /\ t \in Stamping
  BY DEF Push, Stamping, TypeInv
<1>2. Cardinality(Stamping') = Cardinality(Stamping) - 1
  BY <1>1, StampingFinite, FS_RemoveElement
<1> DEFINE x == stamped[t]
<1>3. x \in Nat /\ x # 0 /\ x < nextId /\ \A i \in DOMAIN sent : sent[i] # x
  BY <1>1 DEF TypeInv, IdsInv, Push
<1>4. /\ sent' = Append(sent, x) /\ nextId' = nextId /\ sent \in Seq(Nat) /\ nextId \in Nat \ {0}
      /\ Len(sent) \in Nat
  BY DEF Push, TypeInv
<1> HIDE DEF x
<1>5. /\ Len(sent') = Len(sent) + 1 /\ DOMAIN sent' = 1..(Len(sent) + 1) /\ DOMAIN sent = 1..Len(sent)
      /\ sent'[Len(sent) + 1] = x /\ \A i \in DOMAIN sent : sent'[i] = sent[i]
  BY <1>3, <1>4
<1>6. \A i \in DOMAIN sent' : (i = Len(sent) + 1 /\ sent'[i] = x) \/ (i \in DOMAIN sent /\ sent'[i] = sent[i])
  BY <1>4, <1>5
<1> DEFINE kept == IF Len(ring) = RingCapacity THEN Tail(ring) ELSE ring
<1>7. /\ ring' = Append(kept, x) /\ ring \in Seq(Nat) /\ Len(ring) \in Nat
      /\ Len(ring) <= RingCapacity /\ RingCapacity \in Nat \ {0} /\ Len(ring) <= Len(sent)
  BY CapacityAssumption DEF Push, TypeInv, x, RingInv
<1>8. TypeInv'
  <2>1. stamped' \in [Emitters -> Nat]  BY DEF Push, TypeInv
  <2>2. sent' \in Seq(Nat)  BY <1>3, <1>4
  <2>3. kept \in Seq(Nat) /\ Len(kept) < RingCapacity
    <3>1. CASE Len(ring) = RingCapacity
      <4>1. ring # <<>>  BY <3>1, <1>7
      <4>2. Tail(ring) \in Seq(Nat) /\ Len(Tail(ring)) = Len(ring) - 1  BY <4>1, <1>7
      <4> QED BY <3>1, <4>2, <1>7
    <3>2. CASE Len(ring) # RingCapacity  BY <3>2, <1>7
    <3> QED BY <3>1, <3>2
  <2> HIDE DEF kept
  <2>4. ring' \in Seq(Nat) /\ Len(ring') <= RingCapacity
    <3>1. ring' \in Seq(Nat) /\ Len(ring') = Len(kept) + 1 /\ Len(kept) \in Nat
      BY <1>3, <1>7, <2>3
    <3> QED BY <3>1, <2>3, <1>7
  <2> QED BY <1>4, <2>1, <2>2, <2>4 DEF Push, TypeInv, page, stream, Ids
<1>9. IdsInv'
  <2>1. Cardinality(Stamping) \in Nat /\ Cardinality(Stamping') \in Nat
    <3>1. IsFiniteSet(Stamping')  BY <1>1, StampingFinite, FS_RemoveElement
    <3> QED BY <3>1, StampingFinite, FS_CardinalityType
  <2>2. /\ Len(sent') + Cardinality(Stamping') <= MaxSignals
        /\ nextId' <= Len(sent') + Cardinality(Stamping') + 1
    BY <1>2, <1>4, <1>5, <2>1 DEF IdsInv
  <2>3. \A i \in DOMAIN sent' : sent'[i] < nextId'  BY <1>3, <1>4, <1>6 DEF IdsInv
  <2>4. \A i, j \in DOMAIN sent' : sent'[i] = sent'[j] /\ sent'[i] # Clear => i = j
    BY <1>3, <1>6 DEF IdsInv
  <2>5. \A u \in Stamping' : u \in Stamping /\ u # t /\ stamped'[u] = stamped[u]
    BY <1>1 DEF Push, TypeInv, Stamping
  <2>6. \A u \in Stamping' : stamped'[u] < nextId' /\ \A i \in DOMAIN sent' : sent'[i] # stamped'[u]
    <3>1. \A u \in Stamping' : stamped[u] # x  BY <1>1, <2>5 DEF IdsInv, x
    <3> QED BY <1>4, <1>6, <2>5, <3>1 DEF IdsInv
  <2>7. \A u, v \in Stamping' : stamped'[u] = stamped'[v] => u = v  BY <2>5 DEF IdsInv
  <2> QED BY <2>2, <2>3, <2>4, <2>6, <2>7 DEF IdsInv, Clear
<1>10. RingInv'
  <2>0. /\ Len(sent) \in Nat /\ Len(ring) \in Nat /\ Len(ring) <= Len(sent) /\ Len(sent') = Len(sent) + 1
        /\ RingCapacity \in Nat \ {0} /\ Len(ring) <= RingCapacity
        /\ DOMAIN sent = 1..Len(sent) /\ DOMAIN ring = 1..Len(ring)
    BY <1>4, <1>5, <1>7
  <2>1. \A i \in DOMAIN ring : ring[i] = sent[Len(sent) - Len(ring) + i] /\ ring[i] # Clear
    BY DEF RingInv, RingIsRecent, Items
  <2>2. x # Clear  BY <1>3 DEF Clear
  <2>3. CASE Len(ring) = RingCapacity
    <3>1. ring # <<>>  BY <2>3, <1>7
    <3> DEFINE r == Tail(ring)
    <3>2. r \in Seq(Nat) /\ Len(r) = Len(ring) - 1 /\ \A i \in 1..Len(r) : r[i] = ring[i + 1]
      BY <3>1, <1>7
    <3>3. ring' = Append(r, x)  BY <2>3, <1>7
    <3> HIDE DEF r
    <3>4. /\ Len(ring') = Len(ring) /\ ring'[Len(ring)] = x /\ DOMAIN ring' = 1..Len(ring)
          /\ \A i \in 1..(Len(ring) - 1) : ring'[i] = ring[i + 1]
      <4>1. /\ Len(ring') = Len(r) + 1 /\ ring'[Len(r) + 1] = x /\ DOMAIN ring' = 1..(Len(r) + 1)
            /\ \A i \in 1..Len(r) : ring'[i] = r[i] /\ Len(r) \in Nat
        BY <3>2, <3>3, <1>3
      <4>2. Len(r) = Len(ring) - 1 /\ Len(r) + 1 = Len(ring)  BY <3>2, <2>0
      <4> QED BY <4>1, <4>2, <3>2
    <3>5. ASSUME NEW i \in DOMAIN ring'
          PROVE  ring'[i] = sent'[Len(sent') - Len(ring') + i] /\ ring'[i] # Clear
      <4>1. CASE i = Len(ring)
        <5>1. Len(sent') - Len(ring') + i = Len(sent) + 1  BY <4>1, <3>4, <2>0
        <5> QED BY <5>1, <4>1, <3>4, <1>5, <2>2
      <4>2. CASE i # Len(ring)
        <5> DEFINE k == Len(sent) - Len(ring) + (i + 1)
        <5>1. i \in 1..(Len(ring) - 1) /\ i + 1 \in DOMAIN ring  BY <4>2, <3>4, <1>7
        <5>2. Len(sent') - Len(ring') + i = k /\ k \in DOMAIN sent
          BY <5>1, <3>4, <2>0
        <5>3. ring'[i] = ring[i + 1] /\ ring[i + 1] = sent[k]  BY <5>1, <3>4, <2>1
        <5> HIDE DEF k
        <5> QED BY <5>1, <5>2, <5>3, <1>5, <2>1
      <4> QED BY <4>1, <4>2
    <3>6. Len(ring') = RingCapacity /\ Len(ring') <= Len(sent')  BY <3>4, <2>3, <2>0
    <3> QED BY <3>5, <3>6, <1>7, SMTT(30) DEF RingInv, RingIsRecent, Items, Clear
  <2>4. CASE Len(ring) # RingCapacity
    <3>1. ring' = Append(ring, x)  BY <2>4, <1>7
    <3>2. /\ Len(ring') = Len(ring) + 1 /\ ring'[Len(ring) + 1] = x /\ DOMAIN ring' = 1..(Len(ring) + 1)
          /\ \A i \in 1..Len(ring) : ring'[i] = ring[i]
      BY <3>1, <1>3, ring \in Seq(Nat) DEF TypeInv
    <3>3. Len(sent') - Len(ring') = Len(sent) - Len(ring)  BY <3>2, <2>0
    <3>4. ASSUME NEW i \in DOMAIN ring'
          PROVE  ring'[i] = sent'[Len(sent') - Len(ring') + i] /\ ring'[i] # Clear
      <4>1. CASE i = Len(ring) + 1
        <5>1. Len(sent') - Len(ring') + i = Len(sent) + 1  BY <4>1, <3>2, <2>0
        <5> QED BY <5>1, <4>1, <3>2, <1>5, <2>2
      <4>2. CASE i # Len(ring) + 1
        <5> DEFINE k == Len(sent) - Len(ring) + i
        <5>1. i \in 1..Len(ring) /\ i \in DOMAIN ring  BY <4>2, <3>2, <1>7
        <5>2. Len(sent') - Len(ring') + i = k /\ k \in DOMAIN sent
          BY <5>1, <3>2, <3>3, <2>0
        <5>3. ring'[i] = ring[i] /\ ring[i] = sent[k]  BY <5>1, <3>2, <2>1
        <5> HIDE DEF k
        <5> QED BY <5>1, <5>2, <5>3, <1>5, <2>1
      <4> QED BY <4>1, <4>2
    <3>5. Len(sent) - Len(ring) > 0 /\ Len(ring) < RingCapacity => sent[Len(sent) - Len(ring)] = Clear
      BY DEF RingInv, RingIsRecent
    <3>6. Len(sent) - Len(ring) > 0 => sent'[Len(sent) - Len(ring)] = sent[Len(sent) - Len(ring)]
      <4>1. Len(sent) - Len(ring) > 0 => Len(sent) - Len(ring) \in DOMAIN sent  BY <2>0
      <4> QED BY <4>1, <1>5
    <3>7. Len(ring') <= Len(sent') /\ Len(ring) < RingCapacity
      <4>1. Len(ring) < RingCapacity
        <5> DEFINE m == Len(ring)
        <5>1. m \in Nat /\ m <= RingCapacity /\ m # RingCapacity /\ RingCapacity \in Nat
          BY <2>4, <2>0
        <5> HIDE DEF m
        <5>2. m < RingCapacity  BY <5>1
        <5> QED BY <5>2 DEF m
      <4>2. Len(ring') = Len(ring) + 1  BY <3>2
      <4> QED BY <4>1, <4>2, <2>0
    <3>8. Len(sent') - Len(ring') > 0 => sent'[Len(sent') - Len(ring')] = Clear
      BY <3>3, <3>5, <3>6, <3>7
    <3> QED BY <3>4, <3>7, <3>8 DEF RingInv, RingIsRecent, Items, Clear
  <2> QED BY <2>3, <2>4
<1>11. StreamsInv'
  BY <1>3, <1>4, <1>9, StreamSurvivesSignal DEF Push, StreamsInv
<1> QED BY <1>8, <1>9, <1>10, <1>11

\* A Clear is broadcast and the ring is empty.
LEMMA ClearKeeps ==
    ASSUME BusInv, ClearLog
    PROVE  BusInv'
<1> USE DEF BusInv
<1>1. Stamping' = Stamping  BY DEF ClearLog, Stamping
<1>2. /\ sent' = Append(sent, 0) /\ nextId' = nextId /\ stamped' = stamped /\ ring' = <<>>
      /\ sent \in Seq(Nat) /\ Len(sent) \in Nat /\ nextId \in Nat \ {0}
  BY DEF ClearLog, Clear, TypeInv
<1>3. /\ Len(sent') = Len(sent) + 1 /\ DOMAIN sent' = 1..(Len(sent) + 1) /\ DOMAIN sent = 1..Len(sent)
      /\ sent'[Len(sent) + 1] = 0 /\ \A i \in DOMAIN sent : sent'[i] = sent[i]
  BY <1>2
<1>4. \A i \in DOMAIN sent' : (i = Len(sent) + 1 /\ sent'[i] = 0) \/ (i \in DOMAIN sent /\ sent'[i] = sent[i])
  BY <1>2, <1>3
<1>5. TypeInv'
  <2>1. sent' \in Seq(Nat)  BY <1>2
  <2>2. ring' \in Seq(Nat) /\ Len(ring') <= RingCapacity  BY <1>2, CapacityAssumption
  <2> QED BY <1>2, <2>1, <2>2 DEF ClearLog, TypeInv, page, stream, Ids
<1>6. IdsInv'
  <2>1. /\ Len(sent') + Cardinality(Stamping') <= MaxSignals
        /\ nextId' <= Len(sent') + Cardinality(Stamping') + 1
    <3>1. Len(sent) + Cardinality(Stamping) < MaxSignals  BY DEF ClearLog, Room, Stamping
    <3> QED BY <3>1, <1>1, <1>2, <1>3, StampingFinite, BoundsAssumption DEF IdsInv
  <2>2. \A i \in DOMAIN sent' : sent'[i] < nextId'  BY <1>2, <1>4 DEF IdsInv
  <2>3. \A i, j \in DOMAIN sent' : sent'[i] = sent'[j] /\ sent'[i] # Clear => i = j
    BY <1>4 DEF IdsInv, Clear
  <2>4. \A u \in Stamping' : stamped'[u] < nextId' /\ \A i \in DOMAIN sent' : sent'[i] # stamped'[u]
    <3>1. \A u \in Stamping : stamped[u] # 0  BY DEF Stamping
    <3> QED BY <1>1, <1>2, <1>4, <3>1 DEF IdsInv
  <2>5. \A u, v \in Stamping' : stamped'[u] = stamped'[v] => u = v  BY <1>1, <1>2 DEF IdsInv
  <2> QED BY <2>1, <2>2, <2>3, <2>4, <2>5 DEF IdsInv, Clear
<1>7. RingInv'
  <2>1. Len(ring') = 0 /\ DOMAIN ring' = {}  BY <1>2
  <2>2. Len(sent') - Len(ring') = Len(sent) + 1  BY <2>1, <1>2, <1>3
  <2>3. 0 <= Len(sent')  BY <1>2, <1>3
  <2> QED BY <2>1, <2>2, <2>3, <1>3 DEF RingInv, RingIsRecent, Items, Clear
<1>8. StreamsInv'
  BY <1>2, <1>6, StreamSurvivesSignal DEF ClearLog, StreamsInv
<1> QED BY <1>5, <1>6, <1>7, <1>8

------------------------------------------------------------------------------
(* The steps of a stream.                                                  *)

\* What is broadcast are ids within the bound, and Clears.
LEMMA SentTyped ==
    ASSUME BusInv
    PROVE  /\ Len(sent) \in Nat /\ Len(sent) <= MaxSignals /\ DOMAIN sent = 1..Len(sent)
           /\ \A i \in DOMAIN sent : sent[i] \in Ids \union {0}
           /\ sent \in Seq(Ids \union {0})
           /\ nextId \in 1..(MaxSignals + 1)
<1> USE DEF BusInv
<1>1. sent \in Seq(Nat) /\ Len(sent) \in Nat /\ DOMAIN sent = 1..Len(sent) /\ nextId \in Nat \ {0}
  BY DEF TypeInv
<1>2. Cardinality(Stamping) \in Nat /\ MaxSignals \in Nat  BY StampingFinite, BoundsAssumption
<1>3. Len(sent) <= MaxSignals /\ nextId <= MaxSignals + 1  BY <1>1, <1>2 DEF IdsInv
<1>4. ASSUME NEW i \in DOMAIN sent  PROVE sent[i] \in Ids \union {0}
  <2>1. sent[i] \in Nat /\ sent[i] < nextId  BY <1>1 DEF IdsInv
  <2> QED BY <2>1, <1>1, <1>2, <1>3 DEF Ids
<1>5. sent \in Seq(Ids \union {0})
  <2>1. sent \in [1..Len(sent) -> Nat]  BY <1>1
  <2>2. sent \in [1..Len(sent) -> Ids \union {0}]  BY <2>1, <1>1, <1>4
  <2> QED BY <2>2, <1>1, FunctionIsSeq
<1> QED BY <1>1, <1>2, <1>3, <1>4, <1>5

\* The ring is of ids within the bound.
LEMMA RingTyped ==
    ASSUME BusInv
    PROVE  /\ ring \in Seq(Ids) /\ Len(ring) \in Nat /\ DOMAIN ring = 1..Len(ring)
           /\ Len(ring) <= Len(sent)
           /\ \A i \in DOMAIN ring : /\ Len(sent) - Len(ring) + i \in DOMAIN sent
                                     /\ ring[i] = sent[Len(sent) - Len(ring) + i] /\ ring[i] # Clear
<1> USE DEF BusInv
<1>1. /\ ring \in Seq(Nat) /\ Len(ring) \in Nat /\ DOMAIN ring = 1..Len(ring) /\ Len(ring) <= Len(sent)
      /\ Len(sent) \in Nat /\ DOMAIN sent = 1..Len(sent)
  BY SentTyped DEF TypeInv, RingInv
<1>2. ASSUME NEW i \in DOMAIN ring
      PROVE  /\ Len(sent) - Len(ring) + i \in DOMAIN sent
             /\ ring[i] = sent[Len(sent) - Len(ring) + i] /\ ring[i] # Clear
  <2>1. Len(sent) - Len(ring) + i \in DOMAIN sent
    <3>1. i \in 1..Len(ring)  BY <1>1
    <3> QED BY <1>1, <3>1
  <2>2. ring[i] = sent[Len(sent) - Len(ring) + i] /\ ring[i] # Clear
    BY DEF RingInv, RingIsRecent, Items
  <2> QED BY <2>1, <2>2
<1>3. \A i \in DOMAIN ring : ring[i] \in Ids  BY <1>2, SentTyped DEF Clear
<1>4. ring \in Seq(Ids)
  <2>1. ring \in [1..Len(ring) -> Nat]  BY <1>1
  <2>2. ring \in [1..Len(ring) -> Ids]  BY <2>1, <1>1, <1>3
  <2> QED BY <2>2, <1>1, FunctionIsSeq
<1> QED BY <1>1, <1>2, <1>4

\* A stream that begins is due exactly what it will replay.
LEMMA SubscribeBegins ==
    ASSUME BusInv, NEW c \in Clients, NEW a \in Ids \union {0}, Subscribe(c, a, Len(sent) + 1)
    PROVE  Going(c)' /\ conn'[c] /\ backlog'[c] \in Seq(Ids)
<1> DEFINE n == Len(sent) - Len(ring)
           S == {id \in Items(ring) : id > a}
           P == Places(ring, S)
           b == Only(ring, S)
<1>1. /\ Len(sent) \in Nat /\ Len(ring) \in Nat /\ n \in Nat
      /\ DOMAIN sent = 1..Len(sent) /\ DOMAIN ring = 1..Len(ring)
      /\ \A i \in DOMAIN ring : n + i \in DOMAIN sent /\ ring[i] = sent[n + i] /\ ring[i] # Clear
  BY SentTyped, RingTyped
<1>2. /\ conn'[c] /\ sent' = sent /\ after'[c] = a /\ backlog'[c] = b /\ pos'[c] = Len(sent) + 1
      /\ start'[c] = n + 1 /\ joined'[c] = Len(sent) + 1 /\ feed'[c] = <<>> /\ told'[c] = 0
  <2>1. Idle(c)  BY DEF Subscribe, BusInv, StreamsInv, Stream
  <2>2. Len(sent) + 1 - Len(ring) = n + 1  BY <1>1
  <2> HIDE DEF n
  <2> QED BY <2>1, <2>2 DEF Subscribe, BusInv, TypeInv, Idle, bus
<1>3. Distinct(sent)  BY DEF BusInv, IdsInv, Distinct
<1>4. \A i \in DOMAIN ring : ring[i] \in S <=> ring[i] > a  BY DEF Items
<1> HIDE DEF S, n
<1>5. /\ b \in Seq(Ids) /\ P \in Seq(DOMAIN ring) /\ DOMAIN b = DOMAIN P
      /\ \A k \in DOMAIN b : P[k] \in DOMAIN ring /\ b[k] = ring[P[k]] /\ b[k] \in S
      /\ \A k, m \in DOMAIN b : k < m => P[k] < P[m]
      /\ \A i \in DOMAIN ring : ring[i] \in S => \E k \in DOMAIN b : P[k] = i
  <2>1. ring \in Seq(Ids)  BY RingTyped
  <2> QED BY <2>1, OnlyIs
<1> HIDE DEF P, b
<1>6. \A k \in DOMAIN b : /\ P[k] \in Nat /\ n + P[k] \in DOMAIN sent /\ b[k] = sent[n + P[k]]
                          /\ b[k] # Clear /\ PlaceIn(sent, b[k]) = n + P[k]
  <2> SUFFICES ASSUME NEW k \in DOMAIN b
               PROVE  /\ P[k] \in Nat /\ n + P[k] \in DOMAIN sent /\ b[k] = sent[n + P[k]]
                      /\ b[k] # Clear /\ PlaceIn(sent, b[k]) = n + P[k]
    OBVIOUS
  <2>1. P[k] \in DOMAIN ring /\ b[k] = ring[P[k]]  BY <1>5
  <2>2. n + P[k] \in DOMAIN sent /\ b[k] = sent[n + P[k]] /\ b[k] # Clear /\ P[k] \in Nat  BY <2>1, <1>1
  <2>3. PlaceIn(sent, b[k]) = n + P[k]  BY <2>2, <1>3, PlaceIs
  <2> QED BY <2>2, <2>3
<1>7. Contains(sent, b)  BY <1>6 DEF Contains
<1> DEFINE h == Handed(c)'
<1>8. /\ Len(b) \in Nat /\ DOMAIN b = 1..Len(b)
      /\ h \in Seq(Nat) /\ DOMAIN h = DOMAIN b /\ \A k \in DOMAIN b : h[k] = n + P[k]
  <2>1. h = Shown(<<>>, sent, b)  BY <1>2, HandedIs
  <2>2. b \in Seq(Nat) /\ sent \in Seq(Nat) /\ Len(b) \in Nat /\ DOMAIN b = 1..Len(b)
    <3>1. Ids \subseteq Nat  BY DEF Ids
    <3> QED BY <1>5, <3>1, SMTT(30) DEF BusInv, TypeInv
  <2> DEFINE e == <<>>
  <2>3. e \in Seq(Nat) /\ Len(e) = 0  OBVIOUS
  <2>4. h = Shown(e, sent, b)  BY <2>1
  <2> HIDE DEF e, h
  <2>5. /\ h \in Seq(Nat) /\ Len(h) = Len(e) + Len(b)
        /\ \A k \in 1..Len(b) : h[Len(e) + k] = PlaceIn(sent, b[k])
    BY <2>2, <2>3, <2>4, <1>7, ShownIs, ZenonT(60)
  <2>6. Len(h) = Len(b) /\ \A k \in 1..Len(b) : h[k] = PlaceIn(sent, b[k])
    <3>1. Len(e) + Len(b) = Len(b) /\ \A k \in 1..Len(b) : Len(e) + k = k  BY <2>2, <2>3
    <3> QED BY <3>1, <2>5
  <2>7. DOMAIN h = DOMAIN b
    <3>1. DOMAIN h = 1..Len(h)  BY <2>5
    <3> QED BY <2>2, <2>6, <3>1
  <2> QED BY <2>2, <2>5, <2>6, <2>7, <1>6
<1> HIDE DEF h
<1>9. \A i, j \in DOMAIN h : i < j => h[i] < h[j]
  <2> SUFFICES ASSUME NEW i \in DOMAIN b, NEW j \in DOMAIN b, i < j  PROVE h[i] < h[j]
    BY <1>8
  <2>1. P[i] < P[j] /\ P[i] \in Nat /\ P[j] \in Nat /\ n \in Nat  BY <1>1, <1>5, <1>6
  <2>2. h[i] = n + P[i] /\ h[j] = n + P[j]  BY <1>8
  <2> QED BY <2>1, <2>2
<1>10. Due(c)' = {i \in (n + 1)..Len(sent) : sent[i] > a}
  <2>1. Due(c)' = {i \in (n + 1)..(Len(sent) + 1 - 1) : i >= Len(sent) + 1 \/ sent[i] > a}
    BY <1>2 DEF Due
  <2>2. Len(sent) + 1 - 1 = Len(sent) /\ \A i \in (n + 1)..Len(sent) : ~(i >= Len(sent) + 1)
    BY <1>1
  <2> QED BY <2>1, <2>2
<1>11. \A i \in (n + 1)..Len(sent) : i - n \in DOMAIN ring /\ sent[i] = ring[i - n] /\ sent[i] # Clear
  <2> SUFFICES ASSUME NEW i \in (n + 1)..Len(sent)
               PROVE  i - n \in DOMAIN ring /\ sent[i] = ring[i - n] /\ sent[i] # Clear
    OBVIOUS
  <2>1. i - n \in 1..Len(ring) /\ n + (i - n) = i  BY <1>1 DEF n
  <2> QED BY <2>1, <1>1
<1>12. Items(h) = Due(c)'
  <2>1. ASSUME NEW k \in DOMAIN h  PROVE h[k] \in Due(c)'
    <3>1. k \in DOMAIN b /\ h[k] = n + P[k]  BY <1>8
    <3>2. P[k] \in 1..Len(ring) /\ b[k] = sent[n + P[k]] /\ n + P[k] \in 1..Len(sent)
      BY <3>1, <1>1, <1>5, <1>6
    <3>3. sent[n + P[k]] > a  BY <3>1, <3>2, <1>4, <1>5
    <3>4. n + P[k] \in (n + 1)..Len(sent)  BY <3>2, <1>1
    <3> QED BY <3>1, <3>3, <3>4, <1>10
  <2>2. ASSUME NEW i \in Due(c)'  PROVE \E k \in DOMAIN h : h[k] = i
    <3>1. i \in (n + 1)..Len(sent) /\ sent[i] > a  BY <1>10
    <3>2. i - n \in DOMAIN ring /\ ring[i - n] \in S  BY <3>1, <1>4, <1>11
    <3>3. PICK k \in DOMAIN b : P[k] = i - n  BY <3>2, <1>5
    <3>4. n + (i - n) = i  BY <3>1, <1>1
    <3> QED BY <3>3, <3>4, <1>8
  <2> QED BY <2>1, <2>2 DEF Items
<1>13. Cardinality(Due(c)' \ Items(h)) = 0
  <2>1. Due(c)' \ Items(h) = {}  BY <1>12
  <2> QED BY <2>1, FS_EmptySet
<1>14. /\ 1 <= start'[c] /\ start'[c] <= joined'[c] /\ joined'[c] <= pos'[c]
       /\ pos'[c] <= Len(sent') + 1
  <2>1. n + 1 >= 1 /\ n + 1 <= Len(sent) + 1 /\ Len(sent) + 1 <= Len(sent) + 1  BY <1>1 DEF n
  <2> QED BY <2>1, <1>2
<1>15. \A i \in start'[c]..(joined'[c] - 1) : sent'[i] # Clear
  <2>1. Len(sent) + 1 - 1 = Len(sent)  BY <1>1
  <2> QED BY <2>1, <1>2, <1>11
<1>16. Going(c)'
  BY <1>2, <1>7, <1>9, <1>12, <1>13, <1>14, <1>15 DEF Going, Contains, Items, h, Clear
<1> QED BY <1>2, <1>5, <1>16

\* A tab connects: only its own stream changes.
LEMMA ConnectKeeps ==
    ASSUME BusInv, NEW c \in Clients, Connect(c)
    PROVE  BusInv'
<1>1. PICK a \in Ids \union {0} :
        /\ Subscribe(c, a, Len(sent) + 1)
        /\ lastId' \in [Clients -> Ids \union {0}]
        /\ got' \in [Clients -> SUBSET ((1..MaxBoots) \X Ids)]
  <2>1. CASE Subscribe(c, lastId[c], Len(sent) + 1) /\ UNCHANGED page
    <3>1. lastId[c] \in Ids \union {0}  BY DEF BusInv, TypeInv
    <3>2. /\ lastId' \in [Clients -> Ids \union {0}]
          /\ got' \in [Clients -> SUBSET ((1..MaxBoots) \X Ids)]
      BY <2>1 DEF page, BusInv, TypeInv
    <3> QED BY <2>1, <3>1, <3>2
  <2>2. CASE /\ Subscribe(c, 0, Len(sent) + 1)
             /\ lastId' = [lastId EXCEPT ![c] = 0]
             /\ got' = [got EXCEPT ![c] = {}]
    <3>1. /\ lastId' \in [Clients -> Ids \union {0}]
          /\ got' \in [Clients -> SUBSET ((1..MaxBoots) \X Ids)]
      BY <2>2 DEF BusInv, TypeInv
    <3> QED BY <2>2, <3>1
  <2> QED BY <2>1, <2>2 DEF Connect
<1>2. UNCHANGED bus  BY <1>1 DEF Subscribe
<1>3. Going(c)' /\ conn'[c] /\ backlog'[c] \in Seq(Ids)  BY <1>1, SubscribeBegins
<1>4. TypeInv'
  <2>1. /\ Len(sent) + 1 \in Nat /\ Len(sent) + 1 - Len(ring) \in Nat
    BY SentTyped, RingTyped
  <2>2. /\ conn' \in [Clients -> BOOLEAN] /\ after' \in [Clients -> Ids \union {0}]
        /\ pos' \in [Clients -> Nat] /\ start' \in [Clients -> Nat] /\ joined' \in [Clients -> Nat]
    BY <1>1, <2>1 DEF Subscribe, BusInv, TypeInv
  <2>3. backlog' \in [Clients -> Seq(Ids)]
    BY <1>1, <1>3 DEF Subscribe, BusInv, TypeInv
  <2> QED BY <1>1, <1>2, <2>2, <2>3 DEF Subscribe, BusInv, TypeInv, bus, Ids
<1>5. StreamsInv'
  <2> SUFFICES ASSUME NEW d \in Clients  PROVE Stream(d)'
    BY DEF StreamsInv
  <2>1. CASE d = c  BY <2>1, <1>3 DEF Stream
  <2>2. CASE d # c
    <3>1. Stream(d)  BY DEF BusInv, StreamsInv
    <3>2. /\ conn'[d] = conn[d] /\ after'[d] = after[d] /\ backlog'[d] = backlog[d] /\ pos'[d] = pos[d]
          /\ start'[d] = start[d] /\ joined'[d] = joined[d] /\ feed'[d] = feed[d] /\ told'[d] = told[d]
      BY <2>2, <1>1 DEF Subscribe, BusInv, TypeInv
    <3> QED BY <3>1, <3>2, <1>2, StreamSurvivesOthers DEF bus
  <2> QED BY <2>1, <2>2
<1>6. IdsInv' /\ RingInv'
  BY <1>2 DEF bus, BusInv, IdsInv, RingInv, RingIsRecent, Stamping, Items, Clear
<1> QED BY <1>4, <1>5, <1>6 DEF BusInv

\* What is handed over is recorded as the events and ids that it may be.
LEMMA HandOverTyped ==
    ASSUME BusInv, NEW c \in Clients, NEW i \in DOMAIN sent, HandOver(c, i)
    PROVE  /\ feed' \in [Clients -> Seq(Nat)]
           /\ lastId' \in [Clients -> Ids \union {0}]
           /\ got' \in [Clients -> SUBSET ((1..MaxBoots) \X Ids)]
<1>1. sent[i] \in Ids \union {0} /\ i \in Nat /\ boot \in 1..MaxBoots
  <2>1. sent[i] \in Ids \union {0} /\ i \in 1..Len(sent) /\ Len(sent) \in Nat  BY SentTyped
  <2>2. boot \in 1..MaxBoots  BY DEF BusInv, TypeInv
  <2> QED BY <2>1, <2>2
<1>2. feed' \in [Clients -> Seq(Nat)]
  <2>1. Append(feed[c], i) \in Seq(Nat)  BY <1>1 DEF BusInv, TypeInv
  <2> QED BY <2>1 DEF HandOver, BusInv, TypeInv
<1>3. lastId' \in [Clients -> Ids \union {0}]
  BY <1>1 DEF HandOver, BusInv, TypeInv
<1>4. got' \in [Clients -> SUBSET ((1..MaxBoots) \X Ids)]
  <2>1. CASE sent[i] = Clear  BY <2>1 DEF HandOver, BusInv, TypeInv
  <2>2. CASE sent[i] # Clear
    <3>1. sent[i] \in Ids  BY <2>2, <1>1 DEF Clear
    <3>2. got[c] \union {<<boot, sent[i]>>} \in SUBSET ((1..MaxBoots) \X Ids)
      BY <3>1, <1>1 DEF BusInv, TypeInv
    <3>3. got' = [got EXCEPT ![c] = got[c] \union {<<boot, sent[i]>>}]
      BY <2>2 DEF HandOver
    <3> QED BY <3>2, <3>3 DEF BusInv, TypeInv
  <2> QED BY <2>1, <2>2
<1> QED BY <1>2, <1>3, <1>4

\* When one stream moves and its own part stays sound, all is.
LEMMA OneMoves ==
    ASSUME BusInv, TypeInv', NEW c \in Clients, UNCHANGED bus, Stream(c)',
           \A d \in Clients \ {c} :
              /\ conn'[d] = conn[d] /\ after'[d] = after[d] /\ backlog'[d] = backlog[d] /\ pos'[d] = pos[d]
              /\ start'[d] = start[d] /\ joined'[d] = joined[d] /\ feed'[d] = feed[d] /\ told'[d] = told[d]
    PROVE  BusInv'
<1>1. StreamsInv'
  <2> SUFFICES ASSUME NEW d \in Clients  PROVE Stream(d)'
    BY DEF StreamsInv
  <2>1. CASE d = c  BY <2>1
  <2>2. CASE d # c
    <3>1. Stream(d)  BY DEF BusInv, StreamsInv
    <3> QED BY <2>2, <3>1, StreamSurvivesOthers DEF bus
  <2> QED BY <2>1, <2>2
<1>2. IdsInv' /\ RingInv'
  BY DEF bus, BusInv, IdsInv, RingInv, RingIsRecent, Stamping, Items, Clear
<1> QED BY <1>1, <1>2 DEF BusInv

\* An event of the replay is handed over: the places stay what they were.
LEMMA ReplayKeeps ==
    ASSUME BusInv, NEW c \in Clients, Replay(c)
    PROVE  BusInv'
<1> DEFINE p == Index(Head(backlog[c]))
<1>1. Going(c) /\ conn[c]  BY DEF Replay, BusInv, StreamsInv, Stream
<1>2. /\ feed[c] \in Seq(Nat) /\ backlog[c] \in Seq(Nat) /\ sent \in Seq(Nat)
      /\ Contains(sent, backlog[c]) /\ backlog[c] # <<>>
  BY <1>1, HandedTyped DEF Replay, BusInv
<1>3. p = PlaceIn(sent, Head(backlog[c]))  BY DEF Index, PlaceIn
<1> HIDE DEF p
<1>4. /\ p \in DOMAIN sent
      /\ Contains(sent, Tail(backlog[c]))
      /\ Shown(Append(feed[c], p), sent, Tail(backlog[c])) = Shown(feed[c], sent, backlog[c])
  BY <1>2, <1>3, ShownTail
<1>5. /\ HandOver(c, p) /\ UNCHANGED <<bus, conn, after, pos, start, joined, told>>
      /\ backlog' = [backlog EXCEPT ![c] = Tail(backlog[c])]
      /\ feed' = [feed EXCEPT ![c] = Append(feed[c], p)]
  BY DEF Replay, HandOver, p
<1>6. TypeInv'
  <2>1. Tail(backlog[c]) \in Seq(Ids)
    <3>1. backlog[c] \in Seq(Ids)  BY DEF BusInv, TypeInv
    <3> QED BY <3>1, <1>2
  <2>2. backlog' \in [Clients -> Seq(Ids)]  BY <1>5, <2>1 DEF BusInv, TypeInv
  <2>3. /\ feed' \in [Clients -> Seq(Nat)] /\ lastId' \in [Clients -> Ids \union {0}]
        /\ got' \in [Clients -> SUBSET ((1..MaxBoots) \X Ids)]
    BY <1>4, <1>5, HandOverTyped
  <2> QED BY <1>5, <2>2, <2>3 DEF BusInv, TypeInv, bus, Ids
<1>7. sent' = sent /\ feed'[c] = Append(feed[c], p) /\ backlog'[c] = Tail(backlog[c])
  BY <1>5 DEF bus, BusInv, TypeInv
<1>8. Handed(c)' = Handed(c)
  <2>1. Handed(c)' = Shown(feed'[c], sent', backlog'[c]) /\ Handed(c) = Shown(feed[c], sent, backlog[c])
    BY HandedIs
  <2> QED BY <2>1, <1>4, <1>7
<1>9. Due(c)' = Due(c)  BY <1>5 DEF Due, bus
<1>10. Going(c)'
  <2>1. \A k \in DOMAIN backlog'[c] : \E i \in DOMAIN sent' : sent'[i] = backlog'[c][k]
    BY <1>4, <1>7 DEF Contains
  <2>2. Items(Handed(c))' = Items(Handed(c))  BY <1>8 DEF Items
  <2>3. start' = start /\ joined' = joined /\ pos' = pos /\ told' = told  BY <1>5
  <2> QED BY <1>1, <1>7, <1>8, <1>9, <2>1, <2>2, <2>3 DEF Going, Clear
<1>11. Stream(c)'  BY <1>1, <1>5, <1>10 DEF Stream
<1>12. \A d \in Clients \ {c} :
          /\ conn'[d] = conn[d] /\ after'[d] = after[d] /\ backlog'[d] = backlog[d] /\ pos'[d] = pos[d]
          /\ start'[d] = start[d] /\ joined'[d] = joined[d] /\ feed'[d] = feed[d] /\ told'[d] = told[d]
  BY <1>5 DEF BusInv, TypeInv
<1> QED BY <1>5, <1>6, <1>11, <1>12, OneMoves

\* A stream that has replayed all was handed what its feed says; its receiver is
\* beyond all that it is due, which is finite.
LEMMA LiveStream ==
    ASSUME BusInv, NEW c \in Clients, Going(c), backlog[c] = <<>>
    PROVE  /\ Handed(c) = feed[c] /\ feed[c] \in Seq(Nat)
           /\ pos[c] \in Nat /\ joined[c] \in Nat /\ start[c] \in Nat /\ 1 <= pos[c]
           /\ \A i \in Due(c) : i \in Nat /\ i < pos[c]
           /\ IsFiniteSet(Due(c) \ Items(Handed(c)))
<1>1. /\ pos[c] \in Nat /\ joined[c] \in Nat /\ start[c] \in Nat
      /\ feed[c] \in Seq(Nat) /\ sent \in Seq(Nat)
  BY DEF BusInv, TypeInv
<1>2. Handed(c) = feed[c]
  <2>1. Handed(c) = Shown(feed[c], sent, <<>>)  BY HandedIs
  <2> QED BY <2>1, <1>1, ShownAlone
<1>3. 1 <= pos[c]  BY <1>1 DEF Going
<1>4. \A i \in Due(c) : i \in Nat /\ i < pos[c]  BY <1>1 DEF Due
<1>5. IsFiniteSet(Due(c) \ Items(Handed(c)))
  <2>1. IsFiniteSet(start[c]..(pos[c] - 1))
    <3>1. start[c] \in Int /\ pos[c] - 1 \in Int  BY <1>1
    <3> QED BY <3>1, FS_Interval
  <2>2. (Due(c) \ Items(Handed(c))) \subseteq start[c]..(pos[c] - 1)  BY DEF Due
  <2> QED BY <2>1, <2>2, FS_Subset
<1> QED BY <1>1, <1>2, <1>3, <1>4, <1>5

\* A live signal is handed over: it is due and follows all the others.
LEMMA RecvKeeps ==
    ASSUME BusInv, NEW c \in Clients, Recv(c)
    PROVE  BusInv'
<1> DEFINE p == pos[c]
           f == feed[c]
<1>1. Going(c) /\ conn[c] /\ backlog[c] = <<>>  BY DEF Recv, BusInv, StreamsInv, Stream
<1>2. /\ Handed(c) = f /\ f \in Seq(Nat) /\ p \in Nat /\ joined[c] \in Nat /\ start[c] \in Nat /\ 1 <= p
      /\ \A i \in Due(c) : i \in Nat /\ i < p
  BY <1>1, LiveStream
<1>3. p \in DOMAIN sent /\ p <= Len(sent) /\ Len(sent) \in Nat  BY <1>2, SentTyped DEF Recv
<1>4. /\ HandOver(c, p) /\ UNCHANGED <<bus, conn, after, backlog, start, joined, told>>
      /\ feed' = [feed EXCEPT ![c] = Append(f, p)]
      /\ pos' = [pos EXCEPT ![c] = p + 1]
  BY DEF Recv, HandOver
<1>5. TypeInv'
  <2>1. /\ feed' \in [Clients -> Seq(Nat)] /\ lastId' \in [Clients -> Ids \union {0}]
        /\ got' \in [Clients -> SUBSET ((1..MaxBoots) \X Ids)]
    BY <1>3, <1>4, HandOverTyped
  <2>2. pos' \in [Clients -> Nat]  BY <1>2, <1>4 DEF BusInv, TypeInv
  <2> QED BY <1>4, <2>1, <2>2 DEF BusInv, TypeInv, bus, Ids
<1>6. sent' = sent /\ feed'[c] = Append(f, p) /\ backlog'[c] = <<>> /\ pos'[c] = p + 1
  BY <1>1, <1>4 DEF bus, BusInv, TypeInv
<1> DEFINE h == Handed(c)'
<1>7. h = Append(f, p)
  <2>1. h = Shown(feed'[c], sent', backlog'[c])  BY HandedIs
  <2>2. Append(f, p) \in Seq(Nat) /\ sent \in Seq(Nat)  BY <1>2 DEF BusInv, TypeInv
  <2> QED BY <2>1, <2>2, <1>6, ShownAlone
<1> HIDE DEF h, p, f
<1>8. /\ Len(f) \in Nat /\ DOMAIN f = 1..Len(f) /\ DOMAIN h = 1..(Len(f) + 1)
      /\ h[Len(f) + 1] = p /\ \A i \in DOMAIN f : h[i] = f[i]
  BY <1>2, <1>7
<1>9. Items(h) = Items(f) \union {p}
  <2>1. \A i \in DOMAIN h : i \in DOMAIN f \/ i = Len(f) + 1  BY <1>8
  <2>2. DOMAIN f \subseteq DOMAIN h /\ Len(f) + 1 \in DOMAIN h  BY <1>8
  <2> QED BY <2>1, <2>2, <1>8 DEF Items
<1>10. Items(f) \subseteq Due(c)  BY <1>1, <1>2 DEF Going
<1>11. \A i, j \in DOMAIN h : i < j => h[i] < h[j]
  <2> SUFFICES ASSUME NEW i \in DOMAIN h, NEW j \in DOMAIN h, i < j  PROVE h[i] < h[j]
    OBVIOUS
  <2>1. i \in DOMAIN f /\ h[i] = f[i]  BY <1>8
  <2>2. CASE j \in DOMAIN f
    <3>1. f[i] < f[j]  BY <2>1, <2>2, <1>1, <1>2 DEF Going
    <3> QED BY <2>1, <2>2, <3>1, <1>8
  <2>3. CASE j = Len(f) + 1
    <3>1. f[i] \in Due(c)  BY <2>1, <1>10 DEF Items
    <3> QED BY <2>1, <2>3, <3>1, <1>2, <1>8
  <2> QED BY <2>2, <2>3, <1>8
<1>12. start'[c] = start[c] /\ joined'[c] = joined[c] /\ after'[c] = after[c] /\ told'[c] = told[c]
  BY <1>4
<1>13. Due(c)' = Due(c) \union {p}
  <2>1. start[c] <= joined[c] /\ joined[c] <= p  BY <1>1 DEF Going, p
  <2>2. Due(c)' = {i \in start[c]..p : i >= joined[c] \/ sent[i] > after[c]}
    <3>1. pos'[c] - 1 = p  BY <1>2, <1>6
    <3> QED BY <3>1, <1>6, <1>12 DEF Due
  <2>3. Due(c) = {i \in start[c]..(p - 1) : i >= joined[c] \/ sent[i] > after[c]}
    BY DEF Due, p
  <2>4. start[c]..p = (start[c]..(p - 1)) \union {p}  BY <2>1, <1>2
  <2>5. p >= joined[c]  BY <2>1, <1>2
  <2> QED BY <2>2, <2>3, <2>4, <2>5
<1>14. Due(c)' \ Items(h) = Due(c) \ Items(f)
  <2>1. p \notin Due(c)  BY <1>2
  <2> QED BY <2>1, <1>9, <1>13
<1>15. Going(c)'
  <2>1. /\ 1 <= start'[c] /\ start'[c] <= joined'[c] /\ joined'[c] <= pos'[c]
        /\ pos'[c] <= Len(sent') + 1
    BY <1>1, <1>2, <1>3, <1>6, <1>12 DEF Going, p
  <2>2. \A i \in start'[c]..(joined'[c] - 1) : sent'[i] # Clear
    BY <1>1, <1>6, <1>12 DEF Going
  <2>3. Items(h) \subseteq Due(c)'  BY <1>9, <1>10, <1>13
  <2>4. Cardinality(Due(c)' \ Items(h)) = told'[c]
    BY <1>1, <1>2, <1>12, <1>14 DEF Going
  <2> QED BY <1>6, <1>11, <2>1, <2>2, <2>3, <2>4 DEF Going, Items, h, Clear
<1>16. Stream(c)'  BY <1>1, <1>4, <1>15 DEF Stream
<1>17. \A d \in Clients \ {c} :
          /\ conn'[d] = conn[d] /\ after'[d] = after[d] /\ backlog'[d] = backlog[d] /\ pos'[d] = pos[d]
          /\ start'[d] = start[d] /\ joined'[d] = joined[d] /\ feed'[d] = feed[d] /\ told'[d] = told[d]
  BY <1>4 DEF BusInv, TypeInv
<1> QED BY <1>4, <1>5, <1>16, <1>17, OneMoves

\* A receiver that lags skips signals, and the client is told how many.
LEMMA LaggedKeeps ==
    ASSUME BusInv, NEW c \in Clients, RecvLagged(c)
    PROVE  BusInv'
<1> DEFINE p == pos[c]
           f == feed[c]
           q == Oldest
<1>1. Going(c) /\ conn[c] /\ backlog[c] = <<>>  BY DEF RecvLagged, BusInv, StreamsInv, Stream
<1>2. /\ Handed(c) = f /\ f \in Seq(Nat) /\ p \in Nat /\ joined[c] \in Nat /\ start[c] \in Nat /\ 1 <= p
      /\ \A i \in Due(c) : i \in Nat /\ i < p
      /\ IsFiniteSet(Due(c) \ Items(Handed(c)))
  BY <1>1, LiveStream
<1>3. p < q /\ q \in Nat /\ q <= Len(sent) + 1 /\ Len(sent) \in Nat
  <2>1. Len(sent) \in Nat /\ ChannelCapacity \in Nat \ {0}  BY SentTyped, CapacityAssumption
  <2>2. q \in Nat /\ q <= Len(sent) + 1  BY <2>1 DEF Oldest
  <2> QED BY <2>1, <2>2 DEF RecvLagged
<1>4. /\ UNCHANGED <<bus, conn, page, after, backlog, start, joined, feed>>
      /\ told' = [told EXCEPT ![c] = told[c] + q - p]
      /\ pos' = [pos EXCEPT ![c] = q]
  BY DEF RecvLagged
<1> HIDE DEF q
<1>5. told[c] \in Nat /\ told[c] + q - p \in Nat /\ told[c] + q - p = told[c] + (q - p)
  <2>1. told[c] \in Nat  BY DEF BusInv, TypeInv
  <2> QED BY <2>1, <1>2, <1>3
<1>6. TypeInv'
  <2>1. told' \in [Clients -> Nat] /\ pos' \in [Clients -> Nat]
    BY <1>3, <1>4, <1>5 DEF BusInv, TypeInv
  <2> QED BY <1>4, <2>1 DEF BusInv, TypeInv, bus, page, Ids
<1>7. /\ sent' = sent /\ pos'[c] = q /\ told'[c] = told[c] + (q - p) /\ start'[c] = start[c]
      /\ joined'[c] = joined[c] /\ after'[c] = after[c] /\ feed'[c] = feed[c] /\ backlog'[c] = backlog[c]
  BY <1>4, <1>5 DEF bus, BusInv, TypeInv
<1>8. Handed(c)' = Handed(c)  BY <1>7, HandedIs
<1> HIDE DEF p, f
<1>9. start[c] <= joined[c] /\ joined[c] <= p  BY <1>1 DEF Going, p
<1> DEFINE D == Due(c) \ Items(Handed(c))
           G == p..(q - 1)
<1>10. Due(c)' = Due(c) \union G
  <2>1. Due(c)' = {i \in start[c]..(q - 1) : i >= joined[c] \/ sent[i] > after[c]}
    BY <1>7 DEF Due
  <2>2. Due(c) = {i \in start[c]..(p - 1) : i >= joined[c] \/ sent[i] > after[c]}
    BY DEF Due, p
  <2>3. start[c]..(q - 1) = (start[c]..(p - 1)) \union (p..(q - 1))  BY <1>2, <1>3, <1>9
  <2>4. \A i \in p..(q - 1) : i >= joined[c]  BY <1>2, <1>3, <1>9
  <2> QED BY <2>1, <2>2, <2>3, <2>4
<1>11. Items(Handed(c)) \subseteq Due(c)  BY <1>1 DEF Going
<1>12. \A i \in G : i \notin Due(c)  BY <1>2, <1>3
<1>13. Due(c)' \ Items(Handed(c))' = D \union G
  <2>1. Items(Handed(c))' = Items(Handed(c))  BY <1>8 DEF Items
  <2> QED BY <2>1, <1>10, <1>11, <1>12
<1>14. Cardinality(D \union G) = told[c] + (q - p)
  <2>1. IsFiniteSet(G) /\ Cardinality(G) = q - p
    <3>1. p \in Int /\ q - 1 \in Int /\ ~(p > q - 1) /\ q - 1 - p + 1 = q - p  BY <1>2, <1>3
    <3> QED BY <3>1, FS_Interval
  <2>2. IsFiniteSet(D) /\ Cardinality(D) = told[c]  BY <1>1, <1>2 DEF Going
  <2>3. D \intersect G = {}  BY <1>12
  <2>4. Cardinality(D \intersect G) = 0  BY <2>3, FS_EmptySet
  <2> HIDE DEF D, G
  <2>5. Cardinality(D \union G) = Cardinality(D) + Cardinality(G) - Cardinality(D \intersect G)
    BY <2>1, <2>2, FS_Union
  <2> QED BY <2>1, <2>2, <2>4, <2>5, <1>2, <1>3, <1>5
<1>15. Going(c)'
  <2>1. /\ 1 <= start'[c] /\ start'[c] <= joined'[c] /\ joined'[c] <= pos'[c]
        /\ pos'[c] <= Len(sent') + 1
    BY <1>1, <1>2, <1>3, <1>7, <1>9 DEF Going
  <2>2. Items(Handed(c))' \subseteq Due(c)'  BY <1>8, <1>10, <1>11 DEF Items
  <2>3. Cardinality(Due(c)' \ Items(Handed(c))') = told'[c]  BY <1>7, <1>13, <1>14
  <2> QED BY <1>1, <1>7, <1>8, <2>1, <2>2, <2>3 DEF Going, Clear
<1>16. Stream(c)'  BY <1>1, <1>4, <1>15 DEF Stream
<1>17. \A d \in Clients \ {c} :
          /\ conn'[d] = conn[d] /\ after'[d] = after[d] /\ backlog'[d] = backlog[d] /\ pos'[d] = pos[d]
          /\ start'[d] = start[d] /\ joined'[d] = joined[d] /\ feed'[d] = feed[d] /\ told'[d] = told[d]
  BY <1>4 DEF BusInv, TypeInv
<1> QED BY <1>4, <1>6, <1>16, <1>17, OneMoves

\* A tab that is disconnected has no stream.
LEMMA DisconnectKeeps ==
    ASSUME BusInv, NEW c \in Clients, Disconnect(c)
    PROVE  BusInv'
<1>1. NoStream({c}) /\ UNCHANGED <<bus, page>>  BY DEF Disconnect
<1>2. <<>> \in Seq(Ids) /\ <<>> \in Seq(Nat) /\ 1 \in Nat /\ 0 \in Nat  OBVIOUS
<1>3. TypeInv'
  BY <1>1, <1>2 DEF NoStream, BusInv, TypeInv, bus, page, Ids
<1>4. Stream(c)'
  BY <1>1 DEF NoStream, Stream, Idle
<1>5. \A d \in Clients \ {c} :
          /\ conn'[d] = conn[d] /\ after'[d] = after[d] /\ backlog'[d] = backlog[d] /\ pos'[d] = pos[d]
          /\ start'[d] = start[d] /\ joined'[d] = joined[d] /\ feed'[d] = feed[d] /\ told'[d] = told[d]
  BY <1>1 DEF NoStream, BusInv, TypeInv
<1> QED BY <1>1, <1>3, <1>4, <1>5, OneMoves

\* With nothing broadcast and no stream all is sound.
LEMMA Fresh ==
    ASSUME TypeInv, nextId = 1, stamped = [t \in Emitters |-> 0], ring = <<>>, sent = <<>>,
           \A c \in Clients : ~conn[c] /\ Idle(c)
    PROVE  BusInv
<1>1. Stamping = {}  BY DEF Stamping
<1>2. Cardinality(Stamping) = 0  BY <1>1, FS_EmptySet
<1>3. Len(sent) = 0 /\ DOMAIN sent = {} /\ Len(ring) = 0 /\ DOMAIN ring = {}  OBVIOUS
<1>4. IdsInv  BY <1>1, <1>2, <1>3, BoundsAssumption DEF IdsInv
<1>5. RingInv  BY <1>3 DEF RingInv, RingIsRecent, Items
<1>6. StreamsInv  BY DEF StreamsInv, Stream
<1> QED BY <1>4, <1>5, <1>6 DEF BusInv

\* The server starts, or starts again.
LEMMA InitSound == Init => BusInv
<1> SUFFICES ASSUME Init  PROVE BusInv
  OBVIOUS
<1>1. <<>> \in Seq(Ids) /\ <<>> \in Seq(Nat) /\ Len(<<>>) = 0  OBVIOUS
<1>2. TypeInv
  BY <1>1, CapacityAssumption, BoundsAssumption DEF Init, TypeInv
<1>3. \A c \in Clients : ~conn[c] /\ Idle(c)  BY DEF Init, Idle
<1> QED BY <1>2, <1>3, Fresh DEF Init

LEMMA RestartKeeps ==
    ASSUME BusInv, Restart
    PROVE  BusInv'
<1>1. /\ boot' = boot + 1 /\ boot < MaxBoots /\ UNCHANGED page
      /\ nextId' = 1 /\ stamped' = [t \in Emitters |-> 0] /\ ring' = <<>> /\ sent' = <<>>
      /\ NoStream(Clients)
  BY DEF Restart, EmptyBus
<1>2. <<>> \in Seq(Ids) /\ <<>> \in Seq(Nat) /\ Len(<<>>) = 0  OBVIOUS
<1>3. boot' \in 1..MaxBoots  BY <1>1, BoundsAssumption DEF BusInv, TypeInv
<1>4. TypeInv'
  <2>1. /\ conn' \in [Clients -> BOOLEAN] /\ after' \in [Clients -> Ids \union {0}]
        /\ backlog' \in [Clients -> Seq(Ids)] /\ pos' \in [Clients -> Nat] /\ start' \in [Clients -> Nat]
        /\ joined' \in [Clients -> Nat] /\ feed' \in [Clients -> Seq(Nat)] /\ told' \in [Clients -> Nat]
    BY <1>1, <1>2 DEF NoStream
  <2>2. ring' \in Seq(Nat) /\ Len(ring') <= RingCapacity /\ sent' \in Seq(Nat)
    BY <1>1, <1>2, CapacityAssumption
  <2> QED BY <1>1, <1>3, <2>1, <2>2 DEF BusInv, TypeInv, page, Ids
<1>5. \A c \in Clients : ~conn'[c] /\ Idle(c)'
  BY <1>1 DEF NoStream, Idle
<1>6. Stamping' = {}  BY <1>1 DEF Stamping
<1>7. Cardinality(Stamping') = 0  BY <1>6, FS_EmptySet
<1>8. Len(sent') = 0 /\ DOMAIN sent' = {} /\ Len(ring') = 0 /\ DOMAIN ring' = {}  BY <1>1
<1>9. IdsInv'  BY <1>1, <1>6, <1>7, <1>8, BoundsAssumption DEF IdsInv
<1>10. RingInv'  BY <1>8 DEF RingInv, RingIsRecent, Items
<1>11. StreamsInv'  BY <1>5 DEF StreamsInv, Stream
<1> QED BY <1>4, <1>9, <1>10, <1>11 DEF BusInv

------------------------------------------------------------------------------
(* The theorems.                                                           *)

\* The invariant is inductive.
THEOREM BusInductive == Spec => []BusInv
<1>1. Init => BusInv  BY InitSound
<1>2. BusInv /\ [Next]_vars => BusInv'
  <2> SUFFICES ASSUME BusInv, [Next]_vars  PROVE BusInv'
    OBVIOUS
  <2>1. ASSUME NEW t \in Emitters, Stamp(t)  PROVE BusInv'  BY <2>1, StampKeeps
  <2>2. ASSUME NEW t \in Emitters, Push(t)  PROVE BusInv'  BY <2>2, PushKeeps
  <2>3. CASE ClearLog  BY <2>3, ClearKeeps
  <2>4. ASSUME NEW c \in Clients, Connect(c)  PROVE BusInv'  BY <2>4, ConnectKeeps
  <2>5. ASSUME NEW c \in Clients, Replay(c)  PROVE BusInv'  BY <2>5, ReplayKeeps
  <2>6. ASSUME NEW c \in Clients, Recv(c)  PROVE BusInv'  BY <2>6, RecvKeeps
  <2>7. ASSUME NEW c \in Clients, RecvLagged(c)  PROVE BusInv'  BY <2>7, LaggedKeeps
  <2>8. ASSUME NEW c \in Clients, Disconnect(c)  PROVE BusInv'  BY <2>8, DisconnectKeeps
  <2>9. CASE Restart  BY <2>9, RestartKeeps
  <2>10. CASE UNCHANGED vars
    <3>1. UNCHANGED bus /\ UNCHANGED stream /\ UNCHANGED page /\ UNCHANGED conn
      BY <2>10 DEF vars
    <3>2. TypeInv'  BY <3>1 DEF BusInv, TypeInv, bus, stream, page, Ids
    <3>3. IdsInv' /\ RingInv'
      BY <3>1 DEF bus, BusInv, IdsInv, RingInv, RingIsRecent, Stamping, Items, Clear
    <3>4. StreamsInv'
      BY <3>1, StreamSurvivesOthers DEF bus, stream, BusInv, StreamsInv
    <3> QED BY <3>2, <3>3, <3>4 DEF BusInv
  <2> QED
    BY <2>1, <2>2, <2>3, <2>4, <2>5, <2>6, <2>7, <2>8, <2>9, <2>10 DEF Next, Deliver
<1> QED BY <1>1, <1>2, PTL DEF Spec

\* What is handed over and what is due to a stream are places in what was
\* broadcast, so that it was told of no more than that.
LEMMA ToldBounded ==
    ASSUME BusInv, NEW c \in Clients
    PROVE  /\ told[c] <= Len(sent) /\ pos[c] \in 1..(Len(sent) + 1)
           /\ start[c] \in 1..(Len(sent) + 1) /\ joined[c] \in 1..(Len(sent) + 1)
           /\ feed[c] \in Seq(1..Len(sent))
<1>1. /\ Len(sent) \in Nat /\ told[c] \in Nat /\ pos[c] \in Nat /\ start[c] \in Nat /\ joined[c] \in Nat
      /\ feed[c] \in Seq(Nat)
  BY SentTyped DEF BusInv, TypeInv
<1>2. CASE ~conn[c]
  <2>1. Idle(c)  BY <1>2 DEF BusInv, StreamsInv, Stream
  <2>2. <<>> \in Seq(1..Len(sent))  OBVIOUS
  <2> QED BY <1>1, <2>1, <2>2 DEF Idle
<1>3. CASE conn[c]
  <2>1. Going(c)  BY <1>3 DEF BusInv, StreamsInv, Stream
  <2>2. /\ 1 <= start[c] /\ start[c] <= joined[c] /\ joined[c] <= pos[c] /\ pos[c] <= Len(sent) + 1
    BY <2>1 DEF Going
  <2>3. Due(c) \subseteq 1..Len(sent)  BY <1>1, <2>2 DEF Due
  <2>4. told[c] <= Len(sent)
    <3> DEFINE D == Due(c) \ Items(Handed(c))
    <3>1. D \subseteq 1..Len(sent)  BY <2>3
    <3>2. Cardinality(D) = told[c]  BY <2>1 DEF Going
    <3> HIDE DEF D
    <3> QED BY <1>1, <3>1, <3>2, AtMost
  <2>5. feed[c] \in Seq(1..Len(sent))
    <3>1. /\ backlog[c] \in Seq(Nat) /\ sent \in Seq(Nat) /\ Contains(sent, backlog[c])
      BY <2>1, HandedTyped DEF BusInv
    <3>2. Handed(c) = Shown(feed[c], sent, backlog[c])  BY HandedIs
    <3>3. Items(Shown(feed[c], sent, backlog[c])) \subseteq 1..Len(sent)
      BY <2>1, <2>3, <3>2 DEF Going
    <3> QED BY <1>1, <3>1, <3>3, FeedAmong
  <2> QED BY <1>1, <2>2, <2>4, <2>5
<1> QED BY <1>2, <1>3

\* The bus and its streams have their types and stay within their bounds.
THEOREM BusTyped == Spec => []TypeOK
<1>1. BusInv => TypeOK
  <2> SUFFICES ASSUME BusInv  PROVE TypeOK
    OBVIOUS
  <2>1. /\ Len(sent) \in Nat /\ Len(sent) <= MaxSignals /\ sent \in Seq(Ids \union {Clear})
        /\ nextId \in 1..(MaxSignals + 1) /\ MaxSignals \in Nat
    BY SentTyped, BoundsAssumption DEF Clear
  <2>2. ring \in Seq(Ids) /\ Len(ring) <= RingCapacity  BY RingTyped DEF BusInv, TypeInv
  <2>3. stamped \in [Emitters -> Ids \union {0}]
    <3>1. \A t \in Emitters : stamped[t] \in Nat /\ (stamped[t] # 0 => stamped[t] < nextId)
      BY DEF BusInv, TypeInv, IdsInv, Stamping
    <3>2. \A t \in Emitters : stamped[t] \in Ids \union {0}  BY <2>1, <3>1 DEF Ids
    <3> QED BY <3>2 DEF BusInv, TypeInv
  <2>4. \A c \in Clients : /\ told[c] \in 0..MaxSignals /\ pos[c] \in 1..(MaxSignals + 1)
                           /\ start[c] \in 1..(MaxSignals + 1) /\ joined[c] \in 1..(MaxSignals + 1)
                           /\ feed[c] \in Seq(Ids)
    <3> SUFFICES ASSUME NEW c \in Clients
                 PROVE  /\ told[c] \in 0..MaxSignals /\ pos[c] \in 1..(MaxSignals + 1)
                        /\ start[c] \in 1..(MaxSignals + 1) /\ joined[c] \in 1..(MaxSignals + 1)
                        /\ feed[c] \in Seq(Ids)
      OBVIOUS
    <3>1. /\ told[c] <= Len(sent) /\ pos[c] \in 1..(Len(sent) + 1)
          /\ start[c] \in 1..(Len(sent) + 1) /\ joined[c] \in 1..(Len(sent) + 1)
          /\ feed[c] \in Seq(1..Len(sent)) /\ told[c] \in Nat
      BY ToldBounded DEF BusInv, TypeInv
    <3>2. 1..Len(sent) \subseteq Ids  BY <2>1 DEF Ids
    <3>3. feed[c] \in Seq(Ids)
      <4> DEFINE places == 1..Len(sent)
                 fed == feed[c]
      <4>1. fed \in Seq(places) /\ places \subseteq Ids  BY <3>1, <3>2
      <4> HIDE DEF places, fed
      <4>2. fed \in Seq(Ids)  BY <4>1, SeqMonotonic
      <4> QED BY <4>2 DEF fed
    <3> QED BY <2>1, <3>1, <3>3
  <2>5. /\ told \in [Clients -> 0..MaxSignals] /\ pos \in [Clients -> 1..(MaxSignals + 1)]
        /\ start \in [Clients -> 1..(MaxSignals + 1)] /\ joined \in [Clients -> 1..(MaxSignals + 1)]
        /\ feed \in [Clients -> Seq(Ids)]
    BY <2>4 DEF BusInv, TypeInv
  <2> QED BY <2>1, <2>2, <2>3, <2>5 DEF BusInv, TypeInv, TypeOK
<1> QED BY <1>1, BusInductive, PTL

\* The ring is exactly the newest of what was broadcast since the last Clear.
THEOREM RingAlwaysRecent == Spec => []RingIsRecent
<1>1. BusInv => RingIsRecent  BY DEF BusInv, RingInv
<1> QED BY <1>1, BusInductive, PTL

\* A stream shows no signal twice or out of order.
THEOREM StreamsInOrder == Spec => []InOrder
<1>1. BusInv => InOrder
  <2> SUFFICES ASSUME BusInv, NEW c \in Clients
               PROVE  \A i, j \in DOMAIN Handed(c) : i < j => Handed(c)[i] < Handed(c)[j]
    BY DEF InOrder
  <2>1. CASE conn[c]  BY <2>1 DEF BusInv, StreamsInv, Stream, Going
  <2>2. CASE ~conn[c]
    <3>1. Handed(c) = <<>>
      <4>1. Idle(c) /\ sent \in Seq(Nat)  BY <2>2 DEF BusInv, TypeInv, StreamsInv, Stream
      <4>2. Handed(c) = Shown(<<>>, sent, <<>>)  BY <4>1, HandedIs DEF Idle
      <4>3. <<>> \in Seq(Nat)  OBVIOUS
      <4> QED BY <4>1, <4>2, <4>3, ShownAlone
    <3> QED BY <3>1
  <2> QED BY <2>1, <2>2
<1> QED BY <1>1, BusInductive, PTL

\* Nothing that is due to a stream is lost but what it was told of.
THEOREM StreamsHaveNoSilentGap == Spec => []NoSilentGap
<1>1. BusInv => NoSilentGap
  BY DEF BusInv, StreamsInv, Stream, Going, NoSilentGap
<1> QED BY <1>1, BusInductive, PTL

\* What a stream is handed has no Clear between it and where the stream joined.
THEOREM ClearsAreDurable == Spec => []ClearIsDurable
<1>1. BusInv => ClearIsDurable
  <2> SUFFICES ASSUME BusInv, NEW c \in Clients, NEW i \in Items(Handed(c)),
                      NEW j \in i..(joined[c] - 1)
               PROVE  sent[j] # Clear
    BY DEF ClearIsDurable
  <2>1. /\ start[c] \in Nat /\ joined[c] \in Nat /\ pos[c] \in Nat  BY DEF BusInv, TypeInv
  <2>2. CASE conn[c]
    <3>1. Going(c)  BY <2>2 DEF BusInv, StreamsInv, Stream
    <3>2. i \in start[c]..(pos[c] - 1)  BY <3>1 DEF Going, Due
    <3>3. j \in start[c]..(joined[c] - 1)  BY <2>1, <3>2
    <3> QED BY <3>1, <3>3 DEF Going
  <2>3. CASE ~conn[c]
    <3>1. Handed(c) = <<>>
      <4>1. Idle(c) /\ sent \in Seq(Nat)  BY <2>3 DEF BusInv, TypeInv, StreamsInv, Stream
      <4>2. Handed(c) = Shown(<<>>, sent, <<>>)  BY <4>1, HandedIs DEF Idle
      <4>3. <<>> \in Seq(Nat)  OBVIOUS
      <4> QED BY <4>1, <4>2, <4>3, ShownAlone
    <3> QED BY <3>1 DEF Items
  <2> QED BY <2>2, <2>3
<1> QED BY <1>1, BusInductive, PTL

==============================================================================
