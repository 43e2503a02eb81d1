---------------------------- MODULE NotifierProofs ----------------------------
(***************************************************************************)
(* The safety properties of Notifier, for any buckets, drafts, admins and  *)
(* bounds.                                                                 *)
(*                                                                         *)
(* The inductive invariant says why one read of the table is enough: the   *)
(* ids of the rows, although they are used again, are in the order of      *)
(* creation, so that what a task has yet to post is beyond all that it has *)
(* posted; and what it owes is in what it has to post or in the log.       *)
(***************************************************************************)
EXTENDS Notifier, OrdersProofs, TLAPS

\* The requests that are creating a destination.
Creating == {a \in Admins : creating[a] # None}

\* The elements of a sequence.
ElementsOf(s) == {s[i] : i \in DOMAIN s}

\* The types, and the bounds that the guards keep.
TypeInv ==
    /\ buckets \subseteq Buckets
    /\ creating \in [Admins -> Buckets \union {None}]
    /\ boot \in 1..MaxBoots
    /\ events \in Seq([bucket : Buckets, change : Changes, seen : Nat])
    /\ Len(events) <= MaxEvents
    /\ tasks \in Seq([at : {"load", "send", "await", "over", "dropped", "lost"}, todo : Seq(Nat)])
    /\ Len(tasks) = Len(events)
    /\ posts \in Seq([event : Nat, to : Nat])
    /\ \A p \in DOMAIN posts : posts[p].event \in DOMAIN events
    /\ lines \subseteq DOMAIN posts
    /\ made \in Seq([bucket : Buckets, draft : Drafts])
    /\ \A d \in DOMAIN made : Valid(made[d].draft)
    /\ Len(made) + Cardinality(Creating) <= MaxMade
    /\ gone \in Seq(Nat) /\ Len(gone) = Len(made)
    /\ \A d \in DOMAIN gone : gone[d] <= Present
    /\ born \in [Buckets -> Seq(Nat)]
    /\ \A b \in Buckets : \A i \in DOMAIN born[b] : born[b][i] <= Len(made)
    /\ \A e \in DOMAIN events : events[e].seen <= Len(made)

\* The rows are in the order of creation, are those of the destinations that are
\* not gone, and go with their bucket.
TableInv ==
    /\ Ids \subseteq Nat \ {0}
    /\ \A i \in Ids : rows[i] \in DOMAIN made /\ i <= rows[i]
    /\ \A i, j \in Ids : i < j => rows[i] < rows[j]
    /\ \A d \in DOMAIN made : gone[d] = Present => \E i \in Ids : rows[i] = d
    /\ \A i \in Ids : gone[rows[i]] = Present
    /\ \A b \in buckets : born[b] # <<>>
    /\ BucketStateDies

\* Event e is for destination d.
For(d, e) ==
    /\ d \in DOMAIN made
    /\ made[d].bucket = events[e].bucket
    /\ Matches(made[d].draft, events[e].change)

\* The posts of event e.
PostsOf(e) == {p \in DOMAIN posts : posts[p].event = e}

\* What the task of e has to post is in order, and for its destinations.
TodoInv(e) ==
    /\ \A k, m \in DOMAIN tasks[e].todo : k < m => tasks[e].todo[k] < tasks[e].todo[m]
    /\ \A k \in DOMAIN tasks[e].todo : For(tasks[e].todo[k], e) /\ gone[tasks[e].todo[k]] >= e

\* So is what it has posted.
PostedInv(e) ==
    /\ \A p, q \in PostsOf(e) : p < q => posts[p].to < posts[q].to
    /\ \A p \in PostsOf(e) : For(posts[p].to, e) /\ gone[posts[p].to] >= e

\* What it has posted comes before what it has to post; it awaits the answer to
\* its last post, to the first that it has to post.
ProgressInv(e) ==
    /\ tasks[e].at \in {"send", "await"} <=> tasks[e].todo # <<>>
    /\ tasks[e].at \in {"load", "dropped"} => PostsOf(e) = {}
    /\ tasks[e].at = "send" =>
        \A p \in PostsOf(e) : \A k \in DOMAIN tasks[e].todo : posts[p].to < tasks[e].todo[k]
    /\ tasks[e].at = "await" =>
        \E p \in PostsOf(e) : posts[p].to = tasks[e].todo[1] /\ \A q \in PostsOf(e) : q <= p

\* A destination that was there and is still is in what the task has to post, or
\* has its line.
OwedInv(e) ==
    tasks[e].at \in {"send", "await", "over"} =>
        \A d \in 1..events[e].seen :
            gone[d] = Present /\ For(d, e) =>
                \/ d \in ElementsOf(tasks[e].todo)
                \/ \E p \in lines : posts[p].event = e /\ posts[p].to = d

Task(e) == TodoInv(e) /\ PostedInv(e) /\ ProgressInv(e) /\ OwedInv(e)

TasksInv == \A e \in DOMAIN tasks : Task(e)

\* The invariant.
NotifierInv == TypeInv /\ TableInv /\ TasksInv

------------------------------------------------------------------------------
(* The table.                                                              *)

\* The lengths and domains.
LEMMA Dims ==
    ASSUME TypeInv
    PROVE  /\ Len(made) \in Nat /\ DOMAIN made = 1..Len(made) /\ Len(made) <= MaxMade
           /\ DOMAIN gone = 1..Len(made)
           /\ Len(events) \in Nat /\ DOMAIN events = 1..Len(events) /\ DOMAIN tasks = 1..Len(events)
           /\ Len(posts) \in Nat /\ DOMAIN posts = 1..Len(posts)
           /\ MaxMade \in Nat /\ Present \in Nat /\ Len(events) < Present
           /\ IsFiniteSet(Creating) /\ Cardinality(Creating) \in Nat
<1>1. IsFiniteSet(Creating)
  <2>1. Creating \subseteq Admins  BY DEF Creating
  <2> QED BY <2>1, BoundsAssumption, FS_Subset
<1>2. Cardinality(Creating) \in Nat  BY <1>1, FS_CardinalityType
<1>3. /\ Len(made) \in Nat /\ DOMAIN made = 1..Len(made) /\ DOMAIN gone = 1..Len(made)
      /\ Len(events) \in Nat /\ DOMAIN events = 1..Len(events) /\ DOMAIN tasks = 1..Len(events)
      /\ Len(posts) \in Nat /\ DOMAIN posts = 1..Len(posts)
  BY DEF TypeInv
<1>4. MaxMade \in Nat /\ MaxEvents \in Nat  BY BoundsAssumption
<1>5. Len(made) <= MaxMade  BY <1>2, <1>3, <1>4 DEF TypeInv
<1>6. Present \in Nat /\ Len(events) < Present  BY <1>3, <1>4 DEF Present, TypeInv
<1> QED BY <1>1, <1>2, <1>3, <1>4, <1>5, <1>6

\* The ids are finitely many.
LEMMA IdsFinite ==
    ASSUME TypeInv, TableInv
    PROVE  Ids \in SUBSET (1..Len(made)) /\ IsFiniteSet(Ids)
<1>1. \A i \in Ids : i \in 1..Len(made)
  <2> SUFFICES ASSUME NEW i \in Ids  PROVE i \in 1..Len(made)
    OBVIOUS
  <2>1. i \in Nat \ {0} /\ rows[i] \in DOMAIN made /\ i <= rows[i]  BY DEF TableInv
  <2>2. rows[i] \in 1..Len(made) /\ Len(made) \in Nat  BY <2>1, Dims
  <2> QED BY <2>1, <2>2
<1>2. IsFiniteSet(1..Len(made))
  <2>1. 1 \in Int /\ Len(made) \in Int  BY Dims
  <2> QED BY <2>1, FS_Interval
<1> QED BY <1>1, <1>2, FS_Subset

\* A finite set of numbers that is not empty has a greatest.
LEMMA HasGreatest ==
    ASSUME NEW I \in SUBSET Nat, IsFiniteSet(I), I # {}
    PROVE  \E m \in I : \A i \in I : i <= m
<1> DEFINE s == Sorted(I)
           n == Cardinality(I)
<1>1. /\ s \in Seq(I) /\ Len(s) = n
      /\ \A k, m \in DOMAIN s : k < m => s[k] < s[m]
      /\ \A i \in I : \E k \in DOMAIN s : s[k] = i
  BY SortedIs
<1>2. n \in Nat /\ n # 0  BY FS_CardinalityType, FS_EmptySet
<1> HIDE DEF s, n
<1>3. DOMAIN s = 1..n /\ n \in DOMAIN s /\ s[n] \in I  BY <1>1, <1>2
<1>4. \A i \in I : i <= s[n]
  <2> SUFFICES ASSUME NEW i \in I  PROVE i <= s[n]
    OBVIOUS
  <2>1. PICK k \in 1..n : s[k] = i  BY <1>1, <1>3
  <2>2. k = n \/ k < n  BY <1>2
  <2>3. s[n] \in Nat /\ i \in Nat  BY <1>3
  <2>4. s[k] < s[n] \/ k = n  BY <2>2, <1>1, <1>3
  <2> QED BY <2>1, <2>3, <2>4
<1> QED BY <1>3, <1>4

\* The id of a new row is beyond those in use, and there is one.
LEMMA NextIdIs ==
    ASSUME TypeInv, TableInv
    PROVE  /\ NextId \in Nat \ {0} /\ NextId <= Len(made) + 1
           /\ \A j \in Ids : j < NextId
<1> DEFINE Free(i) == (i = 1 \/ i - 1 \in Ids) /\ \A j \in Ids : j < i
<1>1. Ids \in SUBSET (1..Len(made)) /\ IsFiniteSet(Ids) /\ Len(made) \in Nat /\ MaxMade \in Nat
      /\ Len(made) <= MaxMade
  BY IdsFinite, Dims
<1>2. \E i \in 1..(MaxMade + 1) : Free(i)
  <2>1. CASE Ids = {}
    <3>1. 1 \in 1..(MaxMade + 1)  BY <1>1
    <3>2. Free(1)  BY <2>1
    <3> QED BY <3>1, <3>2
  <2>2. CASE Ids # {}
    <3>1. Ids \in SUBSET Nat  BY <1>1
    <3>2. PICK m \in Ids : \A i \in Ids : i <= m  BY <1>1, <2>2, <3>1, HasGreatest
    <3>3. m \in 1..Len(made) /\ m + 1 \in 1..(MaxMade + 1) /\ m + 1 - 1 = m  BY <1>1
    <3>4. \A j \in Ids : j < m + 1
      <4> SUFFICES ASSUME NEW j \in Ids  PROVE j < m + 1
        OBVIOUS
      <4>1. j \in Nat /\ m \in Nat /\ j <= m  BY <3>1, <3>2
      <4> QED BY <4>1
    <3>5. Free(m + 1)  BY <3>3, <3>4
    <3> QED BY <3>3, <3>5
  <2> QED BY <2>1, <2>2
<1>3. NextId \in 1..(MaxMade + 1) /\ Free(NextId)  BY <1>2 DEF NextId
<1> DEFINE k == NextId
<1> HIDE DEF k
<1>4. k \in 1..(MaxMade + 1) /\ (k = 1 \/ k - 1 \in Ids) /\ \A j \in Ids : j < k  BY <1>3 DEF k
<1>5. k \in Nat \ {0} /\ k <= Len(made) + 1
  <2>1. k \in Nat \ {0}  BY <1>1, <1>4
  <2>2. k = 1 \/ k - 1 \in 1..Len(made)  BY <1>1, <1>4
  <2> QED BY <1>1, <2>1, <2>2
<1> QED BY <1>4, <1>5 DEF k

\* The destinations of a bucket, as they are read: all that are there, in the
\* order of creation.
LEMMA DestinationsAre ==
    ASSUME TypeInv, TableInv, NEW b
    PROVE  /\ Destinations(b) \in Seq(DOMAIN made)
           /\ \A k, m \in DOMAIN Destinations(b) : k < m => Destinations(b)[k] < Destinations(b)[m]
           /\ \A k \in DOMAIN Destinations(b) : /\ made[Destinations(b)[k]].bucket = b
                                                /\ gone[Destinations(b)[k]] = Present
           /\ \A d \in DOMAIN made : made[d].bucket = b /\ gone[d] = Present
                                        => \E k \in DOMAIN Destinations(b) : Destinations(b)[k] = d
<1> DEFINE I == {i \in Ids : made[rows[i]].bucket = b}
           s == Sorted(I)
           D == Destinations(b)
<1>1. I \in SUBSET Nat /\ IsFiniteSet(I)
  <2>1. Ids \in SUBSET Nat /\ IsFiniteSet(Ids)  BY IdsFinite, Dims
  <2> QED BY <2>1, FS_Subset
<1>2. D = [n \in DOMAIN s |-> rows[s[n]]]  BY DEF Destinations
<1>3. \A i \in I : i \in Ids /\ made[rows[i]].bucket = b /\ rows[i] \in DOMAIN made /\ gone[rows[i]] = Present
  BY DEF TableInv
<1>4. \A d \in DOMAIN made : made[d].bucket = b /\ gone[d] = Present => \E i \in I : rows[i] = d
  BY DEF TableInv
<1> HIDE DEF I
<1>5. /\ s \in Seq(I) /\ \A k, m \in DOMAIN s : k < m => s[k] < s[m]
      /\ \A i \in I : \E k \in DOMAIN s : s[k] = i
  BY <1>1, SortedIs
<1> HIDE DEF s, D
<1>6. DOMAIN s = 1..Len(s) /\ Len(s) \in Nat /\ \A k \in DOMAIN s : s[k] \in I  BY <1>5
<1>7. DOMAIN D = DOMAIN s /\ \A k \in DOMAIN s : D[k] = rows[s[k]] /\ D[k] \in DOMAIN made  BY <1>2, <1>3, <1>6
<1>8. D \in Seq(DOMAIN made)
  <2>1. D \in [1..Len(s) -> DOMAIN made]  BY <1>2, <1>6, <1>7
  <2> QED BY <2>1, <1>6
<1>9. \A k, m \in DOMAIN D : k < m => D[k] < D[m]
  <2>1. \A k, m \in DOMAIN s : k < m => rows[s[k]] < rows[s[m]]
    BY <1>3, <1>5, <1>6 DEF TableInv
  <2> QED BY <2>1, <1>7
<1>10. \A k \in DOMAIN D : made[D[k]].bucket = b /\ gone[D[k]] = Present  BY <1>3, <1>6, <1>7
<1>11. \A d \in DOMAIN made : made[d].bucket = b /\ gone[d] = Present => \E k \in DOMAIN D : D[k] = d
  BY <1>4, <1>5, <1>7
<1> QED BY <1>8, <1>9, <1>10, <1>11 DEF D

------------------------------------------------------------------------------
(* Tasks that do not move.                                                 *)

\* Whom an event is for does not change.
LEMMA ForStays ==
    ASSUME NEW d, NEW e, d \in DOMAIN made => d \in DOMAIN made' /\ made'[d] = made[d],
           events'[e] = events[e], For(d, e)
    PROVE  For(d, e)'
BY DEF For

\* An element of a sequence.
LEMMA ElementIn ==
    ASSUME NEW S, NEW s \in Seq(S), NEW i \in DOMAIN s
    PROVE  s[i] \in S
OBVIOUS

\* An event and its task.
LEMMA EntryTyped ==
    ASSUME TypeInv, NEW e \in DOMAIN tasks
    PROVE  /\ e \in DOMAIN events /\ e \in 1..Len(events) /\ e \in Nat
           /\ events[e].bucket \in Buckets /\ events[e].change \in Changes
           /\ events[e].seen \in Nat /\ events[e].seen <= Len(made)
           /\ tasks[e] = [at |-> tasks[e].at, todo |-> tasks[e].todo]
           /\ tasks[e].at \in {"load", "send", "await", "over", "dropped", "lost"}
           /\ tasks[e].todo \in Seq(Nat)
<1>1. e \in DOMAIN events /\ e \in 1..Len(events) /\ e \in Nat  BY Dims
<1>2. events[e] \in [bucket : Buckets, change : Changes, seen : Nat]
  <2>1. events \in Seq([bucket : Buckets, change : Changes, seen : Nat])  BY DEF TypeInv
  <2> QED BY <1>1, <2>1, ElementIn
<1>3. tasks[e] \in [at : {"load", "send", "await", "over", "dropped", "lost"}, todo : Seq(Nat)]
  <2>1. tasks \in Seq([at : {"load", "send", "await", "over", "dropped", "lost"}, todo : Seq(Nat)])
    BY DEF TypeInv
  <2> QED BY <2>1, ElementIn
<1>4. events[e].seen <= Len(made)  BY <1>1 DEF TypeInv
<1> QED BY <1>1, <1>2, <1>3, <1>4

\* A task stays sound when the table changes, other events are committed and
\* other tasks post.
LEMMA TaskSurvives ==
    ASSUME TypeInv, NEW e \in DOMAIN tasks, Task(e), tasks'[e] = tasks[e], events'[e] = events[e],
           DOMAIN posts \subseteq DOMAIN posts', \A p \in DOMAIN posts : posts'[p] = posts[p],
           \A p \in DOMAIN posts' : p \notin DOMAIN posts => posts'[p].event # e,
           lines \subseteq lines',
           DOMAIN made \subseteq DOMAIN made', \A d \in DOMAIN made : made'[d] = made[d],
           \A d \in DOMAIN made : /\ gone[d] >= e => gone'[d] >= e
                                  /\ gone'[d] = Present => gone[d] = Present
    PROVE  Task(e)'
<1>1. PostsOf(e)' = PostsOf(e)  BY DEF PostsOf
<1>2. \A p \in PostsOf(e) : posts'[p] = posts[p]  BY DEF PostsOf
<1>3. \A d : For(d, e) => For(d, e)' /\ d \in DOMAIN made
  <2> SUFFICES ASSUME NEW d, For(d, e)  PROVE For(d, e)' /\ d \in DOMAIN made
    OBVIOUS
  <2>1. d \in DOMAIN made  BY DEF For
  <2> QED BY <2>1, ForStays
<1>4. \A d \in DOMAIN made : For(d, e)' => For(d, e)  BY DEF For
<1>5. TodoInv(e)'  BY <1>3 DEF Task, TodoInv
<1>6. PostedInv(e)'  BY <1>1, <1>2, <1>3 DEF Task, PostedInv
<1>7. ProgressInv(e)'  BY <1>1, <1>2 DEF Task, ProgressInv
<1>8. OwedInv(e)'
  <2> SUFFICES ASSUME tasks[e].at \in {"send", "await", "over"}, NEW d \in 1..events[e].seen,
                      gone'[d] = Present, For(d, e)'
               PROVE  \/ d \in ElementsOf(tasks[e].todo)
                      \/ \E p \in lines' : posts'[p].event = e /\ posts'[p].to = d
    BY DEF OwedInv, Present, ElementsOf
  <2>1. d \in DOMAIN made
    <3>1. events[e].seen <= Len(made) /\ events[e].seen \in Nat  BY EntryTyped
    <3> QED BY <3>1, Dims
  <2>2. For(d, e) /\ gone[d] = Present  BY <2>1, <1>4
  <2>3. lines \subseteq DOMAIN posts  BY DEF TypeInv
  <2> QED BY <2>2, <2>3 DEF Task, OwedInv
<1> QED BY <1>5, <1>6, <1>7, <1>8 DEF Task

\* All do when tasks, events and posts are kept and destinations only come, or
\* go now.
LEMMA TasksSurvive ==
    ASSUME TypeInv, TasksInv, UNCHANGED <<events, tasks, posts, lines>>,
           DOMAIN made \subseteq DOMAIN made', \A d \in DOMAIN made : made'[d] = made[d],
           \A d \in DOMAIN made : gone'[d] = gone[d] \/ gone'[d] = Len(events)
    PROVE  TasksInv'
<1> SUFFICES ASSUME NEW e \in DOMAIN tasks  PROVE Task(e)'
  BY DEF TasksInv
<1>1. Task(e)  BY DEF TasksInv
<1>2. \A d \in DOMAIN made : /\ gone[d] >= e => gone'[d] >= e
                             /\ gone'[d] = Present => gone[d] = Present
  <2>1. e \in 1..Len(events) /\ Len(events) \in Nat /\ Len(events) < Present /\ Present \in Nat
    BY Dims, EntryTyped
  <2> QED BY <2>1
<1> QED BY <1>1, <1>2, TaskSurvives

------------------------------------------------------------------------------
(* Buckets and destinations come and go.                                   *)

\* A bucket is created: it has no rows.
LEMMA CreateBucketKeeps ==
    ASSUME NotifierInv, NEW b \in Buckets, CreateBucket(b)
    PROVE  NotifierInv'
<1> USE DEF NotifierInv
<1>1. /\ b \notin buckets /\ buckets' = buckets \union {b}
      /\ born' = [born EXCEPT ![b] = Append(born[b], Len(made))]
      /\ UNCHANGED <<rows, creating, boot, events, tasks, posts, lines, made, gone>>
  BY DEF CreateBucket, traffic
<1>2. Len(made) \in Nat /\ born[b] \in Seq(Nat)  BY Dims DEF TypeInv
<1>3. \A c \in Buckets : c # b => born'[c] = born[c]  BY <1>1 DEF TypeInv
<1>4. born'[b] = Append(born[b], Len(made))  BY <1>1 DEF TypeInv
<1>5. born'[b] \in Seq(Nat) /\ born'[b] # <<>> /\ \A i \in DOMAIN born'[b] : born'[b][i] <= Len(made)
  <2> DEFINE s == born[b]
             t == Append(s, Len(made))
  <2>1. \A i \in DOMAIN s : s[i] <= Len(made)  BY DEF TypeInv
  <2> HIDE DEF s
  <2>2. /\ t \in Seq(Nat) /\ t # <<>> /\ DOMAIN t = 1..(Len(s) + 1) /\ DOMAIN s = 1..Len(s) /\ Len(s) \in Nat
        /\ t[Len(s) + 1] = Len(made) /\ \A i \in DOMAIN s : t[i] = s[i]
    BY <1>2 DEF s
  <2>3. \A i \in DOMAIN t : t[i] <= Len(made)
    <3> HIDE DEF t
    <3>1. \A i \in DOMAIN t : i \in DOMAIN s \/ i = Len(s) + 1  BY <2>2
    <3> QED BY <2>1, <2>2, <3>1, <1>2
  <2> QED BY <2>2, <2>3, <1>4 DEF s
<1>6. TypeInv'
  <2>1. born' \in [Buckets -> Seq(Nat)]  BY <1>1, <1>4, <1>5 DEF TypeInv
  <2>2. \A c \in Buckets : \A i \in DOMAIN born'[c] : born'[c][i] <= Len(made)
    BY <1>3, <1>5 DEF TypeInv
  <2>3. buckets' \subseteq Buckets  BY <1>1 DEF TypeInv
  <2> QED BY <1>1, <2>1, <2>2, <2>3 DEF TypeInv, Creating, Present
<1>7. TableInv'
  <2>1. \A c \in buckets' : born'[c] # <<>>  BY <1>1, <1>3, <1>5 DEF TableInv, TypeInv
  <2>2. BucketStateDies'
    <3> SUFFICES ASSUME NEW i \in Ids
                 PROVE  /\ made[rows[i]].bucket \in buckets'
                        /\ rows[i] > Last(born'[made[rows[i]].bucket])
      BY <1>1 DEF BucketStateDies, Ids
    <3> DEFINE c == made[rows[i]].bucket
    <3>1. c \in buckets /\ rows[i] > Last(born[c])  BY DEF TableInv, BucketStateDies
    <3>2. c # b /\ c \in Buckets  BY <3>1, <1>1 DEF TypeInv
    <3> HIDE DEF c
    <3>3. born'[c] = born[c] /\ c \in buckets'  BY <1>1, <1>3, <3>1, <3>2
    <3> QED BY <3>1, <3>3 DEF c
  <2> QED BY <1>1, <2>1, <2>2 DEF TableInv, Ids, Present
<1>8. TasksInv'  BY <1>1, TasksSurvive
<1> QED BY <1>6, <1>7, <1>8

\* Rows go, with their bucket or without.
LEMMA RemoveRowsKeeps ==
    ASSUME NotifierInv, NEW ids \in SUBSET Ids, RemoveRows(ids),
           buckets' \subseteq buckets, \A i \in Ids \ ids : made[rows[i]].bucket \in buckets',
           UNCHANGED <<creating, boot, events, tasks, posts, lines, made, born>>
    PROVE  NotifierInv'
<1> USE DEF NotifierInv
<1>1. Ids' = Ids \ ids /\ \A i \in Ids' : rows'[i] = rows[i]  BY DEF RemoveRows, Ids
<1>2. Len(events) \in Nat /\ Len(events) < Present /\ Present \in Nat /\ Len(made) \in Nat
      /\ DOMAIN made = 1..Len(made) /\ DOMAIN gone = 1..Len(made)
  BY Dims
<1>3. \A d \in DOMAIN made : gone'[d] = IF \E i \in ids : rows[i] = d THEN Len(events) ELSE gone[d]
  BY DEF RemoveRows
<1>4. gone' \in Seq(Nat) /\ Len(gone') = Len(made) /\ \A d \in DOMAIN gone' : gone'[d] <= Present
  <2>1. \A d \in DOMAIN made : gone[d] \in Nat /\ gone[d] <= Present  BY <1>2 DEF TypeInv
  <2>2. \A d \in DOMAIN made : gone'[d] \in Nat /\ gone'[d] <= Present  BY <2>1, <1>2, <1>3
  <2>3. DOMAIN gone' = DOMAIN made  BY DEF RemoveRows
  <2>4. gone' = [d \in 1..Len(made) |-> gone'[d]]  BY <1>2 DEF RemoveRows
  <2>5. gone' \in [1..Len(made) -> Nat]  BY <2>2, <2>4, <1>2
  <2> QED BY <1>2, <2>2, <2>3, <2>5
<1>5. TypeInv'
  BY <1>2, <1>4 DEF TypeInv, Creating, Present
<1>6. \A i \in Ids' : gone'[rows'[i]] = Present
  <2> SUFFICES ASSUME NEW i \in Ids \ ids  PROVE gone'[rows[i]] = Present
    BY <1>1
  <2>1. \A j \in ids : rows[j] # rows[i]
    <3> SUFFICES ASSUME NEW j \in ids  PROVE rows[j] # rows[i]
      OBVIOUS
    <3>1. i \in Nat /\ j \in Nat /\ i # j  BY DEF TableInv
    <3>2. i < j \/ j < i  BY <3>1
    <3>3. rows[i] \in Nat /\ rows[j] \in Nat
      <4>1. rows[i] \in DOMAIN made /\ rows[j] \in DOMAIN made  BY DEF TableInv
      <4> QED BY <4>1, <1>2
    <3>4. rows[i] < rows[j] \/ rows[j] < rows[i]  BY <3>2 DEF TableInv
    <3> QED BY <3>3, <3>4
  <2>2. rows[i] \in DOMAIN made /\ gone[rows[i]] = Present  BY DEF TableInv
  <2> QED BY <2>1, <2>2, <1>3
<1>7. \A d \in DOMAIN made : gone'[d] = Present => \E i \in Ids' : rows'[i] = d
  <2> SUFFICES ASSUME NEW d \in DOMAIN made, gone'[d] = Present  PROVE \E i \in Ids' : rows'[i] = d
    OBVIOUS
  <2>1. gone[d] = Present /\ ~ \E i \in ids : rows[i] = d  BY <1>2, <1>3
  <2>2. PICK i \in Ids : rows[i] = d  BY <2>1 DEF TableInv
  <2> QED BY <2>1, <2>2, <1>1
<1>8. BucketStateDies'
  <2> SUFFICES ASSUME NEW i \in Ids \ ids
               PROVE  made[rows[i]].bucket \in buckets' /\ rows[i] > Last(born[made[rows[i]].bucket])
    BY <1>1 DEF BucketStateDies
  <2> QED BY DEF TableInv, BucketStateDies
<1>9. TableInv'
  BY <1>1, <1>6, <1>7, <1>8 DEF TableInv, Present
<1>10. TasksInv'  BY <1>3, TasksSurvive
<1> QED BY <1>5, <1>9, <1>10

LEMMA DeleteBucketKeeps ==
    ASSUME NotifierInv, NEW b \in Buckets, DeleteBucket(b)
    PROVE  NotifierInv'
<1> DEFINE ids == {i \in Ids : made[rows[i]].bucket = b}
<1>1. /\ RemoveRows(ids) /\ buckets' = buckets \ {b}
      /\ UNCHANGED <<creating, boot, events, tasks, posts, lines, made, born>>
  BY DEF DeleteBucket, Cascade, traffic
<1>2. \A i \in Ids \ ids : made[rows[i]].bucket \in buckets'
  BY <1>1 DEF NotifierInv, TableInv, BucketStateDies
<1>3. ids \in SUBSET Ids /\ buckets' \subseteq buckets  BY <1>1
<1> HIDE DEF ids
<1> QED BY <1>1, <1>2, <1>3, RemoveRowsKeeps

LEMMA DeleteDestinationKeeps ==
    ASSUME NotifierInv, NEW b \in Buckets, NEW i \in Ids, DeleteDestination(b, i)
    PROVE  NotifierInv'
<1>1. /\ RemoveRows({i}) /\ buckets' = buckets
      /\ UNCHANGED <<creating, boot, events, tasks, posts, lines, made, born>>
  BY DEF DeleteDestination, traffic
<1>2. \A j \in Ids \ {i} : made[rows[j]].bucket \in buckets'
  BY <1>1 DEF NotifierInv, TableInv, BucketStateDies
<1>3. {i} \in SUBSET Ids /\ buckets' \subseteq buckets  BY <1>1
<1> QED BY <1>1, <1>2, <1>3, RemoveRowsKeeps

\* The table is sound when it is kept.
LEMMA TableSurvives ==
    ASSUME TableInv, UNCHANGED <<table, made, gone, born>>
    PROVE  TableInv'
BY DEF TableInv, table, Ids, Present, BucketStateDies

\* A create request begins: there is room for what it may make.
LEMMA BeginCreateKeeps ==
    ASSUME NotifierInv, NEW a \in Admins, NEW b \in Buckets, BeginCreate(a, b)
    PROVE  NotifierInv'
<1> USE DEF NotifierInv
<1>1. /\ creating[a] = None /\ creating' = [creating EXCEPT ![a] = b]
      /\ UNCHANGED <<table, boot, events, tasks, posts, lines, made, gone, born>>
      /\ Len(made) + Cardinality(Creating) < MaxMade
  BY DEF BeginCreate, traffic, past, Creating
<1>2. Creating' = Creating \union {a} /\ a \notin Creating
  BY <1>1, BoundsAssumption DEF Creating, TypeInv
<1>3. Cardinality(Creating') = Cardinality(Creating) + 1
  BY <1>2, Dims, FS_AddElement
<1>4. TypeInv'
  <2>1. creating' \in [Admins -> Buckets \union {None}]  BY <1>1 DEF TypeInv
  <2>2. Len(made') + Cardinality(Creating') <= MaxMade  BY <1>1, <1>3, Dims
  <2> QED BY <1>1, <2>1, <2>2 DEF TypeInv, table, Present
<1>5. TableInv'  BY <1>1, TableSurvives
<1>6. TasksInv'  BY <1>1, TasksSurvive
<1> QED BY <1>4, <1>5, <1>6

\* A create request ends, with a destination or without.
LEMMA EndCreateKeeps ==
    ASSUME NotifierInv, NEW a \in Admins, EndCreate(a)
    PROVE  NotifierInv'
<1> USE DEF NotifierInv
<1>1. /\ creating[a] # None /\ creating' = [creating EXCEPT ![a] = None]
      /\ UNCHANGED <<buckets, boot, events, tasks, posts, lines, born>>
  BY DEF EndCreate, traffic
<1>2. Creating' = Creating \ {a} /\ a \in Creating
  BY <1>1 DEF Creating, TypeInv
<1>3. Cardinality(Creating') = Cardinality(Creating) - 1 /\ Cardinality(Creating') \in Nat
  <2>1. IsFiniteSet(Creating')  BY <1>2, Dims, FS_RemoveElement
  <2> QED BY <2>1, <1>2, Dims, FS_RemoveElement, FS_CardinalityType
<1>4. creating' \in [Admins -> Buckets \union {None}]  BY <1>1 DEF TypeInv
<1>5. /\ Len(made) \in Nat /\ DOMAIN made = 1..Len(made) /\ DOMAIN gone = 1..Len(made)
      /\ MaxMade \in Nat /\ Present \in Nat
      /\ Len(made) + 1 + Cardinality(Creating') <= MaxMade
  BY <1>3, Dims DEF TypeInv
<1>6. CASE UNCHANGED <<rows, made, gone>>
  <2>1. TypeInv'
    <3>1. Len(made') + Cardinality(Creating') <= MaxMade  BY <1>3, <1>5, <1>6
    <3> QED BY <1>1, <1>4, <1>6, <3>1 DEF TypeInv, Present
  <2>2. TableInv'  BY <1>1, <1>6, TableSurvives DEF table
  <2>3. TasksInv'  BY <1>1, <1>6, TasksSurvive
  <2> QED BY <2>1, <2>2, <2>3
<1>7. ASSUME NEW d \in Drafts, Valid(d), InsertRow(creating[a], d)  PROVE NotifierInv'
  <2> DEFINE b == creating[a]
             n == Len(made) + 1
             x == [bucket |-> b, draft |-> d]
  <2>1. /\ b \in buckets /\ b \in Buckets
        /\ rows' = [i \in Ids \union {NextId} |-> IF i \in Ids THEN rows[i] ELSE n]
        /\ made' = Append(made, x) /\ gone' = Append(gone, Present)
    BY <1>7 DEF InsertRow, TypeInv
  <2>2. made \in Seq([bucket : Buckets, draft : Drafts]) /\ x \in [bucket : Buckets, draft : Drafts]
    BY <2>1 DEF TypeInv
  <2>3. /\ made' \in Seq([bucket : Buckets, draft : Drafts]) /\ Len(made') = n /\ DOMAIN made' = 1..n
        /\ made'[n] = x /\ \A k \in DOMAIN made : made'[k] = made[k]
    BY <2>1, <2>2
  <2>4. /\ gone' \in Seq(Nat) /\ Len(gone') = n /\ DOMAIN gone' = 1..n
        /\ gone'[n] = Present /\ \A k \in DOMAIN gone : gone'[k] = gone[k]
    <3>1. gone \in Seq(Nat) /\ Len(gone) = Len(made)  BY DEF TypeInv
    <3> QED BY <2>1, <3>1, <1>5
  <2>5. n \in Nat /\ 1..n = (1..Len(made)) \union {n} /\ n \notin 1..Len(made) /\ \A k \in 1..Len(made) : k < n
    BY <1>5
  <2>6. NextId \in Nat \ {0} /\ NextId <= n /\ \A j \in Ids : j < NextId  BY NextIdIs
  <2>7. NextId \notin Ids
    <3>1. ~(NextId < NextId)  BY <2>6
    <3> QED BY <2>6, <3>1
  <2>8. /\ Ids' = Ids \union {NextId} /\ rows'[NextId] = n /\ \A i \in Ids : rows'[i] = rows[i]
    BY <2>1, <2>7 DEF Ids
  <2> DEFINE k == NextId
  <2> HIDE DEF n, k
  <2>9. TypeInv'
    <3>0. \A e \in DOMAIN made' : e = n \/ (e \in DOMAIN made /\ e \in DOMAIN gone)
      BY <2>3, <2>5, <1>5
    <3>1. \A e \in DOMAIN made' : Valid(made'[e].draft)
      <4>1. \A e \in DOMAIN made : Valid(made'[e].draft)  BY <2>3 DEF TypeInv
      <4>2. Valid(made'[n].draft)  BY <1>7, <2>3
      <4> QED BY <3>0, <4>1, <4>2
    <3>2. Len(made') + Cardinality(Creating') <= MaxMade  BY <1>3, <1>5, <2>3 DEF n
    <3>3. \A e \in DOMAIN gone' : gone'[e] <= Present
      <4>1. \A e \in DOMAIN gone : gone'[e] <= Present  BY <2>4 DEF TypeInv
      <4>2. gone'[n] <= Present  BY <2>4, <1>5
      <4> QED BY <3>0, <4>1, <4>2, <2>3, <2>4
    <3>4. Len(made) <= Len(made')  BY <1>5, <2>3 DEF n
    <3>5. \A c \in Buckets : \A i \in DOMAIN born[c] : born[c][i] <= Len(made')
      <4> SUFFICES ASSUME NEW c \in Buckets, NEW i \in DOMAIN born[c]  PROVE born[c][i] <= Len(made')
        OBVIOUS
      <4>1. born[c] \in Seq(Nat) /\ born[c][i] <= Len(made)  BY DEF TypeInv
      <4>2. born[c][i] \in Nat  BY <4>1
      <4> QED BY <4>1, <4>2, <3>4, <1>5, <2>3, <2>5
    <3>6. \A e \in DOMAIN events : events[e].seen <= Len(made')
      <4> SUFFICES ASSUME NEW e \in DOMAIN events  PROVE events[e].seen <= Len(made')
        OBVIOUS
      <4>1. events[e].seen \in Nat /\ events[e].seen <= Len(made)  BY EntryTyped, Dims
      <4> QED BY <4>1, <3>4, <1>5, <2>3, <2>5
    <3> QED BY <1>1, <1>4, <2>3, <2>4, <3>1, <3>2, <3>3, <3>5, <3>6 DEF TypeInv, Present
  <2>10. TableInv'
    <3>1. \A i \in Ids : i \in Nat \ {0} /\ rows[i] \in 1..Len(made) /\ i <= rows[i] /\ i < k
      BY <2>6, <1>5 DEF TableInv, k
    <3>2. \A i \in Ids' : i = k \/ (i \in Ids /\ rows'[i] = rows[i])  BY <2>8 DEF k
    <3>3. Ids' \subseteq Nat \ {0}  BY <3>1, <3>2, <2>6 DEF k
    <3>4. \A i \in Ids' : rows'[i] \in DOMAIN made' /\ i <= rows'[i]
      BY <3>1, <3>2, <2>3, <2>5, <2>6, <2>8 DEF k
    <3>5. \A i, j \in Ids' : i < j => rows'[i] < rows'[j]
      <4> SUFFICES ASSUME NEW i \in Ids', NEW j \in Ids', i < j  PROVE rows'[i] < rows'[j]
        OBVIOUS
      <4>1. k \in Nat  BY <2>6 DEF k
      <4>2. i # k  BY <3>1, <3>2, <4>1
      <4>3. i \in Ids /\ rows'[i] = rows[i]  BY <3>2, <4>2
      <4>4. CASE j = k  BY <4>3, <4>4, <3>1, <2>5, <2>8 DEF k
      <4>5. CASE j # k  BY <4>3, <4>5, <3>2 DEF TableInv
      <4> QED BY <4>4, <4>5
    <3>6. \A e \in DOMAIN made' : gone'[e] = Present => \E i \in Ids' : rows'[i] = e
      <4> SUFFICES ASSUME NEW e \in DOMAIN made', gone'[e] = Present  PROVE \E i \in Ids' : rows'[i] = e
        OBVIOUS
      <4>1. CASE e = n  BY <4>1, <2>8
      <4>2. CASE e # n
        <5>1. e \in DOMAIN made /\ gone[e] = Present  BY <4>2, <2>3, <2>4, <2>5, <1>5
        <5> QED BY <5>1, <2>8 DEF TableInv
      <4> QED BY <4>1, <4>2
    <3>7. \A i \in Ids' : gone'[rows'[i]] = Present
      <4> SUFFICES ASSUME NEW i \in Ids'  PROVE gone'[rows'[i]] = Present
        OBVIOUS
      <4>1. CASE i = k  BY <4>1, <2>4, <2>8 DEF k
      <4>2. CASE i # k
        <5>1. i \in Ids /\ rows'[i] = rows[i]  BY <4>2, <3>2
        <5>2. rows[i] \in DOMAIN gone /\ gone[rows[i]] = Present  BY <5>1, <3>1, <1>5 DEF TableInv
        <5> QED BY <5>1, <5>2, <2>4
      <4> QED BY <4>1, <4>2
    <3>8. \A c \in buckets' : born'[c] # <<>>  BY <1>1 DEF TableInv
    <3>9. BucketStateDies'
      <4> SUFFICES ASSUME NEW i \in Ids'
                   PROVE  /\ made'[rows'[i]].bucket \in buckets
                          /\ rows'[i] > Last(born[made'[rows'[i]].bucket])
        BY <1>1 DEF BucketStateDies
      <4>1. CASE i = k
        <5>1. made'[rows'[i]].bucket = b /\ rows'[i] = n  BY <4>1, <2>3, <2>8 DEF k
        <5>2. born[b] \in Seq(Nat) /\ born[b] # <<>>  BY <2>1 DEF TableInv, TypeInv
        <5>3. Last(born[b]) \in Nat /\ Last(born[b]) <= Len(made)
          <6> DEFINE s == born[b]
          <6>1. \A j \in DOMAIN s : s[j] <= Len(made)  BY <2>1 DEF TypeInv
          <6>2. s \in Seq(Nat) /\ s # <<>>  BY <5>2
          <6> HIDE DEF s
          <6>3. Len(s) \in DOMAIN s /\ Last(s) = s[Len(s)] /\ Last(s) \in Nat  BY <6>2 DEF Last
          <6> QED BY <6>1, <6>3 DEF s
        <5>4. n > Last(born[b])  BY <5>3, <1>5 DEF n
        <5> QED BY <2>1, <5>1, <5>4
      <4>2. CASE i # k
        <5>1. i \in Ids /\ rows'[i] = rows[i]  BY <4>2, <3>2
        <5>2. rows[i] \in DOMAIN made /\ made'[rows[i]] = made[rows[i]]  BY <5>1, <2>3 DEF TableInv
        <5> QED BY <5>1, <5>2 DEF TableInv, BucketStateDies
      <4> QED BY <4>1, <4>2
    <3> QED BY <3>3, <3>4, <3>5, <3>6, <3>7, <3>8, <3>9 DEF TableInv, Present
  <2>11. TasksInv'
    <3>1. DOMAIN made \subseteq DOMAIN made'  BY <1>5, <2>3, <2>5
    <3>2. \A e \in DOMAIN made : gone'[e] = gone[e]  BY <1>5, <2>4
    <3> QED BY <1>1, <2>3, <3>1, <3>2, TasksSurvive
  <2> QED BY <2>9, <2>10, <2>11
<1> QED BY <1>6, <1>7 DEF EndCreate

------------------------------------------------------------------------------
(* Tasks.                                                                  *)

\* The states of a task.
TaskStates == [at : {"load", "send", "await", "over", "dropped", "lost"}, todo : Seq(Nat)]

\* An event is committed: its task has done nothing.
LEMMA CommitKeeps ==
    ASSUME NotifierInv, NEW b \in Buckets, NEW c \in Changes, Commit(b, c)
    PROVE  NotifierInv'
<1> USE DEF NotifierInv
<1> DEFINE n == Len(events) + 1
           x == [bucket |-> b, change |-> c, seen |-> Len(made)]
           y == [at |-> "load", todo |-> <<>>]
<1>1. /\ events' = Append(events, x) /\ tasks' = Append(tasks, y) /\ Len(events) < MaxEvents
      /\ UNCHANGED <<table, creating, boot, posts, lines, made, gone, born>>
  BY DEF Commit, traffic, past
<1>2. /\ Len(events) \in Nat /\ Len(made) \in Nat /\ n \in Nat
      /\ DOMAIN events = 1..Len(events) /\ DOMAIN tasks = 1..Len(events)
      /\ 1..n = (1..Len(events)) \union {n} /\ n \notin 1..Len(events)
  BY Dims
<1>3. x \in [bucket : Buckets, change : Changes, seen : Nat] /\ y \in TaskStates
  <2>1. <<>> \in Seq(Nat)  OBVIOUS
  <2> QED BY <2>1, <1>2 DEF TaskStates
<1>4. events \in Seq([bucket : Buckets, change : Changes, seen : Nat]) /\ tasks \in Seq(TaskStates) /\ Len(tasks) = Len(events)
  BY DEF TypeInv, TaskStates
<1> HIDE DEF x, y
<1>5. /\ events' \in Seq([bucket : Buckets, change : Changes, seen : Nat]) /\ Len(events') = n
      /\ DOMAIN events' = 1..n
      /\ events'[n] = x /\ \A e \in DOMAIN events : events'[e] = events[e]
  BY <1>1, <1>3, <1>4
<1>6. /\ tasks' \in Seq(TaskStates) /\ Len(tasks') = n /\ DOMAIN tasks' = 1..n
      /\ tasks'[n] = y /\ \A e \in DOMAIN tasks : tasks'[e] = tasks[e]
  BY <1>1, <1>3, <1>4
<1>7. Len(events') <= MaxEvents  BY <1>1, <1>2, <1>5, BoundsAssumption
<1> HIDE DEF n
<1>8. TypeInv'
  <2>1. \A e \in DOMAIN events' : events'[e].seen <= Len(made)
    <3>1. events'[n].seen <= Len(made)  BY <1>2, <1>5 DEF x
    <3>2. \A e \in DOMAIN events : events'[e].seen <= Len(made)  BY <1>5 DEF TypeInv
    <3> QED BY <3>1, <3>2, <1>2, <1>5
  <2>2. \A p \in DOMAIN posts : posts[p].event \in DOMAIN events'  BY <1>2, <1>5 DEF TypeInv
  <2> QED BY <1>1, <1>5, <1>6, <1>7, <2>1, <2>2 DEF TypeInv, TaskStates, table, Creating, Present
<1>9. TableInv'  BY <1>1, TableSurvives
<1>10. TasksInv'
  <2> SUFFICES ASSUME NEW e \in 1..n  PROVE Task(e)'
    BY <1>6 DEF TasksInv
  <2>1. CASE e # n
    <3>1. e \in DOMAIN tasks /\ e \in DOMAIN events  BY <2>1, <1>2
    <3>2. Task(e) /\ tasks'[e] = tasks[e] /\ events'[e] = events[e]  BY <3>1, <1>5, <1>6 DEF TasksInv
    <3> QED BY <3>1, <3>2, <1>1, TaskSurvives
  <2>2. CASE e = n
    <3>1. tasks'[e].at = "load" /\ tasks'[e].todo = <<>> /\ DOMAIN tasks'[e].todo = {}
      BY <2>2, <1>6 DEF y
    <3>2. PostsOf(e)' = {}
      <4>1. \A p \in DOMAIN posts : posts[p].event # e  BY <2>2, <1>2 DEF TypeInv
      <4> QED BY <4>1, <1>1 DEF PostsOf
    <3> QED BY <3>1, <3>2 DEF Task, TodoInv, PostedInv, ProgressInv, OwedInv
  <2> QED BY <2>1, <2>2
<1> QED BY <1>8, <1>9, <1>10

\* When one task moves and is sound after, all is.
LEMMA OneTaskMoves ==
    ASSUME NotifierInv, NEW e \in DOMAIN tasks, NEW x \in TaskStates, tasks' = [tasks EXCEPT ![e] = x],
           UNCHANGED <<table, creating, boot, events, past>>,
           posts' \in Seq([event : Nat, to : Nat]),
           DOMAIN posts \subseteq DOMAIN posts', \A p \in DOMAIN posts : posts'[p] = posts[p],
           \A p \in DOMAIN posts' : p \notin DOMAIN posts => posts'[p].event = e,
           lines \subseteq lines', lines' \subseteq DOMAIN posts',
           Task(e)'
    PROVE  NotifierInv'
<1> USE DEF NotifierInv
<1>1. /\ DOMAIN tasks' = DOMAIN tasks /\ Len(tasks') = Len(tasks) /\ tasks' \in Seq(TaskStates)
      /\ \A f \in DOMAIN tasks : f # e => tasks'[f] = tasks[f]
  <2>1. tasks \in Seq(TaskStates)  BY DEF TypeInv, TaskStates
  <2> HIDE DEF NotifierInv
  <2> QED BY <2>1
<1>2. e \in DOMAIN events /\ DOMAIN tasks = DOMAIN events  BY Dims
<1>3. TypeInv'
  <2>1. \A p \in DOMAIN posts' : posts'[p].event \in DOMAIN events
    BY <1>2 DEF TypeInv
  <2> QED BY <1>1, <2>1 DEF TypeInv, TaskStates, table, past, Creating, Present
<1>4. TableInv'  BY TableSurvives DEF past
<1>5. TasksInv'
  <2> SUFFICES ASSUME NEW f \in DOMAIN tasks  PROVE Task(f)'
    BY <1>1 DEF TasksInv
  <2>1. CASE f # e
    <3>1. Task(f) /\ tasks'[f] = tasks[f]  BY <2>1, <1>1 DEF TasksInv
    <3>2. \A p \in DOMAIN posts' : p \notin DOMAIN posts => posts'[p].event # f  BY <2>1
    <3> QED BY <3>1, <3>2, TaskSurvives DEF past
  <2>2. CASE f = e  BY <2>2
  <2> QED BY <2>1, <2>2
<1> QED BY <1>3, <1>4, <1>5

\* The task reads its destinations.
LEMMA LoadKeeps ==
    ASSUME NotifierInv, NEW e \in DOMAIN tasks, Load(e)
    PROVE  NotifierInv'
<1> DEFINE D == Destinations(events[e].bucket)
           S == {d \in DOMAIN made : Matches(made[d].draft, events[e].change)}
           P == Places(D, S)
           todo == Only(D, S)
           x == [at |-> IF todo = <<>> THEN "over" ELSE "send", todo |-> todo]
<1>1. /\ tasks[e].at = "load" /\ tasks' = [tasks EXCEPT ![e] = x]
      /\ UNCHANGED <<table, creating, boot, events, posts, lines, past>>
  BY DEF Load, Proceed, traffic
<1>2. TypeInv /\ TableInv /\ Task(e)  BY DEF NotifierInv, TasksInv
<1>3. /\ D \in Seq(DOMAIN made)
      /\ \A k, m \in DOMAIN D : k < m => D[k] < D[m]
      /\ \A k \in DOMAIN D : made[D[k]].bucket = events[e].bucket /\ gone[D[k]] = Present
      /\ \A d \in DOMAIN made : made[d].bucket = events[e].bucket /\ gone[d] = Present
                                   => \E k \in DOMAIN D : D[k] = d
  BY <1>2, DestinationsAre
<1>4. \A d \in DOMAIN made : d \in S <=> Matches(made[d].draft, events[e].change)
  OBVIOUS
<1> HIDE DEF D, S
<1>5. /\ todo \in Seq(DOMAIN made) /\ P \in Seq(DOMAIN D) /\ DOMAIN todo = DOMAIN P
      /\ \A k \in DOMAIN todo : P[k] \in DOMAIN D /\ todo[k] = D[P[k]] /\ todo[k] \in S
      /\ \A k, m \in DOMAIN todo : k < m => P[k] < P[m]
      /\ \A i \in DOMAIN D : D[i] \in S => \E k \in DOMAIN todo : P[k] = i
  BY <1>3, OnlyIs
<1> HIDE DEF P, todo
<1>6. todo \in Seq(Nat)
  <2>1. DOMAIN made \subseteq Nat  BY <1>2, Dims
  <2> QED BY <2>1, <1>5
<1>7. x \in TaskStates  BY <1>6 DEF TaskStates
<1>8. tasks'[e] = x /\ tasks'[e].todo = todo /\ (tasks'[e].at = IF todo = <<>> THEN "over" ELSE "send")
  BY <1>1, <1>2 DEF TypeInv
<1> HIDE DEF x
<1>9. events' = events /\ made' = made /\ gone' = gone /\ posts' = posts /\ lines' = lines  BY <1>1 DEF past
<1>10. \A k \in DOMAIN todo : For(todo[k], e) /\ gone[todo[k]] = Present
  <2> SUFFICES ASSUME NEW k \in DOMAIN todo  PROVE For(todo[k], e) /\ gone[todo[k]] = Present
    OBVIOUS
  <2>1. todo[k] \in DOMAIN made  BY <1>5, ElementIn
  <2> QED BY <2>1, <1>3, <1>4, <1>5 DEF For
<1>11. \A d : For(d, e)' <=> For(d, e)  BY <1>9 DEF For
<1>12. TodoInv(e)'
  <2>1. \A k, m \in DOMAIN todo : k < m => todo[k] < todo[m]  BY <1>3, <1>5
  <2>2. Present >= e  BY <1>2, Dims, EntryTyped
  <2> QED BY <2>1, <2>2, <1>8, <1>9, <1>10, <1>11 DEF TodoInv
<1>13. PostsOf(e) = {} /\ PostsOf(e)' = {}
  <2>1. PostsOf(e) = {}  BY <1>1, <1>2 DEF Task, ProgressInv
  <2> QED BY <2>1, <1>9 DEF PostsOf
<1>14. PostedInv(e)'  BY <1>13 DEF PostedInv
<1>15. ProgressInv(e)'  BY <1>8, <1>13 DEF ProgressInv
<1>16. OwedInv(e)'
  <2> SUFFICES ASSUME NEW d, gone[d] = Present, For(d, e)  PROVE \E k \in DOMAIN todo : todo[k] = d
    BY <1>8, <1>9, <1>11 DEF OwedInv, ElementsOf, Present
  <2>1. d \in DOMAIN made /\ d \in S /\ made[d].bucket = events[e].bucket  BY <1>4 DEF For
  <2>2. PICK i \in DOMAIN D : D[i] = d  BY <2>1, <1>3
  <2>3. PICK k \in DOMAIN todo : P[k] = i  BY <2>1, <2>2, <1>5
  <2> QED BY <2>2, <2>3, <1>5
<1>17. Task(e)'  BY <1>12, <1>14, <1>15, <1>16 DEF Task
<1>18. posts \in Seq([event : Nat, to : Nat]) /\ lines \subseteq DOMAIN posts  BY <1>2 DEF TypeInv
<1> QED BY <1>1, <1>7, <1>9, <1>17, <1>18, OneTaskMoves

\* The task does not get its destinations.
LEMMA LoadFailsKeeps ==
    ASSUME NotifierInv, NEW e \in DOMAIN tasks, LoadFails(e)
    PROVE  NotifierInv'
<1>1. TypeInv /\ Task(e)  BY DEF NotifierInv, TasksInv
<1>2. /\ tasks[e].at = "load" /\ tasks[e].todo \in Seq(Nat)
      /\ tasks[e] = [at |-> tasks[e].at, todo |-> tasks[e].todo]
  BY <1>1, EntryTyped DEF LoadFails
<1> DEFINE x == [at |-> "dropped", todo |-> tasks[e].todo]
<1>3. tasks' = [tasks EXCEPT ![e] = x]
  <2>1. [tasks[e] EXCEPT !.at = "dropped"] = x  BY <1>2
  <2>2. tasks' = [tasks EXCEPT ![e] = [tasks[e] EXCEPT !.at = "dropped"]]  BY DEF LoadFails
  <2> QED BY <2>1, <2>2
<1>4. x \in TaskStates  BY <1>2 DEF TaskStates
<1>5. UNCHANGED <<table, creating, boot, events, posts, lines, past>>  BY DEF LoadFails, traffic
<1>6. tasks'[e].at = "dropped" /\ tasks'[e].todo = tasks[e].todo  BY <1>1, <1>3 DEF TypeInv
<1> HIDE DEF x
<1>7. PostsOf(e)' = PostsOf(e) /\ PostsOf(e) = {} /\ tasks[e].todo = <<>> /\ DOMAIN tasks[e].todo = {}
  BY <1>1, <1>2, <1>5 DEF PostsOf, Task, ProgressInv
<1>8. Task(e)'
  BY <1>6, <1>7 DEF Task, TodoInv, PostedInv, ProgressInv, OwedInv
<1>9. posts \in Seq([event : Nat, to : Nat]) /\ lines \subseteq DOMAIN posts  BY <1>1 DEF TypeInv
<1> QED BY <1>3, <1>4, <1>5, <1>8, <1>9, OneTaskMoves

\* The task posts to the first that it has to post to.
LEMMA PostKeeps ==
    ASSUME NotifierInv, NEW e \in DOMAIN tasks, Post(e)
    PROVE  NotifierInv'
<1> DEFINE todo == tasks[e].todo
           n == Len(posts) + 1
           y == [event |-> e, to |-> Head(todo)]
           x == [at |-> "await", todo |-> todo]
<1>1. TypeInv /\ Task(e)  BY DEF NotifierInv, TasksInv
<1>2. /\ tasks[e].at = "send" /\ todo \in Seq(Nat) /\ e \in Nat /\ e \in DOMAIN events
      /\ tasks[e] = [at |-> tasks[e].at, todo |-> todo]
  BY <1>1, EntryTyped DEF Post
<1>3. todo # <<>>  BY <1>1, <1>2 DEF Task, ProgressInv
<1>4. Head(todo) = todo[1] /\ 1 \in DOMAIN todo /\ todo[1] \in Nat  BY <1>2, <1>3
<1>5. tasks' = [tasks EXCEPT ![e] = x]
  <2>1. [tasks[e] EXCEPT !.at = "await"] = x  BY <1>2
  <2>2. tasks' = [tasks EXCEPT ![e] = [tasks[e] EXCEPT !.at = "await"]]  BY DEF Post
  <2> QED BY <2>1, <2>2
<1>6. /\ posts' = Append(posts, y) /\ UNCHANGED <<table, creating, boot, events, lines, past>>
  BY DEF Post
<1>7. x \in TaskStates  BY <1>2 DEF TaskStates
<1>8. tasks'[e].at = "await" /\ tasks'[e].todo = todo  BY <1>1, <1>5 DEF TypeInv
<1> HIDE DEF x, todo
<1>9. /\ posts' \in Seq([event : Nat, to : Nat]) /\ DOMAIN posts' = 1..n /\ DOMAIN posts = 1..Len(posts)
      /\ Len(posts) \in Nat /\ posts'[n] = y /\ \A p \in DOMAIN posts : posts'[p] = posts[p]
  <2>1. y \in [event : Nat, to : Nat]  BY <1>2, <1>4
  <2>2. posts \in Seq([event : Nat, to : Nat])  BY <1>1 DEF TypeInv
  <2> HIDE DEF y
  <2> QED BY <1>6, <2>1, <2>2
<1>10. y.event = e /\ y.to = todo[1]  BY <1>4
<1>11. DOMAIN posts' = DOMAIN posts \union {n} /\ n \notin DOMAIN posts /\ n \in Nat
       /\ \A p \in DOMAIN posts : p < n /\ p \in Nat
  BY <1>9
<1> HIDE DEF n, y
<1>12. PostsOf(e)' = PostsOf(e) \union {n} /\ PostsOf(e) \subseteq DOMAIN posts
  BY <1>9, <1>10, <1>11 DEF PostsOf
<1>13. \A p \in PostsOf(e) : posts'[p] = posts[p]  BY <1>9, <1>12
<1>14. events' = events /\ made' = made /\ gone' = gone /\ lines' = lines  BY <1>6 DEF past
<1>15. \A d : For(d, e)' <=> For(d, e)  BY <1>14 DEF For
<1>16. TodoInv(e)'  BY <1>1, <1>8, <1>14, <1>15 DEF Task, TodoInv, todo
<1>17. PostedInv(e)'
  <2>1. \A p \in PostsOf(e) : posts[p].to < todo[1]
    BY <1>1, <1>2, <1>4 DEF Task, ProgressInv, todo
  <2>2. For(todo[1], e) /\ gone[todo[1]] >= e  BY <1>1, <1>4 DEF Task, TodoInv, todo
  <2>3. \A p, q \in PostsOf(e)' : p < q => posts'[p].to < posts'[q].to
    <3> SUFFICES ASSUME NEW p \in PostsOf(e) \union {n}, NEW q \in PostsOf(e) \union {n}, p < q
                 PROVE  posts'[p].to < posts'[q].to
      BY <1>12
    <3>1. p # n
      <4>1. ~(n < q)  BY <1>11, <1>12
      <4> QED BY <4>1
    <3>2. CASE q = n  BY <3>1, <3>2, <2>1, <1>9, <1>10, <1>13
    <3>3. CASE q # n  BY <3>1, <3>3, <1>1, <1>13 DEF Task, PostedInv
    <3> QED BY <3>2, <3>3
  <2>4. \A p \in PostsOf(e)' : For(posts'[p].to, e) /\ gone[posts'[p].to] >= e
    BY <1>1, <1>9, <1>10, <1>12, <1>13, <2>2 DEF Task, PostedInv
  <2> QED BY <2>3, <2>4, <1>14, <1>15 DEF PostedInv
<1>18. ProgressInv(e)'
  <2>1. \A q \in PostsOf(e)' : q <= n  BY <1>11, <1>12
  <2>2. n \in PostsOf(e)' /\ posts'[n].to = todo[1]  BY <1>9, <1>10, <1>12
  <2> QED BY <2>1, <2>2, <1>3, <1>8 DEF ProgressInv
<1>19. OwedInv(e)'
  <2>1. lines \subseteq DOMAIN posts  BY <1>1 DEF TypeInv
  <2>2. OwedInv(e) /\ tasks[e].at = "send"  BY <1>1, <1>2 DEF Task
  <2>3. tasks[e].todo = todo  BY DEF todo
  <2> QED BY <2>1, <2>2, <2>3, <1>8, <1>9, <1>14, <1>15 DEF OwedInv, Present, ElementsOf
<1>20. Task(e)'  BY <1>16, <1>17, <1>18, <1>19 DEF Task
<1>21. lines' \subseteq DOMAIN posts'  BY <1>1, <1>11, <1>14 DEF TypeInv
<1>22. \A p \in DOMAIN posts' : p \notin DOMAIN posts => posts'[p].event = e
  BY <1>9, <1>10, <1>11
<1> QED BY <1>5, <1>6, <1>7, <1>9, <1>11, <1>14, <1>20, <1>21, <1>22, OneTaskMoves

\* The post that a task awaits is its last, to the first that it has to post to.
LEMMA AwaitedIs ==
    ASSUME TypeInv, NEW e \in DOMAIN tasks, ProgressInv(e), tasks[e].at = "await"
    PROVE  /\ Awaited(e) \in PostsOf(e) /\ posts[Awaited(e)].to = tasks[e].todo[1]
           /\ \A q \in PostsOf(e) : q <= Awaited(e)
<1>1. PICK p \in PostsOf(e) : posts[p].to = tasks[e].todo[1] /\ \A q \in PostsOf(e) : q <= p
  BY DEF ProgressInv
<1>2. /\ p \in DOMAIN posts /\ posts[p].event = e
      /\ \A q \in DOMAIN posts : posts[q].event = e => q <= p
  BY <1>1 DEF PostsOf
<1>3. /\ Awaited(e) \in DOMAIN posts /\ posts[Awaited(e)].event = e
      /\ \A q \in DOMAIN posts : posts[q].event = e => q <= Awaited(e)
  BY <1>2 DEF Awaited
<1>4. Awaited(e) = p
  <2>1. DOMAIN posts \subseteq Nat  BY Dims
  <2>2. p <= Awaited(e) /\ Awaited(e) <= p  BY <1>2, <1>3
  <2> QED BY <1>2, <1>3, <2>1, <2>2
<1> QED BY <1>1, <1>4

\* The task is done with a post and goes on with the next.
LEMMA ConcludeKeeps ==
    ASSUME NotifierInv, NEW e \in DOMAIN tasks, Conclude(e, Tail(tasks[e].todo))
    PROVE  NotifierInv'
<1> DEFINE todo == tasks[e].todo
           rest == Tail(todo)
           w == Awaited(e)
           x == [at |-> IF rest = <<>> THEN "over" ELSE "send", todo |-> rest]
<1>1. TypeInv /\ Task(e)  BY DEF NotifierInv, TasksInv
<1>2. tasks[e].at = "await" /\ todo \in Seq(Nat)  BY <1>1, EntryTyped DEF Conclude
<1>3. todo # <<>>  BY <1>1, <1>2 DEF Task, ProgressInv
<1>4. /\ lines' = lines \union {w} /\ tasks' = [tasks EXCEPT ![e] = x]
      /\ UNCHANGED <<table, creating, boot, events, posts, past>>
  BY DEF Conclude, Proceed
<1>5. /\ w \in PostsOf(e) /\ posts[w].to = todo[1] /\ \A q \in PostsOf(e) : q <= w
  BY <1>1, <1>2, AwaitedIs DEF Task
<1> HIDE DEF todo, w
<1>6. /\ rest \in Seq(Nat) /\ Len(rest) = Len(todo) - 1 /\ Len(todo) \in Nat \ {0}
      /\ DOMAIN todo = 1..Len(todo) /\ \A k \in 1..Len(rest) : rest[k] = todo[k + 1]
  BY <1>2, <1>3
<1>7. x \in TaskStates  BY <1>6 DEF TaskStates
<1>8. tasks'[e] = x /\ tasks'[e].todo = rest /\ (tasks'[e].at = IF rest = <<>> THEN "over" ELSE "send")
  BY <1>1, <1>4 DEF TypeInv
<1> HIDE DEF x, rest
<1>9. /\ DOMAIN rest = 1..Len(rest) /\ 1 \in DOMAIN todo
      /\ \A k \in DOMAIN rest : k + 1 \in DOMAIN todo /\ rest[k] = todo[k + 1] /\ k \in Nat /\ 1 < k + 1
  BY <1>6
<1>10. events' = events /\ made' = made /\ gone' = gone /\ posts' = posts  BY <1>4 DEF past
<1>11. \A d : For(d, e)' <=> For(d, e)  BY <1>10 DEF For
<1>12. TodoInv(e) /\ PostedInv(e) /\ OwedInv(e) /\ tasks[e].todo = todo  BY <1>1 DEF Task, todo
<1>13. TodoInv(e)'
  <2>1. \A k, m \in DOMAIN rest : k < m => rest[k] < rest[m]
    <3> SUFFICES ASSUME NEW k \in DOMAIN rest, NEW m \in DOMAIN rest, k < m  PROVE rest[k] < rest[m]
      OBVIOUS
    <3>1. k + 1 < m + 1  BY <1>9
    <3> QED BY <3>1, <1>9, <1>12 DEF TodoInv
  <2>2. \A k \in DOMAIN rest : For(rest[k], e) /\ gone[rest[k]] >= e  BY <1>9, <1>12 DEF TodoInv
  <2> QED BY <2>1, <2>2, <1>8, <1>10, <1>11 DEF TodoInv
<1>14. PostsOf(e)' = PostsOf(e)  BY <1>10 DEF PostsOf
<1>15. PostedInv(e)'  BY <1>10, <1>11, <1>12, <1>14 DEF PostedInv
<1>16. \A p \in PostsOf(e) : \A k \in DOMAIN rest : posts[p].to < rest[k]
  <2> SUFFICES ASSUME NEW p \in PostsOf(e), NEW k \in DOMAIN rest  PROVE posts[p].to < rest[k]
    OBVIOUS
  <2>1. todo[1] < rest[k]  BY <1>9, <1>12 DEF TodoInv
  <2>2. p \in DOMAIN posts /\ w \in DOMAIN posts /\ p <= w  BY <1>5 DEF PostsOf
  <2>3. p \in Nat /\ w \in Nat  BY <2>2, <1>1, Dims
  <2>4. p = w \/ posts[p].to < posts[w].to  BY <2>2, <2>3, <1>5, <1>12 DEF PostedInv
  <2>5. posts[p].to \in Nat /\ posts[w].to \in Nat
    <3>1. posts \in Seq([event : Nat, to : Nat])  BY <1>1 DEF TypeInv
    <3>2. posts[p] \in [event : Nat, to : Nat] /\ posts[w] \in [event : Nat, to : Nat]
      BY <2>2, <3>1, ElementIn
    <3> QED BY <3>2
  <2>6. rest[k] \in Nat  BY <1>6, ElementIn
  <2> QED BY <2>1, <2>4, <2>5, <2>6, <1>5
<1>17. ProgressInv(e)'
  BY <1>8, <1>10, <1>14, <1>16 DEF ProgressInv
<1>18. OwedInv(e)'
  <2> SUFFICES ASSUME NEW d \in 1..events[e].seen, gone[d] = Present, For(d, e)
               PROVE  \/ d \in ElementsOf(rest)
                      \/ \E p \in lines' : posts[p].event = e /\ posts[p].to = d
    BY <1>8, <1>10, <1>11 DEF OwedInv, Present, ElementsOf
  <2>1. d \in ElementsOf(todo) \/ \E p \in lines : posts[p].event = e /\ posts[p].to = d
    BY <1>2, <1>12 DEF OwedInv
  <2>2. ASSUME NEW k \in DOMAIN todo, d = todo[k], k # 1  PROVE d \in ElementsOf(rest)
    <3>1. k - 1 \in DOMAIN rest /\ k - 1 + 1 = k  BY <2>2, <1>6, <1>9
    <3>2. rest[k - 1] = d  BY <3>1, <2>2, <1>9
    <3> QED BY <3>1, <3>2 DEF ElementsOf
  <2>3. ASSUME d = todo[1]  PROVE \E p \in lines' : posts[p].event = e /\ posts[p].to = d
    BY <2>3, <1>4, <1>5 DEF PostsOf
  <2> QED BY <2>1, <2>2, <2>3, <1>4 DEF ElementsOf
<1>19. Task(e)'  BY <1>13, <1>15, <1>17, <1>18 DEF Task
<1>20. posts \in Seq([event : Nat, to : Nat]) /\ lines' \subseteq DOMAIN posts
  BY <1>1, <1>4, <1>5 DEF TypeInv, PostsOf
<1> QED BY <1>4, <1>7, <1>10, <1>19, <1>20, OneTaskMoves

\* The server is restarted: tasks that had not ended are lost.
LEMMA RestartKeeps ==
    ASSUME NotifierInv, Restart
    PROVE  NotifierInv'
<1> USE DEF NotifierInv
<1>1. /\ boot' = boot + 1 /\ boot < MaxBoots /\ creating' = [a \in Admins |-> None]
      /\ tasks' = [e \in DOMAIN tasks |-> IF tasks[e].at \in {"over", "dropped"} THEN tasks[e]
                                          ELSE [at |-> "lost", todo |-> <<>>]]
      /\ UNCHANGED <<table, events, posts, lines, made, gone, born>>
  BY DEF Restart, traffic, past
<1>2. Creating' = {}  BY <1>1 DEF Creating
<1>3. Cardinality(Creating') = 0  BY <1>2, FS_EmptySet
<1>4. boot' \in 1..MaxBoots  BY <1>1, BoundsAssumption DEF TypeInv
<1>5. DOMAIN tasks' = DOMAIN tasks /\ tasks' \in Seq(TaskStates) /\ Len(tasks') = Len(tasks)
  <2>1. tasks \in Seq(TaskStates) /\ Len(tasks) \in Nat /\ DOMAIN tasks = 1..Len(tasks)
    BY DEF TypeInv, TaskStates
  <2>2. <<>> \in Seq(Nat)  OBVIOUS
  <2>3. [at |-> "lost", todo |-> <<>>] \in TaskStates  BY <2>2 DEF TaskStates
  <2>4. \A e \in DOMAIN tasks : tasks[e] \in TaskStates  BY <2>1, ElementIn
  <2>5. tasks' \in [1..Len(tasks) -> TaskStates]  BY <1>1, <2>1, <2>3, <2>4
  <2> HIDE DEF NotifierInv
  <2> QED BY <2>1, <2>5
<1>6. TypeInv'
  <2>1. creating' \in [Admins -> Buckets \union {None}]  BY <1>1
  <2>2. Len(made) + Cardinality(Creating') <= MaxMade  BY <1>3, Dims
  <2> QED BY <1>1, <1>4, <1>5, <2>1, <2>2 DEF TypeInv, TaskStates, table, Present
<1>7. TableInv'  BY <1>1, TableSurvives
<1>8. TasksInv'
  <2> SUFFICES ASSUME NEW e \in DOMAIN tasks  PROVE Task(e)'
    BY <1>5 DEF TasksInv
  <2>1. Task(e)  BY DEF TasksInv
  <2>2. CASE tasks[e].at \in {"over", "dropped"}
    <3>1. tasks'[e] = tasks[e]  BY <2>2, <1>1
    <3> QED BY <2>1, <3>1, <1>1, TaskSurvives
  <2>3. CASE tasks[e].at \notin {"over", "dropped"}
    <3>1. tasks'[e].at = "lost" /\ tasks'[e].todo = <<>> /\ DOMAIN tasks'[e].todo = {}  BY <2>3, <1>1
    <3>2. PostsOf(e)' = PostsOf(e)  BY <1>1 DEF PostsOf
    <3>3. \A d : For(d, e)' <=> For(d, e)  BY <1>1 DEF For
    <3>4. PostedInv(e)'  BY <1>1, <2>1, <3>2, <3>3 DEF Task, PostedInv
    <3> QED BY <3>1, <3>4 DEF Task, TodoInv, ProgressInv, OwedInv
  <2> QED BY <2>2, <2>3
<1> QED BY <1>6, <1>7, <1>8

------------------------------------------------------------------------------
(* The theorems.                                                           *)

\* The server starts with nothing.
LEMMA InitSound == Init => NotifierInv
<1> SUFFICES ASSUME Init  PROVE NotifierInv
  OBVIOUS
<1>1. Creating = {}  BY DEF Init, Creating
<1>2. Cardinality(Creating) = 0  BY <1>1, FS_EmptySet
<1>3. \A S : <<>> \in Seq(S)  OBVIOUS
<1>4. Len(<<>>) = 0 /\ DOMAIN <<>> = {}  OBVIOUS
<1>5. /\ buckets = {} /\ rows = <<>> /\ events = <<>> /\ tasks = <<>> /\ posts = <<>> /\ lines = {}
      /\ made = <<>> /\ gone = <<>> /\ boot = 1 /\ creating = [a \in Admins |-> None]
      /\ born = [b \in Buckets |-> <<>>]
  BY DEF Init
<1>6. TypeInv
  <2>1. creating \in [Admins -> Buckets \union {None}]  BY <1>5
  <2>2. boot \in 1..MaxBoots  BY <1>5, BoundsAssumption
  <2>3. born \in [Buckets -> Seq(Nat)]  BY <1>3, <1>5
  <2>4. \A b \in Buckets : DOMAIN born[b] = {}  BY <1>5, <1>4
  <2>5. Len(events) <= MaxEvents /\ Len(made) + Cardinality(Creating) <= MaxMade
    BY <1>2, <1>4, <1>5, BoundsAssumption
  <2> QED BY <1>3, <1>4, <1>5, <2>1, <2>2, <2>3, <2>4, <2>5 DEF TypeInv
<1>7. Ids = {}  BY <1>4, <1>5 DEF Ids
<1>8. TableInv  BY <1>4, <1>5, <1>7 DEF TableInv, BucketStateDies
<1>9. TasksInv  BY <1>4, <1>5 DEF TasksInv
<1> QED BY <1>6, <1>8, <1>9 DEF NotifierInv

\* The invariant is inductive.
THEOREM NotifierInductive == Spec => []NotifierInv
<1>1. Init => NotifierInv  BY InitSound
<1>2. NotifierInv /\ [Next]_vars => NotifierInv'
  <2> SUFFICES ASSUME NotifierInv, [Next]_vars  PROVE NotifierInv'
    OBVIOUS
  <2>1. ASSUME NEW b \in Buckets, CreateBucket(b)  PROVE NotifierInv'
    BY <2>1, CreateBucketKeeps
  <2>2. ASSUME NEW b \in Buckets, DeleteBucket(b)  PROVE NotifierInv'
    BY <2>2, DeleteBucketKeeps
  <2>3. ASSUME NEW a \in Admins, NEW b \in Buckets, BeginCreate(a, b)  PROVE NotifierInv'
    BY <2>3, BeginCreateKeeps
  <2>4. ASSUME NEW a \in Admins, EndCreate(a)  PROVE NotifierInv'
    BY <2>4, EndCreateKeeps
  <2>5. ASSUME NEW b \in Buckets, NEW i \in Ids, DeleteDestination(b, i)  PROVE NotifierInv'
    BY <2>5, DeleteDestinationKeeps
  <2>6. ASSUME NEW b \in Buckets, NEW c \in Changes, Commit(b, c)  PROVE NotifierInv'
    BY <2>6, CommitKeeps
  <2>7. ASSUME NEW e \in DOMAIN tasks, Load(e)  PROVE NotifierInv'  BY <2>7, LoadKeeps
  <2>8. ASSUME NEW e \in DOMAIN tasks, LoadFails(e)  PROVE NotifierInv'  BY <2>8, LoadFailsKeeps
  <2>9. ASSUME NEW e \in DOMAIN tasks, Post(e)  PROVE NotifierInv'  BY <2>9, PostKeeps
  <2>10. ASSUME NEW e \in DOMAIN tasks, TimedOut(e) \/ Answered(e)  PROVE NotifierInv'
    BY <2>10, ConcludeKeeps DEF TimedOut, Answered
  <2>11. CASE Restart  BY <2>11, RestartKeeps
  <2>12. CASE UNCHANGED vars
    <3>1. UNCHANGED <<table, creating, boot, events, tasks, posts, lines, made, gone, born>>
      BY <2>12 DEF vars, table, traffic, past
    <3>2. TypeInv'
      BY <3>1 DEF NotifierInv, TypeInv, table, Creating, Present
    <3>3. TableInv'  BY <3>1, TableSurvives DEF NotifierInv
    <3>4. TasksInv'  BY <3>1, TasksSurvive DEF NotifierInv
    <3> QED BY <3>2, <3>3, <3>4 DEF NotifierInv
  <2> QED
    BY <2>1, <2>2, <2>3, <2>4, <2>5, <2>6, <2>7, <2>8, <2>9, <2>10, <2>11, <2>12
    DEF Next, Step
<1> QED BY <1>1, <1>2, PTL DEF Spec

\* A post is among those of its event, which has a task.
LEMMA PostHasTask ==
    ASSUME NotifierInv, NEW p \in DOMAIN posts
    PROVE  LET e == posts[p].event
           IN e \in DOMAIN tasks /\ Task(e) /\ p \in PostsOf(e)
<1>1. posts[p].event \in DOMAIN tasks  BY Dims DEF NotifierInv, TypeInv
<1> QED BY <1>1 DEF NotifierInv, TasksInv, PostsOf

\* The webhooks have their types, and a task has destinations left exactly while
\* it sends.
THEOREM NotifierTyped == Spec => []TypeOK
<1>1. NotifierInv => TypeOK
  <2> SUFFICES ASSUME NotifierInv  PROVE TypeOK
    OBVIOUS
  <2>1. TypeInv /\ TableInv /\ TasksInv  BY DEF NotifierInv
  <2>2. /\ Len(made) \in Nat /\ MaxMade \in Nat /\ Len(made) <= MaxMade /\ DOMAIN made = 1..Len(made)
        /\ DOMAIN gone = DOMAIN made /\ DOMAIN tasks = DOMAIN events /\ Present \in Nat
        /\ Len(events) \in Nat /\ DOMAIN events = 1..Len(events)
    BY <2>1, Dims
  <2>3. Ids \subseteq 1..MaxMade /\ \A i \in Ids : rows[i] \in DOMAIN made
    <3>1. Ids \subseteq 1..Len(made)  BY <2>1, IdsFinite
    <3>2. 1..Len(made) \subseteq 1..MaxMade  BY <2>2
    <3> QED BY <2>1, <3>1, <3>2 DEF TableInv
  <2>4. events \in Seq([bucket : Buckets, change : Changes, seen : 0..MaxMade])
    <3> DEFINE R == [bucket : Buckets, change : Changes, seen : 0..MaxMade]
    <3>1. ASSUME NEW e \in DOMAIN events  PROVE events[e] \in R
      <4>1. events \in Seq([bucket : Buckets, change : Changes, seen : Nat])  BY <2>1 DEF TypeInv
      <4>2. events[e] \in [bucket : Buckets, change : Changes, seen : Nat]  BY <4>1, ElementIn
      <4>3. events[e].seen \in Nat /\ events[e].seen <= Len(made)  BY <2>1, <4>2 DEF TypeInv
      <4>4. events[e].seen \in 0..MaxMade  BY <4>3, <2>2
      <4> QED BY <4>2, <4>4
    <3>2. events = [e \in 1..Len(events) |-> events[e]]
      BY <2>1 DEF TypeInv
    <3> HIDE DEF R
    <3>3. events \in [1..Len(events) -> R]  BY <2>2, <3>1, <3>2
    <3>4. events \in Seq(R)  BY <2>2, <3>3
    <3> QED BY <3>4 DEF R
  <2>5. ASSUME NEW e \in DOMAIN tasks
        PROVE  /\ tasks[e].at \in {"load", "send", "await", "over", "dropped", "lost"}
               /\ tasks[e].todo \in Seq(DOMAIN made)
               /\ tasks[e].at \in {"send", "await"} <=> tasks[e].todo # <<>>
    <3> DEFINE s == tasks[e].todo
    <3>1. s \in Seq(Nat) /\ \A k \in DOMAIN s : s[k] \in DOMAIN made
      BY <2>1, EntryTyped DEF TasksInv, Task, TodoInv, For
    <3> HIDE DEF s
    <3>2. s = [k \in 1..Len(s) |-> s[k]] /\ Len(s) \in Nat /\ DOMAIN s = 1..Len(s)  BY <3>1
    <3>3. s \in [1..Len(s) -> DOMAIN made]  BY <3>1, <3>2
    <3>4. s \in Seq(DOMAIN made)  BY <3>2, <3>3
    <3> QED BY <3>4, <2>1, EntryTyped DEF s, TasksInv, Task, ProgressInv
  <2>6. \A p \in DOMAIN posts : posts[p].event \in DOMAIN events /\ posts[p].to \in DOMAIN made
    BY <2>2, PostHasTask DEF Task, PostedInv, For
  <2>7. \A d \in DOMAIN made : made[d].bucket \in Buckets /\ Valid(made[d].draft) /\ gone[d] \in 0..Present
    <3> SUFFICES ASSUME NEW d \in DOMAIN made
                 PROVE  made[d].bucket \in Buckets /\ Valid(made[d].draft) /\ gone[d] \in 0..Present
      OBVIOUS
    <3>1. made \in Seq([bucket : Buckets, draft : Drafts]) /\ gone \in Seq(Nat)  BY <2>1 DEF TypeInv
    <3>2. made[d] \in [bucket : Buckets, draft : Drafts]  BY <3>1, ElementIn
    <3>3. gone[d] \in Nat /\ gone[d] <= Present  BY <2>1, <2>2, <3>1 DEF TypeInv
    <3>4. gone[d] \in 0..Present  BY <2>2, <3>3
    <3> QED BY <2>1, <3>2, <3>4 DEF TypeInv
  <2>8. born \in [Buckets -> Seq(0..MaxMade)]
    <3>1. ASSUME NEW b \in Buckets  PROVE born[b] \in Seq(0..MaxMade)
      <4> DEFINE s == born[b]
      <4>1. s \in Seq(Nat) /\ \A k \in DOMAIN s : s[k] <= Len(made)  BY <2>1 DEF TypeInv
      <4> HIDE DEF s
      <4>2. \A k \in DOMAIN s : s[k] \in Nat  BY <4>1
      <4>3. \A k \in DOMAIN s : s[k] \in 0..MaxMade  BY <4>1, <4>2, <2>2
      <4>4. s = [k \in 1..Len(s) |-> s[k]] /\ Len(s) \in Nat /\ DOMAIN s = 1..Len(s)  BY <4>1
      <4>5. s \in [1..Len(s) -> 0..MaxMade]  BY <4>3, <4>4
      <4>6. s \in Seq(0..MaxMade)  BY <4>4, <4>5, FunctionIsSeq
      <4> QED BY <4>6 DEF s
    <3> QED BY <2>1, <3>1 DEF TypeInv
  <2> QED BY <2>1, <2>2, <2>3, <2>4, <2>5, <2>6, <2>7, <2>8 DEF TypeInv, TypeOK
<1> QED BY <1>1, NotifierInductive, PTL

\* Destinations go with their bucket.
THEOREM DestinationsDieWithBucket == Spec => []BucketStateDies
<1>1. NotifierInv => BucketStateDies  BY DEF NotifierInv, TableInv
<1> QED BY <1>1, NotifierInductive, PTL

\* An event is posted to a destination at most once, and to several in the order
\* of their creation.
THEOREM PostedOnceInOrder == Spec => []OnceEachInOrder
<1>1. NotifierInv => OnceEachInOrder
  <2> SUFFICES ASSUME NotifierInv, NEW p \in DOMAIN posts, NEW q \in DOMAIN posts, p < q,
                      posts[p].event = posts[q].event
               PROVE  posts[p].to < posts[q].to
    BY DEF OnceEachInOrder
  <2> DEFINE e == posts[p].event
  <2>1. Task(e) /\ p \in PostsOf(e)  BY PostHasTask
  <2>2. q \in PostsOf(e)  BY DEF PostsOf
  <2> HIDE DEF e
  <2> QED BY <2>1, <2>2 DEF Task, PostedInv
<1> QED BY <1>1, NotifierInductive, PTL

\* A destination gets what it asked for, of its bucket, from before it went.
THEOREM PostsOnlyToSubscribers == Spec => []OnlyToSubscribers
<1>1. NotifierInv => OnlyToSubscribers
  <2> SUFFICES ASSUME NotifierInv, NEW p \in DOMAIN posts
               PROVE  LET e == posts[p].event
                          d == posts[p].to
                      IN /\ made[d].bucket = events[e].bucket
                         /\ made[d].draft.events \intersect
                              {QualifiedName(events[e].change.kind), Family(events[e].change.kind)} # {}
                         /\ IsPrefix(made[d].draft.prefix, events[e].change.key)
                         /\ IsSuffix(made[d].draft.suffix, events[e].change.key)
                         /\ gone[d] >= e
    BY DEF OnlyToSubscribers
  <2> DEFINE e == posts[p].event
             d == posts[p].to
  <2>1. Task(e) /\ p \in PostsOf(e)  BY PostHasTask
  <2>2. For(d, e) /\ gone[d] >= e  BY <2>1 DEF Task, PostedInv
  <2> HIDE DEF e, d
  <2>3. /\ made[d].bucket = events[e].bucket
        /\ made[d].draft.events \intersect
             {QualifiedName(events[e].change.kind), Family(events[e].change.kind)} # {}
        /\ IsPrefix(made[d].draft.prefix, events[e].change.key)
        /\ IsSuffix(made[d].draft.suffix, events[e].change.key)
    BY <2>2 DEF For, Matches, Subscribed, PassesFilters
  <2> QED BY <2>2, <2>3 DEF e, d
<1> QED BY <1>1, NotifierInductive, PTL

\* Whoever was there and is there still has been posted to, and is in the log.
THEOREM NobodyIsForgotten == Spec => []NobodyForgotten
<1>1. NotifierInv => NobodyForgotten
  <2> SUFFICES ASSUME NotifierInv, NEW e \in DOMAIN tasks, tasks[e].at = "over",
                      NEW d \in 1..events[e].seen, gone[d] = Present,
                      made[d].bucket = events[e].bucket, Matches(made[d].draft, events[e].change)
               PROVE  \E p \in DOMAIN posts : p \in lines /\ posts[p].event = e /\ posts[p].to = d
    BY DEF NobodyForgotten
  <2>1. TypeInv /\ Task(e)  BY DEF NotifierInv, TasksInv
  <2>2. d \in DOMAIN made
    <3>1. events[e].seen \in Nat /\ events[e].seen <= Len(made)  BY <2>1, EntryTyped
    <3> QED BY <2>1, <3>1, Dims
  <2>3. For(d, e)  BY <2>2 DEF For
  <2>4. ElementsOf(tasks[e].todo) = {}
    <3>1. tasks[e].todo = <<>>  BY <2>1 DEF Task, ProgressInv
    <3> QED BY <3>1 DEF ElementsOf
  <2>5. \E p \in lines : posts[p].event = e /\ posts[p].to = d
    BY <2>1, <2>3, <2>4 DEF Task, OwedInv
  <2> QED BY <2>1, <2>5 DEF TypeInv
<1> QED BY <1>1, NotifierInductive, PTL

==============================================================================
