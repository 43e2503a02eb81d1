------------------------------- MODULE Notifier -------------------------------
(***************************************************************************)
(* Webhooks: the destinations of a bucket (api/notifications.rs, table     *)
(* bucket_notifications) and the tasks that post an event to them          *)
(* (notify.rs).                                                            *)
(*                                                                         *)
(* A commit of an object starts a task of its own and is answered without  *)
(* waiting for it.  The task reads the destinations when it runs, and      *)
(* posts to those that match one after the other, each once, each bounded  *)
(* by a timeout, each followed by a line in the live log.  Destinations    *)
(* and buckets come and go meanwhile, receivers answer late or never, and  *)
(* a crash ends every task.                                                *)
(*                                                                         *)
(* A destination is named by its position in made, which lasts; its id is  *)
(* what the database calls it while it is there.  A post is named by its   *)
(* position in posts.                                                      *)
(***************************************************************************)
EXTENDS Naturals, Sequences, FiniteSets, SequencesExt, Orders

CONSTANTS
    Buckets,
    Changes,       \* what happens to objects: keys (sequences) and kinds of events
    Drafts,        \* the destinations that users ask for, valid or not
    Admins,        \* the browser tabs that create destinations
    None,          \* no bucket
    MaxEvents,     \* bound: commits of objects
    MaxMade,       \* bound: destinations created
    MaxBirths,     \* bound: creations of a bucket
    MaxBoots       \* bound: runs of the server

AllKinds == {"Put", "Copy", "CompleteMultipartUpload", "Delete"}

ASSUME ChangesAssumption == \A c \in Changes : c.kind \in AllKinds

ASSUME BoundsAssumption ==
    /\ IsFiniteSet(Admins)
    /\ None \notin Buckets
    /\ MaxEvents \in Nat /\ MaxMade \in Nat
    /\ MaxBoots \in Nat \ {0}

VARIABLES
    buckets,   \* the rows of table buckets
    rows,      \* rows[i]: the destination that has id i in bucket_notifications
    creating,  \* creating[a]: the create request of a whose body is awaited
    boot,      \* which run of the server this is
    events,    \* history: the events committed
    tasks,     \* tasks[e]: the delivery of event e
    posts,     \* history: the posts made
    lines,     \* the posts that have a line in the live log
    made,      \* history: the destinations created
    gone,      \* history: gone[d]: events committed when d was removed
    born       \* history: born[b]: destinations made at each creation of b

table   == <<buckets, rows>>
traffic == <<posts, lines>>
past    == <<made, gone, born>>

vars == <<table, creating, boot, events, tasks, traffic, past>>

Present == MaxEvents + 1         \* gone[d] of a destination that is there

Ids == DOMAIN rows

------------------------------------------------------------------------------
(* Which destinations an event is for.                                     *)

Created(kind) == kind # "Delete"

QualifiedName(kind) ==
    IF Created(kind) THEN <<"ObjectCreated", kind>> ELSE <<"ObjectRemoved", kind>>

Family(kind) == <<IF Created(kind) THEN "ObjectCreated" ELSE "ObjectRemoved", "*">>

KnownEvents == {QualifiedName(k) : k \in AllKinds} \union {Family(k) : k \in AllKinds}

Subscribed(names, kind) == {QualifiedName(kind), Family(kind)} \intersect names # {}

\* An empty prefix or suffix is no constraint.
PassesFilters(key, prefix, suffix) == IsPrefix(prefix, key) /\ IsSuffix(suffix, key)

Matches(d, c) == Subscribed(d.events, c.kind) /\ PassesFilters(c.key, d.prefix, d.suffix)

\* validate_destination: at write time.
Valid(d) ==
    /\ d.scheme = "http"
    /\ d.events # {} /\ d.events \subseteq KnownEvents
    /\ d.format \in {"s3-notification", "eventbridge"}
    /\ d.timeout > 0

\* The destinations of b, by id.
\* (variant: one that was deleted is only marked)
DestinationsEver(b) == SelectSeq([d \in DOMAIN made |-> d], LAMBDA d : made[d].bucket = b)

Destinations(b) ==
    LET ids == Sorted({i \in Ids : made[rows[i]].bucket = b})
    IN [n \in DOMAIN ids |-> rows[ids[n]]]

------------------------------------------------------------------------------
\* The variables have their types, a task has destinations left exactly while it
\* sends, and a destination that was stored is one that users may ask for.
TypeOK ==
    /\ buckets \subseteq Buckets
    /\ Ids \subseteq 1..MaxMade /\ \A i \in Ids : rows[i] \in DOMAIN made
    /\ creating \in [Admins -> Buckets \union {None}]
    /\ boot \in 1..MaxBoots
    /\ events \in Seq([bucket : Buckets, change : Changes, seen : 0..MaxMade])
    /\ DOMAIN tasks = DOMAIN events
    /\ \A e \in DOMAIN tasks :
        /\ tasks[e].at \in {"load", "send", "await", "over", "dropped", "lost"}
        /\ tasks[e].todo \in Seq(DOMAIN made)
        /\ tasks[e].at \in {"send", "await"} <=> tasks[e].todo # <<>>
    /\ \A p \in DOMAIN posts :
        /\ posts[p].event \in DOMAIN events /\ posts[p].to \in DOMAIN made
    /\ lines \subseteq DOMAIN posts
    /\ DOMAIN gone = DOMAIN made
    /\ \A d \in DOMAIN made :
        made[d].bucket \in Buckets /\ Valid(made[d].draft) /\ gone[d] \in 0..Present
    /\ born \in [Buckets -> Seq(0..MaxMade)]

Init ==
    /\ buckets = {} /\ rows = <<>>
    /\ creating = [a \in Admins |-> None]
    /\ boot = 1
    /\ events = <<>> /\ tasks = <<>>
    /\ posts = <<>> /\ lines = {}
    /\ made = <<>> /\ gone = <<>>
    /\ born = [b \in Buckets |-> <<>>]

------------------------------------------------------------------------------
(* Buckets and their destinations.                                         *)

CreateBucket(b) ==
    /\ b \notin buckets /\ Len(born[b]) < MaxBirths
    /\ buckets' = buckets \union {b}
    /\ born' = [born EXCEPT ![b] = Append(@, Len(made))]
    /\ UNCHANGED <<rows, creating, boot, events, tasks, traffic, made, gone>>

\* The rows ids go.
RemoveRows(ids) ==
    /\ rows' = [i \in Ids \ ids |-> rows[i]]
    /\ gone' = [d \in DOMAIN made |-> IF \E i \in ids : rows[i] = d THEN Len(events) ELSE gone[d]]

\* ON DELETE CASCADE, with foreign_keys ON.
\* (variant: OFF, which is the default of SQLite)
CascadeOff(b) == RemoveRows({})

Cascade(b) == RemoveRows({i \in Ids : made[rows[i]].bucket = b})

DeleteBucket(b) ==
    /\ b \in buckets
    /\ buckets' = buckets \ {b}
    /\ Cascade(b)
    /\ UNCHANGED <<creating, boot, events, tasks, traffic, made, born>>

\* create, up to the await of the body: without the bucket it answers 404.
BeginCreate(a, b) ==
    /\ creating[a] = None
    /\ Len(made) + Cardinality({c \in Admins : creating[c] # None}) < MaxMade
    /\ b \in buckets
    /\ creating' = [creating EXCEPT ![a] = b]
    /\ UNCHANGED <<table, boot, events, tasks, traffic, past>>

\* The id of a new row: one more than the largest in use.
NextId == CHOOSE i \in 1..(MaxMade + 1) :
    (i = 1 \/ i - 1 \in Ids) /\ \A j \in Ids : j < i

\* insert_bucket_notification: the bucket is a foreign key.
InsertRow(b, d) ==
    /\ b \in buckets
    /\ rows' = [i \in Ids \union {NextId} |-> IF i \in Ids THEN rows[i] ELSE Len(made) + 1]
    /\ made' = Append(made, [bucket |-> b, draft |-> d])
    /\ gone' = Append(gone, Present)

\* create, the rest, with the draft in the body: 201, or an error that leaves
\* nothing; the body may also never come.
\* (variant: the draft is validated once it is stored)
EndCreateFirst(a) ==
    /\ creating[a] # None
    /\ creating' = [creating EXCEPT ![a] = None]
    /\ \/ \E d \in Drafts : InsertRow(creating[a], d)
       \/ UNCHANGED <<rows, made, gone>>
    /\ UNCHANGED <<buckets, boot, events, tasks, traffic, born>>

EndCreate(a) ==
    /\ creating[a] # None
    /\ creating' = [creating EXCEPT ![a] = None]
    /\ \/ \E d \in Drafts : Valid(d) /\ InsertRow(creating[a], d)
       \/ UNCHANGED <<rows, made, gone>>
    /\ UNCHANGED <<buckets, boot, events, tasks, traffic, born>>

\* delete: 404 for an id that the bucket does not have.
DeleteDestination(b, i) ==
    /\ i \in Ids /\ made[rows[i]].bucket = b
    /\ RemoveRows({i})
    /\ UNCHANGED <<buckets, creating, boot, events, tasks, traffic, made, born>>

------------------------------------------------------------------------------
(* Delivery.                                                               *)

\* An object is created or removed: notify spawns a task.  The object's bucket
\* may be gone by then (see ObjectStore).
Commit(b, c) ==
    /\ Len(events) < MaxEvents
    /\ events' = Append(events, [bucket |-> b, change |-> c, seen |-> Len(made)])
    /\ tasks' = Append(tasks, [at |-> "load", todo |-> <<>>])
    /\ UNCHANGED <<table, creating, boot, traffic, past>>

\* The task goes on with the destinations in todo.
Proceed(e, todo) ==
    tasks' = [tasks EXCEPT ![e] = [at |-> IF todo = <<>> THEN "over" ELSE "send", todo |-> todo]]

\* deliver_all: the destinations are read, once, and filtered.
Load(e) ==
    /\ tasks[e].at = "load"
    /\ UNCHANGED <<table, creating, boot, events, traffic, past>>
    /\ Proceed(e, Only(Destinations(events[e].bucket),
                       {d \in DOMAIN made : Matches(made[d].draft, events[e].change)}))

\* A database error drops the event.
LoadFails(e) ==
    /\ tasks[e].at = "load"
    /\ tasks' = [tasks EXCEPT ![e].at = "dropped"]
    /\ UNCHANGED <<table, creating, boot, events, traffic, past>>

\* deliver_one, post: an attempt begins.
Post(e) ==
    /\ tasks[e].at = "send"
    /\ tasks' = [tasks EXCEPT ![e].at = "await"]
    /\ posts' = Append(posts, [event |-> e, to |-> Head(tasks[e].todo)])
    /\ UNCHANGED <<table, creating, boot, events, lines, past>>

\* The post that the task of e awaits: its last.
Awaited(e) == CHOOSE p \in DOMAIN posts :
    posts[p].event = e /\ \A q \in DOMAIN posts : posts[q].event = e => q <= p

\* An attempt ends, with its line in the live log, and the task goes on.
Conclude(e, todo) ==
    /\ tasks[e].at = "await"
    /\ lines' = lines \union {Awaited(e)}
    /\ Proceed(e, todo)
    /\ UNCHANGED <<table, creating, boot, events, posts, past>>

\* The receiver answers with some status, or the transport fails.
Answered(e) == Conclude(e, Tail(tasks[e].todo))

\* The timeout of the destination passes; the receiver may have got the event
\* or get it yet, and may answer what nobody reads.
\* (variants: it is tried once more; the rest is given up; the timer is set anew)
TimedOutRetry(e) ==
    Conclude(e, IF \E p \in 1..(Awaited(e) - 1) : posts[p] = posts[Awaited(e)]
                THEN Tail(tasks[e].todo) ELSE tasks[e].todo)

TimedOutGivesUp(e) == Conclude(e, <<>>)

TimedOutAgain(e) == tasks[e].at = "await" /\ UNCHANGED vars

TimedOut(e) == Conclude(e, Tail(tasks[e].todo))

\* What the task does by itself, whatever receivers do.
Step(e) == Load(e) \/ LoadFails(e) \/ Post(e) \/ TimedOut(e)

\* The server is restarted: the tasks and the requests under way are lost.
Restart ==
    /\ boot < MaxBoots
    /\ boot' = boot + 1
    /\ creating' = [a \in Admins |-> None]
    /\ tasks' = [e \in DOMAIN tasks |->
                   IF tasks[e].at \in {"over", "dropped"} THEN tasks[e]
                   ELSE [at |-> "lost", todo |-> <<>>]]
    /\ UNCHANGED <<table, events, traffic, past>>

Next ==
    \/ \E b \in Buckets : CreateBucket(b) \/ DeleteBucket(b)
    \/ \E a \in Admins, b \in Buckets : BeginCreate(a, b)
    \/ \E a \in Admins : EndCreate(a)
    \/ \E b \in Buckets, i \in Ids : DeleteDestination(b, i)
    \/ \E b \in Buckets, c \in Changes : Commit(b, c)
    \/ \E e \in DOMAIN tasks : Step(e) \/ Answered(e)
    \/ Restart

\* The runtime runs the tasks that were spawned and fires their timers; nothing
\* is assumed of receivers.
Spec == Init /\ [][Next]_vars /\ \A e \in 1..MaxEvents : WF_vars(e \in DOMAIN tasks /\ Step(e))

------------------------------------------------------------------------------
(* Properties.                                                             *)

\* Destinations are state of their bucket: none is left when it is deleted,
\* and a bucket created again under its name starts with none, whatever
\* create requests were under way.
BucketStateDies ==
    \A i \in Ids :
        LET b == made[rows[i]].bucket IN b \in buckets /\ rows[i] > Last(born[b])

\* An event is posted at most once to a destination ("exactly one attempt, no
\* retry"), and to several in the order in which they were created, although
\* the ids they are read by are used again.
OnceEachInOrder ==
    \A p, q \in DOMAIN posts :
        p < q /\ posts[p].event = posts[q].event => posts[p].to < posts[q].to

\* A destination gets only events of its bucket that it asked for, and none
\* that was committed after it was deleted.
OnlyToSubscribers ==
    \A p \in DOMAIN posts :
        LET e == posts[p].event
            d == posts[p].to
        IN /\ made[d].bucket = events[e].bucket
           /\ made[d].draft.events \intersect
                {QualifiedName(events[e].change.kind), Family(events[e].change.kind)} # {}
           /\ IsPrefix(made[d].draft.prefix, events[e].change.key)
           /\ IsSuffix(made[d].draft.suffix, events[e].change.key)
           /\ gone[d] >= e

\* A destination that was there when an event it asked for was committed, and
\* is still there when the task ends, was posted to and has its line in the
\* live log, whatever became of the posts to the others.
NobodyForgotten ==
    \A e \in DOMAIN tasks : tasks[e].at = "over" =>
        \A d \in 1..events[e].seen :
            gone[d] = Present /\ made[d].bucket = events[e].bucket /\ Matches(made[d].draft, events[e].change)
                => \E p \in DOMAIN posts : p \in lines /\ posts[p].event = e /\ posts[p].to = d

\* A task ends although receivers never answer.
TasksEnd ==
    \A e \in 1..MaxEvents :
        e \in DOMAIN tasks ~> e \in DOMAIN tasks /\ tasks[e].at \in {"over", "dropped", "lost"}

==============================================================================
