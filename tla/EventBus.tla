------------------------------- MODULE EventBus -------------------------------
(***************************************************************************)
(* The live log of requests: the bus that records an event for each S3     *)
(* request (events.rs), and the handlers that stream it to browser tabs    *)
(* (api/events.rs).                                                        *)
(*                                                                         *)
(* Any number of threads of the runtime record events.  The ring keeps the *)
(* last ones for replay, a tokio broadcast channel carries them to the     *)
(* handlers, and both are changed under the lock of the ring; the id of an *)
(* event is taken from an atomic counter before.  A tab loses its          *)
(* connection at any time and reconnects with the last id it has seen; the *)
(* server may restart, and then counts from 1 again.                       *)
(*                                                                         *)
(* An event is its id.  A frame counts as handed over when the client has  *)
(* it: frames lost in a connection that breaks were never handed over.     *)
(***************************************************************************)
EXTENDS Naturals, Sequences, FiniteSets, Orders

CONSTANTS
    Emitters,          \* the threads that record events
    Clients,           \* the tabs that watch the log
    RingCapacity,      \* events kept for replay (RING_CAPACITY, 1000)
    ChannelCapacity,   \* how far a handler may lag (CHANNEL_CAPACITY, 1024)
    MaxSignals,        \* bound: events and clears in one run of the server
    MaxBoots           \* bound: runs of the server

ASSUME CapacityAssumption ==
    /\ RingCapacity \in Nat \ {0}
    /\ ChannelCapacity \in Nat \ {0}

ASSUME BoundsAssumption ==
    /\ IsFiniteSet(Emitters)
    /\ MaxSignals \in Nat
    /\ MaxBoots \in Nat \ {0}

VARIABLES
    boot,      \* which run of the server this is
    nextId,    \* next_id
    stamped,   \* stamped[t]: the id that thread t has taken for its event, or 0
    ring,      \* the ids of the events kept for replay, oldest first
    sent,      \* history: all that was broadcast in this run, ids and Clears
    conn,      \* conn[c]: tab c is connected
    lastId,    \* lastId[c]: the Last-Event-ID that c would send, 0 if none
    after,     \* after[c]: the one that c has sent
    backlog,   \* backlog[c]: the replay that the handler of c has yet to send
    pos,       \* pos[c]: the position in sent of the receiver of c
    start,     \* history: where in sent the ring began when c subscribed
    joined,    \* history: pos[c] when c subscribed
    feed,      \* history: the positions in sent of what c was handed since then
    told,      \* how many signals c was told were dropped since then
    got        \* history: the events <<boot, id>> that the page of c was handed

bus    == <<boot, nextId, stamped, ring, sent>>
page   == <<lastId, got>>
stream == <<after, backlog, pos, start, joined, feed, told>>

vars == <<bus, conn, page, stream>>

Clear == 0    \* BusSignal::Clear, among the ids of events

Ids == 1..MaxSignals

Items(s) == {s[i] : i \in DOMAIN s}

\* Where in sent an event is.
Index(id) == CHOOSE i \in DOMAIN sent : sent[i] = id

\* The variables have their types.
TypeOK ==
    /\ boot \in 1..MaxBoots
    /\ nextId \in 1..(MaxSignals + 1)
    /\ stamped \in [Emitters -> Ids \union {0}]
    /\ ring \in Seq(Ids) /\ Len(ring) <= RingCapacity
    /\ sent \in Seq(Ids \union {Clear}) /\ Len(sent) <= MaxSignals
    /\ conn \in [Clients -> BOOLEAN]
    /\ lastId \in [Clients -> Ids \union {0}]
    /\ after \in [Clients -> Ids \union {0}]
    /\ backlog \in [Clients -> Seq(Ids)]
    /\ pos \in [Clients -> 1..(MaxSignals + 1)]
    /\ start \in [Clients -> 1..(MaxSignals + 1)]
    /\ joined \in [Clients -> 1..(MaxSignals + 1)]
    /\ feed \in [Clients -> Seq(Ids)]
    /\ told \in [Clients -> 0..MaxSignals]
    /\ got \in [Clients -> SUBSET ((1..MaxBoots) \X Ids)]

EmptyBus ==
    /\ nextId' = 1
    /\ stamped' = [t \in Emitters |-> 0]
    /\ ring' = <<>>
    /\ sent' = <<>>

\* No stream: the values of a tab that is not connected.
NoStream(Q) ==
    /\ conn' = [c \in Clients |-> conn[c] /\ c \notin Q]
    /\ after' = [c \in Clients |-> IF c \in Q THEN 0 ELSE after[c]]
    /\ backlog' = [c \in Clients |-> IF c \in Q THEN <<>> ELSE backlog[c]]
    /\ pos' = [c \in Clients |-> IF c \in Q THEN 1 ELSE pos[c]]
    /\ start' = [c \in Clients |-> IF c \in Q THEN 1 ELSE start[c]]
    /\ joined' = [c \in Clients |-> IF c \in Q THEN 1 ELSE joined[c]]
    /\ feed' = [c \in Clients |-> IF c \in Q THEN <<>> ELSE feed[c]]
    /\ told' = [c \in Clients |-> IF c \in Q THEN 0 ELSE told[c]]

Init ==
    /\ boot = 1
    /\ nextId = 1
    /\ stamped = [t \in Emitters |-> 0]
    /\ ring = <<>>
    /\ sent = <<>>
    /\ conn = [c \in Clients |-> FALSE]
    /\ lastId = [c \in Clients |-> 0]
    /\ after = [c \in Clients |-> 0]
    /\ backlog = [c \in Clients |-> <<>>]
    /\ pos = [c \in Clients |-> 1]
    /\ start = [c \in Clients |-> 1]
    /\ joined = [c \in Clients |-> 1]
    /\ feed = [c \in Clients |-> <<>>]
    /\ told = [c \in Clients |-> 0]
    /\ got = [c \in Clients |-> {}]

------------------------------------------------------------------------------
(* emit, clear and subscribe.                                              *)

\* The bound: room for one more signal, those on the way included.
Room == Len(sent) + Cardinality({t \in Emitters : stamped[t] # 0}) < MaxSignals

\* emit, first half: fetch_add on the counter, no lock held.
Stamp(t) ==
    /\ stamped[t] = 0 /\ Room
    /\ stamped' = [stamped EXCEPT ![t] = nextId]
    /\ nextId' = nextId + 1
    /\ UNCHANGED <<boot, ring, sent, conn, page, stream>>

\* emit, second half: into the ring and onto the channel, under the lock.
\* (variant: the ring is trimmed only once it has outgrown its capacity)
PushLate(t) ==
    /\ stamped[t] # 0
    /\ ring' = Append(IF Len(ring) > RingCapacity THEN Tail(ring) ELSE ring, stamped[t])
    /\ sent' = Append(sent, stamped[t])
    /\ stamped' = [stamped EXCEPT ![t] = 0]
    /\ UNCHANGED <<boot, nextId, conn, page, stream>>

Push(t) ==
    /\ stamped[t] # 0
    /\ ring' = Append(IF Len(ring) = RingCapacity THEN Tail(ring) ELSE ring, stamped[t])
    /\ sent' = Append(sent, stamped[t])
    /\ stamped' = [stamped EXCEPT ![t] = 0]
    /\ UNCHANGED <<boot, nextId, conn, page, stream>>

\* clear: the ring is drained and every stream told so, under the lock.
\* (variant: the streams are told, the ring is kept)
ClearStreams ==
    /\ Room
    /\ sent' = Append(sent, Clear)
    /\ UNCHANGED <<boot, nextId, stamped, ring, conn, page, stream>>

ClearLog ==
    /\ Room
    /\ ring' = <<>>
    /\ sent' = Append(sent, Clear)
    /\ UNCHANGED <<boot, nextId, stamped, conn, page, stream>>

\* subscribe: a receiver at the end of the channel and a copy of the part of
\* the ring after the resume point a, under the lock.
Subscribe(c, a, receiver) ==
    /\ ~conn[c]
    /\ conn' = [conn EXCEPT ![c] = TRUE]
    /\ after' = [after EXCEPT ![c] = a]
    /\ backlog' = [backlog EXCEPT ![c] = Only(ring, {id \in Items(ring) : id > a})]
    /\ pos' = [pos EXCEPT ![c] = receiver]
    /\ start' = [start EXCEPT ![c] = Len(sent) + 1 - Len(ring)]
    /\ joined' = [joined EXCEPT ![c] = Len(sent) + 1]
    /\ UNCHANGED <<bus, feed, told>>

\* A page that is loaded anew has no Last-Event-ID, one that reconnects has
\* that of the last event it was handed.
\* (variant: the receiver is made before the lock is taken, one signal early)
ConnectEarly(c) ==
    \/ Subscribe(c, lastId[c], IF sent = <<>> THEN 1 ELSE Len(sent)) /\ UNCHANGED page
    \/ /\ lastId[c] # 0
       /\ Subscribe(c, 0, Len(sent) + 1)
       /\ lastId' = [lastId EXCEPT ![c] = 0]
       /\ got' = [got EXCEPT ![c] = {}]

Connect(c) ==
    \/ Subscribe(c, lastId[c], Len(sent) + 1) /\ UNCHANGED page
    \/ /\ lastId[c] # 0
       /\ Subscribe(c, 0, Len(sent) + 1)
       /\ lastId' = [lastId EXCEPT ![c] = 0]
       /\ got' = [got EXCEPT ![c] = {}]

------------------------------------------------------------------------------
(* The handler of a stream: the replay, and then whatever recv returns.    *)

\* A frame reaches the client; that of an event carries its id.
HandOver(c, i) ==
    /\ feed' = [feed EXCEPT ![c] = Append(@, i)]
    /\ lastId' = [lastId EXCEPT ![c] = IF sent[i] = Clear THEN @ ELSE sent[i]]
    /\ got' = [got EXCEPT ![c] = IF sent[i] = Clear THEN @ ELSE @ \union {<<boot, sent[i]>>}]

Replay(c) ==
    /\ conn[c] /\ backlog[c] # <<>>
    /\ HandOver(c, Index(Head(backlog[c])))
    /\ backlog' = [backlog EXCEPT ![c] = Tail(@)]
    /\ UNCHANGED <<bus, conn, after, pos, start, joined, told>>

\* The oldest position that the channel still holds.
Oldest == IF Len(sent) > ChannelCapacity THEN Len(sent) - ChannelCapacity + 1 ELSE 1

Recv(c) ==
    /\ conn[c] /\ backlog[c] = <<>>
    /\ pos[c] >= Oldest /\ pos[c] <= Len(sent)
    /\ HandOver(c, pos[c])
    /\ pos' = [pos EXCEPT ![c] = @ + 1]
    /\ UNCHANGED <<bus, conn, after, backlog, start, joined, told>>

\* RecvError::Lagged: the receiver skips to the oldest signal, and the client
\* is told how many were dropped.
\* (variants: it is not told; the loop ends as it does for Closed)
RecvLaggedSilently(c) ==
    /\ conn[c] /\ backlog[c] = <<>>
    /\ pos[c] < Oldest
    /\ pos' = [pos EXCEPT ![c] = Oldest]
    /\ UNCHANGED <<bus, conn, page, after, backlog, start, joined, feed, told>>

RecvLaggedEnds(c) ==
    /\ conn[c] /\ backlog[c] = <<>>
    /\ pos[c] < Oldest
    /\ told[c] = 0
    /\ told' = [told EXCEPT ![c] = Oldest - pos[c]]
    /\ UNCHANGED <<bus, conn, page, after, backlog, pos, start, joined, feed>>

RecvLagged(c) ==
    /\ conn[c] /\ backlog[c] = <<>>
    /\ pos[c] < Oldest
    /\ told' = [told EXCEPT ![c] = @ + Oldest - pos[c]]
    /\ pos' = [pos EXCEPT ![c] = Oldest]
    /\ UNCHANGED <<bus, conn, page, after, backlog, start, joined, feed>>

Deliver(c) == Replay(c) \/ Recv(c) \/ RecvLagged(c)

------------------------------------------------------------------------------
(* The world.                                                              *)

Disconnect(c) ==
    /\ conn[c]
    /\ NoStream({c})
    /\ UNCHANGED <<bus, page>>

Restart ==
    /\ boot < MaxBoots
    /\ boot' = boot + 1
    /\ EmptyBus
    /\ NoStream(Clients)
    /\ UNCHANGED page

Next ==
    \/ \E t \in Emitters : Stamp(t) \/ Push(t)
    \/ ClearLog
    \/ \E c \in Clients : Connect(c) \/ Deliver(c) \/ Disconnect(c)
    \/ Restart

\* The runtime polls a handler that has something to send, and the client
\* reads what it is sent.
Spec == Init /\ [][Next]_vars /\ \A c \in Clients : WF_vars(Deliver(c))

------------------------------------------------------------------------------
(* Properties.                                                             *)

\* What is kept for replay is exactly the newest events: all that were
\* broadcast since the last Clear, or the last RingCapacity of them.
RingIsRecent ==
    LET n == Len(sent) - Len(ring)
    IN /\ \A i \in DOMAIN ring : ring[i] = sent[n + i]
       /\ Clear \notin Items(ring)
       /\ n > 0 /\ Len(ring) < RingCapacity => sent[n] = Clear

\* The positions of what c was handed or will be replayed, in order.
Handed(c) == feed[c] \o [i \in DOMAIN backlog[c] |-> Index(backlog[c][i])]

\* A stream never shows a signal twice or out of the order of broadcasting,
\* although the replay and the live part come from different places (emit
\* "makes subscribe atomic").
InOrder ==
    \A c \in Clients : \A i, j \in DOMAIN Handed(c) :
        i < j => Handed(c)[i] < Handed(c)[j]

\* What a stream owes c so far: all since the start of the ring it found,
\* the events up to the resume point excepted.
Due(c) == {i \in start[c]..(pos[c] - 1) : i >= joined[c] \/ sent[i] > after[c]}

\* Nothing slips between the replay and the live part, and of what a slow
\* client misses it is told exactly how much.
NoSilentGap ==
    \A c \in Clients : conn[c] =>
        /\ Items(Handed(c)) \subseteq Due(c)
        /\ Cardinality(Due(c) \ Items(Handed(c))) = told[c]

\* A clear is durable: a stream opened after it replays nothing from before.
ClearIsDurable ==
    \A c \in Clients : \A i \in Items(Handed(c)) :
        \A j \in i..(joined[c] - 1) : sent[j] # Clear

CaughtUp(c) == backlog[c] = <<>> /\ pos[c] = Len(sent) + 1

\* A stream catches up or is cut, however far it lags.
StreamsCatchUp == \A c \in Clients : []<>(~conn[c] \/ CaughtUp(c))

\* Violated by the code: an event recorded while a tab was disconnected is
\* handed to it once it has reconnected, as long as the ring retains it.
ResumeLosesNothing ==
    \A c \in Clients : conn[c] /\ CaughtUp(c) /\ told[c] = 0 =>
        \A id \in Items(ring) : <<boot, id>> \in got[c]

==============================================================================
