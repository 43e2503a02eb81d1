------------------------------- MODULE Keyspace -------------------------------
(***************************************************************************)
(* One bucket: its keys, its files and a client that lists it.  Writes and *)
(* deletes are whole requests here (what their steps do to one another is  *)
(* the subject of ObjectStore): the question is what keys do to one        *)
(* another, through the paths they are mapped to, and to a listing that    *)
(* takes several fetches and several pages.                                *)
(***************************************************************************)
EXTENDS KeyPath, Listing, FiniteSets

CONSTANTS
    Keys,          \* the keys that clients use
    Strays,        \* the paths of files that users copy into the bucket
    Queries,       \* the listings that clients ask for
    MaxUsed,       \* bound: keys that are put or deleted, and strays
    MaxChanges     \* bound: changes of the bucket during a listing

\* Keys are strings, and the path of a file is a sequence of names.
ASSUME StringsAssumption == Keys \subseteq Strings /\ Strays \subseteq Seq(Strings)

ASSUME CharactersAssumption == {Slash, Percent} \subseteq Scalars

ASSUME QueriesAssumption == NoKey \notin Queries /\ \A q \in Queries : IsQuery(q)

ASSUME BoundsAssumption == MaxUsed \in Nat /\ MaxChanges \in Nat

VARIABLES
    rows,      \* the keys that have a row in table objects
    files,     \* files[p]: the key whose bytes are at path p, NoKey for a stray
    dirs,      \* the directories of the bucket; <<>> is its own
    used,      \* history: the keys that clients have put or deleted
    dropped,   \* history: the paths at which users have dropped files
    refused,   \* history: the keys whose PUT was answered with 500
    query,     \* the query of the listing, or NoKey
    at,        \* "fetch" in a page, "page" between two, "end" after the last
    state,     \* the engine's state of the page
    listed,    \* history: what the pages before have listed
    stayed,    \* history: the keys that were there all through the listing
    came,      \* history: the keys that were there some time during it
    changes    \* bounded: the changes during the listing

tree    == <<rows, files, dirs>>
past    == <<used, dropped, refused>>
listing == <<query, at, state, listed>>
watch   == <<stayed, came, changes>>

vars == <<tree, past, listing, watch>>

Ancestors(path) == {SubSeq(path, 1, n) : n \in 0..(Len(path) - 1)}

AllKeys == Keys \union {KeyOf(PathOf(k)) : k \in Keys} \union {KeyOf(p) : p \in Strays}
AllPaths == {PathOf(k) : k \in Keys} \union Strays

\* The variables have their types, the files and directories are a tree, and no
\* page has more than the client asked for.
TypeOK ==
    /\ rows \subseteq AllKeys
    /\ DOMAIN files \subseteq AllPaths /\ \A p \in DOMAIN files : files[p] \in Keys \union {NoKey}
    /\ <<>> \in dirs /\ DOMAIN files \intersect dirs = {}
    /\ \A p \in dirs \union DOMAIN files : Ancestors(p) \subseteq dirs
    /\ used \subseteq Keys /\ refused \subseteq used /\ dropped \subseteq Strays
    /\ query \in Queries \union {NoKey}
    /\ at \in {"fetch", "page", "end"}
    /\ query # NoKey => Len(state.page) <= query.max
    /\ stayed \subseteq came /\ came \subseteq AllKeys
    /\ changes \in 0..MaxChanges

Init ==
    /\ rows = {} /\ files = <<>> /\ dirs = {<<>>}
    /\ used = {} /\ dropped = {} /\ refused = {}
    /\ query = NoKey /\ at = "end" /\ state = EmptyPage(NoKey, NoKey) /\ listed = <<>>
    /\ stayed = {} /\ came = {} /\ changes = 0

------------------------------------------------------------------------------
(* The bucket changes.                                                     *)

\* What a change makes of the rows, and what a listing under way sees of it.
SetRows(new) ==
    /\ rows' = new
    /\ IF new = rows \/ query = NoKey THEN UNCHANGED watch
       ELSE /\ changes < MaxChanges
            /\ changes' = changes + 1
            /\ stayed' = stayed \intersect new
            /\ came' = came \union new

\* The bounds on changes: the keys and strays, and nothing after the listing.
Room(keys, paths) ==
    /\ Cardinality(keys) + Cardinality(paths) <= MaxUsed
    /\ query = NoKey \/ at # "end"

Store(path, who) == files' = [p \in DOMAIN files \union {path} |-> IF p = path THEN who ELSE files[p]]

\* create_dir_all of the parent of a path; a file in the way fails it.
\* (variant: of the path itself)
MakeDirsOfAll(path) == dirs' = dirs \union Ancestors(path) \union {path}

MakeDirs(path) == dirs' = dirs \union Ancestors(path)

Blocked(path) == Ancestors(path) \intersect DOMAIN files # {}

\* put_bytes: 500 when the directories cannot be made, or when the rename would
\* replace a directory; the directories stay.
PutObject(k) ==
    LET path == PathOf(k)
    IN /\ Room(used \union {k}, dropped)
       /\ used' = used \union {k}
       /\ IF Blocked(path) THEN UNCHANGED dirs ELSE MakeDirs(path)
       /\ IF Blocked(path) \/ NamesDirectory(k) \/ path \in dirs'
          THEN refused' = refused \union {k} /\ UNCHANGED <<rows, files, watch>>
          ELSE Store(path, k) /\ SetRows(rows \union {k}) /\ UNCHANGED refused
       /\ UNCHANGED <<dropped, listing>>

\* delete_object: the row, and then the file, if the path names one, whether or
\* not there was a row.  The directories stay.  (When the path names a directory
\* or has a file in its way the answer is 500, although the row is gone.)
DeleteObject(k) ==
    /\ Room(used \union {k}, dropped)
    /\ used' = used \union {k}
    /\ SetRows(rows \ {k})
    /\ IF NamesDirectory(k) THEN UNCHANGED files
       ELSE files' = [p \in DOMAIN files \ {PathOf(k)} |-> files[p]]
    /\ UNCHANGED <<dirs, dropped, refused, listing>>

\* A user copies a file into the directory of the bucket.
Drop(path) ==
    /\ Room(used, dropped \union {path})
    /\ ~Blocked(path) /\ path \notin dirs /\ path \notin DOMAIN files
    /\ Store(path, NoKey)
    /\ MakeDirs(path)
    /\ dropped' = dropped \union {path}
    /\ UNCHANGED <<rows, used, refused, listing, watch>>

\* The server is restarted with --reindex: every file gets a row.
Reindex ==
    /\ at # "fetch" /\ Room(used, dropped)
    /\ SetRows(rows \union {KeyOf(p) : p \in DOMAIN files})
    /\ UNCHANGED <<files, dirs, past, listing>>

------------------------------------------------------------------------------
(* The listing.  The lock of the database is taken for each fetch.         *)

BeginListing(q) ==
    /\ query = NoKey
    /\ query' = q /\ at' = "fetch"
    /\ state' = EmptyPage(IF q.after = NoKey THEN NoKey ELSE After(q.after),
                          IF q.version = 1 THEN q.after ELSE NoKey)
    /\ listed' = <<>>
    /\ stayed' = rows /\ came' = rows /\ changes' = 0
    /\ UNCHANGED <<tree, past>>

FetchBatch ==
    /\ at = "fetch"
    /\ state' = Turn(query, state, rows)
    /\ at' = [go |-> "fetch", full |-> "page", stop |-> "end"][state'.way]
    /\ UNCHANGED <<query, listed, tree, past, watch>>

\* A fetch fails, the answer is 500, and the client asks for the page again.
FetchFails ==
    /\ at = "fetch"
    /\ state' = EmptyPage(state.from, state.marker)
    /\ UNCHANGED <<query, at, listed, tree, past, watch>>

\* The client asks for the next page: v2 with the token, which is the cursor,
\* v1 with the last key or group it has got as marker.
NextPage ==
    /\ at = "page"
    /\ at' = "fetch"
    /\ listed' = listed \o state.page
    /\ state' = IF query.version = 2 THEN EmptyPage(state.cursor, NoKey)
                ELSE EmptyPage(After(Last(state.page)), Last(state.page))
    /\ UNCHANGED <<query, tree, past, watch>>

Next ==
    \/ \E k \in Keys : PutObject(k) \/ DeleteObject(k)
    \/ \E p \in Strays : Drop(p)
    \/ Reindex
    \/ \E q \in Queries : BeginListing(q)
    \/ FetchBatch \/ FetchFails \/ NextPage

Spec == Init /\ [][Next]_vars

------------------------------------------------------------------------------
(* Properties.                                                             *)

\* The groups that may stand for k, of which the shortest does.
Groups(q, k) ==
    IF q.delimiter = NoKey THEN {}
    ELSE {SubSeq(k, 1, n) : n \in {n \in DOMAIN k :
             \E i \in Len(q.prefix)..n : SubSeq(k, i + 1, n) = q.delimiter}}

Item(q, k) ==
    IF Groups(q, k) = {} THEN k ELSE CHOOSE g \in Groups(q, k) : \A h \in Groups(q, k) : IsPrefix(g, h)

\* What q asks for: the keys with its prefix that follow the key it begins
\* after, except, for v1, in groups that this key is in or follows.
Asked(q, k) ==
    /\ IsPrefix(q.prefix, k)
    /\ q.after # NoKey => Less(q.after, IF q.version = 1 THEN Item(q, k) ELSE k)

\* The engine leaves out a group that no string follows: one of nothing but
\* the maximum scalar.
LeftOut(q, k) ==
    Groups(q, k) # {} /\ \A i \in DOMAIN Item(q, k) : \A c \in Scalars : c <= Item(q, k)[i]

Shown == listed \o state.page

\* A listing of any number of pages shows each key that was there throughout
\* (or its group) exactly once, shows nothing that was never there, and all of
\* it in order, although keys come and go between its pages and between the
\* fetches of a page.
ListedOnce ==
    query # NoKey =>
        /\ \A i, j \in DOMAIN Shown : i < j => Less(Shown[i], Shown[j])
        /\ \A i \in DOMAIN Shown : \E k \in came : Asked(query, k) /\ Item(query, k) = Shown[i]
        /\ at = "end" => \A k \in stayed :
              Asked(query, k) /\ ~LeftOut(query, k) =>
                  \E i \in DOMAIN Shown : Shown[i] = Item(query, k)

\* The key that the path of k gives back: k without its empty segments, so that
\* only a slash between two others stays, the first of a run.
Canonical(k) ==
    LET stays == {i \in DOMAIN k :
                    k[i] = Slash => /\ i > 1 /\ k[i - 1] # Slash
                                    /\ \E j \in i..Len(k) : k[j] # Slash}
        kept == Sorted(stays)
    IN [n \in DOMAIN kept |-> k[kept[n]]]

\* The keys that a stray file stands for when it is indexed.
Recovered == {KeyOf(p) : p \in dropped}

\* Rows are of keys that were put, of their canonical forms, or of files that
\* users dropped; and such a key has its bytes at its path, unless a client has
\* put or deleted another key with the same path, or a user dropped its file
\* where no key's path is (under a name that the encoding would have escaped).
FilesHoldKeys ==
    \A k \in rows :
        /\ k \in used \union {Canonical(j) : j \in used} \union Recovered
        /\ (\A j \in used \ {k} : PathOf(j) # PathOf(k))
              /\ (\A p \in dropped : KeyOf(p) = k => PathOf(k) = p)
           => PathOf(k) \in DOMAIN files /\ files[PathOf(k)] \in {k, NoKey}

\* A PUT is refused only of a key whose path names a directory, or whose path
\* is above or below another in use: that of a key that was ever put, even if it
\* has been deleted since.
RefusedOnConflict ==
    \A k \in refused :
        \/ NamesDirectory(k)
        \/ \E p \in {PathOf(j) : j \in used} \union dropped :
              IsStrictPrefix(p, PathOf(k)) \/ IsStrictPrefix(PathOf(k), p)

==============================================================================
