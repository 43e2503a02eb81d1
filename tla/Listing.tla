------------------------------- MODULE Listing -------------------------------
(***************************************************************************)
(* The listing engine (listing.rs): what one page takes from each batch of *)
(* keys that it fetches.  Keys are sequences of characters, which are      *)
(* numbers in the order of their code points.                              *)
(***************************************************************************)
EXTENDS Naturals, FiniteSets, Sequences, SequencesExt

CONSTANTS
    Scalars,   \* the characters there are: a gap stands for the surrogates
    NoKey      \* no key, no bound, no delimiter

Nul == 0

ASSUME ScalarsAssumption == Scalars \subseteq Nat /\ Nul \in Scalars

Strings == Seq(Scalars)

ASSUME NoKeyAssumption == NoKey \notin Strings

\* BINARY order.
Less(s, t) ==
    \/ IsStrictPrefix(s, t)
    \/ \E i \in DOMAIN s \intersect DOMAIN t :
          s[i] < t[i] /\ \A j \in 1..(i - 1) : s[j] = t[j]

AtMost(s, t) == s = t \/ Less(s, t)

NextScalar(c) == CHOOSE d \in Scalars : d > c /\ \A e \in Scalars : e > c => d <= e

\* successor: the least string after all that begin with s, or NoKey.  The
\* maximum scalar is dropped, and the character before it goes up.
Successor(s) ==
    LET low == {i \in DOMAIN s : \E d \in Scalars : d > s[i]}
    IN IF low = {} THEN NoKey
       ELSE LET i == CHOOSE i \in low : \A j \in low : j <= i
            IN Append(SubSeq(s, 1, i - 1), NextScalar(s[i]))

\* list_objects_page: the first limit of keys in the range of prefix, from a
\* cursor on.
Fetch(keys, prefix, from, limit) ==
    LET upper == Successor(prefix)
        lower == IF from # NoKey /\ Less(prefix, from) THEN from ELSE prefix
        range == {k \in keys : AtMost(lower, k) /\ (upper = NoKey \/ Less(k, upper))}
        size == IF Cardinality(range) < limit THEN Cardinality(range) ELSE limit
    IN [n \in 1..size |-> CHOOSE k \in range : Cardinality({j \in range : AtMost(j, k)}) = n]

\* Where in key a delimiter ends that begins after the prefix.
Cuts(key, prefix, delimiter) ==
    IF delimiter = NoKey THEN {}
    ELSE {i \in DOMAIN key :
             /\ i >= Len(prefix) + Len(delimiter)
             /\ SubSeq(key, i - Len(delimiter) + 1, i) = delimiter}

\* classify: the group that key is rolled up into, or NoKey for none.
GroupOf(key, prefix, delimiter) ==
    LET cuts == Cuts(key, prefix, delimiter)
    IN IF cuts = {} THEN NoKey
       ELSE SubSeq(key, 1, CHOOSE i \in cuts : \A j \in cuts : i <= j)

\* Where a listing goes on after key: "key\0".
After(key) == Append(key, Nul)

\* A query q has a prefix, a delimiter (NoKey for none), the key it begins after
\* (NoKey for none), a size of pages and the version of the request.  (A page of
\* no keys is answered at once.)
IsQuery(q) ==
    /\ q.prefix \in Strings
    /\ q.delimiter = NoKey \/ (q.delimiter \in Strings /\ q.delimiter # <<>>)
    /\ q.after \in Strings \union {NoKey}
    /\ q.max \in Nat \ {0} /\ q.version \in {1, 2}

\* The state of a page: the keys and groups it has, in order; where it and its
\* next fetch begin; the marker of v1, or NoKey; in a batch, the bound below which
\* keys are skipped; and how it goes on: "go", "full" (a key is left over) or
\* "stop" (no key can follow).
EmptyPage(from, marker) ==
    [from |-> from, page |-> <<>>, cursor |-> from, marker |-> marker, skip |-> NoKey, way |-> "go"]

\* v1: the group was listed before.
\* (variant: the marker is not looked at)
CoveredNever(st, group) == FALSE

Covered(st, group) == st.marker # NoKey /\ AtMost(group, st.marker)

\* A key of a batch.
\* (variant: the page is not cut before the batch ends)
AbsorbGroup(st, group) ==
    IF Successor(group) = NoKey THEN [st EXCEPT !.way = "stop"]
    ELSE [st EXCEPT !.cursor = Successor(group), !.skip = Successor(group),
                    !.page = IF Covered(st, group) THEN @ ELSE Append(@, group)]

AbsorbKey(st, key) ==
    [st EXCEPT !.cursor = After(key), !.skip = NoKey, !.page = Append(@, key)]

AbsorbBeyond(q, st, key) ==
    LET group == GroupOf(key, q.prefix, q.delimiter)
    IN IF st.way # "go" \/ (st.skip # NoKey /\ Less(key, st.skip)) THEN st
       ELSE IF group # NoKey THEN AbsorbGroup(st, group)
       ELSE AbsorbKey(st, key)

Absorb(q, st, key) ==
    LET group == GroupOf(key, q.prefix, q.delimiter)
    IN IF st.way # "go" \/ (st.skip # NoKey /\ Less(key, st.skip)) THEN st
       ELSE IF Len(st.page) = q.max THEN [st EXCEPT !.way = "full"]
       ELSE IF group # NoKey THEN AbsorbGroup(st, group)
       ELSE AbsorbKey(st, key)

\* The state when n keys of a batch have been taken.
Taken(q, st, batch) ==
    LET taken[n \in 0..Len(batch)] ==
            IF n = 0 THEN [st EXCEPT !.skip = NoKey] ELSE Absorb(q, taken[n - 1], batch[n])
    IN taken

\* list_page, one turn of its loop: a fetch and what it does with the batch.
\* A page that is full only looks whether another key is there.
Want(q, st) == IF Len(st.page) = q.max THEN 1 ELSE q.max - Len(st.page) + 1

Turn(q, st, keys) ==
    LET want == Want(q, st)
        batch == Fetch(keys, q.prefix, st.cursor, want)
        next == Taken(q, st, batch)[Len(batch)]
    IN IF next.way = "go" /\ Len(batch) < want THEN [next EXCEPT !.way = "stop"] ELSE next

==============================================================================
