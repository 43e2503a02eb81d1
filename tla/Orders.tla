-------------------------------- MODULE Orders --------------------------------
(***************************************************************************)
(* A set of numbers as a sequence, and the part of a sequence that is in a *)
(* set, both in order: what "ORDER BY id" and "filter" do.  They are       *)
(* defined by counting, so that no recursion hides what they return        *)
(* (OrdersProofs).                                                         *)
(***************************************************************************)
EXTENDS Naturals, Sequences, FiniteSets

\* The place of i among the members of I.
Rank(I, i) == Cardinality({j \in I : j <= i})

\* The members of I in increasing order.
Sorted(I) == [k \in 1..Cardinality(I) |-> CHOOSE i \in I : Rank(I, i) = k]

\* The elements of s that are in S, in the order of s.
Only(s, S) ==
    LET kept == Sorted({i \in DOMAIN s : s[i] \in S})
    IN [k \in DOMAIN kept |-> s[kept[k]]]

==============================================================================
