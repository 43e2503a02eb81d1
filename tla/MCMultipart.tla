------------------------------ MODULE MCMultipart ------------------------------
(***************************************************************************)
(* Multipart for TLC.                                                      *)
(***************************************************************************)
EXTENDS Multipart, TLC

CONSTANTS a, b   \* two bodies

Entry(n, etag) == [n |-> n, etag |-> etag]

\* One part, two parts in order, two parts out of order, and none.
SomeLists ==
    {<<Entry(1, a)>>, <<Entry(1, a), Entry(2, b)>>, <<Entry(2, b), Entry(1, a)>>, <<>>}

\* The one part, with either body.
OneListEach == {<<Entry(1, a)>>, <<Entry(1, b)>>}

Symmetry == Permutations(Handlers)

==============================================================================
