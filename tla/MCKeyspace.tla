------------------------------ MODULE MCKeyspace ------------------------------
(***************************************************************************)
(* Keyspace for TLC.  The characters are, in the order of their code       *)
(* points: NUL, the percent sign, the dot, the slash, the colon, two       *)
(* letters, and, after the surrogates, the maximum scalar.                 *)
(***************************************************************************)
EXTENDS Keyspace

MCScalars == {0, 1, 2, 3, 4, 5, 6, 8}

Percents == 1
Dots == 2
Slashes == 3
Colon == 4
A == 5
B == 6
Top == 8

MCIllegal == {Percents, Colon}
MCDevices == {<<B>>}

MCKeys ==
    {<<A>>, <<A, Slashes, B>>, <<A, Slashes, Slashes, B>>, <<A, Slashes>>,
     <<Colon>>, <<Percents, Colon>>, <<A, Top>>, <<Top>>}

MCStrays == {<<<<Colon>>>>, <<<<A>>, <<A, Dots>>>>}

AllQueries ==
    {[prefix |-> p, delimiter |-> d, after |-> k, max |-> n, version |-> v] :
        <<p, d, k>> \in {<<<<>>, NoKey, NoKey>>, <<<<>>, <<Slashes>>, NoKey>>, <<<<>>, <<Top>>, NoKey>>,
                         <<<<>>, <<Slashes>>, <<A, Slashes, A>>>>,
                         <<<<A, Slashes>>, <<Slashes>>, <<A, Slashes, Slashes>>>>},
        n \in 1..2, v \in 1..2}

\* Without groups the versions differ little, and so do the sizes with few.
MCQueries ==
    {q \in AllQueries : /\ q.delimiter = NoKey => q.version = 2
                        /\ q.delimiter = <<Top>> => q.max = 1}

==============================================================================
