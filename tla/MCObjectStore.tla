---------------------------- MODULE MCObjectStore ----------------------------
(***************************************************************************)
(* ObjectStore for TLC.                                                    *)
(***************************************************************************)
EXTENDS ObjectStore, TLC

\* Requests, bodies and keys are told apart only by being different.
Symmetry ==
    Permutations(Requests) \union Permutations(Bodies) \union Permutations(Keys)

==============================================================================
