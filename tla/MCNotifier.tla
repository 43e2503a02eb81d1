------------------------------ MODULE MCNotifier ------------------------------
(***************************************************************************)
(* Notifier for TLC.  No symmetry: a liveness property is checked.         *)
(***************************************************************************)
EXTENDS Notifier

MCChanges == {[key |-> <<"d", "b">>, kind |-> "Put"], [key |-> <<"a">>, kind |-> "Delete"]}

Draft(names, prefix, suffix, timeout) ==
    [scheme |-> "http", events |-> names, prefix |-> prefix, suffix |-> suffix,
     format |-> "eventbridge", timeout |-> timeout]

\* One that asks for the creations of PutObject, one that asks for what happens
\* in a folder, and one that is not valid.
MCDrafts ==
    {Draft({QualifiedName("Put")}, <<>>, <<>>, 1),
     Draft({Family("Put"), Family("Delete")}, <<"d">>, <<"b">>, 1),
     Draft({Family("Put")}, <<>>, <<>>, 0)}

==============================================================================
