------------------------------ MODULE MCEventBus ------------------------------
(***************************************************************************)
(* EventBus for TLC.  No symmetry: a liveness property is checked.         *)
(***************************************************************************)
EXTENDS EventBus

==============================================================================
