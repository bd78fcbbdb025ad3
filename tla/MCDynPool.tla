---------------------------- MODULE MCDynPool -------------------------------
(* Instances of DynPool for TLC.                                           *)
EXTENDS DynPool, TLC

(* A single worker, and a pool that grows from one to three.               *)
SomeSizes == {[min |-> 1, max |-> 1], [min |-> 1, max |-> 3]}
=============================================================================
