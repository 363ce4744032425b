---------------------------- MODULE MCNvcContext ----------------------------
(* Instances of NvcContext for the model checker. *)
EXTENDS NvcContext, TLC

Symmetry == Permutations(Pids)
=============================================================================
