------------------------------ MODULE MCTasks -------------------------------
(* Tasks for TLC. *)
EXTENDS Tasks, TLC

Symmetry == Permutations(Clients)
=============================================================================
