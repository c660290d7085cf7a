---------------------------- MODULE MCFirestore -----------------------------
(* Firestore for TLC. *)
EXTENDS Firestore, TLC

Symmetry == Permutations(Writers)
=============================================================================
