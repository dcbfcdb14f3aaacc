----------------------------- MODULE MCHistory ------------------------------
(* An instance of ObservationHistory and its refinement for TLC. *)
EXTENDS WindowRefinement, TLC

RowSymmetry == Permutations(Row)
=============================================================================
