------------------------------- MODULE MCReset -------------------------------
(***************************************************************************)
(* Instances of ResetRefinement for TLC.  Orientations are the rotations   *)
(* of a two-element cycle: enough for a pose and a velocity frame that     *)
(* differ.                                                                 *)
(***************************************************************************)
EXTENDS ResetRefinement, Integers, TLC

Cycle == 0 .. 1
MCToBody(w, q) == (w + 2 - q) % 2
MCToWorld(v, q) == (v + q) % 2

DefaultPose == [rot |-> 0, vel |-> 0, joint |-> 0]
\* Columns whose defaults differ, so that a row taken from elsewhere shows.
DefaultColumns == [c \in Cols |-> IF c = (CHOOSE first \in Cols : TRUE) THEN 0 ELSE 1]

EnvSymmetry == Permutations(Envs)
=============================================================================
