----------------------------- MODULE MCTracking -----------------------------
(***************************************************************************)
(* An instance of MotionTracking for TLC: a clip of one frame, which every *)
(* step runs off, and one of two; a push drawn per row, whose interval is   *)
(* no multiple of the step, and a wind on global time, whose interval is.   *)
(***************************************************************************)
EXTENDS MotionTracking, TLC

CONSTANTS push, wind

Ranges(t) == IF t = push THEN {3} ELSE {4}
TwoClips == {<<0, 0>>, <<1, 2>>}
EnvSymmetry == Permutations(Envs)
=============================================================================
