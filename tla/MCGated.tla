------------------------------ MODULE MCGated ------------------------------
(***************************************************************************)
(* Instances of GatedRandomization for TLC: a gated term and one that       *)
(* triggers on every reset.                                                 *)
(***************************************************************************)
EXTENDS GatedRandomization, TLC

CONSTANTS gated, always, mass, friction, c1, c2

Same(w, q) == w
DefaultPose == [rot |-> 0, vel |-> 0, joint |-> 0]
DefaultColumns == [c \in Cols |-> 0]
GatedFirst == <<gated, always>>
GatedLast == <<always, gated>>
Gate(t) == IF t = gated THEN 2 ELSE 0

\* One field each.
OwnField(t) == IF t = gated THEN mass ELSE friction
FirstColumn(t) == {c1}
\* Two bodies of one field.
SharedField(t) == mass
OwnColumn(t) == IF t = gated THEN {c1} ELSE {c2}

EnvSymmetry == Permutations(Envs)
=============================================================================
