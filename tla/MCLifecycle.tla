---------------------------- MODULE MCLifecycle ----------------------------
(* Small instances of EnvLifecycle for TLC. *)
EXTENDS EnvLifecycle, TLC

EnvSymmetry == Permutations(Envs)
EveryReset == (SUBSET Envs) \ {{}}
Always == {TRUE}
Either == BOOLEAN
Never == {FALSE}
=============================================================================
