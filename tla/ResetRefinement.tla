--------------------------- MODULE ResetRefinement ---------------------------
(***************************************************************************)
(* The transaction implements AtomicReset: a staged row counts as pending  *)
(* only where its mask is set.                                             *)
(***************************************************************************)
EXTENDS ResetTransaction

pendingRows == [e \in Envs |-> IF e \in dirty THEN staged[e] ELSE NoWrite]
pendingFields ==
  [f \in Fields |-> [e \in Envs |-> IF e \in fieldDirty[f] THEN fieldBuf[f][e] ELSE NoWrite]]

\* The columns one staging operation may set; the rest come from the row's base.
RowParts == {{"joint"}, {"rot"}, {"vel"}, {"rot", "vel"}}

Atomic == INSTANCE AtomicReset WITH
  Parts <- RowParts, open <- active, scope <- activeMask,
  pending <- pendingRows, pendingField <- pendingFields

(* Rows reach the simulator all together or not at all, starting from the  *)
(* defaults and carrying this reset's writes only, although buffers and    *)
(* caches live on from one reset to the next (reset_state.py:1-6).         *)
ImplementsAtomicReset == Atomic!Spec
=============================================================================
