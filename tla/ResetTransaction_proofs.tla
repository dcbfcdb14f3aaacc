----------------------- MODULE ResetTransaction_proofs -----------------------
(***************************************************************************)
(* Proofs about the reset-state transaction, for any number of rows,       *)
(* fields, columns and mocap bodies.                                       *)
(***************************************************************************)
EXTENDS ResetRefinement, TLAPS

LEMMA PreparedType ==
  ASSUME TypeOK, NEW ids \in SUBSET Envs
  PROVE  Prepared(ids) \in [Envs -> Row]
BY DefaultAssumption DEF TypeOK, Prepared

LEMMA OverlayType ==
  ASSUME TypeOK, NEW f \in Fields, NEW ids \in SUBSET Envs, NEW cols \in SUBSET Cols,
         NEW v \in [ids -> Values]
  PROVE  Overlay(f, ids, cols, v) \in [Envs -> FieldRow]
BY DefaultAssumption DEF TypeOK, Overlay, FieldRow

LEMMA FilledType ==
  ASSUME TypeOK, NEW fields \in SUBSET Fields
  PROVE  Filled(fields) \in [Fields -> [Envs -> FieldRow]]
BY DEF TypeOK, Filled

(* Type correctness, one step per operation of the transaction. *)
LEMMA InitTypeOK == Init => TypeOK
<1> SUFFICES ASSUME Init PROVE TypeOK
  OBVIOUS
<1>1. sim \in [Envs -> Row] /\ simField \in [Fields -> [Envs -> FieldRow]]
  BY DefaultAssumption DEF Init
<1>2. /\ fieldDirty \in [Fields -> SUBSET Envs]
      /\ committed \in [Fields -> SUBSET Envs]
      /\ mocapMask \in [Bodies -> SUBSET Envs]
      /\ asked \in [Envs -> Vels \cup {NoWrite}]
  BY DEF Init, NoRows, NoMocap, NotAsked
<1>. QED BY <1>1, <1>2 DEF Init, TypeOK

LEMMA StageRowTypeOK ==
  ASSUME TypeOK, NEW ids \in SUBSET Envs
  PROVE  /\ Begin(ids) => TypeOK'
         /\ ResetToDefault(ids) => TypeOK'
         /\ ReadRootPose(ids) => TypeOK'
         /\ \A joint \in [ids -> Joints] : WriteJointState(ids, joint) => TypeOK'
         /\ \A rot \in [ids -> Rots] : WriteRootPose(ids, rot) => TypeOK'
<1> USE DEF control, rowVars, fieldVars, cacheVars, mocapVars, backend, CanStage
<1>1. Begin(ids) => TypeOK'
  BY DEF TypeOK, Begin, NoRows, NotAsked
<1>2. ResetToDefault(ids) => TypeOK'
  BY DefaultAssumption DEF TypeOK, ResetToDefault
<1>3. ReadRootPose(ids) => TypeOK'
  BY PreparedType DEF TypeOK, ReadRootPose
<1>4. ASSUME NEW joint \in [ids -> Joints], WriteJointState(ids, joint)
      PROVE  TypeOK'
  <2>1. staged' \in [Envs -> Row]
    <3>1. \A e \in Envs : Prepared(ids)[e] \in Row
      BY PreparedType
    <3>. QED BY <1>4, <3>1 DEF TypeOK, WriteJointState, Row
  <2>. QED BY <1>4, <2>1 DEF TypeOK, WriteJointState
<1>5. ASSUME NEW rot \in [ids -> Rots], WriteRootPose(ids, rot)
      PROVE  TypeOK'
  <2>1. staged' \in [Envs -> Row]
    <3>1. \A e \in Envs : Prepared(ids)[e] \in Row
      BY PreparedType
    <3>. QED BY <1>5, <3>1 DEF TypeOK, WriteRootPose, Row
  <2>. QED BY <1>5, <2>1 DEF TypeOK, WriteRootPose
<1>. QED BY <1>1, <1>2, <1>3, <1>4, <1>5

LEMMA StageVelocityTypeOK ==
  ASSUME TypeOK, NEW ids \in SUBSET Envs, NEW world \in [ids -> Vels]
  PROVE  /\ WriteRootVelocity(ids, world) => TypeOK'
         /\ \A rot \in [ids -> Rots] : WriteRootState(ids, rot, world) => TypeOK'
<1> USE DEF control, rowVars, fieldVars, cacheVars, mocapVars, backend, CanStage
<1>1. ASSUME WriteRootVelocity(ids, world) PROVE TypeOK'
  <2>1. staged' \in [Envs -> Row]
    <3>1. \A e \in Envs : Prepared(ids)[e] \in Row
      BY PreparedType
    <3>2. \A e \in ids : ToBody(world[e], Prepared(ids)[e].rot) \in Vels
      BY <3>1, FrameAssumption DEF Row
    <3>. QED BY <1>1, <3>1, <3>2 DEF TypeOK, WriteRootVelocity, EncodedVelocity, Row
  <2>. QED BY <1>1, <2>1 DEF TypeOK, WriteRootVelocity
<1>2. ASSUME NEW rot \in [ids -> Rots], WriteRootState(ids, rot, world) PROVE TypeOK'
  <2>1. staged' \in [Envs -> Row]
    <3>1. \A e \in Envs : Prepared(ids)[e] \in Row
      BY PreparedType
    <3>2. \A e \in ids : ToBody(world[e], rot[e]) \in Vels
      BY FrameAssumption
    <3>. QED BY <1>2, <3>1, <3>2 DEF TypeOK, WriteRootState, Row
  <2>. QED BY <1>2, <2>1 DEF TypeOK, WriteRootState
<1>. QED BY <1>1, <1>2

LEMMA StageFieldTypeOK ==
  ASSUME TypeOK, NEW ids \in SUBSET Envs, NEW f \in Fields, NEW cols \in SUBSET Cols,
         NEW v \in [ids -> Values], StageField(f, ids, cols, v)
  PROVE  TypeOK'
BY PreparedType, OverlayType
   DEF TypeOK, StageField, control, cacheVars, mocapVars, backend, CanStage

LEMMA MocapTypeOK ==
  ASSUME TypeOK, NEW b \in Bodies
  PROVE  /\ BindMocap(b) => TypeOK'
         /\ \A ids \in SUBSET Envs : \A pose \in [ids -> MocapPoses] :
              WriteMocapPose(b, ids, pose) => TypeOK'
<1> USE DEF control, rowVars, fieldVars, cacheVars, mocapVars, backend, CanStage
<1>1. BindMocap(b) => TypeOK'
  BY DEF TypeOK, BindMocap
<1>2. ASSUME NEW ids \in SUBSET Envs, NEW pose \in [ids -> MocapPoses],
             WriteMocapPose(b, ids, pose)
      PROVE  TypeOK'
  BY <1>2 DEF TypeOK, WriteMocapPose
<1>. QED BY <1>1, <1>2

LEMMA CommitTypeOK == TypeOK /\ Commit => TypeOK'
<1> SUFFICES ASSUME TypeOK, Commit PROVE TypeOK'
  OBVIOUS
<1> USE DEF cacheVars, backend
<1>1. fieldBuf' \in [Fields -> [Envs -> FieldRow]]
  <2>1. PayloadFields \subseteq Fields
    BY DEF PayloadFields
  <2>2. CASE CommitMocapOnly
    BY <2>2 DEF CommitMocapOnly, TypeOK
  <2>3. CASE CommitRows
    BY <2>1, <2>3, FilledType DEF CommitRows
  <2>4. CASE CommitSparseFails
    BY <2>1, <2>4, FilledType DEF CommitSparseFails
  <2>5. CASE CommitSetStateFails
    BY <2>1, <2>5, FilledType DEF CommitSetStateFails
  <2>. QED BY <2>2, <2>3, <2>4, <2>5 DEF Commit
<1>2. /\ sim' \in [Envs -> Row]
      /\ simField' \in [Fields -> [Envs -> FieldRow]]
      /\ cache' \in [Fields -> [Envs -> FieldRow]]
      /\ committed' \in [Fields -> SUBSET Envs]
  <2>1. CASE CommitRows
    BY <1>1, <2>1 DEF CommitRows, SetState, RecordPayload, TypeOK
  <2>2. CASE UNCHANGED <<cacheVars, sim, simField>>
    BY <2>2 DEF TypeOK
  <2>. QED BY <2>1, <2>2 DEF Commit, CommitMocapOnly, CommitSparseFails, CommitSetStateFails
<1>3. simMocap' \in [Bodies -> [Envs -> MocapPoses]]
  <2>1. \A bodies : Upload(bodies) => simMocap' \in [Bodies -> [Envs -> MocapPoses]]
    BY DEF Upload, TypeOK
  <2>2. UploadAllOrSome => simMocap' \in [Bodies -> [Envs -> MocapPoses]]
    BY <2>1 DEF UploadAllOrSome
  <2>. QED BY <2>2 DEF Commit, CommitRows, CommitMocapOnly, CommitSparseFails,
                       CommitSetStateFails, TypeOK
<1>. QED BY <1>1, <1>2, <1>3 DEF TypeOK, Commit, Finish, HasWrites, NoRows, NoMocap, NotAsked

LEMMA CloseTypeOK == TypeOK /\ (Abort \/ Physics) => TypeOK'
<1>1. TypeOK /\ Abort => TypeOK'
  BY DEF TypeOK, Abort, Finish, NoRows, NoMocap, NotAsked, cacheVars, backend
<1>2. TypeOK /\ Physics => TypeOK'
  BY DEF TypeOK, Physics, control, rowVars, fieldVars, cacheVars, mocapVars
<1>. QED BY <1>1, <1>2

LEMMA StutterTypeOK == TypeOK /\ UNCHANGED vars => TypeOK'
BY DEF TypeOK, vars, control, rowVars, fieldVars, cacheVars, mocapVars, backend

LEMMA NextTypeOK == TypeOK /\ [Next]_vars => TypeOK'
<1> SUFFICES ASSUME TypeOK, [Next]_vars PROVE TypeOK'
  OBVIOUS
<1>. QED
  BY StageRowTypeOK, StageVelocityTypeOK, StageFieldTypeOK, MocapTypeOK, CommitTypeOK,
     CloseTypeOK, StutterTypeOK
  DEF Next, WriteRandomization, WriteActuatorGains

(* The buffers, masks, caches and the backend keep their shapes under      *)
(* every sequence of operations.                                           *)
THEOREM TypeCorrect == Spec => []TypeOK
BY InitTypeOK, NextTypeOK, PTL DEF Spec

-----------------------------------------------------------------------------
(* The inductive invariant.  StagedInsideReset needs ClosedIsClean because *)
(* begin() does not clear the mocap masks; the other two stand alone.      *)
IInv ==
  /\ TypeOK
  /\ ClosedIsClean
  /\ StagedInsideReset
  /\ CacheMirrorsBackend
  /\ VelocityInStagedFrame

LEMMA InitIInv == Init => IInv
<1> SUFFICES ASSUME Init PROVE IInv
  OBVIOUS
<1>1. TypeOK
  BY InitTypeOK
<1>2. ClosedIsClean /\ VelocityInStagedFrame
  BY DEF Init, ClosedIsClean, VelocityInStagedFrame, NotAsked
<1>3. StagedInsideReset
  BY DEF Init, StagedInsideReset, NoRows, NoMocap
<1>4. CacheMirrorsBackend
  BY DEF Init, CacheMirrorsBackend, NoRows
<1>. QED BY <1>1, <1>2, <1>3, <1>4 DEF IInv

(* A staging operation keeps the transaction open, and neither the cache   *)
(* nor the backend moves.                                                  *)
Staging(ids) ==
  \/ Begin(ids)
  \/ ResetToDefault(ids)
  \/ ReadRootPose(ids)
  \/ \E joint \in [ids -> Joints] : WriteJointState(ids, joint)
  \/ \E rot \in [ids -> Rots] : WriteRootPose(ids, rot)
  \/ \E world \in [ids -> Vels] : WriteRootVelocity(ids, world)
  \/ \E rot \in [ids -> Rots], world \in [ids -> Vels] : WriteRootState(ids, rot, world)
  \/ \E f \in Fields, cols \in SUBSET Cols, v \in [ids -> Values] : StageField(f, ids, cols, v)
  \/ \E b \in Bodies, pose \in [ids -> MocapPoses] : WriteMocapPose(b, ids, pose)

LEMMA NextCases ==
  ASSUME Next
  PROVE  \/ \E ids \in SUBSET Envs : Staging(ids)
         \/ \E b \in Bodies : BindMocap(b)
         \/ Commit
         \/ Abort
         \/ Physics
BY DEF Next, Staging, WriteRandomization, WriteActuatorGains

LEMMA StagingIsLocal ==
  ASSUME NEW ids \in SUBSET Envs, Staging(ids)
  PROVE  active' /\ UNCHANGED <<cacheVars, backend>>
<1> USE DEF CanStage, control
<1>1. CASE Begin(ids) \/ ResetToDefault(ids) \/ ReadRootPose(ids)
  BY <1>1 DEF Begin, ResetToDefault, ReadRootPose
<1>2. CASE \/ \E joint \in [ids -> Joints] : WriteJointState(ids, joint)
           \/ \E rot \in [ids -> Rots] : WriteRootPose(ids, rot)
           \/ \E world \in [ids -> Vels] : WriteRootVelocity(ids, world)
  BY <1>2 DEF WriteJointState, WriteRootPose, WriteRootVelocity
<1>3. ASSUME NEW rot \in [ids -> Rots], NEW world \in [ids -> Vels],
             WriteRootState(ids, rot, world)
      PROVE  active' /\ UNCHANGED <<cacheVars, backend>>
  BY <1>3 DEF WriteRootState
<1>4. CASE \E f \in Fields, cols \in SUBSET Cols, v \in [ids -> Values] :
             StageField(f, ids, cols, v)
  BY <1>4 DEF StageField
<1>5. CASE \E b \in Bodies, pose \in [ids -> MocapPoses] : WriteMocapPose(b, ids, pose)
  BY <1>5 DEF WriteMocapPose
<1>. QED BY <1>1, <1>2, <1>3, <1>4, <1>5 DEF Staging

LEMMA StagingStaysInside ==
  ASSUME IInv, NEW ids \in SUBSET Envs, Staging(ids)
  PROVE  StagedInsideReset'
<1> USE DEF IInv, StagedInsideReset, control, rowVars, fieldVars, mocapVars
<1>1. CASE Begin(ids)
  BY <1>1 DEF Begin, ClosedIsClean, NoRows, NoMocap
<1>2. CASE \/ ResetToDefault(ids)
           \/ ReadRootPose(ids)
           \/ \E joint \in [ids -> Joints] : WriteJointState(ids, joint)
           \/ \E rot \in [ids -> Rots] : WriteRootPose(ids, rot)
           \/ \E world \in [ids -> Vels] : WriteRootVelocity(ids, world)
           \/ \E rot \in [ids -> Rots], world \in [ids -> Vels] : WriteRootState(ids, rot, world)
  <2>1. /\ dirty' \in {dirty, dirty \cup ids}
        /\ ids \subseteq activeMask
        /\ UNCHANGED <<activeMask, fieldDirty, mocapMask, bound>>
    BY <1>2 DEF ResetToDefault, ReadRootPose, WriteJointState, WriteRootPose,
                WriteRootVelocity, WriteRootState, CanStage
  <2>. QED BY <2>1
<1>3. CASE \E f \in Fields, cols \in SUBSET Cols, v \in [ids -> Values] :
             StageField(f, ids, cols, v)
  BY <1>3 DEF StageField, CanStage, TypeOK
<1>4. CASE \E b \in Bodies, pose \in [ids -> MocapPoses] : WriteMocapPose(b, ids, pose)
  BY <1>4 DEF WriteMocapPose, CanStage, TypeOK
<1>. QED BY <1>1, <1>2, <1>3, <1>4 DEF Staging

LEMMA StagingKeepsFrame ==
  ASSUME IInv, NEW ids \in SUBSET Envs, Staging(ids)
  PROVE  VelocityInStagedFrame'
<1> SUFFICES ASSUME NEW e \in Envs, asked'[e] # NoWrite
             PROVE  e \in dirty' /\ ToWorld(staged'[e].vel, staged'[e].rot) = asked'[e]
  BY DEF VelocityInStagedFrame
<1> DEFINE row == Prepared(ids)[e]
<1>1. row \in Row
  BY PreparedType DEF IInv
<1>2. e \in dirty => row = staged[e]
  BY DEF Prepared
<1>3. asked[e] # NoWrite => e \in dirty /\ ToWorld(staged[e].vel, staged[e].rot) = asked[e]
  BY DEF IInv, VelocityInStagedFrame
<1> USE DEF control, rowVars, fieldVars, mocapVars
<1>4. CASE Begin(ids)
  BY <1>4 DEF Begin, NotAsked
<1>5. CASE ResetToDefault(ids)
  BY <1>3, <1>5 DEF ResetToDefault, IInv, TypeOK
<1>6. CASE ReadRootPose(ids)
  BY <1>2, <1>3, <1>6 DEF ReadRootPose
<1>7. ASSUME NEW joint \in [ids -> Joints], WriteJointState(ids, joint)
      PROVE  e \in dirty' /\ ToWorld(staged'[e].vel, staged'[e].rot) = asked'[e]
  <2>1. asked'[e] = asked[e] /\ e \in dirty /\ dirty \subseteq dirty'
    BY <1>3, <1>7 DEF WriteJointState
  <2>2. staged'[e].vel = staged[e].vel /\ staged'[e].rot = staged[e].rot
    BY <1>1, <1>2, <1>7, <2>1 DEF WriteJointState, Row
  <2>. QED BY <1>3, <2>1, <2>2
<1>8. ASSUME NEW rot \in [ids -> Rots], WriteRootPose(ids, rot)
      PROVE  e \in dirty' /\ ToWorld(staged'[e].vel, staged'[e].rot) = asked'[e]
  BY <1>3, <1>8 DEF WriteRootPose, IInv, TypeOK
<1>9. ASSUME NEW world \in [ids -> Vels], WriteRootVelocity(ids, world)
      PROVE  e \in dirty' /\ ToWorld(staged'[e].vel, staged'[e].rot) = asked'[e]
  <2>1. CASE e \in ids
    <3>1. /\ staged'[e] = [row EXCEPT !.vel = ToBody(world[e], row.rot)]
          /\ asked'[e] = world[e] /\ e \in dirty'
      BY <1>9, <2>1 DEF WriteRootVelocity, EncodedVelocity
    <3>2. staged'[e].rot = row.rot /\ staged'[e].vel = ToBody(world[e], row.rot)
      BY <1>1, <3>1 DEF Row
    <3>3. world[e] \in Vels /\ row.rot \in Rots
      BY <1>1, <2>1 DEF Row
    <3>. QED BY <3>1, <3>2, <3>3, FrameAssumption
  <2>2. CASE e \notin ids
    BY <1>3, <1>9, <2>2 DEF WriteRootVelocity, EncodedVelocity
  <2>. QED BY <2>1, <2>2
<1>10. ASSUME NEW rot \in [ids -> Rots], NEW world \in [ids -> Vels],
              WriteRootState(ids, rot, world)
       PROVE  e \in dirty' /\ ToWorld(staged'[e].vel, staged'[e].rot) = asked'[e]
  <2>1. CASE e \in ids
    <3>1. /\ staged'[e] = [row EXCEPT !.rot = rot[e], !.vel = ToBody(world[e], rot[e])]
          /\ asked'[e] = world[e] /\ e \in dirty'
      BY <1>10, <2>1 DEF WriteRootState
    <3>2. staged'[e].rot = rot[e] /\ staged'[e].vel = ToBody(world[e], rot[e])
      BY <1>1, <3>1 DEF Row
    <3>3. world[e] \in Vels /\ rot[e] \in Rots
      BY <2>1
    <3>. QED BY <3>1, <3>2, <3>3, FrameAssumption
  <2>2. CASE e \notin ids
    BY <1>3, <1>10, <2>2 DEF WriteRootState
  <2>. QED BY <2>1, <2>2
<1>11. ASSUME NEW f \in Fields, NEW cols \in SUBSET Cols, NEW v \in [ids -> Values],
              StageField(f, ids, cols, v)
       PROVE  e \in dirty' /\ ToWorld(staged'[e].vel, staged'[e].rot) = asked'[e]
  BY <1>2, <1>3, <1>11 DEF StageField
<1>12. CASE \E b \in Bodies, pose \in [ids -> MocapPoses] : WriteMocapPose(b, ids, pose)
  BY <1>3, <1>12 DEF WriteMocapPose
<1>. QED BY <1>4, <1>5, <1>6, <1>7, <1>8, <1>9, <1>10, <1>11, <1>12 DEF Staging

(* What every way of ending a transaction leaves. *)
LEMMA FinishIsClean ==
  ASSUME Finish
  PROVE  ClosedIsClean' /\ StagedInsideReset' /\ VelocityInStagedFrame'
BY DEF Finish, ClosedIsClean, StagedInsideReset, VelocityInStagedFrame, NoRows, NoMocap,
       NotAsked

(* A commit records for every row exactly what it sent. *)
LEMMA CommitMirrors == IInv /\ Commit => CacheMirrorsBackend'
<1> SUFFICES ASSUME IInv, Commit, NEW f \in Fields, NEW e \in Envs
             PROVE  simField'[f][e] = IF e \in committed'[f] THEN cache'[f][e] ELSE DefaultValues
  BY DEF CacheMirrorsBackend
<1>1. simField[f][e] = IF e \in committed[f] THEN cache[f][e] ELSE DefaultValues
  BY DEF IInv, CacheMirrorsBackend
<1>2. CASE CommitRows
  <2>1. CASE f \in PayloadFields /\ e \in dirty
    BY <1>2, <2>1 DEF CommitRows, SetState, RecordPayload
  <2>2. CASE ~(f \in PayloadFields /\ e \in dirty)
    BY <1>1, <1>2, <2>2 DEF CommitRows, SetState, RecordPayload
  <2>. QED BY <2>1, <2>2
<1>3. CASE UNCHANGED <<cacheVars, simField>>
  BY <1>1, <1>3 DEF cacheVars
<1>. QED BY <1>2, <1>3 DEF Commit, CommitMocapOnly, CommitSparseFails, CommitSetStateFails,
                           backend

LEMMA NextIInv == IInv /\ [Next]_vars => IInv'
<1> SUFFICES ASSUME IInv, [Next]_vars PROVE IInv'
  OBVIOUS
<1>1. TypeOK'
  BY NextTypeOK DEF IInv
<1> USE DEF control, rowVars, fieldVars, cacheVars, mocapVars, backend
<1>2. ASSUME NEW ids \in SUBSET Envs, Staging(ids) PROVE IInv'
  <2>1. ClosedIsClean' /\ CacheMirrorsBackend'
    BY <1>2, StagingIsLocal DEF IInv, ClosedIsClean, CacheMirrorsBackend
  <2>. QED BY <1>1, <1>2, <2>1, StagingStaysInside, StagingKeepsFrame DEF IInv
<1>3. CASE Commit
  BY <1>1, <1>3, FinishIsClean, CommitMirrors DEF Commit, IInv
<1>4. CASE Abort
  <2>1. CacheMirrorsBackend'
    BY <1>4 DEF Abort, IInv, CacheMirrorsBackend
  <2>. QED BY <1>1, <1>4, <2>1, FinishIsClean DEF Abort, IInv
<1>5. CASE (\E b \in Bodies : BindMocap(b)) \/ Physics \/ UNCHANGED vars
  <2>1. /\ UNCHANGED <<active, activeMask, dirty, staged, asked, fieldDirty, mocapMask>>
        /\ UNCHANGED <<committed, cache, simField>>
        /\ bound \subseteq bound'
    BY <1>5 DEF BindMocap, Physics, vars
  <2>. QED BY <1>1, <2>1 DEF IInv, ClosedIsClean, StagedInsideReset, CacheMirrorsBackend,
                             VelocityInStagedFrame
<1>. QED BY <1>2, <1>3, <1>4, <1>5, NextCases

THEOREM InductiveInvariant == Spec => []IInv
BY InitIInv, NextIInv, PTL DEF Spec

(* Whatever fails and however many resets follow, the cache that           *)
(* re-supplies skipped rows is what the backend holds.                     *)
THEOREM CacheCorrect == Spec => []CacheMirrorsBackend
<1>1. IInv => CacheMirrorsBackend
  BY DEF IInv
<1>. QED BY <1>1, InductiveInvariant, PTL

(* No row of a finished, failed or aborted reset is still marked when the  *)
(* next one begins, and every staged row lies inside its reset.            *)
THEOREM MasksCorrect == Spec => [](ClosedIsClean /\ StagedInsideReset)
<1>1. IInv => ClosedIsClean /\ StagedInsideReset
  BY DEF IInv
<1>. QED BY <1>1, InductiveInvariant, PTL

-----------------------------------------------------------------------------
(* Action properties: only Commit and Physics change the backend. *)

LEMMA OnlyCommitAndPhysics ==
  ASSUME [Next]_vars
  PROVE  Commit \/ Physics \/ UNCHANGED backend
<1>1. ASSUME NEW ids \in SUBSET Envs, Staging(ids) PROVE UNCHANGED backend
  BY <1>1, StagingIsLocal
<1>2. (\E b \in Bodies : BindMocap(b)) \/ Abort \/ UNCHANGED vars => UNCHANGED backend
  BY DEF BindMocap, Abort, vars
<1>. QED BY <1>1, <1>2, NextCases

(* The three kinds of commit, as seen from the backend. *)
LEMMA CommitEffect ==
  ASSUME Commit
  PROVE  \/ /\ sim' = [e \in Envs |-> IF e \in dirty THEN staged[e] ELSE sim[e]]
            /\ CommitRows
         \/ dirty = {} /\ UNCHANGED <<sim, simField>>
         \/ UNCHANGED backend
BY DEF Commit, CommitRows, SetState, CommitMocapOnly, CommitSparseFails, CommitSetStateFails

LEMMA VelocityStep ==
  ASSUME IInv, [Next]_vars, NEW e \in Envs, asked[e] # NoWrite, sim'[e] # sim[e]
  PROVE  ToWorld(sim'[e].vel, sim'[e].rot) = asked[e]
<1>1. active /\ e \in dirty /\ ToWorld(staged[e].vel, staged[e].rot) = asked[e]
  BY DEF IInv, VelocityInStagedFrame, ClosedIsClean
<1>2. CASE Commit
  BY <1>1, <1>2, CommitEffect DEF backend
<1>3. ~Physics
  BY <1>1 DEF Physics
<1>. QED BY <1>2, <1>3, OnlyCommitAndPhysics DEF backend

(* A row leaves a commit with the world velocity its last velocity write   *)
(* asked for (reset_state.py:819-855).                                     *)
THEOREM VelocityIsDelivered == Spec => VelocityDelivered
<1>1. IInv /\ [Next]_vars
        => [\A e \in Envs : (asked[e] # NoWrite /\ sim'[e] # sim[e])
                              => ToWorld(sim'[e].vel, sim'[e].rot) = asked[e]]_vars
  BY VelocityStep
<1>. QED BY <1>1, InductiveInvariant, PTL DEF Spec, VelocityDelivered

LEMMA SkippedStep ==
  ASSUME IInv, [Next]_vars, NEW f \in Fields, NEW e \in Envs, e \notin fieldDirty[f]
  PROVE  simField'[f][e] = simField[f][e]
<1>1. CASE CommitRows
  <2>1. CASE f \in PayloadFields /\ e \in dirty
    <3>1. e \in MissingRows(f)
      BY <2>1 DEF MissingRows
    <3>2. e \in committed[f]
      BY <1>1, <2>1, <3>1 DEF CommitRows, CanFill
    <3>3. simField'[f][e] = cache[f][e]
      BY <1>1, <2>1, <3>1 DEF CommitRows, SetState, Filled
    <3>. QED BY <3>2, <3>3 DEF IInv, CacheMirrorsBackend
  <2>2. CASE ~(f \in PayloadFields /\ e \in dirty)
    BY <1>1, <2>2 DEF CommitRows, SetState
  <2>. QED BY <2>1, <2>2
<1>2. CASE UNCHANGED simField
  BY <1>2
<1>3. CASE Commit
  BY <1>1, <1>2, <1>3, CommitEffect DEF backend
<1>4. CASE Physics
  BY <1>4, <1>2 DEF Physics
<1>. QED BY <1>2, <1>3, <1>4, OnlyCommitAndPhysics DEF backend

(* The last randomised value of a row a gated term skipped survives the    *)
(* dense payload that is sent for it (reset_state.py:1207-1237).           *)
THEOREM SkippedRowsDoPersist == Spec => SkippedRowsPersist
<1>1. IInv /\ [Next]_vars
        => [\A f \in Fields, e \in Envs :
              e \notin fieldDirty[f] => simField'[f][e] = simField[f][e]]_vars
  BY SkippedStep
<1>. QED BY <1>1, InductiveInvariant, PTL DEF Spec, SkippedRowsPersist

LEMMA MocapStep ==
  ASSUME IInv, [Next]_vars, simMocap' # simMocap, NEW e \in dirty
  PROVE  sim'[e] = staged[e]
<1>1. ~Physics
  BY DEF Physics
<1>2. Commit
  BY <1>1, OnlyCommitAndPhysics DEF backend
<1>. QED BY <1>2, CommitEffect DEF backend, IInv, TypeOK

(* No mocap pose is uploaded for a reset whose set_state failed            *)
(* (reset_state.py:899, 932-943).                                          *)
THEOREM MocapDoesFollowState == Spec => MocapFollowsState
<1>1. IInv /\ [Next]_vars
        => [simMocap' # simMocap => \A e \in dirty : sim'[e] = staged[e]]_vars
  BY MocapStep
<1>. QED BY <1>1, InductiveInvariant, PTL DEF Spec, MocapFollowsState

LEMMA ReportStep ==
  ASSUME IInv, [Next]_vars, active, backend' # backend
  PROVE  ~active' /\ hadWrites'
<1>1. ~Physics
  BY DEF Physics
<1>2. Commit
  BY <1>1, OnlyCommitAndPhysics
<1>3. ~active' /\ hadWrites' = (dirty # {} \/ PendingBodies # {})
  BY <1>2 DEF Commit, Finish, HasWrites
<1>4. ASSUME dirty = {}, PendingBodies = {} PROVE FALSE
  <2>1. UNCHANGED <<sim, simField>>
    BY <1>2, <1>4 DEF Commit, CommitMocapOnly
  <2>2. \A b \in Bodies : mocapMask[b] = {}
    BY <1>4 DEF PendingBodies
  <2>3. simMocap' = simMocap
    <3>1. \A bodies : Upload(bodies) => simMocap' = simMocap
      BY <2>2 DEF Upload, IInv, TypeOK
    <3>. QED BY <1>2, <1>4, <3>1 DEF Commit, CommitMocapOnly, UploadAllOrSome
  <2>. QED BY <2>1, <2>3 DEF backend
<1>. QED BY <1>3, <1>4

(* The environment drops its state read cache exactly on the strength of   *)
(* this flag (manager_based_rl_env.py, update_state).                      *)
THEOREM ChangesAreDulyReported == Spec => ChangesAreReported
<1>1. IInv /\ [Next]_vars
        => [(active /\ backend' # backend) => (~active' /\ hadWrites')]_vars
  BY ReportStep
<1>. QED BY <1>1, InductiveInvariant, PTL DEF Spec, ChangesAreReported
-----------------------------------------------------------------------------
(***************************************************************************)
(* The transaction implements AtomicReset: every step is a step of the     *)
(* promise, or leaves the pending rows and the backend alone.              *)
(***************************************************************************)

LEMMA NoWriteIsFresh ==
  ASSUME IInv
  PROVE  /\ \A e \in Envs : pendingRows[e] = NoWrite <=> e \notin dirty
         /\ \A f \in Fields, e \in Envs :
              pendingFields[f][e] = NoWrite <=> e \notin fieldDirty[f]
<1>1. \A e \in Envs : staged[e] \in Row
  BY DEF IInv, TypeOK
<1>2. \A f \in Fields, e \in Envs : fieldBuf[f][e] \in FieldRow
  BY DEF IInv, TypeOK
<1>. QED BY <1>1, <1>2, NoWriteAssumption DEF pendingRows, pendingFields

(* The base an abstract write builds on is the prepared row. *)
LEMMA BaseIsPrepared ==
  ASSUME IInv, NEW ids \in SUBSET Envs, NEW e \in ids
  PROVE  Atomic!Base(e) = Prepared(ids)[e] /\ Prepared(ids)[e] \in Row
BY NoWriteIsFresh, PreparedType DEF Atomic!Base, Prepared, pendingRows, IInv

LEMMA RefinesInit == Init => Atomic!Init
BY DEF Init, Atomic!Init, Atomic!NonePending, Atomic!NoFieldPending, pendingRows,
       pendingFields, NoRows

LEMMA RefinesBegin ==
  ASSUME IInv, NEW ids \in SUBSET Envs, Begin(ids)
  PROVE  Atomic!Open(ids)
<1>1. dirty = {} /\ fieldDirty = NoRows
  BY DEF Begin, IInv, ClosedIsClean
<1>2. UNCHANGED <<pendingRows, pendingFields>>
  BY <1>1 DEF Begin, pendingRows, pendingFields, NoRows
<1>. QED BY <1>2 DEF Begin, Atomic!Open, backend

(* What a row-staging operation must show to be an abstract StageRows.     *)
LEMMA RefinesStageRows ==
  ASSUME IInv, NEW ids \in SUBSET Envs, NEW part \in RowParts,
         CanStage(ids),
         staged' \in [Envs -> Row],
         \A e \in Envs \ ids : staged'[e] = staged[e],
         \A e \in ids : \A k \in DOMAIN DefaultRow \ part : staged'[e][k] = Prepared(ids)[e][k],
         dirty' = dirty \cup ids,
         UNCHANGED <<active, activeMask, fieldDirty, fieldBuf, sim, simField>>
  PROVE  Atomic!StageRows(ids, part)
<1>1. pendingRows' = [e \in Envs |-> IF e \in ids THEN staged'[e] ELSE pendingRows[e]]
  BY DEF pendingRows
<1>2. UNCHANGED pendingFields
  BY DEF pendingFields
<1>3. \A e \in Envs : pendingRows[e] \in Row \cup {NoWrite}
  BY DEF pendingRows, IInv, TypeOK
<1>. QED BY <1>1, <1>2, <1>3, BaseIsPrepared DEF Atomic!StageRows, CanStage

LEMMA RefinesJointState ==
  ASSUME IInv, NEW ids \in SUBSET Envs, NEW joint \in [ids -> Joints],
         WriteJointState(ids, joint)
  PROVE  Atomic!StageRows(ids, {"joint"})
<1>1. TypeOK'
  BY StageRowTypeOK DEF IInv
<1>2. \A e \in ids : \A k \in DOMAIN DefaultRow \ {"joint"} : staged'[e][k] = Prepared(ids)[e][k]
  BY BaseIsPrepared, DefaultAssumption DEF WriteJointState, Row
<1>. QED BY <1>1, <1>2, RefinesStageRows
         DEF WriteJointState, RowParts, control, fieldVars, backend, TypeOK

LEMMA RefinesRootPose ==
  ASSUME IInv, NEW ids \in SUBSET Envs, NEW rot \in [ids -> Rots], WriteRootPose(ids, rot)
  PROVE  Atomic!StageRows(ids, {"rot"})
<1>1. TypeOK'
  BY StageRowTypeOK DEF IInv
<1>2. \A e \in ids : \A k \in DOMAIN DefaultRow \ {"rot"} : staged'[e][k] = Prepared(ids)[e][k]
  BY BaseIsPrepared, DefaultAssumption DEF WriteRootPose, Row
<1>. QED BY <1>1, <1>2, RefinesStageRows
         DEF WriteRootPose, RowParts, control, fieldVars, backend, TypeOK

LEMMA RefinesRootVelocity ==
  ASSUME IInv, NEW ids \in SUBSET Envs, NEW world \in [ids -> Vels],
         WriteRootVelocity(ids, world)
  PROVE  Atomic!StageRows(ids, {"vel"})
<1>1. TypeOK'
  BY StageVelocityTypeOK DEF IInv
<1>2. \A e \in ids : \A k \in DOMAIN DefaultRow \ {"vel"} : staged'[e][k] = Prepared(ids)[e][k]
  BY BaseIsPrepared, DefaultAssumption DEF WriteRootVelocity, EncodedVelocity, Row
<1>3. \A e \in Envs \ ids : staged'[e] = staged[e]
  BY DEF WriteRootVelocity, EncodedVelocity
<1>. QED BY <1>1, <1>2, <1>3, RefinesStageRows
         DEF WriteRootVelocity, RowParts, control, fieldVars, backend, TypeOK

LEMMA RefinesRootState ==
  ASSUME IInv, NEW ids \in SUBSET Envs, NEW rot \in [ids -> Rots], NEW world \in [ids -> Vels],
         WriteRootState(ids, rot, world)
  PROVE  Atomic!StageRows(ids, {"rot", "vel"})
<1>1. TypeOK'
  BY StageVelocityTypeOK DEF IInv
<1>2. \A e \in ids : \A k \in DOMAIN DefaultRow \ {"rot", "vel"} :
        staged'[e][k] = Prepared(ids)[e][k]
  BY BaseIsPrepared, DefaultAssumption DEF WriteRootState, Row
<1>3. \A e \in Envs \ ids : staged'[e] = staged[e]
  BY DEF WriteRootState
<1>. QED BY <1>1, <1>2, <1>3, RefinesStageRows
         DEF WriteRootState, RowParts, control, fieldVars, backend, TypeOK

LEMMA RefinesStageField ==
  ASSUME IInv, NEW ids \in SUBSET Envs, NEW f \in Fields, NEW cols \in SUBSET Cols,
         NEW v \in [ids -> Values], StageField(f, ids, cols, v)
  PROVE  Atomic!StageField(f, ids, cols, v)
<1>1. pendingRows' = [e \in Envs |-> IF e \in ids THEN Atomic!Base(e) ELSE pendingRows[e]]
  BY BaseIsPrepared DEF StageField, pendingRows, Prepared
<1>2. pendingFields' = [pendingFields EXCEPT ![f] =
        [e \in Envs |-> IF e \in ids
                        THEN [c \in Cols |-> IF c \in cols THEN v[e] ELSE Atomic!FieldBase(f, e)[c]]
                        ELSE pendingFields[f][e]]]
  <2>1. \A e \in Envs : Atomic!FieldBase(f, e)
                          = IF e \in fieldDirty[f] THEN fieldBuf[f][e] ELSE DefaultValues
    BY NoWriteIsFresh DEF Atomic!FieldBase, pendingFields
  <2>2. \A e \in ids : Overlay(f, ids, cols, v)[e]
                         = [c \in Cols |-> IF c \in cols THEN v[e] ELSE Atomic!FieldBase(f, e)[c]]
    BY <2>1 DEF Overlay
  <2>3. \A e \in Envs \ ids : Overlay(f, ids, cols, v)[e] = fieldBuf[f][e]
    BY DEF Overlay
  <2>4. /\ fieldBuf' = [fieldBuf EXCEPT ![f] = Overlay(f, ids, cols, v)]
        /\ fieldDirty' = [fieldDirty EXCEPT ![f] = @ \cup ids]
    BY DEF StageField
  <2>. QED BY <2>2, <2>3, <2>4 DEF pendingFields, IInv, TypeOK
<1>. QED BY <1>1, <1>2 DEF StageField, Atomic!StageField, CanStage, control, backend

LEMMA RefinesQuietSteps ==
  ASSUME IInv
  PROVE  /\ \A ids \in SUBSET Envs : ReadRootPose(ids) => UNCHANGED Atomic!avars
         /\ \A ids \in SUBSET Envs, b \in Bodies : \A pose \in [ids -> MocapPoses] :
              WriteMocapPose(b, ids, pose) => UNCHANGED Atomic!avars
         /\ \A b \in Bodies : BindMocap(b) => UNCHANGED Atomic!avars
         /\ UNCHANGED vars => UNCHANGED Atomic!avars
<1> USE DEF Atomic!avars, pendingRows, pendingFields, control, fieldVars, rowVars, backend
<1>1. ASSUME NEW ids \in SUBSET Envs, ReadRootPose(ids) PROVE UNCHANGED Atomic!avars
  BY <1>1 DEF ReadRootPose, Prepared
<1>2. ASSUME NEW ids \in SUBSET Envs, NEW b \in Bodies, NEW pose \in [ids -> MocapPoses],
             WriteMocapPose(b, ids, pose)
      PROVE  UNCHANGED Atomic!avars
  BY <1>2 DEF WriteMocapPose
<1>3. ASSUME NEW b \in Bodies, BindMocap(b) PROVE UNCHANGED Atomic!avars
  BY <1>3 DEF BindMocap
<1>4. UNCHANGED vars => UNCHANGED Atomic!avars
  BY DEF vars
<1>. QED BY <1>1, <1>2, <1>3, <1>4

LEMMA RefinesClose ==
  ASSUME active, Finish
  PROVE  Atomic!Close
BY DEF Finish, Atomic!Close, Atomic!NonePending, Atomic!NoFieldPending, pendingRows,
       pendingFields, NoRows

LEMMA RefinesCommit ==
  ASSUME IInv, Commit
  PROVE  Atomic!CommitAll \/ Atomic!Discard
<1>1. Atomic!Close
  BY RefinesClose DEF Commit
<1>2. CASE CommitRows
  <2>1. sim' = [e \in Envs |-> IF pendingRows[e] = NoWrite THEN sim[e] ELSE pendingRows[e]]
    BY <1>2, NoWriteIsFresh DEF CommitRows, SetState, pendingRows
  <2>2. simField' = [f \in Fields |-> [e \in Envs |->
          IF pendingFields[f][e] = NoWrite THEN simField[f][e] ELSE pendingFields[f][e]]]
    <3>1. ASSUME NEW f \in Fields, NEW e \in Envs, e \in fieldDirty[f]
          PROVE  simField'[f][e] = fieldBuf[f][e]
      <4>1. f \in PayloadFields /\ e \in dirty /\ e \notin MissingRows(f)
        BY <3>1 DEF PayloadFields, MissingRows, IInv, StagedInsideReset
      <4>. QED BY <1>2, <4>1 DEF CommitRows, SetState, Filled
    <3>2. ASSUME NEW f \in Fields, NEW e \in Envs, e \notin fieldDirty[f]
          PROVE  simField'[f][e] = simField[f][e]
      <4>1. [Next]_vars
        BY DEF Next
      <4>. QED BY <3>2, <4>1, SkippedStep
    <3>3. simField' = [f \in Fields |-> [e \in Envs |-> simField'[f][e]]]
      BY <1>2 DEF CommitRows, SetState
    <3>. QED BY <3>1, <3>2, <3>3, NoWriteIsFresh DEF pendingFields
  <2>. QED BY <1>1, <2>1, <2>2 DEF Atomic!CommitAll
<1>3. CASE UNCHANGED <<sim, simField>>
  BY <1>1, <1>3 DEF Atomic!Discard
<1>. QED BY <1>2, <1>3 DEF Commit, CommitMocapOnly, CommitSparseFails, CommitSetStateFails,
                           backend

LEMMA RefinesAbortAndPhysics ==
  ASSUME IInv
  PROVE  /\ Abort => Atomic!Discard
         /\ Physics => Atomic!Move
<1>1. Abort => Atomic!Discard
  BY RefinesClose DEF Abort, Atomic!Discard, backend
<1>2. Physics => Atomic!Move
  BY DEF Physics, Atomic!Move, pendingRows, pendingFields, control, rowVars, fieldVars
<1>. QED BY <1>1, <1>2

LEMMA RefinesNext == IInv /\ [Next]_vars => [Atomic!Next]_(Atomic!avars)
<1> SUFFICES ASSUME IInv, [Next]_vars PROVE Atomic!Next \/ UNCHANGED Atomic!avars
  OBVIOUS
<1>1. ASSUME NEW ids \in SUBSET Envs, Staging(ids)
      PROVE  Atomic!Next \/ UNCHANGED Atomic!avars
  <2>1. CASE Begin(ids)
    BY <2>1, RefinesBegin DEF Atomic!Next
  <2>2. CASE ResetToDefault(ids)
    <3>1. Atomic!StageDefault(ids)
      BY <2>2 DEF ResetToDefault, Atomic!StageDefault, CanStage, pendingRows, pendingFields,
                  control, fieldVars, backend
    <3>. QED BY <3>1 DEF Atomic!Next
  <2>3. CASE ReadRootPose(ids)
    BY <2>3, RefinesQuietSteps
  <2>4. CASE \E joint \in [ids -> Joints] : WriteJointState(ids, joint)
    BY <2>4, RefinesJointState DEF Atomic!Next, RowParts
  <2>5. CASE \E rot \in [ids -> Rots] : WriteRootPose(ids, rot)
    BY <2>5, RefinesRootPose DEF Atomic!Next, RowParts
  <2>6. CASE \E world \in [ids -> Vels] : WriteRootVelocity(ids, world)
    BY <2>6, RefinesRootVelocity DEF Atomic!Next, RowParts
  <2>7. CASE \E rot \in [ids -> Rots], world \in [ids -> Vels] : WriteRootState(ids, rot, world)
    BY <2>7, RefinesRootState DEF Atomic!Next, RowParts
  <2>8. CASE \E f \in Fields, cols \in SUBSET Cols, v \in [ids -> Values] :
               StageField(f, ids, cols, v)
    BY <2>8, RefinesStageField DEF Atomic!Next
  <2>9. CASE \E b \in Bodies, pose \in [ids -> MocapPoses] : WriteMocapPose(b, ids, pose)
    BY <2>9, RefinesQuietSteps
  <2>. QED BY <1>1, <2>1, <2>2, <2>3, <2>4, <2>5, <2>6, <2>7, <2>8, <2>9 DEF Staging
<1>2. CASE Commit
  BY <1>2, RefinesCommit DEF Atomic!Next
<1>3. CASE Abort \/ Physics
  BY <1>3, RefinesAbortAndPhysics DEF Atomic!Next
<1>4. CASE (\E b \in Bodies : BindMocap(b)) \/ UNCHANGED vars
  BY <1>4, RefinesQuietSteps
<1>. QED BY <1>1, <1>2, <1>3, <1>4, NextCases

(* The transaction keeps the promise of AtomicReset: a reset's rows reach  *)
(* the simulator all together or not at all, built from the defaults and   *)
(* from the writes of that reset alone (reset_state.py:1-6).               *)
THEOREM Refinement == Spec => ImplementsAtomicReset
BY RefinesInit, RefinesNext, InductiveInvariant, PTL
   DEF Spec, ImplementsAtomicReset, Atomic!Spec
=============================================================================
