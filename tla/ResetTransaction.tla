-------------------------- MODULE ResetTransaction --------------------------
(***************************************************************************)
(* The reset-state transaction of src/src/unilab/base/reset_state.py.      *)
(*                                                                         *)
(* Reset-mode event terms and command terms do not write the simulator:    *)
(* they stage rows in numpy buffers, and the transaction hands the rows to *)
(* SimBackend.set_state once, when every term has succeeded.  A payload    *)
(* field (body mass, gravity, ..., or the actuator gain pair) that some    *)
(* dirty row randomises must be supplied for every dirty row; the rows     *)
(* that did not write it are filled from a cache of the last payload.      *)
(*                                                                         *)
(* One action per public operation.  A commit is one action with one       *)
(* disjunct per way it ends: the calls it makes are synchronous, and what  *)
(* a failing call leaves behind is what the disjuncts tell apart.          *)
(***************************************************************************)
EXTENDS FiniteSets

CONSTANTS
  Envs,          \* rows of the vectorised environment
  Rots,          \* root poses, as far as the velocity frame depends on them
  Vels,          \* root velocities, in the world frame or in the body frame
  ToBody(_, _),  \* ToBody(w, q): world velocity w seen from a body posed at q
  ToWorld(_, _), \* ToWorld(v, q): its inverse
  Joints,        \* joint position and velocity columns
  DefaultRow,    \* the backend's default qpos and initial qvel
  RandFields,    \* the ResetRandomizationPayload fields
  GainFields,    \* {the actuator (kp, kd) pair} or {}: staged by its own code
  Cols,          \* columns of a payload field (bodies, dofs, geoms, ...)
  Values,        \* values of one column
  DefaultValues, \* the backend's default columns of a payload field
  Bodies,        \* mocap bodies
  MocapPoses,
  NoWrite        \* not a row and not a velocity

Row == [rot : Rots, vel : Vels, joint : Joints]
Fields == RandFields \cup GainFields
FieldRow == [Cols -> Values]

ASSUME FrameAssumption ==
  \A w \in Vels, q \in Rots : /\ ToBody(w, q) \in Vels
                              /\ ToWorld(w, q) \in Vels
                              /\ ToWorld(ToBody(w, q), q) = w
ASSUME DefaultAssumption ==
  /\ DefaultRow \in Row
  /\ DefaultValues \in FieldRow
ASSUME NoWriteAssumption ==
  /\ NoWrite \notin Row
  /\ NoWrite \notin FieldRow
  /\ NoWrite \notin Vels

VARIABLES
  active,        \* _active
  activeMask,    \* _active_mask, as a set of rows
  dirty,         \* _dirty_mask
  staged,        \* _qpos and _qvel
  fieldDirty,    \* _randomization_dirty_masks and _gain_dirty_mask
  fieldBuf,      \* _randomization_values, _kp and _kd
  committed,     \* _committed_randomization_masks and _committed_gain_mask
  cache,         \* _committed_randomization, _committed_kp and _committed_kd
  bound,         \* keys of _mocap_bindings
  mocapMask,     \* _mocap_masks
  mocapBuf,      \* _mocap_values
  hadWrites,     \* _last_commit_had_writes
  sim,           \* the backend's generalized state
  simField,      \* the backend's randomised model fields
  simMocap,      \* the backend's mocap poses
  asked          \* history: the world velocity a row's last velocity write asked for

control == <<active, activeMask, hadWrites>>
rowVars == <<dirty, staged, asked>>
fieldVars == <<fieldDirty, fieldBuf>>
cacheVars == <<committed, cache>>
mocapVars == <<bound, mocapMask, mocapBuf>>
backend == <<sim, simField, simMocap>>
vars == <<control, rowVars, fieldVars, cacheVars, mocapVars, backend>>

NoRows == [x \in Fields |-> {}]
NoMocap == [b \in Bodies |-> {}]
NotAsked == [e \in Envs |-> NoWrite]

-----------------------------------------------------------------------------
(* The numpy buffers come from np.empty: their first content is arbitrary. *)
Init ==
  /\ active = FALSE /\ activeMask = {} /\ hadWrites = FALSE
  /\ dirty = {} /\ staged \in [Envs -> Row] /\ asked = NotAsked
  /\ fieldDirty = NoRows /\ fieldBuf \in [Fields -> [Envs -> FieldRow]]
  /\ committed = NoRows /\ cache = fieldBuf
  /\ bound = {} /\ mocapMask = NoMocap
  /\ mocapBuf \in [Bodies -> [Envs -> MocapPoses]]
  /\ sim = [e \in Envs |-> DefaultRow]
  /\ simField = [f \in Fields |-> [e \in Envs |-> DefaultValues]]
  /\ simMocap \in [Bodies -> [Envs -> MocapPoses]]

(* begin: refused while a transaction is active.  It leaves the mocap      *)
(* masks to the previous _finish.                                          *)
Begin(ids) ==
  /\ ~active
  /\ active' = TRUE /\ activeMask' = ids /\ hadWrites' = FALSE
  /\ dirty' = {} /\ asked' = NotAsked
  /\ fieldDirty' = NoRows
  /\ UNCHANGED <<staged, fieldBuf, cacheVars, mocapVars, backend>>

-----------------------------------------------------------------------------
(* Staging.  A term that names a row outside the active reset, or whose    *)
(* values do not validate, raises instead: see Abort.                      *)

(* Seeded fault: the buffer row is reused as it is. *)
PreparedByLastUse(ids) == staged

(* _prepare_state_write: rows no term has written yet start from the       *)
(* backend default, whatever the buffer still holds.                       *)
Prepared(ids) == [e \in Envs |-> IF e \in ids \ dirty THEN DefaultRow ELSE staged[e]]

(* Seeded fault: the scope check is missing. *)
CanStageAnywhere(ids) == active

CanStage(ids) == active /\ ids \subseteq activeMask

ResetToDefault(ids) ==
  /\ CanStage(ids)
  /\ staged' = [e \in Envs |-> IF e \in ids THEN DefaultRow ELSE staged[e]]
  /\ dirty' = dirty \cup ids
  /\ asked' = [e \in Envs |-> IF e \in ids THEN NoWrite ELSE asked[e]]
  /\ UNCHANGED <<control, fieldVars, cacheVars, mocapVars, backend>>

WriteJointState(ids, joint) ==
  /\ CanStage(ids)
  /\ staged' = [e \in Envs |-> IF e \in ids THEN [Prepared(ids)[e] EXCEPT !.joint = joint[e]]
                                            ELSE staged[e]]
  /\ dirty' = dirty \cup ids
  /\ UNCHANGED <<asked, control, fieldVars, cacheVars, mocapVars, backend>>

WriteRootPose(ids, rot) ==
  /\ CanStage(ids)
  /\ staged' = [e \in Envs |-> IF e \in ids THEN [Prepared(ids)[e] EXCEPT !.rot = rot[e]]
                                            ELSE staged[e]]
  /\ dirty' = dirty \cup ids
  /\ asked' = [e \in Envs |-> IF e \in ids THEN NoWrite ELSE asked[e]]
  /\ UNCHANGED <<control, fieldVars, cacheVars, mocapVars, backend>>

(* Seeded fault: the frame is the default pose's, not the staged one's. *)
EncodedInDefaultFrame(ids, world) ==
  [e \in Envs |-> IF e \in ids
                  THEN [Prepared(ids)[e] EXCEPT !.vel = ToBody(world[e], DefaultRow.rot)]
                  ELSE staged[e]]

(* The world velocity is turned into the frame of the pose staged so far.  *)
EncodedVelocity(ids, world) ==
  [e \in Envs |-> IF e \in ids
                  THEN [Prepared(ids)[e] EXCEPT !.vel = ToBody(world[e], Prepared(ids)[e].rot)]
                  ELSE staged[e]]

WriteRootVelocity(ids, world) ==
  /\ CanStage(ids)
  /\ staged' = EncodedVelocity(ids, world)
  /\ dirty' = dirty \cup ids
  /\ asked' = [e \in Envs |-> IF e \in ids THEN world[e] ELSE asked[e]]
  /\ UNCHANGED <<control, fieldVars, cacheVars, mocapVars, backend>>

(* write_root_state: the pose first, then the velocity in its frame. *)
WriteRootState(ids, rot, world) ==
  /\ CanStage(ids)
  /\ staged' = [e \in Envs |->
                  IF e \in ids
                  THEN [Prepared(ids)[e] EXCEPT !.rot = rot[e], !.vel = ToBody(world[e], rot[e])]
                  ELSE staged[e]]
  /\ dirty' = dirty \cup ids
  /\ asked' = [e \in Envs |-> IF e \in ids THEN world[e] ELSE asked[e]]
  /\ UNCHANGED <<control, fieldVars, cacheVars, mocapVars, backend>>

(* read_root_pose prepares the rows it reads and does not mark them. *)
ReadRootPose(ids) ==
  /\ CanStage(ids)
  /\ staged' = Prepared(ids)
  /\ UNCHANGED <<dirty, asked, control, fieldVars, cacheVars, mocapVars, backend>>

(* Seeded faults: the selected columns replace the row; a row's first      *)
(* write overlays whatever the buffer holds.                               *)
OverlaySelectedOnly(f, ids, cols, v) ==
  [e \in Envs |-> IF e \in ids THEN [c \in cols |-> v[e]] ELSE fieldBuf[f][e]]
OverlayOnBuffer(f, ids, cols, v) ==
  [e \in Envs |-> [c \in Cols |-> IF e \in ids /\ c \in cols THEN v[e] ELSE fieldBuf[f][e][c]]]

(* A row's first write of field f in this reset starts from the default    *)
(* columns; the columns written later overlay it.                          *)
Overlay(f, ids, cols, v) ==
  [e \in Envs |->
     IF e \in ids
     THEN [c \in Cols |-> IF c \in cols THEN v[e]
                          ELSE IF e \in fieldDirty[f] THEN fieldBuf[f][e][c]
                          ELSE DefaultValues[c]]
     ELSE fieldBuf[f][e]]

StageField(f, ids, cols, v) ==
  /\ CanStage(ids)
  /\ fieldBuf' = [fieldBuf EXCEPT ![f] = Overlay(f, ids, cols, v)]
  /\ fieldDirty' = [fieldDirty EXCEPT ![f] = @ \cup ids]
  /\ staged' = Prepared(ids)
  /\ dirty' = dirty \cup ids
  /\ UNCHANGED <<asked, control, cacheVars, mocapVars, backend>>

WriteRandomization(f, ids, cols, v) == f \in RandFields /\ StageField(f, ids, cols, v)
WriteActuatorGains(f, ids, cols, v) == f \in GainFields /\ StageField(f, ids, cols, v)

(* bind_mocap_pose: a new binding is refused while a reset is active. *)
BindMocap(b) ==
  /\ ~active /\ b \notin bound
  /\ bound' = bound \cup {b}
  /\ UNCHANGED <<mocapMask, mocapBuf, control, rowVars, fieldVars, cacheVars, backend>>

WriteMocapPose(b, ids, pose) ==
  /\ CanStage(ids) /\ b \in bound
  /\ mocapBuf' = [mocapBuf EXCEPT ![b] = [e \in Envs |-> IF e \in ids THEN pose[e] ELSE @[e]]]
  /\ mocapMask' = [mocapMask EXCEPT ![b] = @ \cup ids]
  /\ UNCHANGED <<bound, control, rowVars, fieldVars, cacheVars, backend>>

-----------------------------------------------------------------------------
(* Ending a transaction. *)

(* _finish *)
Finish ==
  /\ active' = FALSE /\ activeMask' = {}
  /\ dirty' = {} /\ fieldDirty' = NoRows /\ mocapMask' = NoMocap
  /\ asked' = NotAsked
  /\ UNCHANGED <<staged, bound, mocapBuf>>

PayloadFields == {f \in Fields : fieldDirty[f] # {}}
MissingRows(f) == dirty \ fieldDirty[f]

(* Seeded fault: skipped rows are sent the model's own values. *)
FilledWithDefaults(fields) ==
  [f \in Fields |-> [e \in Envs |-> IF f \in fields /\ e \in MissingRows(f) THEN DefaultValues
                                                                            ELSE fieldBuf[f][e]]]

(* _fill_sparse_*_rows, for the fields already visited. *)
Filled(fields) ==
  [f \in Fields |-> [e \in Envs |-> IF f \in fields /\ e \in MissingRows(f) THEN cache[f][e]
                                                                            ELSE fieldBuf[f][e]]]

CanFill(f) == MissingRows(f) \subseteq committed[f]

(* SimBackend.set_state: it takes the dirty rows, and only the fields the  *)
(* payload names; a field left out keeps its per-env values.               *)
SetState(rows, fields) ==
  /\ sim' = [e \in Envs |-> IF e \in rows THEN staged[e] ELSE sim[e]]
  /\ simField' = [f \in Fields |-> [e \in Envs |->
                    IF f \in fields /\ e \in rows THEN fieldBuf'[f][e] ELSE simField[f][e]]]

(* Seeded fault: the buffer is recorded as it was before the fill. *)
RecordBeforeFill(rows, fields) ==
  /\ cache' = [f \in Fields |-> [e \in Envs |->
                 IF f \in fields /\ e \in rows THEN fieldBuf[f][e] ELSE cache[f][e]]]
  /\ committed' = [f \in Fields |-> IF f \in fields THEN committed[f] \cup rows ELSE committed[f]]

(* Seeded fault: the values are recorded, the rows are not marked. *)
RecordValuesOnly(rows, fields) ==
  /\ cache' = [f \in Fields |-> [e \in Envs |->
                 IF f \in fields /\ e \in rows THEN fieldBuf'[f][e] ELSE cache[f][e]]]
  /\ UNCHANGED committed

(* _record_committed_payload *)
RecordPayload(rows, fields) ==
  /\ cache' = [f \in Fields |-> [e \in Envs |->
                 IF f \in fields /\ e \in rows THEN fieldBuf'[f][e] ELSE cache[f][e]]]
  /\ committed' = [f \in Fields |-> IF f \in fields THEN committed[f] \cup rows ELSE committed[f]]

(* _commit_mocap_poses, for the bodies whose write was accepted. *)
Upload(bodies) ==
  simMocap' = [b \in Bodies |-> [e \in Envs |->
                 IF b \in bodies /\ e \in mocapMask[b] THEN mocapBuf[b][e] ELSE simMocap[b][e]]]

PendingBodies == {b \in Bodies : mocapMask[b] # {}}

(* The mocap uploads end a commit; one of them may raise, after those of   *)
(* the bodies bound before it went through.                                *)
UploadAllOrSome ==
  \/ Upload(Bodies)
  \/ \E done \in SUBSET PendingBodies : done # PendingBodies /\ Upload(done)

(* last_commit_had_writes.  Seeded fault: it goes by the docstring of line *)
(* 83, and the mocap poses are forgotten.                                  *)
HasDirtyRows == dirty # {}
HasWrites == dirty # {} \/ PendingBodies # {}

CommitRows ==
  /\ \A f \in PayloadFields : CanFill(f)
  /\ fieldBuf' = Filled(PayloadFields)
  /\ SetState(dirty, PayloadFields)
  /\ RecordPayload(dirty, PayloadFields)
  /\ UploadAllOrSome

(* The payload cannot be made dense: nothing reaches the backend. *)
CommitSparseFails ==
  /\ \E f \in PayloadFields : ~CanFill(f)
  /\ \E fields \in SUBSET {f \in PayloadFields : CanFill(f)} : fieldBuf' = Filled(fields)
  /\ UNCHANGED <<cacheVars, backend>>

(* Seeded fault: the mocap poses are uploaded although set_state raised. *)
CommitUploadsAnyway ==
  /\ \A f \in PayloadFields : CanFill(f)
  /\ fieldBuf' = Filled(PayloadFields)
  /\ UploadAllOrSome
  /\ UNCHANGED <<cacheVars, sim, simField>>

(* set_state itself raises: nothing is recorded and no mocap pose follows. *)
CommitSetStateFails ==
  /\ \A f \in PayloadFields : CanFill(f)
  /\ fieldBuf' = Filled(PayloadFields)
  /\ UNCHANGED <<cacheVars, backend>>

CommitMocapOnly ==
  /\ UploadAllOrSome
  /\ UNCHANGED <<fieldBuf, cacheVars, sim, simField>>

Commit ==
  /\ active
  /\ hadWrites' = HasWrites
  /\ \/ dirty = {} /\ CommitMocapOnly
     \/ dirty # {} /\ CommitRows
     \/ dirty # {} /\ CommitSparseFails
     \/ dirty # {} /\ CommitSetStateFails
  /\ Finish

(* A term raised inside scoped(), or an operation refused its arguments,   *)
(* or a nested begin was refused.                                          *)
Abort ==
  /\ active
  /\ Finish
  /\ UNCHANGED <<fieldBuf, cacheVars, backend, hadWrites>>

(* Between resets the physics moves the robots. *)
Physics ==
  /\ ~active
  /\ \E e \in Envs, r \in Row : sim' = [sim EXCEPT ![e] = r]
  /\ UNCHANGED <<control, rowVars, fieldVars, cacheVars, mocapVars, simField, simMocap>>

Next ==
  \/ \E ids \in SUBSET Envs :
       \/ Begin(ids)
       \/ ResetToDefault(ids)
       \/ ReadRootPose(ids)
       \/ \E joint \in [ids -> Joints] : WriteJointState(ids, joint)
       \/ \E rot \in [ids -> Rots] : WriteRootPose(ids, rot)
       \/ \E world \in [ids -> Vels] : WriteRootVelocity(ids, world)
       \/ \E rot \in [ids -> Rots], world \in [ids -> Vels] : WriteRootState(ids, rot, world)
       \/ \E f \in Fields, cols \in SUBSET Cols, v \in [ids -> Values] :
            \/ WriteRandomization(f, ids, cols, v)
            \/ WriteActuatorGains(f, ids, cols, v)
       \/ \E b \in Bodies, pose \in [ids -> MocapPoses] : WriteMocapPose(b, ids, pose)
  \/ \E b \in Bodies : BindMocap(b)
  \/ Commit
  \/ Abort
  \/ Physics

Spec == Init /\ [][Next]_vars

-----------------------------------------------------------------------------
TypeOK ==
  /\ active \in BOOLEAN /\ hadWrites \in BOOLEAN
  /\ activeMask \subseteq Envs /\ dirty \subseteq Envs
  /\ staged \in [Envs -> Row]
  /\ asked \in [Envs -> Vels \cup {NoWrite}]
  /\ fieldDirty \in [Fields -> SUBSET Envs]
  /\ fieldBuf \in [Fields -> [Envs -> FieldRow]]
  /\ committed \in [Fields -> SUBSET Envs]
  /\ cache \in [Fields -> [Envs -> FieldRow]]
  /\ bound \subseteq Bodies
  /\ mocapMask \in [Bodies -> SUBSET Envs]
  /\ mocapBuf \in [Bodies -> [Envs -> MocapPoses]]
  /\ sim \in [Envs -> Row]
  /\ simField \in [Fields -> [Envs -> FieldRow]]
  /\ simMocap \in [Bodies -> [Envs -> MocapPoses]]
-----------------------------------------------------------------------------
(* What commit and abort leave behind (reset_state.py:961, 1521): no row   *)
(* of a finished or failed reset is still marked, so none can reach the    *)
(* next one.  The buffers themselves are not cleared.                      *)
ClosedIsClean ==
  ~active => /\ activeMask = {} /\ dirty = {}
             /\ fieldDirty = NoRows /\ mocapMask = NoMocap

(* Every staged row lies inside the active reset, and a row that           *)
(* randomises a field is also a state row (reset_state.py:1132): the one   *)
(* dense set_state call covers it.                                         *)
StagedInsideReset ==
  /\ dirty \subseteq activeMask
  /\ \A f \in Fields : fieldDirty[f] \subseteq dirty
  /\ \A b \in Bodies : /\ mocapMask[b] \subseteq activeMask
                       /\ mocapMask[b] # {} => b \in bound

(* The cache that re-supplies skipped rows (reset_state.py:1207, 1257) is  *)
(* what the backend holds, after any sequence of commits, failed commits   *)
(* and aborts; a row it does not know still has the model's own values.    *)
CacheMirrorsBackend ==
  \A f \in Fields, e \in Envs :
    simField[f][e] = IF e \in committed[f] THEN cache[f][e] ELSE DefaultValues

(* A velocity asked for in the world frame is held in the frame of the     *)
(* pose staged with it (reset_state.py:819).                               *)
VelocityInStagedFrame ==
  \A e \in Envs :
    asked[e] # NoWrite => /\ e \in dirty
                          /\ ToWorld(staged[e].vel, staged[e].rot) = asked[e]

(* A row that leaves a commit moves with the world velocity its last       *)
(* velocity write asked for, unless a later write re-posed it.             *)
VelocityDelivered ==
  [][\A e \in Envs : (asked[e] # NoWrite /\ sim'[e] # sim[e])
                       => ToWorld(sim'[e].vel, sim'[e].rot) = asked[e]]_vars

(* A row whose terms did not randomise field f in this reset keeps its     *)
(* last value in the backend, though the commit sends it a payload row     *)
(* (reset_state.py:1213).                                                  *)
SkippedRowsPersist ==
  [][\A f \in Fields, e \in Envs :
       e \notin fieldDirty[f] => simField'[f][e] = simField[f][e]]_vars

(* The backend changes during a reset only in the step that ends it, and   *)
(* the environment is told so, whatever it was that changed: update_state  *)
(* drops the state reads it has cached only if last_commit_had_writes      *)
(* holds (manager_based_rl_env.py:535), so commit sets it for a commit of  *)
(* mocap poses alone too (reset_state.py:919).  The flag's docstring       *)
(* (line 83) speaks of the rows given to set_state only, which is not what *)
(* the code does, nor what its reader needs.                               *)
ChangesAreReported ==
  [][(active /\ backend' # backend) => (~active' /\ hadWrites')]_vars

(* A mocap pose is uploaded only after the generalized state of the same   *)
(* reset was accepted (reset_state.py:899).                                *)
MocapFollowsState ==
  [][simMocap' # simMocap => \A e \in dirty : sim'[e] = staged[e]]_vars
=============================================================================
