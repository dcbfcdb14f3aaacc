--------------------------- MODULE MotionTracking ---------------------------
(***************************************************************************)
(* The motion tracking command (tasks/motion_tracking/common/manager_terms.py *)
(* and motion_loader.py) inside the environment's step and reset, with the  *)
(* interval events that push the robots in the middle of a step.            *)
(*                                                                         *)
(* Every row plays a clip: a reset puts the robot on a sampled frame, each  *)
(* step moves the reference one frame on.  The command keeps buffers of the *)
(* reference, of the robots' bodies and of the one relative to the other,   *)
(* which the terms of the other managers read at several places of a step.  *)
(*                                                                         *)
(* Data: the motion of a frame is the frame; of a robot we keep the frame   *)
(* it was put on, the steps it has made since, and whether the buffers      *)
(* describe it as it is now.  The command's own timer never runs out: every *)
(* tracking configuration sets it to 1e9 s.                                 *)
(***************************************************************************)
EXTENDS IntervalEvents, FiniteSets

CONSTANTS
  Last,        \* the last frame of the motion; its frames are 0 .. Last
  Clips,       \* the clips, as pairs of clip_offsets and clip_end_frames
  BinCount,    \* bins of the adaptive sampler
  Modes,       \* the sampling modes: "start", "clip_start", "uniform", "adaptive", "mixed"
  AutoResets,  \* the settings of auto_reset
  Faults,      \* "commit" when a transaction of a step or a reset may fail
  Counters,    \* the step counters a checkpoint may hold
  MaxStep      \* bound of the step counter and of the steps of a robot

Frames == 0 .. Last

ASSUME TrackingAssumption ==
  /\ Last \in Nat /\ Clips \subseteq Frames \X Frames
  /\ \A f \in Frames : \E c \in Clips : f \in c[1] .. c[2]
  /\ \A c, d \in Clips : c # d => c[2] < d[1] \/ d[2] < c[1]
  /\ BinCount \in Nat \ {0}
  /\ Modes \subseteq {"start", "clip_start", "uniform", "adaptive", "mixed"} /\ Modes # {}
  /\ AutoResets \subseteq BOOLEAN
  /\ Faults \subseteq {"commit"} /\ Counters \subseteq Nat /\ MaxStep \in Nat

VARIABLES
  mode, truncate,          \* cfg.params.sampling_mode, truncate_on_clip_end
  autoreset,               \* _autoreset
  pc, rows,                \* the stage due, the rows of the running reset
  stepCounter, commonStep, \* step_counter, common_step_counter
  done,                    \* reset_buf, in the step that set it
  pending,                 \* _manual_reset_pending
  frame, clipEnd,          \* sampler.current_frames, current_clip_end_frames
  ref, ingested,           \* the reference buffers, _resample_ingested_ids
  cacheStep,               \* _robot_cache_step
  bodiesNow,               \* rows whose robot buffers are current
  relative,                \* the reference and the robot the relative buffers were made of
  placed, played,          \* history: the frame the robot was put on, its steps since
  broken,                  \* history: rows whose last reset, or last step, failed
  missed,                  \* history: rows the failed call left without post_compute
  raised                   \* history: the last step raised

config == <<mode, truncate, autoreset>>
counters == <<stepCounter, commonStep>>
sampler == <<frame, clipEnd>>
robots == <<placed, played>>
buffers == <<ref, ingested, cacheStep, bodiesNow, relative>>
failures == <<broken, missed, raised>>
trackVars == <<vars, config, pc, rows, counters, done, pending, sampler, buffers, robots, failures>>

NoRows == {}

-----------------------------------------------------------------------------
(* The sampler *)

\* The last frame of the clip a frame belongs to (get_clip_indices).
EndOf(f) == (CHOOSE c \in Clips : f \in c[1] .. c[2])[2]

\* The frames a draw from a bin gives: (bin + u) / bin_count * (num_frames - 1),
\* rounded down, u in [0, 1).
FramesOfBin(b) == {f \in Frames : /\ (f + 1) * BinCount > b * Last
                                  /\ f * BinCount < (b + 1) * Last}

\* What sample_frames may return; every bin keeps some probability.
Sampled ==
  IF mode = "start" THEN {0}
  ELSE IF mode = "clip_start" THEN {c[1] : c \in Clips}
  ELSE IF mode \in {"uniform", "mixed"} \/ Last = 0 THEN Frames
  ELSE UNION {FramesOfBin(b) : b \in 0 .. BinCount - 1}

\* _set_sampled_frames: the rows R get new frames and the ends of their clips.
NewEnd(R, new) == [e \in Envs |-> IF e \in R THEN EndOf(new[e]) ELSE clipEnd[e]]

-----------------------------------------------------------------------------
(* A step *)

\* What relative buffers made of the reference and the robot of row e stand for.
Pair(frames, starts, steps, e) == [ref |-> frames[e], placed |-> starts[e], played |-> steps[e]]

\* The policy's action and the physics.  Without autoreset no row may wait for a reset.
Physics ==
  /\ pc = "idle" /\ stepCounter < MaxStep /\ \A e \in Envs : played[e] < MaxStep
  /\ autoreset \/ pending = {}
  /\ bodiesNow' = {}
  /\ played' = [e \in Envs |-> played[e] + 1]
  /\ pc' = "judge"
  /\ UNCHANGED <<vars, config, rows, counters, done, pending, sampler, ref, ingested, cacheStep,
                 relative, placed, failures>>

\* Seeded fault: off by one.
PastEnd == {e \in Envs : frame[e] > clipEnd[e]}

\* motion_clip_end, configured wherever the clips truncate.
AtEnd == {e \in Envs : frame[e] >= clipEnd[e]}

\* _refresh_robot_state, without force.
RefreshOnce ==
  /\ bodiesNow' = IF cacheStep = commonStep' THEN bodiesNow ELSE Envs
  /\ cacheStep' = commonStep'

\* The terminations and the rewards, which read the robots' bodies.
Judge ==
  /\ pc = "judge"
  /\ commonStep' = stepCounter + 1
  /\ RefreshOnce
  /\ \E died \in SUBSET Envs : done' = IF truncate THEN died \cup AtEnd ELSE died
  /\ pc' = "events"
  /\ UNCHANGED <<vars, config, rows, stepCounter, pending, sampler, ref, ingested, relative,
                 robots, failures>>

\* The rows the due terms push.
Pushed == {e \in Envs : \E k \in Due : k[2] \in {e, Batch}}

\* The interval events.
Push ==
  /\ pc = "events"
  /\ ApplyInterval
  /\ bodiesNow' = bodiesNow \ Pushed
  /\ pc' = "commands"
  /\ UNCHANGED <<config, rows, counters, done, pending, sampler, ref, ingested, cacheStep,
                 relative, robots, failures>>

\* Seeded fault: a clip that is over holds its last frame.
NotAtEnd == {e \in Envs \ done : frame[e] < clipEnd[e]}

\* The rows whose clip plays on.
Active == Envs \ done

\* Seeded fault: the buffers are refreshed once in a step only.
KeepBodies == bodiesNow

\* post_compute on the step path: a forced refresh of all rows.
RefreshedBodies == Envs

Advanced == [e \in Envs |-> IF e \in Active THEN frame[e] + 1 ELSE frame[e]]

\* The rows that ran off their clip and are put on a new frame.
Wrapping == IF truncate THEN {} ELSE {e \in Active : Advanced[e] > clipEnd[e]}

\* command_manager.compute: the clips play on, the whole reference is gathered.
StepFrames(new) ==
  /\ frame' = [e \in Envs |-> IF e \in Wrapping THEN new[e] ELSE Advanced[e]]
  /\ clipEnd' = NewEnd(Wrapping, new)
  /\ ingested' = Wrapping
  /\ ref' = frame'

\* The transaction around it commits the wrapping rows, then post_compute.
PlayOn ==
  /\ pc = "commands"
  /\ \E new \in [Wrapping -> Sampled] :
       /\ StepFrames(new)
       /\ placed' = [e \in Envs |-> IF e \in Wrapping THEN new[e] ELSE placed[e]]
  /\ played' = [e \in Envs |-> IF e \in Wrapping THEN 0 ELSE played[e]]
  /\ bodiesNow' = RefreshedBodies
  /\ relative' = [e \in Envs |-> Pair(ref', placed', played', e)]
  /\ cacheStep' = commonStep
  /\ missed' = {}
  /\ pc' = "observe"
  /\ UNCHANGED <<vars, config, rows, counters, done, pending, broken, raised>>

\* The commit raises out of the step: the frames are stepped and sampled, the wrapping
\* robots stay where they were, nothing is refreshed, the step is not counted and the
\* rows that are done are neither reset nor pending.
PlayOnFails ==
  /\ pc = "commands" /\ "commit" \in Faults /\ Wrapping # {}
  /\ \E new \in [Wrapping -> Sampled] : StepFrames(new)
  /\ broken' = broken \cup Wrapping \cup done
  /\ missed' = Envs /\ raised' = TRUE
  /\ done' = {}
  /\ pc' = "idle"
  /\ UNCHANGED <<vars, config, rows, counters, pending, cacheStep, bodiesNow, relative, robots>>

\* The observations and the step counter; then the done rows are reset, or wait for
\* their caller to reset them.
Observe ==
  /\ pc = "observe"
  /\ stepCounter' = stepCounter + 1
  /\ done' = {} /\ raised' = FALSE
  /\ IF autoreset THEN rows' = done /\ UNCHANGED pending
                  ELSE pending' = pending \cup done /\ UNCHANGED rows
  /\ pc' = IF autoreset /\ done # {} THEN "reset" ELSE "idle"
  /\ UNCHANGED <<vars, config, commonStep, sampler, buffers, robots, broken, missed>>

-----------------------------------------------------------------------------
(* A reset *)

\* reset(ids) asked for between two steps.
RequestReset ==
  /\ pc = "idle"
  /\ rows' \in (SUBSET Envs) \ {{}}
  /\ pc' = "reset"
  /\ UNCHANGED <<vars, config, counters, done, pending, sampler, buffers, robots, failures>>

\* MotionCommand.reset: new frames, and their reference taken over at once.
Resample(new) ==
  /\ frame' = [e \in Envs |-> IF e \in rows THEN new[e] ELSE frame[e]]
  /\ clipEnd' = NewEnd(rows, new)
  /\ ref' = [e \in Envs |-> IF e \in rows THEN new[e] ELSE ref[e]]
  /\ ingested' = rows

\* The transaction commits the robots' state.
Transact ==
  /\ pc = "reset"
  /\ \E new \in [rows -> Sampled] :
       /\ Resample(new)
       /\ placed' = [e \in Envs |-> IF e \in rows THEN new[e] ELSE placed[e]]
  /\ played' = [e \in Envs |-> IF e \in rows THEN 0 ELSE played[e]]
  /\ bodiesNow' = bodiesNow \ rows
  /\ pc' = "refresh"
  /\ UNCHANGED <<vars, config, rows, counters, done, pending, cacheStep, relative, failures>>

\* The commit raises: the frames are sampled, the robots stay where they were.
TransactFails ==
  /\ pc = "reset" /\ "commit" \in Faults
  /\ \E new \in [rows -> Sampled] : Resample(new)
  /\ broken' = broken \cup rows /\ missed' = missed \cup rows
  /\ rows' = {}
  /\ pc' = "idle"
  /\ UNCHANGED <<vars, config, counters, done, pending, cacheStep, bodiesNow, relative, robots,
                 raised>>

\* The timers of the events; then compute with dt 0 and post_compute on the rows,
\* where the reference is gathered again only if resampling did not do it.
FinishReset ==
  /\ pc = "refresh"
  /\ Reset(rows)
  /\ ref' = [e \in Envs |-> IF e \in rows /\ ingested # rows THEN frame[e] ELSE ref[e]]
  /\ ingested' = NoRows
  /\ bodiesNow' = bodiesNow \cup rows
  /\ relative' = [e \in Envs |-> IF e \in rows THEN Pair(ref', placed, played, e) ELSE relative[e]]
  /\ cacheStep' = commonStep
  /\ pending' = pending \ rows
  /\ broken' = broken \ rows /\ missed' = missed \ rows
  /\ rows' = {}
  /\ pc' = "idle"
  /\ UNCHANGED <<config, counters, done, sampler, robots, raised>>

\* import_training_state, as the trainers call it: before the first step.
Restore ==
  /\ pc = "idle" /\ stepCounter = 0 /\ ~raised
  /\ stepCounter' \in Counters
  /\ commonStep' = stepCounter'
  /\ UNCHANGED <<vars, config, pc, rows, done, pending, sampler, buffers, robots, failures>>

-----------------------------------------------------------------------------
\* The constructor reads frame 0 and the robots as they are; the first reset is due.
TrackInit ==
  /\ Init
  /\ mode \in Modes /\ truncate \in BOOLEAN /\ autoreset \in AutoResets
  /\ pc = "reset" /\ rows = Envs
  /\ stepCounter = 0 /\ commonStep = 0
  /\ done = {} /\ pending = {}
  /\ frame = [e \in Envs |-> 0] /\ clipEnd = [e \in Envs |-> EndOf(0)]
  /\ ref = frame /\ ingested = NoRows
  /\ cacheStep = 0
  /\ bodiesNow = Envs
  /\ placed = frame /\ played = [e \in Envs |-> 0]
  /\ relative = [e \in Envs |-> Pair(ref, placed, played, e)]
  /\ broken = Envs /\ missed = {} /\ raised = FALSE

TrackNext ==
  \/ Physics \/ Judge \/ Push \/ PlayOn \/ PlayOnFails \/ Observe
  \/ RequestReset \/ Transact \/ TransactFails \/ FinishReset \/ Restore

TrackSpec == TrackInit /\ [][TrackNext]_trackVars

-----------------------------------------------------------------------------
TypeOK ==
  /\ mode \in Modes /\ truncate \in BOOLEAN /\ autoreset \in BOOLEAN
  /\ pc \in {"idle", "judge", "events", "commands", "observe", "reset", "refresh"}
  /\ rows \subseteq Envs /\ done \subseteq Envs /\ pending \subseteq Envs /\ ingested \subseteq Envs
  /\ stepCounter \in Nat /\ commonStep \in Nat /\ cacheStep \in Nat
  /\ frame \in [Envs -> Nat] /\ clipEnd \in [Envs -> Frames] /\ ref \in [Envs -> Nat]
  /\ bodiesNow \subseteq Envs
  /\ relative \in [Envs -> [ref : Nat, placed : Frames, played : Nat]]
  /\ placed \in [Envs -> Frames] /\ played \in [Envs -> Nat]
  /\ broken \subseteq Envs /\ missed \subseteq Envs /\ raised \in BOOLEAN

\* No row plays past the clip it was put on: the reference is never that of the
\* next clip, and the motion is never read past its last frame, whether the clips
\* truncate (the termination must fire in time) or start over.
FrameInClip ==
  \A e \in Envs : frame[e] \in Frames /\ clipEnd[e] = EndOf(frame[e])

\* The reference and the robot keep in step: between two steps the reference frame
\* of a row is as many frames after the frame its robot was put on as the robot has
\* made steps since, or one frame less while the row is done and waits for its caller
\* to reset it (manager_terms.py:571).  Excepted are rows whose last reset failed and,
\* of a step whose commit failed, those that wrapped or were done, until their reset.
InStep ==
  pc = "idle" =>
    \A e \in Envs \ broken :
      frame[e] + (IF e \in pending THEN 1 ELSE 0) = placed[e] + played[e]

\* The relative buffers of row e were made of the present reference and robot.
RelativeNow(e) == relative[e] = Pair(ref, placed, played, e)

\* They were made of the present reference and of the robot before the physics.
RelativeBefore(e) == /\ relative[e].ref = ref[e] /\ relative[e].placed = placed[e]
                     /\ relative[e].played + 1 = played[e]

\* What the readers of the buffers find.  The terminations and rewards find the bodies
\* of this physics step, but the reference and the relative buffers of the last
\* observation, one physics step old (manager_terms.py:806, 823, 841, 936, 1067).  The
\* observations, and whoever reads between two steps or as a reset begins, find all of
\* them current, although pushes and commits move the robots in between and a reset
\* refreshes its rows only.
\* Excepted are the rows a call that raised left without post_compute, and the bodies
\* of all rows in the step after a step that raised, whose refresh the counter of the
\* step before it suppresses (manager_terms.py:421).  Left out are the error metrics a
\* reset computes before it refreshes its rows (line 475): the next reset of the rows
\* computes them again, from current buffers (365), before they are reported.
BuffersCurrent ==
  /\ \A e \in Envs : ref[e] = frame[e]
  /\ pc = "events" => /\ bodiesNow = Envs \/ raised
                      /\ \A e \in Envs \ missed : RelativeBefore(e)
  /\ pc \in {"observe", "idle", "reset"} =>
       \A e \in Envs : /\ e \in bodiesNow \/ (e \in missed /\ raised)
                       /\ e \notin missed => RelativeNow(e)
=============================================================================
