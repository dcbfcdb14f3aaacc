# UniLab and the cricket robot in TLA+

TLA+ models of the environment core under `src/src/unilab` (the vectorised
manager-based environment, its resets, events, observations and motion tracking),
of interactive playback on top of it, and of the bowling environment of the cricket
robot under `src/g1_cricket_cpu`. Each module is translated from the Python source; `PROJECT.json` maps every definition
to the lines it stands for. TLC checks small instances, TLAPS proves the results
listed below for every value of the constants.

## The system

UniLab runs a batch of simulated robots as the rows of numpy arrays. In training one
Python thread owns the environment. What is hard there is not interleaving but
bookkeeping over rows in different phases of their episodes:

* a call of `step()` or `reset()` is a chain of stages that read what earlier
  stages wrote, and the order matters (terminations, rewards, events, commands,
  observations, autoreset, recorder);
* a stage may raise (user terms, the backend, the reset transaction) and leave the
  object half-changed for the caller's next call;
* state is cached (state reads, committed payloads, body poses, counters derived from
  others) and reused (buffers are never cleared);
* a reset of some rows must leave every other row as it was.

In playback there are threads: the loop that steps the policy, and the callbacks of the
viewer or the web server, which share the controls, the command and the observation
with it without a lock. The bowling environment is a coroutine: a generator that runs
the physics between two yields, a monitor that judges what it samples, and a caller
that pays for it.

| component | state | operations | talks to |
|---|---|---|---|
| reset-state transaction (`base/reset_state.py`) | staged rows, per-field masks and values, committed payload cache, mocap masks | begin, writes, bind, commit, abort | `SimBackend.set_state`, mocap bindings |
| environment (`base/np_env.py`, `envs/manager_based_rl_env.py`) | step and episode counters, done flags, pending resets, observations | `step`, `init_state`, `reset`, setters | every manager, the backend |
| event manager (`managers/event_manager.py`) | gate per reset term and row, timer per interval term and row | `apply(mode)`, `reset` | event terms, which write through the transaction or the backend |
| command manager (`managers/command_manager.py`) | time left and command per row, metrics | `compute`, `reset`, `post_compute` | transaction, state reads |
| recorder manager (`managers/recorder_manager.py`) | open files of the terms | `record_pre_reset`, `record_post_reset`, `record_post_step` | reads the environment's buffers |
| termination manager | verdict per row | `compute` | terms |
| entity facade (`base/entity.py`) | state-read cache | getters, write wrappers | backend, transaction |
| observation manager and buffers | history, delay, noise per term; last result | `compute`, `reset` | terms |
| action, reward, metrics, curriculum managers | action history, episode sums | `process_action`, `compute`, `reset` | terms |
| motion tracking (`tasks/motion_tracking/common`) | clip frame per row, reference, robot and relative buffers, failure statistics | sample, step, refresh | command manager, events, transaction |
| playback (`visualization/interactive_playback.py`, `scripts/play_interactive.py`, `src/scripts/play_viser.py`) | pause, single-step requests, velocity command, last observation | the loop, key and click callbacks | environment, policy |
| bowling environment (`g1_cricket_cpu/.../dynamics`) | generator, monitor, swing clock, credit paid | `reset`, `step` | MuJoCo, the policy's controllers |
| the rest | configuration, registry, terrains, training entry points, assets, exported runtimes | cold path or I/O | |

Correctness of each part, in a sentence: the transaction makes a reset atomic and
keeps what it does not rewrite; the environment hands out the observation, flags
and counters that belong to the episode they claim to belong to; gates and timers
count from the right event; commands change only where they may; the recorder sees
every transition; the observation buffers keep one timeline per row; reference and
robot stay on the same frame of a clip; every key press has its effect and the robot
rests when it should; a delivery is passed, and paid, only if it was a fair one.

`PROJECT.json` lists the hazards line by line.

## Modules

| module | models |
|---|---|
| `AtomicReset` | the abstract specification: a reset writes rows from the default state, all together or not at all |
| `ResetTransaction` | `ResetStateTransaction`, with the part of `SimBackend` it calls |
| `ResetRefinement` | the mapping of the transaction to `AtomicReset` |
| `EnvLifecycle` | `NpEnv.step`, `init_state`, autoreset and `ManagerBasedRlEnv.step`, `update_state`, `reset`, the setters |
| `GatedRandomization` | reset events with `min_step_count_between_reset`, extending `ResetTransaction` |
| `IntervalEvents` | interval events and their timers |
| `ObservationWindows` | the abstract specification of the observation buffers: each row has a window of frames of its own |
| `CircularBuffer` | `_buffers/circular_buffer.py` |
| `ObservationHistory` | `DelayBuffer` and `ObservationManager.compute` and `reset`, on top of it |
| `WindowRefinement` | the mapping of the buffers to `ObservationWindows` |
| `MotionTracking` | `MotionCommand` and `MotionSampler` inside the step and the reset, extending `IntervalEvents` |
| `PlaybackLoop` | the stepping loop and the callbacks of three front ends |
| `FairDelivery` | the abstract specification of a delivery: an umpire who watches the ball |
| `BowlingDelivery` | `rollout_case`, `DeliveryMonitor`, `DeliveryEvents`, `SupportSwingClock` |
| `BowlingEnv` | `AmpBowlingEnv.reset` and `step` on top of it, and the mapping to `FairDelivery` |
| `MCReset`, `MCLifecycle`, `MCGated`, `MCHistory`, `MCTracking`, `MCPlayback`, `MCBowling` | instances for TLC |
| `*_proofs` | theorems and their proofs; those about `IntervalEvents` are in `MotionTracking_proofs` |

### ResetTransaction

`staged` is `_qpos` and `_qvel`; a row is a root pose, a root velocity and a joint
column. Only the angular velocity depends on the frame, and only on the orientation,
so poses are orientations and velocities are angular velocities; `ToBody` and
`ToWorld` are any pair of inverse frame changes. The eleven payload fields have one
shape and one code path (`_write_selected_randomization`); `RandFields` stands for
them, `GainFields` for the `(kp, kd)` pair, which has code of its own of the same
form. A field row is a function from columns to values.

Every public operation is an action. Validation raises before anything changes,
and inside `scoped()` a raised error ends in `abort()`; so a refused operation is the
action `Abort`, and only the scope check (`CanStage`) is a guard. `Commit` is one
action, because its calls are synchronous, with one disjunct per way it ends: the
state and the poses go through, the payload cannot be completed, `set_state` raises,
only poses were staged; a mocap upload may raise in each case in which one happens.
`set_state` is assumed to raise before it changes anything. Of the uploads any
subset of the bodies may have gone through, which covers every order of binding.
`asked` is a history variable.

### EnvLifecycle

`pc` says which stage of the running call comes next. The physics of a row is its
age in control steps and a count of writes inside the current step, enough to tell
every state apart that a property could confuse. An observation is the state and
the command it shows. An action is the command the policy was following; `None`
is a zeroed action. Terminations choose any rows. `state.terminated` and
`state.truncated` are the same arrays as `reset_terminated` and `reset_time_outs`
once a step went through, hence one variable each.

`ApplyAction` to `Return` are the stages of `step()`; `Initialise`,
`RequestReset` and `RecordPreReset` to `Refresh` those of a reset, with `caller`
saying who asked for it; a `step()` on an environment without state is `Initialise`
followed by `ApplyAction`. `StageRaises`, `CommitRaises` and `ManagersRaise` abandon the
running call at the stages named by `Faults`: the backend's step, `update_state`, the
transaction of a reset, the managers' resets after it, its last refresh. Of the seven
managers whose `reset` is called in a row, `ResetManagers` shows the action's; those of
the observations, interval timers and gates are in `ObservationHistory`, `IntervalEvents`
and `GatedRandomization`, and the sums of rewards and metrics and the termination log are
not modelled. A manager that raises there may do so before or after the action's. The constants switch the configurations the code
distinguishes: per-substep control, finite horizons, events, commands that write.

Assumed: command periods are at least one step, so the `compute(dt=0)` after a reset
resamples nothing; reset events restore the rows' physics; recorder terms skip the
rows of `reset_buf` in `record_post_step`, as its documentation tells them to. A
second `init_state` on a running environment is not modelled. `over` and
`unrecorded` are history variables.

### GatedRandomization and IntervalEvents

A reset is cut at its event terms: `StartReset`, `StageDefaults`, then one
`SkipTerm` or `TriggerTerm` per term in the configured order, then the commit of
`ResetTransaction`. The gate is written before the term runs, as in the code, and
stays written when the term raises, or a later one, or anything else inside `scoped()`
(`ResetRaises`), or the commit. The first reset is of all rows; if it raises, in the
transaction or before it (`RaisesBefore`), `init_state` has assigned `_state` by then and
the next resets may be of some rows only. `Restore` is `import_training_state`: it sets the step
counter, to a lower value or a higher one, and not the gates, which no checkpoint holds.
`draws`, `drawn`, `started`, `rejected` are histories. A gate that notes a draw which
never reached the backend is what the code does, so `RandomizedFromTheStart` and
`NeverSparse` speak of runs without a failed reset; `LastDrawPersists` does not care.

Interval timers are integers: `Dt = 2` and intervals of 3 and 4, one a multiple of the step
and one not. `interval` and `elapsed` are histories: what a timer drew and the time since.
`IntervalsKept` compares with them the step in which a term fires. `IntervalEvents` has no
run of its own; it is checked inside `MotionTracking`, whose events push the robots.
A timer that the code finds below `1e-6` is one at or below 0 here;
the tolerance is for rounding, which exact integers do not have.

### ObservationHistory

One term, whose frames pass a delay buffer and then a history buffer; `Values` is what
the term computes, with noise, clip and scale applied, and tells only the episode and
the age of the row. The rows share one pointer per buffer and one cached result;
each has a count of pushes, a lag, a step count and a phase.

`compute` has three paths. A control step pushes every row and advances the lag
schedule (`ComputeAll`). A reset backfills its rows at their current lags and leaves
the cache empty (`ComputeRows`), unless the buffers were never used. A call outside a
step that finds no cached result pushes the delay buffers but not the history
(`Inspect`); `get_active_iterable_terms` and the residual action of
`g1_cricket_runtime` make such calls. The comment at `observation_manager.py:362-364`
says that the cache prevents double pushes, which it does until a reset drops it: the
next `Inspect` pushes the delay buffers of *all* rows. `TrueDelay` therefore leaves out
rows pushed outside a step since their own reset; the other properties hold for them
too. A reset that was abandoned after it cleared its rows leaves them cleared until the
next step, and an `Inspect` before it hands out a history of zeros: `OneEpisode` says so,
and that it never hands out part of one.

`StartReset`, `FinishReset` and `AbandonReset` cut a reset between the managers' reset
and its `compute`, because a command or a term may raise there. Push counts are capped
at the length of the buffer and step counts taken modulo the period: nothing in the
code depends on more. `draws`, `first`, `inspected` and `handed` (the rows an observation
was handed out of since their reset began) are history variables.
`MinLagWithinPeriod` speaks of configurations without `delay_hold_prob`, because a
held lag may stay at the 0 of the reset for any time.

### MotionTracking

A row plays a clip: a reset puts its robot on a sampled frame, every step moves the
reference one frame on. `placed` and `played` are what the robot really did, as
histories, so that `InStep` can compare. The motion of a frame is the frame; of a
buffer we keep whether it is current. `Physics`, `Judge`, `Push`, `PlayOn`, `Observe`
are the stages of `step()` the command takes part in; `Transact`, `TransactFails`,
`FinishReset` those of a reset. Both commits may raise: that of a reset, and that of a step
in which a row ran off its clip (`PlayOnFails`; the frames are sampled, the robots not
moved, nothing is refreshed and the step is not counted). What else may raise in a step is
in `EnvLifecycle` only. `autoreset` is fixed at the start; with it off the done rows wait
in `pending` for their caller. All five sampling modes are there.

`relative` is what the buffers of the bodies relative to the robot were made of. They are
refreshed by `post_compute`, after the commands. So the rewards and the termination that
read them (`manager_terms.py:806`, `823`, `841`, `936`, `1067`) find those of the last
observation, next to the bodies of the present step: `BuffersCurrent` states the age each
reader finds. The error metrics a reset computes before it refreshes are left out; they are
computed again before they are reported.

`truncate` is `truncate_on_clip_end`; every configuration that sets
it also has the `motion_clip_end` termination, and every one sets the command's own
timer to 1e9 s, so that it never resamples.

Left out: the failure statistics that weigh the bins of the adaptive sampler (every
bin keeps a positive probability, so any frame of any bin may be drawn) and the pose
noise. `Restore` is the checkpoint restore as the trainers make it, before the first
step; restoring a counter of `cacheStep - 1` in the middle of a run would keep the
cached bodies for one step. The comment at `manager_terms.py:471-475` on which rows
the cache serves does not describe the code, without any effect on the results.

### PlaybackLoop

The loop writes the command (`WriteCommand`), asks for permission and uses up a
request (`Consume`, `Refuse`), has the policy act (`BuildActions`), steps (`EnvStep`) and
stores the observation (`StoreObs`). A callback runs on another thread: `ui[h]` is
where it stands. The interpreter lock changes hands at calls, so
`requests += max(int(count), 0)` is two steps, a load (`PressStep`) and a store
(`StoreRequest`), and a Backspace is three: `env.reset`, the observation, the command. `env.step` and
`env.reset` are atomic here, although a switch inside them is possible: what they do
inside belongs to `EnvLifecycle`. One thread runs the key callbacks of the
MuJoCo viewer; the web server hands each click to a pool (`MayRun`). Speed, camera,
`session.step_count` and rendering are left out. `MaxRequests`, `MaxNudges` and
`MaxResets` bound what the user does.

### BowlingDelivery and BowlingEnv

`Control` is a control tick from the action on: the support clock may start the
swing, and if the ball is ready, the action permits it and `can_release` agrees, the
ball goes. `Simulate` is a physics step with everything `DeliveryMonitor.observe` makes
of it, in the order of the code; `Raise` is the `RuntimeError` on invalid dynamics,
after which only `reset()` helps; `Finish` is the verdict. `Pay` is the end of
`AmpBowlingEnv.step`. The episode may end after any whole number of periods, which
covers its 8 s.

What MuJoCo and the controllers do is free: where the ball goes (one place at a time,
forward or back), what touches what, which foot is loaded, low or in the air, whether
its bounds are legal, which joint is beyond its limit. Times are ages in physics steps,
counted up to the longest one that is compared with. The pitch has places 0 to `Goal`,
of which `Zone` is where the first bounce belongs. Failures are kinds, not names: a
second failure of a kind that has been charged costs another point in the code and none
here. The feet are followed until the release, after which no judgement reads them. Of the flight
credit we keep the distance, not the factor for alignment. The ball is let go before
the target plane.

`FairDelivery` knows the ball and a call: carried, flying, bounced, delivered, spoilt.
The mapping computes the call from the monitor's records; every physics step has to be
a move the umpire judges the same way, and a verdict without failures is possible only on
`delivered`.

`Terminal` is the reward for the end: 50 for a passed delivery, otherwise -5 or, under
`release_curriculum`, -10, -5 or 5. `prize`, `paid` and `charged` are histories.

Left out: the controllers of arm and balance, the observation, the terms of the reward
for the gain of speed, the size of the action and the excess of a joint, the queue of cases, and the adapter that runs several of
these environments for `uni_rl`.

## Runs

| run | bounds | what it shows |
|---|---|---|
| `reset_rows` | 2 rows, 2 orientations, 2 velocities, one field, one joint value | staging stays inside the reset; velocities are committed in the right frame; refinement of `AtomicReset` |
| `reset_mocap` | 1 row, 2 bodies, the gains with 2 columns, 2 joint values | poses follow the state; changes are reported; types; refinement with partial columns |
| `lifecycle_auto` | 2 rows, 2 commands, 2 steps, autoreset, events and command writes | terminal observations, freshness, no lost transition |
| `lifecycle_manual` | 2 rows, 2 commands, 2 steps, autoreset off, commit may raise | counters, flags and pending rows agree; a finished row is not stepped; a reset is local |
| `lifecycle_faults` | 2 rows, 2 steps, the five stages named above may raise, autoreset toggled | a reset that goes through repairs its rows |
| `gated` | 2 rows, 2 terms on fields of their own, counter up to 2 and restored, gate of 2 steps, hooks, terms and commits may raise | draws persist, first draws happen, payloads can be completed, the cache mirrors the backend, skipped rows persist |
| `history` | 2 rows, lags 1 to 2, period 2 with phases, history of 2, episodes of 3 steps | delays are exact, no frame of another episode and no partly cleared history, cache current, lags on schedule, refinement of `ObservationWindows` |
| `tracking` | 2 rows, clips of 1 and 2 frames, adaptive sampling, with and without truncation and autoreset, 2 interval terms, 3 steps, commits of steps and resets may raise | frames stay in their clip, reference in step, buffers as old as their readers expect, interval terms fire in time |
| `playback` | 2 callback threads, 3 front ends, 2 single steps, 1 command key, 2 Backspaces | presses are not lost and are answered, the loop comes to rest, the damage of a Backspace is bounded, the command arrives |
| `bowling` | 4 places, bounces allowed on 2, periods of 2 physics steps, 3 profiles | a learned release is legal, the reward is the outcome up to its end, refinement of `FairDelivery` |
| `gated_shared`, `recorder_action` | as above | a counterexample to a documented statement each, see Findings |

Two rows are enough to separate a row of a reset from one outside it; a third would
repeat one of the two roles. One field tells sparse rows apart and the gains are
its second copy; two columns are needed only for the overlay. Two control
steps and a reset in between reach every stage with every combination of fresh and
stale rows; a gate of two steps with a counter of two is open, closed and open again,
and after a restore the counter may lie below the step the gate noted. Episodes of three steps hold four frames, one more than the delay buffer has
slots, so that a full buffer overwrites its oldest frame; resets of the other row
shift the pointer against the episode in every way. `MaxAge` bounds the age of a row
in `ControlStep`; `MaxStep` and `MaxCount` bound the counters, in the guards `Bounded`,
`Advance` and `Restore`. The clips of `tracking` lie next to each other, so that a frame too many is a
frame of the other clip, and three steps run off either. Two callback threads are what
a lost update needs, two Backspaces let the second fall on what the first has left, and two
requests to have one used up while the other is counted. In `bowling` a place before the zone, two in it and
the target plane let the ball bounce short, twice, or past the end; the ages are small but
keep the order of the code's times (`Fresh <= Stale < Stride`). Symmetry is over
rows, which no definition tells apart. Deadlock is checked in every run but `playback`,
where the window may be closed.

Every property of a passing run has a mutant in `PROJECT.json`: a definition next
to the original, marked "Seeded fault", which makes TLC find that property violated.

Fairness is assumed in `PlaybackLoop` only: the loop is a `while` on a thread of its own
(`WF_vars(MainLoop)`), and a callback that has begun returns (`WF_vars(Continue(h))` for
each thread). Nothing is assumed of the user, who may stop pressing keys, pause for ever
or close the window. The liveness properties need no more: `PressAnswered` holds although
clicks overlap, `ComesToRest` because presses are finite in number. Elsewhere the code is
synchronous, every call ends or raises, and whether a row is ever stepped or reset is
the caller's choice, so nothing is claimed to happen eventually.

## Proofs

| theorem | states |
|---|---|
| `ResetTransaction_proofs!TypeCorrect` | `[]TypeOK` |
| `ResetTransaction_proofs!InductiveInvariant` | `[]IInv` |
| `ResetTransaction_proofs!CacheCorrect`, `MasksCorrect` | the cache mirrors the backend; masks are clean and inside the reset |
| `ResetTransaction_proofs!VelocityIsDelivered`, `SkippedRowsDoPersist`, `MocapDoesFollowState`, `ChangesAreDulyReported` | the action properties |
| `ResetTransaction_proofs!Refinement` | the transaction implements `AtomicReset` |
| `GatedRandomization_proofs!GatedInductive`, `UsesTheTransaction` | the inductive invariant of the gates; `GatedSpec => Spec` of `ResetTransaction` |
| `GatedRandomization_proofs!GatedRowsPersist` | under gates too the cache mirrors the backend, skipped rows persist, resets are atomic |
| `GatedRandomization_proofs!NoRowMissesItsDraw`, `CommitsNeverSparse` | `[]RandomizedFromTheStart`; `[]NeverSparse` |
| `GatedRandomization_proofs!LastDrawsPersist`, `SharedDrawsPersist` | `[]LastDrawPersists` for terms with fields of their own; its part for terms that share one |
| `EnvLifecycle_proofs!TypeCorrect`, `ResetLocality` | `[]TypeOK`; a reset touches its rows only |
| `EnvLifecycle_proofs!RowsWaitForReset` | a finished row waits for its reset |
| `EnvLifecycle_proofs!FlagsDoAgree`, `CountersDoAgree` | the three sets of flags and the five counters agree between calls |
| `EnvLifecycle_proofs!ResetDoesRepair` | a reset that goes through repairs its rows, whatever raised before |
| `EnvLifecycle_proofs!NoneIsLost` | every transition reaches a recorder hook |
| `EnvLifecycle_proofs!ObservationsAreFresh`, `FinalObservationsAreTerminal` | observations show the present state; final ones the terminal state |
| `ObservationHistory_proofs!TypeCorrect`, `MinLagIsKept` | `[]TypeOK`; `[]MinLagWithinPeriod` |
| `WindowRefinement_proofs!Refinement` | the ring buffers implement one window per row |
| `WindowRefinement_proofs!EpisodesStayApart`, `CacheStaysCurrent`, `DelaysAreTrue` | the other three invariants of the observation run |
| `MotionTracking_proofs!IntervalsAreKept` | interval terms fire in time (of `IntervalEvents` by itself) |
| `MotionTracking_proofs!UsesTheTimers` | `TrackSpec => Spec` of `IntervalEvents` |
| `MotionTracking_proofs!SamplerReaches` | which frames the sampler can draw |
| `MotionTracking_proofs!TrackingTyped`, `FramesStayInClip`, `ReferenceStaysInStep`, `BuffersStayCurrent`, `TimersKeptInStep` | types and the four properties of `tracking` |
| `PlaybackLoop_proofs!PressesAreNotLost`, `BlindStepsAreBounded`, `StrayCommandsAreBounded` | the safety properties of `playback` |
| `BowlingEnv_proofs!BowlingTyped`, `LearnedReleasesAreLegal`, `EpisodesArePaidTheirWorth` | types and the invariants of `bowling` |
| `BowlingEnv_proofs!DeliveriesAreFair` | the environment implements `FairDelivery` |

They hold for any sets of rows, fields, columns, bodies, commands, terms, clips, threads,
places and times, from the assumptions next to the constants (frame changes are inverse,
defaults are rows, `NoWrite` and `None` are none of the values, periods are positive,
clips are disjoint and cover the motion, the zone of the bounce lies before the target,
the configured reset terms are distinct).

*Transaction.* `IInv` joins the types, `ClosedIsClean`, `StagedInsideReset`,
`CacheMirrorsBackend` and `VelocityInStagedFrame`. The action properties are not
inductive by themselves: that a skipped row persists needs the cache to mirror the
backend in the state before the commit, that needs payload rows to be dirty rows,
and a delivered velocity needs the staged row to have been encoded in its own pose.
`NextCases` splits a step into staging, binding, ending and physics; staging
touches neither cache nor backend, which leaves the commit. The refinement maps a
dirty row to its staged content and a clean one to `NoWrite`; masks of fields
inside the dirty rows (`StagedInsideReset`) make the mapping commute with a write.

*Gates.* A step of `GatedRandomization` is an operation of the transaction or leaves it
alone (`UsesTheTransaction`), so the results about the transaction carry over; the one
fact needed for it is that the terms stage rows of the reset only (`InScope`). The first
draws: until a reset went through, and as long as none failed, every gate not yet asked
is `Fresh`, hence open for every row, and every term asked has drawn for all rows
(`FirstReset`). The commit of such a reset leaves every row of every randomised field
with a committed value (`AllCommitted`), so that later payloads can be filled in, and
none is sparse. Restored counters do no harm, because a row that was never triggered is
told by `once` and not by the counter.

That draws persist is proved under two hypotheses on the configuration. `OwnFields`: no
two terms share a field. Then a row the term skips is a row the transaction has to fill
in, and `SkippedRowsPersist` applies, whatever fails. `Compatible`: terms that share a
field write disjoint columns and have the same `min_step_count_between_reset`. Then they
draw for the same rows of every reset, which is the invariant `GatesInStep`: what a gate
will have noted, and which rows it will have drawn for, when all terms of the running
reset have been asked (`Outcome`) does not change by the asking, and is the same for terms
of the same field. It fails as soon as a reset is abandoned between two of them, and so
`SharedDrawsPersist` speaks of runs in which none was. With different gates the property
is false, see `gated_shared`: the hypotheses are the edge of what the code keeps.

*Lifecycle.* Locality holds step by step from the invariant that no reset is
running in the stages of a step. `RowsWaitForReset` rests on the invariant that
finished rows are, between calls, rows that await a reset, unless autoreset is about to
reset them. It does not hold when `update_state` may raise: a stage that raises after the
terminations were computed skips the line that makes the done rows wait
(`manager_based_rl_env.py:471`), and the caller that catches the error can step on. Nor
does it when a commit raises in an autoreset and the mode is switched off then: the rows
of the failed reset await nothing. The theorem excludes these two and no more.

The others share `ControlInv` (which caller is in which stage) and add one invariant
each. Their fault assumptions name what really breaks them:

| theorem | mode | stages that may raise | invariant |
|---|---|---|---|
| `RowsWaitForReset` | any, or off if a commit may raise | physics, managers, refresh, commit | `Awaited`: finished rows await their reset |
| `FlagsDoAgree` | autoreset off | physics, commit | `FlagInv`: what the flags are stage by stage |
| `CountersDoAgree` | any; off if more than the refresh may raise | refresh; commit, managers | `CounterInv`: derived counters run one ahead from the head of `update_state` to the count |
| `ResetDoesRepair` | any | all | `RepairInv`: what the rows of a reset already have |
| `NoneIsLost` | not switched | physics; with autoreset off also commit, managers, refresh | `RecordInv`: an unshown transition is the last of an episode and its row waits |
| `ObservationsAreFresh` | any | physics | `FreshInv`: a filled cache equals the physics |
| `FinalObservationsAreTerminal` | any | physics | `TerminalInv`: a done row keeps the command its action was chosen for; needs `FreshInv` and `RepairInv` |

A stage of `update_state` that raises leaves counters, flags and observations of
different steps behind, so none but `ResetDoesRepair` can allow it. With autoreset on, a
reset that raises ends the step before `record_post_step`, which is why `NoneIsLost`
allows it with autoreset off only.

*Intervals.* What is left of a timer and the time since its draw add up to what it drew
(`CountsDown`, inductive together with the types); from this a term fires exactly in the
step that completes its interval (`FiresInTime`). The tracking environment implements
`IntervalEvents` (`UsesTheTimers`; a reset of no rows is a stutter), so its terms do too.

*Observations.* A window is the latest `filled` slots of a row in the order of the
pointer. Slots a row has not filled hold its oldest frame again (or zeros, when it is
empty): this padding is the invariant `WInv`, and it is what makes the fixed-length
reading of the code equal to the padded window. An append moves the pointer by one for
all rows; lemmas on the slot arithmetic, by cases on the wrap, show that each window
loses its oldest frame and gains the new one, that a backfill makes a window of one
frame, and that the clamped lag reads the frame the window has at that depth. Both
buffers are allocated in the same step, so the two tests of `is_initialized` agree.
`MinLagIsKept` rests on `OnSchedule`: until a row has seen a whole period its clock
is the number of draws since its reset, so the step its phase makes due lies within
that period.

The last three theorems read the buffers in the order of the pointer and follow one row.
`EpisodeInv`: as soon as a row has a frame, all its slots are of its episode, because the
first push floods them, and until then all are cleared; it needs that a cleared slot can
be told from a frame
(`Zero \notin Frame`, which the code's zero tensor is not by itself). `DelayInv`: in the
delay buffer of a row never pushed outside a step, the frame at depth k is the one k
steps old or the first, so the lag clamped to what is filled reads what it names.
`CacheInv`: no result is cached while a reset is due to compute.

*Tracking.* A row that is not done has not passed the end of its clip, because with
truncation a row at its end is flagged done before the clip plays on (`Flagged`), and
without it a row past its end is put on a new frame in the same step. `InStep` counts
both sides over the stages of a step. `BuffersCurrent` needs that the step a cache was
filled in lies behind the step counter (`CacheBehind`): otherwise the refresh before
the terminations would be skipped, as it is in the step after one that raised. `SamplerReaches` is about `Sampled` alone: the bins
`b` with `b * Last <= f * BinCount < (b + 1) * Last` show that the adaptive sampler, which
scales by `num_frames - 1` and rounds down (`motion_loader.py:529`), can draw every frame
but the last one.

*Playback.* What a callback has loaded and not yet stored covers the presses the loop
has used up since (`LoadedEnough`), which needs that one thread presses keys
(`OneThread`). The two bounds are accounts: an observation that no longer describes the
environment, and a command in force that is not the written one, is a debt of a reset
not yet paid for (`BlindDebt`, `StrayDebt`).

*Bowling.* `FlightInv` relates the records of the flight: none before the release, no
crossing as long as the ball is short of the target, a first bounce exactly if one was
counted, the frontier on the target exactly if the ball crossed after one bounce.
`ResultInv` says what a verdict covers. From them and `PayInv` (previous failures are
the charged ones) follows what the last credit and the end were paid for (`CreditInv`,
`PrizeInv`), hence `RewardIsTheOutcome`. The refinement goes by the call after a physics step; the case
that needs the invariants is a ball that bounces and crosses in one step, which has its
bounce on the target plane and so outside the zone.

Every safety property a passing run checks is stated by a theorem. Only model-checked, and
out of the prover's reach, are the liveness properties of `playback` (`PressAnswered`,
`ComesToRest`, `CommandArrives`). `ENABLED` and induction over recursive definitions are
out of reach too; neither is used.

## Findings

* `gated_shared`: the payload cache re-supplies rows, not columns. Of two terms that
  randomise different columns of one field, the gated one loses its last draw on a
  reset it skips: the row's first write starts from the model default
  (`reset_state.py:1162`).
* `recorder_action`: a reset asked for after an autoreset fires `record_pre_reset`
  again for the same rows, with the action zeroed, where the hook's documentation
  promises the terminal action.

Met while modelling, without a run:

* The documentation of `record_pre_reset` (`recorder_manager.py:77-80`) says that `obs_buf`
  still holds the observation the terminal action was chosen from, but `update_state` has
  stored the terminal one there by then (`manager_based_rl_env.py:541`).
* The docstring of `last_commit_had_writes` (`reset_state.py:83`) says that the flag tells
  "whether the most recent scoped commit submitted dirty rows to set_state". The code sets
  it for a commit of mocap poses alone as well (line 919), which submits none, and its one
  reader needs that: the state reads cached before the upload would be stale
  (`manager_based_rl_env.py:535`). `ChangesAreReported` states what the code does; its
  seeded fault `HasDirtyRows` is the docstring taken literally, and TLC's counterexample
  to it is a reset that uploads a pose and reports nothing.
* After a step that raised, `common_step_counter` takes the same value again in the next
  step, so the refresh before the terminations is skipped (`manager_terms.py:421`): these
  and the rewards read the bodies of the step before. `BuffersCurrent` excepts that step.

## Not modelled, and the plan

Left out for good: numerical terms (rewards, observations, terrains), configuration
and registry (functions of their input), rendering, assets and file I/O, the
external backends and learners, the controllers of the cricket robot, recorded results
and the vendored copy of the runtime under `src/g1_cricket_runtime`.

What could come next:

1. Velocity and pose commands with their curriculum, command metrics and action history:
   what a partial reset accumulates or shifts for rows outside it.
2. The NaN guard's ring of states and the NaN policies of the observation manager; the
   state of the noise models.
3. The adapter that batches bowling environments, with the queue of cases.
4. Proofs: that `EnvLifecycle` uses the reset transaction as `ResetTransaction` describes
   it, as is proved of the reset events; and the gates in the lifecycle's own resets.
