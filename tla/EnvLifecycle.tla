---------------------------- MODULE EnvLifecycle ----------------------------
(***************************************************************************)
(* The life of a vectorised manager-based environment:                     *)
(* base/np_env.py (NpEnv.step, init_state, _reset_done_envs) with           *)
(* envs/manager_based_rl_env.py (update_state, reset, the public setters).  *)
(*                                                                         *)
(* One call of step() or reset() is a chain of actions, one per stage that  *)
(* reads what an earlier stage wrote; `pc' says which stage comes next.     *)
(* Python runs the stages one after the other, but a stage may raise (a     *)
(* user's term, the backend, the reset transaction), which abandons the     *)
(* call where it stands and gives the caller back the half-changed object.  *)
(*                                                                         *)
(* Data: the physics of a row is the number of control steps since its last *)
(* reset and the number of writes made to it inside the current step; an    *)
(* observation is what was seen of the two and the command it shows; an     *)
(* action is the command the policy was following when it chose it.         *)
(***************************************************************************)
EXTENDS Integers, FiniteSets

CONSTANTS
  Envs,            \* the rows of the batch
  Commands,        \* command values
  Periods,         \* command lifetimes, in steps
  Substeps,        \* cfg.sim_substeps
  PreStepControl,  \* the backend calls _apply_manager_control on each substep
  FiniteHorizon,   \* cfg.is_finite_horizon
  HasEvents,       \* a "step" or "interval" event is configured
  CommandWrites,   \* the command terms write simulation state
  AutoresetModes,  \* the values auto_reset and set_autoreset take
  ResetRequests,   \* the sets of rows a caller asks reset() for
  Lengths,         \* values given to set_episode_length_buf
  Counters,        \* values given to import_training_state
  Faults,          \* the stages that may raise
  MaxStep,         \* bound of the step counter
  None             \* no value: a zeroed action row, an empty cache

\* Where a call may be abandoned: in the backend's step, in update_state, in the
\* transaction of a reset, in the managers' resets after it, in the last refresh.
Stages == {"physics", "update", "commit", "managers", "refresh"}

ASSUME LifecycleAssumption ==
  /\ Commands # {} /\ None \notin Commands
  /\ Periods \subseteq Nat \ {0} /\ Periods # {}
  /\ Substeps \in Nat \ {0} /\ MaxStep \in Nat
  /\ {PreStepControl, FiniteHorizon, HasEvents, CommandWrites} \subseteq BOOLEAN
  /\ AutoresetModes \subseteq BOOLEAN /\ AutoresetModes # {}
  /\ ResetRequests \subseteq SUBSET Envs
  /\ Lengths \subseteq Nat /\ Counters \subseteq Nat
  /\ Faults \subseteq Stages

VARIABLES
  pc, rows, caller,                        \* the stage due; the rows of the running reset
  hasState, autoreset, hasTransition,      \* _state, _autoreset, _has_transition
  stepCounter, commonCounter, simCounter,  \* step_counter, common_step_counter, _sim_step_counter
  steps, lengthBuf,                        \* info["steps"], episode_length_buf
  terminated, truncated, resetBuf,         \* rows flagged in the state and in reset_buf
  pending,                                 \* _manual_reset_pending
  action, timeLeft, command,               \* action_manager.action, the command term
  phys, cache,                             \* backend state, the entity state-read cache
  obs, finalObs, mask,                     \* state.obs, final_observation, _final_observation
  over, unrecorded                         \* history: episodes ended and not reset,
                                           \* transitions no recorder hook has shown

control   == <<pc, rows, caller>>
mode      == <<hasState, autoreset>>
counters  == <<stepCounter, commonCounter, simCounter>>
lengths   == <<steps, lengthBuf>>
flags     == <<terminated, truncated, resetBuf>>
commands  == <<timeLeft, command>>
outputs   == <<obs, finalObs, mask>>
recording == <<hasTransition, unrecorded>>
vars == <<control, mode, counters, lengths, flags, pending, action, commands,
          phys, cache, outputs, over, recording>>

State == [age : Nat, writes : Nat]
Observation == [seen : State, command : Commands] \cup {None}
Fresh == [age |-> 0, writes |-> 0]

-----------------------------------------------------------------------------
(* Helpers *)

\* A row-wise assignment: f with the rows R taken from g.
OnRows(f, R, g) == [e \in Envs |-> IF e \in R THEN g[e] ELSE f[e]]

\* What a state getter returns inside the read phase: the cached batch, if any.
Read == IF cache = None THEN phys ELSE cache

\* A term of the stage may have read the state, which fills the cache.
Cached == {cache, Read}

\* The physics after a stage wrote to the rows W.
Written(W) == [e \in Envs |-> IF e \in W
                 THEN [phys[e] EXCEPT !.writes = @ + 1] ELSE phys[e]]

Done == terminated \cup truncated

-----------------------------------------------------------------------------
(* step() *)

\* ManagerBasedRlEnv.step refuses while a row awaits its manual reset.
MayStep == autoreset \/ pending = {}

\* The bound on the counters, MaxStep control steps each.
Bounded == /\ stepCounter < MaxStep /\ simCounter <= Substeps * MaxStep
           /\ \A e \in Envs : steps[e] < MaxStep /\ phys[e].age < MaxStep

\* The head of step(): apply_action, the truncation flags and the final
\* observation of the previous step cleared.
ApplyAction ==
  /\ pc = "idle" /\ hasState /\ MayStep /\ Bounded
  /\ action' = command
  /\ simCounter' = IF PreStepControl THEN simCounter ELSE simCounter + Substeps
  /\ truncated' = {} /\ mask' = {}
  /\ pc' = "physics"
  /\ UNCHANGED <<rows, caller, mode, stepCounter, commonCounter, lengths, terminated,
                 resetBuf, pending, commands, phys, cache, obs, finalObs, over, recording>>

\* backend.step, with the per-substep hook when it is installed.
Physics ==
  /\ pc = "physics"
  /\ phys' = [e \in Envs |-> [age |-> phys[e].age + 1, writes |-> 0]]
  /\ simCounter' = IF PreStepControl THEN simCounter + Substeps ELSE simCounter
  /\ unrecorded' = Envs
  /\ pc' = "judge"
  /\ UNCHANGED <<rows, caller, mode, stepCounter, commonCounter, lengths, flags, pending,
                 action, commands, cache, outputs, over, hasTransition>>

\* The head of update_state: the counters, then the terminations and, from
\* them, the done flags; `died' and `late' are what the terms returned.
Judge ==
  /\ pc = "judge"
  /\ lengthBuf' = [e \in Envs |-> steps[e] + 1]
  /\ commonCounter' = stepCounter + 1
  /\ simCounter' = (stepCounter + 1) * Substeps
  /\ \E died, late \in SUBSET Envs :
       /\ terminated' = IF FiniteHorizon THEN died \cup late ELSE died
       /\ truncated' = IF FiniteHorizon THEN {} ELSE late
       /\ resetBuf' = died \cup late
       /\ over' = died \cup late
  /\ cache' \in Cached
  /\ pc' = IF HasEvents THEN "events" ELSE "commands"
  /\ UNCHANGED <<rows, caller, mode, stepCounter, steps, pending, action, commands,
                 phys, outputs, recording>>

\* "step" and "interval" events: they may write to any row; the read cache is
\* dropped whether or not one fired.
RuntimeEvents ==
  /\ pc = "events"
  /\ \E W \in SUBSET Envs : phys' = Written(W)
  /\ cache' = None
  /\ pc' = "commands"
  /\ UNCHANGED <<rows, caller, mode, counters, lengths, flags, pending, action, commands,
                 outputs, over, recording>>

\* Seeded fault: the commands of the done rows advance too.
EveryDt == [e \in Envs |-> 1]

\* The commands advance by one step, those of the done rows by nothing.
CommandDt == [e \in Envs |-> IF e \in resetBuf THEN 0 ELSE 1]

\* The rows a command term may write to: those it resampled, and those not done
\* (MotionCommand restarts the clip of a live row that ran off its end).
CommandRows(expired) ==
  IF CommandWrites THEN expired \cup (Envs \ resetBuf) ELSE {}

\* Seeded fault: the writes of the commands leave the cached reads in place.
CacheKept(W, new) == Cached

\* The cache after the transaction of the commands wrote to W: dropped when it
\* wrote anything, then possibly filled again by post_compute.
CacheAfterCommit(W, new) == IF W = {} THEN Cached ELSE {None, new}

\* command_manager.compute inside the transaction over all rows, post_compute.
ComputeCommands ==
  LET left == [e \in Envs |-> timeLeft[e] - CommandDt[e]]
      expired == {e \in Envs : left[e] <= 0}
  IN /\ pc = "commands"
     /\ \E new \in [Envs -> Commands], period \in [Envs -> Periods] :
          /\ command' = OnRows(command, expired, new)
          /\ timeLeft' = OnRows(left, expired, period)
     /\ \E W \in SUBSET CommandRows(expired) :
          /\ phys' = Written(W)
          /\ cache' \in CacheAfterCommit(W, phys')
     /\ pc' = "observe"
     /\ UNCHANGED <<rows, caller, mode, counters, lengths, flags, pending, action,
                    outputs, over, recording>>

\* The observations the terms compute from the getters they call.
Seen(getter) == [e \in Envs |-> [seen |-> getter[e], command |-> command[e]]]

\* The tail of update_state; the read phase ends with it.
Observe ==
  /\ pc = "observe"
  /\ obs' = Seen(Read)
  /\ cache' = None
  /\ hasTransition' = TRUE
  /\ pc' = "count"
  /\ UNCHANGED <<rows, caller, mode, counters, lengths, flags, pending, action, commands,
                 phys, finalObs, mask, over, unrecorded>>

\* The counters of NpEnv.step after update_state.
Counted ==
  /\ stepCounter' = stepCounter + 1
  /\ steps' = [e \in Envs |-> IF autoreset /\ e \in Done THEN 0 ELSE steps[e] + 1]

\* Done rows under autoreset: their observation is copied out, then reset() runs.
CountAndReset ==
  /\ pc = "count" /\ autoreset /\ Done # {}
  /\ Counted
  /\ mask' = Done
  /\ finalObs' = OnRows(finalObs, Done, obs)
  /\ rows' = Done /\ caller' = "autoreset"
  /\ pc' = "record"
  /\ UNCHANGED <<mode, commonCounter, simCounter, lengthBuf, flags, pending, action,
                 commands, phys, cache, obs, over, recording>>

\* No done row, or no autoreset.
CountOnly ==
  /\ pc = "count" /\ ~(autoreset /\ Done # {})
  /\ Counted
  /\ pc' = "return"
  /\ UNCHANGED <<rows, caller, mode, commonCounter, simCounter, lengthBuf, flags, pending,
                 action, commands, phys, cache, outputs, over, recording>>

\* The end of ManagerBasedRlEnv.step: done rows must be reset by hand when
\* autoreset is off; record_post_step, whose terms skip the rows of reset_buf.
Return ==
  /\ pc = "return"
  /\ pending' = IF autoreset THEN pending ELSE pending \cup Done
  /\ unrecorded' = unrecorded \cap resetBuf
  /\ pc' = "idle"
  /\ UNCHANGED <<rows, caller, mode, counters, lengths, flags, action, commands, phys,
                 cache, outputs, over, hasTransition>>

-----------------------------------------------------------------------------
(* reset() *)

\* init_state: every row flagged terminated, then reset as done rows are.
Initialise ==
  /\ pc = "idle" /\ ~hasState
  /\ hasState' = TRUE
  /\ terminated' = Envs /\ truncated' = {}
  /\ steps' = [e \in Envs |-> 0]
  /\ obs' = [e \in Envs |-> None] /\ finalObs' = [e \in Envs |-> None]
  /\ mask' = Envs
  /\ rows' = Envs /\ caller' = "init"
  /\ pc' = "record"
  /\ UNCHANGED <<autoreset, counters, lengthBuf, resetBuf, pending, action, commands, phys,
                 cache, over, recording>>

\* Seeded fault: the row stops awaiting its reset when the reset is asked for.
RequestClearsPending ==
  /\ pc = "idle" /\ hasState
  /\ rows' \in ResetRequests /\ caller' = "user"
  /\ pc' = "record"
  /\ pending' = pending \ rows'
  /\ UNCHANGED <<mode, counters, lengths, flags, action, commands, phys, cache,
                 outputs, over, recording>>

\* reset(ids) called from outside; the first reset must be of every row.
RequestReset ==
  /\ pc = "idle" /\ hasState
  /\ rows' \in ResetRequests /\ caller' = "user"
  /\ pc' = "record"
  /\ UNCHANGED <<mode, counters, lengths, flags, pending, action, commands, phys, cache,
                 outputs, over, recording>>

\* Seeded fault: only terminated rows are shown, not those that ran out of time.
RecordTerminated ==
  /\ pc = "record"
  /\ unrecorded' = IF hasTransition THEN unrecorded \ (rows \cap terminated) ELSE unrecorded
  /\ pc' = "transact"
  /\ UNCHANGED <<rows, caller, mode, counters, lengths, flags, pending, action, commands,
                 phys, cache, outputs, over, hasTransition>>

\* record_pre_reset on the rows of the reset that are done.
RecordPreReset ==
  /\ pc = "record"
  /\ unrecorded' = IF hasTransition THEN unrecorded \ (rows \cap resetBuf) ELSE unrecorded
  /\ pc' = "transact"
  /\ UNCHANGED <<rows, caller, mode, counters, lengths, flags, pending, action, commands,
                 phys, cache, outputs, over, hasTransition>>

\* Seeded fault: the commands of the whole batch are resampled.
ResampleBatch ==
  /\ command' \in [Envs -> Commands]
  /\ timeLeft' \in [Envs -> Periods]

\* Inside the transaction: the reset events stage the rows' state and the
\* commands are resampled.
ResampleCommands ==
  \E new \in [Envs -> Commands], period \in [Envs -> Periods] :
    /\ command' = OnRows(command, rows, new)
    /\ timeLeft' = OnRows(timeLeft, rows, period)

\* The transaction commits.
Transact ==
  /\ pc = "transact"
  /\ ResampleCommands
  /\ phys' = [e \in Envs |-> IF e \in rows THEN Fresh ELSE phys[e]]
  /\ over' = over \ rows
  /\ pc' = "managers"
  /\ UNCHANGED <<rows, caller, mode, counters, lengths, flags, pending, action, cache,
                 outputs, recording>>

\* Seeded fault: the counter starts below 0, for the step to bring it to 0.
CountFromMinusOne ==
  /\ pc = "managers"
  /\ action' = OnRows(action, rows, [e \in Envs |-> None])
  /\ lengthBuf' = OnRows(lengthBuf, rows, [e \in Envs |-> 0])
  /\ steps' = OnRows(steps, rows, [e \in Envs |-> -1])
  /\ pending' = pending \ rows
  /\ pc' = "refresh"
  /\ UNCHANGED <<rows, caller, mode, counters, flags, commands, phys, cache, outputs, over,
                 recording>>

\* Seeded fault: the rows go on awaiting a reset.
ManagersOnly ==
  /\ pc = "managers"
  /\ action' = OnRows(action, rows, [e \in Envs |-> None])
  /\ lengthBuf' = OnRows(lengthBuf, rows, [e \in Envs |-> 0])
  /\ steps' = OnRows(steps, rows, [e \in Envs |-> 0])
  /\ pc' = "refresh"
  /\ UNCHANGED <<rows, caller, mode, counters, flags, pending, commands, phys, cache,
                 outputs, over, recording>>

\* The resets of the seven managers, of which `action' shows one (what those of the
\* observations and of the events clear is in ObservationHistory, IntervalEvents and
\* GatedRandomization), and the row counters.
ResetManagers ==
  /\ pc = "managers"
  /\ action' = OnRows(action, rows, [e \in Envs |-> None])
  /\ lengthBuf' = OnRows(lengthBuf, rows, [e \in Envs |-> 0])
  /\ steps' = OnRows(steps, rows, [e \in Envs |-> 0])
  /\ pending' = pending \ rows
  /\ pc' = "refresh"
  /\ UNCHANGED <<rows, caller, mode, counters, flags, commands, phys, cache, outputs, over,
                 recording>>

\* Seeded fault: the done flags outlive a reset asked for from outside.
NeverCleared(flag) == flag

\* A reset asked for from outside clears the done flags of its rows; one that
\* ends a step leaves them for the caller of step() to read.
Cleared(flag) == IF caller = "user" THEN flag \ rows ELSE flag

\* command compute with dt 0 (no period is 0, so none expires), the rows'
\* observations in a read phase of their own, record_post_reset.
Refresh ==
  /\ pc = "refresh"
  /\ obs' = OnRows(obs, rows, Seen(phys))
  /\ terminated' = Cleared(terminated) /\ truncated' = Cleared(truncated)
  /\ resetBuf' = Cleared(resetBuf)
  /\ mask' = IF caller = "init" THEN {} ELSE mask
  /\ pc' = IF caller = "autoreset" THEN "return" ELSE "idle"
  /\ rows' = {} /\ caller' = "none"
  /\ UNCHANGED <<mode, counters, lengths, pending, action, commands, phys, cache, finalObs,
                 over, recording>>

-----------------------------------------------------------------------------
(* A stage raises: the read phase is left and the call is abandoned. *)

Abandon ==
  /\ pc' = "idle" /\ rows' = {} /\ caller' = "none" /\ cache' = None

StageRaises ==
  /\ \/ pc = "physics" /\ "physics" \in Faults
     \/ pc \in {"judge", "events", "commands", "observe"} /\ "update" \in Faults
     \/ pc = "refresh" /\ "refresh" \in Faults
  /\ Abandon
  /\ UNCHANGED <<mode, counters, lengths, flags, pending, action, commands, phys, outputs,
                 over, recording>>

\* The reset goes no further than its transaction: a reset event raises, before the
\* commands are resampled, or set_state does, after that.
CommitRaises ==
  /\ pc = "transact" /\ "commit" \in Faults
  /\ UNCHANGED commands \/ ResampleCommands
  /\ Abandon
  /\ UNCHANGED <<mode, counters, lengths, flags, pending, action, phys, outputs, over,
                 recording>>

\* One of the managers' resets raises, before that of the actions or after it: the
\* rows have their new state, but their counters and flags are those of the old episode.
ManagersRaise ==
  /\ pc = "managers" /\ "managers" \in Faults
  /\ action' \in {action, OnRows(action, rows, [e \in Envs |-> None])}
  /\ Abandon
  /\ UNCHANGED <<mode, counters, lengths, flags, pending, commands, phys, outputs, over,
                 recording>>

-----------------------------------------------------------------------------
(* The setters *)

SetAutoreset ==
  /\ pc = "idle"
  /\ autoreset' \in AutoresetModes
  /\ UNCHANGED <<control, hasState, counters, lengths, flags, pending, action, commands,
                 phys, cache, outputs, over, recording>>

SetEpisodeLengthBuf ==
  /\ pc = "idle"
  /\ lengthBuf' \in [Envs -> Lengths]
  /\ steps' = IF hasState THEN lengthBuf' ELSE steps
  /\ UNCHANGED <<control, mode, counters, flags, pending, action, commands, phys, cache,
                 outputs, over, recording>>

\* Seeded fault: NpEnv.import_training_state alone, the derived counters stay.
ImportStepCounter ==
  /\ pc = "idle"
  /\ stepCounter' \in Counters
  /\ UNCHANGED <<control, mode, commonCounter, simCounter, lengths, flags, pending, action,
                 commands, phys, cache, outputs, over, recording>>

\* step_counter is the authority; the two derived counters follow it.
ImportTrainingState ==
  /\ pc = "idle"
  /\ stepCounter' \in Counters
  /\ commonCounter' = stepCounter' /\ simCounter' = stepCounter' * Substeps
  /\ UNCHANGED <<control, mode, lengths, flags, pending, action, commands, phys, cache,
                 outputs, over, recording>>

-----------------------------------------------------------------------------
Init ==
  /\ pc = "idle" /\ rows = {} /\ caller = "none"
  /\ hasState = FALSE /\ autoreset \in AutoresetModes /\ hasTransition = FALSE
  /\ stepCounter = 0 /\ commonCounter = 0 /\ simCounter = 0
  /\ steps = [e \in Envs |-> 0] /\ lengthBuf = [e \in Envs |-> 0]
  /\ terminated = {} /\ truncated = {} /\ resetBuf = {} /\ pending = {}
  /\ action = [e \in Envs |-> None]
  /\ timeLeft = [e \in Envs |-> 0]
  /\ \E c \in Commands : command = [e \in Envs |-> c]
  /\ phys = [e \in Envs |-> Fresh] /\ cache = None
  /\ obs = [e \in Envs |-> None] /\ finalObs = [e \in Envs |-> None] /\ mask = {}
  /\ over = {} /\ unrecorded = {}

Step == \/ ApplyAction \/ Physics \/ Judge \/ RuntimeEvents \/ ComputeCommands
        \/ Observe \/ CountAndReset \/ CountOnly \/ Return
Reset == \/ Initialise \/ RequestReset \/ RecordPreReset \/ Transact
         \/ ResetManagers \/ Refresh
Raise == StageRaises \/ CommitRaises \/ ManagersRaise
Setter == SetAutoreset \/ SetEpisodeLengthBuf \/ ImportTrainingState

Next == Step \/ Reset \/ Raise \/ Setter

Spec == Init /\ [][Next]_vars

-----------------------------------------------------------------------------
(* Properties *)

TypeOK ==
  /\ pc \in {"idle", "physics", "judge", "events", "commands", "observe", "count", "return",
             "record", "transact", "managers", "refresh"}
  /\ rows \subseteq Envs /\ caller \in {"none", "user", "autoreset", "init"}
  /\ hasState \in BOOLEAN /\ autoreset \in AutoresetModes /\ hasTransition \in BOOLEAN
  /\ stepCounter \in Nat /\ commonCounter \in Nat /\ simCounter \in Nat
  /\ steps \in [Envs -> Nat] /\ lengthBuf \in [Envs -> Nat]
  /\ terminated \subseteq Envs /\ truncated \subseteq Envs /\ resetBuf \subseteq Envs
  /\ pending \subseteq Envs
  /\ action \in [Envs -> Commands \cup {None}]
  /\ timeLeft \in [Envs -> Nat] /\ command \in [Envs -> Commands]
  /\ phys \in [Envs -> State] /\ cache \in [Envs -> State] \cup {None}
  /\ obs \in [Envs -> Observation] /\ finalObs \in [Envs -> Observation]
  /\ mask \subseteq Envs /\ over \subseteq Envs /\ unrecorded \subseteq Envs

\* The observation handed over as final is the one of the state the terminal
\* action led to, shown under the command that action was chosen for (done rows
\* advance their command by 0); a step returns it for exactly the rows it flags
\* as done, whose ordinary observation is already that of the new episode, and
\* neither the reset nor a later one overwrites it.
TerminalObservation ==
  /\ pc = "record" /\ caller = "autoreset" =>
       \A e \in rows : finalObs[e] = [seen |-> phys[e], command |-> action[e]]
  /\ pc = "return" /\ autoreset =>
       /\ mask = Done
       /\ \A e \in Done : obs[e] = [seen |-> Fresh, command |-> command[e]]
  /\ caller # "init" => \A e \in mask : finalObs[e].seen.age > 0

\* Between two calls the observation of every row is of the backend's present
\* state and of the present command: no getter cached before an event, a command
\* write or a reset is shown.
ObservationsFresh ==
  pc = "idle" /\ hasState => obs = Seen(phys)

\* Between two calls, once there was a step, the episode length mirrors
\* info["steps"], and the counters derived from step_counter agree with it.
CountersAgree ==
  pc = "idle" /\ hasTransition =>
    /\ lengthBuf = steps
    /\ commonCounter = stepCounter
    /\ simCounter = stepCounter * Substeps

\* Every transition of every row is shown to the recorder, by record_post_step
\* or, if it was the last of its episode, by record_pre_reset, before the row
\* makes another one.
NothingLost ==
  pc = "physics" => unrecorded = {}

\* With autoreset off a row whose episode is over is not stepped again before a
\* reset of it went through, a reset that raised included.
WaitsForReset ==
  pc = "physics" /\ ~autoreset => over = {}

\* With autoreset off the flags of the state, reset_buf and the rows awaiting
\* their reset all name the rows whose episode is over.
FlagsAgree ==
  pc = "idle" /\ hasTransition /\ ~autoreset =>
    /\ Done = over /\ resetBuf = over /\ pending = over

\* All a row has.
Row(e) == <<steps[e], lengthBuf[e], e \in terminated, e \in truncated, e \in resetBuf,
            e \in pending, action[e], timeLeft[e], command[e], phys[e], obs[e], e \in over>>

\* A reset of some rows leaves every other row as it was.
ResetIsLocal ==
  [][caller # "none" => \A e \in Envs \ rows : Row(e)' = Row(e)]_vars

\* Whatever was abandoned before, a reset that goes through leaves its rows at the
\* start of an episode: counters at 0, no flag up, no reset awaited, no action,
\* and the observation of the state it wrote.
ResetRepairs ==
  [][Refresh /\ caller = "user" =>
       \A e \in rows :
         /\ steps'[e] = 0 /\ lengthBuf'[e] = 0 /\ action'[e] = None
         /\ e \notin terminated' \cup truncated' \cup resetBuf' \cup pending' \cup over'
         /\ obs'[e] = [seen |-> Fresh, command |-> command'[e]]]_vars

\* The action that record_pre_reset finds is the one that ended the episode.
TerminalActionIntact ==
  pc = "record" /\ hasTransition => \A e \in rows \cap resetBuf : action[e] # None
=============================================================================
