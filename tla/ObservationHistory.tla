------------------------- MODULE ObservationHistory -------------------------
(***************************************************************************)
(* The temporal part of the observation manager                            *)
(* (managers/observation_manager.py): a term whose values pass a delay      *)
(* buffer and then a history buffer.  A step pushes one frame for every     *)
(* row; a reset gives its rows their first frame and must advance nobody    *)
(* else, although pointers, schedules and the cached result are shared.     *)
(*                                                                          *)
(* The value of the term for a row is its episode (a bit tells an episode   *)
(* from the one before) and its age in control steps.                       *)
(***************************************************************************)
EXTENDS CircularBuffer

CONSTANTS
  MinLag, MaxLag,   \* delay_min_lag, delay_max_lag
  UpdatePeriod,     \* delay_update_period: steps between draws, 0 for every step
  PerEnv,           \* delay_per_env: every row draws a lag of its own
  PerEnvPhase,      \* delay_per_env_phase: rows draw in different steps
  Holds,            \* delay_hold_prob is positive
  HistoryLength,    \* history_length
  MaxAge            \* bound: the steps of an episode

ASSUME HistoryAssumption ==
  /\ MinLag \in Nat /\ MaxLag \in Nat \ {0} /\ MinLag <= MaxLag
  /\ UpdatePeriod \in Nat /\ HistoryLength \in Nat \ {0} /\ MaxAge \in Nat
  /\ PerEnv \in BOOLEAN /\ PerEnvPhase \in BOOLEAN /\ Holds \in BOOLEAN
  /\ Row # {}

VARIABLES
  episode, age,  \* what the term returns
  delay,         \* DelayBuffer._buffer
  lags,          \* DelayBuffer._current_lags
  clock,         \* DelayBuffer._step_count, modulo UpdatePeriod, its only use
  phase,         \* DelayBuffer._phase_offsets
  history,       \* the history CircularBuffer
  cached,        \* _obs_buffer holds a result; it is out then
  out,           \* per row, the observation last handed out
  started,       \* _state is set
  resetting,     \* the rows of a reset that has not computed yet
  draws,         \* history: lag updates since the reset, up to UpdatePeriod
  first,         \* history: the row's age at its first frame, -1 before it
  inspected,     \* history: rows pushed outside a step since their reset
  handed         \* history: rows handed an observation since their reset

dvars == <<delay, lags, clock, phase>>
vars == <<episode, age, delay, lags, clock, phase, history, cached, out,
          started, resetting, draws, first, inspected, handed>>

DelayLength == MaxLag + 1
Ages == 0..MaxAge
Frame == [episode : {0, 1}, age : Ages]
Period == IF UpdatePeriod = 0 THEN 1 ELSE UpdatePeriod
Phases == IF PerEnvPhase THEN 0..(Period - 1) ELSE {0}

\* The term's value, with ages a.
Values(a) == [r \in Row |-> [episode |-> episode[r], age |-> a[r]]]

TypeOK ==
  /\ episode \in [Row -> {0, 1}] /\ age \in [Row -> Ages]
  /\ delay \in Buffers(DelayLength, Frame)
  /\ lags \in [Row -> 0..MaxLag]
  /\ clock \in [Row -> 0..(Period - 1)] /\ phase \in [Row -> Phases]
  /\ history \in Buffers(HistoryLength, Frame)
  /\ cached \in BOOLEAN
  /\ out \in [Row -> [1..HistoryLength -> Frame \cup {Zero}]]
  /\ started \in BOOLEAN /\ resetting \subseteq Row
  /\ draws \in [Row -> 0..Period]
  /\ first \in [Row -> Ages \cup {-1}]
  /\ inspected \subseteq Row /\ handed \subseteq Row

Init ==
  /\ episode = [r \in Row |-> 0] /\ age = [r \in Row |-> 0]
  /\ delay = Empty(DelayLength)
  /\ lags = [r \in Row |-> 0] /\ clock = [r \in Row |-> 0]
  /\ phase \in [Row -> Phases]
  /\ history = Empty(HistoryLength)
  /\ cached = FALSE
  /\ out = [r \in Row |-> [i \in 1..HistoryLength |-> Zero]]
  /\ started = FALSE /\ resetting = {}
  /\ draws = [r \in Row |-> 0] /\ first = [r \in Row |-> -1]
  /\ inspected = {} /\ handed = {}

(***************************************************************************)
(* The delay buffer                                                         *)
(***************************************************************************)
Due == {r \in Row : (clock[r] + phase[r]) % Period = 0}

Candidates == IF PerEnv THEN [Row -> MinLag..MaxLag]
              ELSE {[r \in Row |-> l] : l \in MinLag..MaxLag}

\* A row that is due takes the candidate, or keeps its lag when it may hold.
NewLags == {[r \in Row |-> IF r \in S THEN c[r] ELSE lags[r]] :
              S \in IF Holds THEN SUBSET Due ELSE {Due}, c \in Candidates}

Tick == [r \in Row |-> (clock[r] + 1) % Period]

\* append, then compute: the schedule advances, for every row.
DelayStep(f) ==
  /\ delay' = AppendFrame(DelayLength, delay, f)
  /\ lags' \in NewLags
  /\ clock' = Tick
  /\ UNCHANGED phase
  /\ draws' = [r \in Row |-> IF draws[r] < Period THEN draws[r] + 1 ELSE Period]

\* DelayBuffer.peek, after the step
Delayed == Lagged(DelayLength, delay', lags')

Noted(R, a) == [r \in Row |-> IF r \in R /\ first[r] = -1 THEN a[r] ELSE first[r]]

(***************************************************************************)
(* compute                                                                  *)
(***************************************************************************)
\* Without env_ids, or on buffers never used: a frame for every row.
ComputeAll(f, updateHistory) ==
  /\ DelayStep(f)
  /\ history' = IF updateHistory \/ ~Initialised(history)
                THEN AppendFrame(HistoryLength, history, Delayed) ELSE history

\* Seeded fault: a reset computes for the batch.
ComputeRowsForAll(R, f) == ComputeAll(f, TRUE)

\* With env_ids: the frame of these rows only, at their current lags.
ComputeRows(R, f) ==
  /\ delay' = Backfill(DelayLength, delay, f, R)
  /\ UNCHANGED <<lags, clock, phase, draws>>
  /\ history' = Backfill(HistoryLength, history, Delayed, R)

Shown(R) == [r \in Row |-> IF r \in R THEN Chronological(HistoryLength, history', r) ELSE out[r]]

\* update_state: the robots moved on by a control step.
ControlStep ==
  /\ started /\ resetting = {}
  /\ \A r \in Row : age[r] < MaxAge
  /\ age' = [r \in Row |-> age[r] + 1]
  /\ ComputeAll(Values(age'), TRUE)
  /\ cached' = TRUE /\ out' = Shown(Row) /\ handed' = Row
  /\ first' = Noted(Row, age')
  /\ UNCHANGED <<episode, started, resetting, inspected>>

\* Seeded fault: every row's schedule starts over.
ClearedClocks(R) == [r \in Row |-> 0]

ClearedClock(R) == [r \in Row |-> IF r \in R THEN 0 ELSE clock[r]]

\* DelayBuffer.reset and CircularBuffer.reset
ClearBuffers(R) ==
  /\ delay' = Clear(DelayLength, delay, R)
  /\ lags' = [r \in Row |-> IF r \in R THEN 0 ELSE lags[r]]
  /\ clock' = ClearedClock(R)
  /\ phase' \in {p \in [Row -> Phases] : \A r \in Row \ R : p[r] = phase[r]}
  /\ history' = Clear(HistoryLength, history, R)

\* Seeded fault: the cached result survives a reset.
ResetKeepingCache(R) == ClearBuffers(R) /\ UNCHANGED cached

\* ObservationManager.reset
ResetObservations(R) == ClearBuffers(R) /\ cached' = FALSE

\* A reset: the rows start an episode, then the managers reset.  The first reset is
\* the one of init_state, of all rows; _state is set even if it raises.
StartReset(R) ==
  /\ resetting = {} /\ resetting' = R
  /\ (started \/ R = Row) /\ started' = TRUE
  /\ episode' = [r \in Row |-> IF r \in R THEN 1 - episode[r] ELSE episode[r]]
  /\ age' = [r \in Row |-> IF r \in R THEN 0 ELSE age[r]]
  /\ ResetObservations(R)
  /\ draws' = [r \in Row |-> IF r \in R THEN 0 ELSE draws[r]]
  /\ first' = [r \in Row |-> IF r \in R THEN -1 ELSE first[r]]
  /\ inspected' = inspected \ R /\ handed' = handed \ R
  /\ UNCHANGED out

\* The reset computes; its caller gets the reset rows, and no result is cached.
FinishReset ==
  /\ resetting # {} /\ resetting' = {}
  /\ IF Initialised(history)
     THEN ComputeRows(resetting, Values(age)) /\ first' = Noted(resetting, age)
     ELSE ComputeAll(Values(age), TRUE) /\ first' = Noted(Row, age)
  /\ out' = Shown(resetting) /\ handed' = handed \cup resetting
  /\ UNCHANGED <<episode, age, cached, started, inspected>>

\* A command or a term raises before the reset computes.
AbandonReset ==
  /\ resetting # {} /\ resetting' = {}
  /\ UNCHANGED <<episode, age, dvars, history, cached, out, started,
                 draws, first, inspected, handed>>

\* compute() outside a step when no result is cached, as get_active_iterable_terms
\* and the residual action of the cricket robot call it: the delay buffers are
\* pushed, the history is not: a row whose reset was abandoned is shown a cleared one.
Inspect ==
  /\ resetting = {} /\ ~cached
  /\ ComputeAll(Values(age), FALSE)
  /\ cached' = TRUE /\ out' = Shown(Row) /\ handed' = Row
  /\ first' = IF Initialised(history) THEN first ELSE Noted(Row, age)
  /\ inspected' = Row
  /\ UNCHANGED <<episode, age, started, resetting>>

Next ==
  \/ ControlStep
  \/ \E R \in (SUBSET Row) \ {{}} : StartReset(R)
  \/ FinishReset
  \/ AbandonReset
  \/ Inspect

Spec == Init /\ [][Next]_vars
(***************************************************************************)
(* Properties                                                               *)
(***************************************************************************)
\* Rows that were shown an observation after their first frame of the episode.
Observing == {r \in handed : first[r] # -1}

Newest(r) == out[r][HistoryLength]

(* A frame handed out is exactly lag control steps old, or the first of the *)
(* episode while that is younger (delay_buffer.py:25-37), whatever resets   *)
(* of other rows came between.  Rows pushed outside a step are excepted.    *)
TrueDelay ==
  \A r \in Observing \ inspected :
    LET reached == age[r] - lags[r]
    IN Newest(r) = [episode |-> episode[r],
                    age |-> IF reached > first[r] THEN reached ELSE first[r]]

(* An observation handed out since the row's last reset began shows frames  *)
(* of the running episode only, in every slot (circular_buffer.py:61-63,    *)
(* 172-181, 183-202).  The exception is a row whose reset was abandoned     *)
(* before it computed: until the next step it is shown a cleared history,   *)
(* every slot of it zero, and never a frame of the episode that ended.      *)
OneEpisode ==
  \A r \in handed :
    \/ \A i \in 1..HistoryLength : out[r][i] # Zero /\ out[r][i].episode = episode[r]
    \/ first[r] = -1 /\ \A i \in 1..HistoryLength : out[r][i] = Zero

(* A result compute() returns from its cache is the one of the current      *)
(* buffers, and they have seen the current state (observation_manager.py:   *)
(* 362-366).                                                                *)
CacheIsCurrent ==
  cached => \A r \in Row :
    /\ out[r] = Chronological(HistoryLength, history, r)
    /\ Chronological(DelayLength, delay, r)[DelayLength] = Values(age)[r]

(* The minimum delay is in force one period after a reset at the latest,    *)
(* whatever phase the row drew and however often other rows are reset       *)
(* (delay_buffer.py:45-61); until then the lag is the 0 a reset leaves.     *)
MinLagWithinPeriod ==
  ~Holds => \A r \in Row : /\ draws[r] = Period => lags[r] >= MinLag
                           /\ draws[r] = 0 => lags[r] = 0
=============================================================================
