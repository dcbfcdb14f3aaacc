--------------------------- MODULE IntervalEvents ---------------------------
(***************************************************************************)
(* The timers of the interval-mode event terms (managers/event_manager.py). *)
(* A term fires for a row when the row's timer runs out; the row then draws *)
(* its next interval.  A reset redraws the timers of its rows.  A term on   *)
(* global time has one timer for the whole batch, which no reset touches.   *)
(***************************************************************************)
EXTENDS Integers

CONSTANTS
  Envs,         \* the rows
  Terms,        \* the interval terms
  GlobalTerms,  \* those with is_global_time
  Range(_),     \* the lengths a term's interval_range_s allows, in clock units
  Dt,           \* the length of a step, in clock units
  Batch         \* stands for the whole batch

Timers == {<<t, e>> : t \in Terms \ GlobalTerms, e \in Envs}
            \cup {<<t, Batch>> : t \in GlobalTerms}

ASSUME IntervalAssumption ==
  /\ Batch \notin Envs /\ Dt \in Nat \ {0}
  /\ GlobalTerms \subseteq Terms
  /\ \A t \in Terms : Range(t) \subseteq Int /\ Range(t) # {}

VARIABLES
  left,     \* _interval_term_time_left
  interval, \* history: the interval a timer last drew
  elapsed   \* history: the time since it drew it

vars == <<left, interval, elapsed>>

Draws == {d \in [Timers -> UNION {Range(t) : t \in Terms}] :
            \A k \in Timers : d[k] \in Range(k[1])}

\* Seeded fault: less than a step left counts as run out.
DueEarly == {k \in Timers : left[k] - Dt < Dt}

\* Timers that run out with this step: time_left < 1e-6 once dt is taken off.
Due == {k \in Timers : left[k] - Dt <= 0}

\* apply(mode="interval"): the due terms draw anew, then their function runs.
ApplyInterval ==
  \E d \in Draws :
    /\ left' = [k \in Timers |-> IF k \in Due THEN d[k] ELSE left[k] - Dt]
    /\ interval' = [k \in Timers |-> IF k \in Due THEN d[k] ELSE interval[k]]
    /\ elapsed' = [k \in Timers |-> IF k \in Due THEN 0 ELSE elapsed[k] + Dt]

\* The timers a reset of ids redraws.
ResetTimers(ids) == {k \in Timers : k[2] \in ids}

\* EventManager.reset.
Reset(ids) ==
  \E d \in Draws :
    /\ left' = [k \in Timers |-> IF k \in ResetTimers(ids) THEN d[k] ELSE left[k]]
    /\ interval' = [k \in Timers |-> IF k[2] \in ids THEN d[k] ELSE interval[k]]
    /\ elapsed' = [k \in Timers |-> IF k[2] \in ids THEN 0 ELSE elapsed[k]]

Init ==
  /\ left \in Draws
  /\ interval = left
  /\ elapsed = [k \in Timers |-> 0]

Next == ApplyInterval \/ \E ids \in (SUBSET Envs) \ {{}} : Reset(ids)

Spec == Init /\ [][Next]_vars

-----------------------------------------------------------------------------
\* What is left of a timer and the time since it drew add up to the interval it drew.
CountsDown ==
  \A k \in Timers :
    /\ left[k] + elapsed[k] = interval[k]
    /\ elapsed[k] > 0 => left[k] > 0

\* The terms that fire with a step are those whose timers start over in it.
Fired(k) == elapsed'[k] = 0

\* A term fires in the first step that completes the interval its timer drew, no step
\* earlier and none later (event_manager.py:174-191), wherever the steps and the resets
\* of rows fall; a reset of some rows moves no timer of the others and no timer of a
\* term on global time.
IntervalsKept ==
  /\ []CountsDown
  /\ [][ApplyInterval => \A k \in Timers : Fired(k) <=> elapsed[k] + Dt >= interval[k]]_vars
=============================================================================
