---------------------------- MODULE PlaybackLoop ----------------------------
(***************************************************************************)
(* Interactive playback: the loop that steps a policy and the user's keys   *)
(* and clicks, which other threads handle (scripts/play_interactive.py,     *)
(* scripts/play_viser.py, visualization/interactive_playback.py).           *)
(*                                                                         *)
(* The threads share PlaybackControls, KeyboardCommander and the session    *)
(* without a lock.  The interpreter lock makes a stretch of bytecode        *)
(* without a call atomic; it may change hands at every call, so between the *)
(* two halves of `requests += max(int(count), 0)', which loads the counter  *)
(* before it makes the calls.  env.step and env.reset are atomic here.      *)
(*                                                                         *)
(* Data: an observation is only known to describe the environment as it     *)
(* stands or as it was before; the velocity command has one axis.           *)
(***************************************************************************)
EXTENDS Integers, FiniteSets

CONSTANTS
  Threads,     \* the threads that run callbacks
  KeyThread,   \* the only one of them in the MuJoCo viewer
  Viewers,     \* the front ends: "native", "keyboard" (with a commander), "viser"
  Low, High,   \* commands.vel_limit of the axis
  MaxRequests, \* bound of the single steps asked for
  MaxNudges,   \* bound of the command keys pressed
  MaxResets    \* bound of the Backspaces

ASSUME PlaybackAssumption ==
  /\ KeyThread \in Threads
  /\ Viewers \subseteq {"native", "keyboard", "viser"} /\ Viewers # {}
  /\ Low \in Int /\ High \in Int /\ Low <= 0 /\ 0 <= High
  /\ {MaxRequests, MaxNudges, MaxResets} \subseteq Nat

VARIABLES
  viewer,           \* the front end of this run
  loop,             \* where the main loop stands
  paused, requests, \* PlaybackControls
  ui, loaded,       \* where each callback stands; the counter it loaded
  command,          \* KeyboardCommander.command
  inForce, written, \* env.state.info["commands"]; what this iteration wrote there
  obs,              \* whether session.obs describes the environment now,
  actedOn,          \* the observation the policy chose its action from,
  returned,         \* the one env.step returned, and for each callback the
  resetObs,         \* one env.reset returned
  asked, granted,   \* history: single steps asked for, and steps that used one up
  unanswered,       \* history: one was asked for since the last step began
  nudges, resets,   \* history: keys pressed
  blind, stray      \* history: steps on an action chosen for another state,
                    \* steps under a command this iteration did not write

controls == <<paused, requests>>
callbacks == <<ui, loaded>>
session == <<obs, actedOn, returned, resetObs>>
requestLog == <<asked, granted, unanswered>>
keys == <<nudges, resets>>
damage == <<blind, stray>>
vars == <<viewer, loop, controls, callbacks, command, inForce, written, session,
          requestLog, keys, damage>>

Velocities == Low .. High
HasCommander == viewer = "keyboard"

\* The callbacks that may run: one thread calls them in the MuJoCo viewer, the
\* web server hands each click to a pool.
MayRun(h) == viewer = "viser" \/ h = KeyThread

-----------------------------------------------------------------------------
(* The main loop *)

\* Seeded fault: the command is written only when it changed since the last time.
WriteChanged ==
  /\ loop = "top"
  /\ inForce' = IF HasCommander /\ command # written THEN command ELSE inForce
  /\ written' = IF HasCommander THEN command ELSE inForce
  /\ loop' = "permit"
  /\ UNCHANGED <<viewer, controls, callbacks, command, session, requestLog, keys, damage>>

\* viewer.is_running(), and the command is written before the step.
WriteCommand ==
  /\ loop = "top"
  /\ inForce' = IF HasCommander THEN command ELSE inForce
  /\ written' = inForce'
  /\ loop' = "permit"
  /\ UNCHANGED <<viewer, controls, callbacks, command, session, requestLog, keys, damage>>

\* Seeded fault: only a paused loop uses requests up.
UsedWhenPaused == IF paused THEN requests - 1 ELSE requests

\* Seeded fault: one step serves all the requests made so far.
UsedAtOnce == 0

\* The requests left once one was granted.
Used == IF requests > 0 THEN requests - 1 ELSE requests

\* Seeded fault: off by one.
MoreThanOne == ~paused \/ requests > 1

Permitted == ~paused \/ requests > 0

\* consume_step_permission, granted.
Consume ==
  /\ loop = "permit" /\ Permitted
  /\ requests' = Used
  /\ granted' = IF Used < requests THEN granted + 1 ELSE granted
  /\ unanswered' = FALSE
  /\ loop' = "act"
  /\ UNCHANGED <<viewer, paused, callbacks, command, inForce, written, session, asked,
                 keys, damage>>

\* consume_step_permission, refused: the loop only renders.
Refuse ==
  /\ loop = "permit" /\ ~Permitted
  /\ loop' = "top"
  /\ UNCHANGED <<viewer, controls, callbacks, command, inForce, written, session,
                 requestLog, keys, damage>>

\* _build_actions: the policy reads session.obs.
BuildActions ==
  /\ loop = "act"
  /\ actedOn' = obs
  /\ loop' = "env"
  /\ UNCHANGED <<viewer, controls, callbacks, command, inForce, written, obs, returned,
                 resetObs, requestLog, keys, damage>>

\* env.step: every observation taken before is one of the past.
EnvStep ==
  /\ loop = "env"
  /\ blind' = IF actedOn = "now" THEN blind ELSE blind + 1
  /\ stray' = IF inForce = written THEN stray ELSE stray + 1
  /\ obs' = "past" /\ actedOn' = "past" /\ returned' = "now"
  /\ resetObs' = [h \in Threads |-> "past"]
  /\ loop' = "store"
  /\ UNCHANGED <<viewer, controls, callbacks, command, inForce, written, requestLog, keys>>

\* Seeded fault: step_once returns the observation without keeping it.
DropObs ==
  /\ loop = "store"
  /\ loop' = "top"
  /\ UNCHANGED <<viewer, controls, callbacks, command, inForce, written, session,
                 requestLog, keys, damage>>

\* step_once keeps what env.step returned.
StoreObs ==
  /\ loop = "store"
  /\ obs' = returned
  /\ loop' = "top"
  /\ UNCHANGED <<viewer, controls, callbacks, command, inForce, written, actedOn, returned,
                 resetObs, requestLog, keys, damage>>

\* The window was closed, or the server interrupted.
Close ==
  /\ loop = "top"
  /\ loop' = "closed"
  /\ UNCHANGED <<viewer, controls, callbacks, command, inForce, written, session,
                 requestLog, keys, damage>>

MainLoop == WriteCommand \/ Consume \/ Refuse \/ BuildActions \/ EnvStep \/ StoreObs

-----------------------------------------------------------------------------
(* The callbacks *)

Idle(h) == loop # "closed" /\ MayRun(h) /\ ui[h] = "idle"

\* The space bar, the "Pause / Resume" button: toggle_pause.
TogglePause(h) ==
  /\ Idle(h)
  /\ paused' = ~paused
  /\ UNCHANGED <<viewer, loop, requests, callbacks, command, inForce, written, session,
                 requestLog, keys, damage>>

\* The N key asks for the step and then pauses; the "Step" button pauses first.
\* request_single_step loads the counter.
PressStep(h) ==
  /\ Idle(h) /\ asked + Cardinality({k \in Threads : ui[k] = "asking"}) < MaxRequests
  /\ paused' = IF viewer = "viser" THEN TRUE ELSE paused
  /\ loaded' = [loaded EXCEPT ![h] = requests]
  /\ ui' = [ui EXCEPT ![h] = "asking"]
  /\ UNCHANGED <<viewer, loop, requests, command, inForce, written, session, requestLog,
                 keys, damage>>

\* request_single_step stores the counter.
StoreRequest(h) ==
  /\ ui[h] = "asking"
  /\ requests' = loaded[h] + 1
  /\ asked' = asked + 1
  /\ unanswered' = TRUE
  /\ ui' = [ui EXCEPT ![h] = IF viewer = "viser" THEN "idle" ELSE "pausing"]
  /\ UNCHANGED <<viewer, loop, paused, loaded, command, inForce, written, session, granted,
                 keys, damage>>

\* The end of the N key.
PauseAfterRequest(h) ==
  /\ ui[h] = "pausing"
  /\ paused' = TRUE
  /\ ui' = [ui EXCEPT ![h] = "idle"]
  /\ UNCHANGED <<viewer, loop, requests, loaded, command, inForce, written, session,
                 requestLog, keys, damage>>

\* A nudge within the limits.
Clip(v) == IF v < Low THEN Low ELSE IF v > High THEN High ELSE v

\* The arrow keys nudge the command, Enter zeroes it.
CommandKey(h) ==
  /\ Idle(h) /\ HasCommander /\ nudges < MaxNudges
  /\ command' \in {Clip(command + 1), Clip(command - 1), 0}
  /\ nudges' = nudges + 1
  /\ UNCHANGED <<viewer, loop, controls, callbacks, inForce, written, session, requestLog,
                 resets, damage>>

\* Backspace: env.reset draws a command of its own.
PressReset(h) ==
  /\ Idle(h) /\ HasCommander /\ resets < MaxResets
  /\ inForce' \in Velocities
  /\ obs' = "past" /\ actedOn' = "past" /\ returned' = "past"
  /\ resetObs' = [k \in Threads |-> IF k = h THEN "now" ELSE "past"]
  /\ resets' = resets + 1
  /\ ui' = [ui EXCEPT ![h] = "reset"]
  /\ UNCHANGED <<viewer, loop, controls, loaded, command, written, requestLog, nudges, damage>>

\* session.reset keeps what env.reset returned.
StoreResetObs(h) ==
  /\ ui[h] = "reset"
  /\ obs' = resetObs[h]
  /\ ui' = [ui EXCEPT ![h] = "zero"]
  /\ UNCHANGED <<viewer, loop, controls, loaded, command, inForce, written, actedOn,
                 returned, resetObs, requestLog, keys, damage>>

\* commander.zero().
ZeroCommand(h) ==
  /\ ui[h] = "zero"
  /\ command' = 0
  /\ ui' = [ui EXCEPT ![h] = "idle"]
  /\ UNCHANGED <<viewer, loop, controls, loaded, inForce, written, session, requestLog,
                 keys, damage>>

\* The rest of a callback that began.
Continue(h) == StoreRequest(h) \/ PauseAfterRequest(h) \/ StoreResetObs(h) \/ ZeroCommand(h)

-----------------------------------------------------------------------------
Init ==
  /\ viewer \in Viewers
  /\ loop = "top"
  /\ paused \in BOOLEAN /\ requests = 0
  /\ ui = [h \in Threads |-> "idle"] /\ loaded = [h \in Threads |-> 0]
  /\ command = 0
  /\ inForce \in Velocities /\ (HasCommander => inForce = command)
  /\ written = inForce
  /\ obs = "now" /\ actedOn = "past" /\ returned = "past"
  /\ resetObs = [h \in Threads |-> "past"]
  /\ asked = 0 /\ granted = 0 /\ unanswered = FALSE
  /\ nudges = 0 /\ resets = 0
  /\ blind = 0 /\ stray = 0

Next ==
  \/ MainLoop \/ Close
  \/ \E h \in Threads : \/ TogglePause(h) \/ PressStep(h) \/ CommandKey(h) \/ PressReset(h)
                        \/ Continue(h)

\* The loop keeps running while the window is open, since env.step returns and the
\* pacing sleep is bounded by target_dt; a callback that began is finished, since
\* none of them waits for anything.  Nobody has to press a key or close the window.
Fairness == WF_vars(MainLoop) /\ \A h \in Threads : WF_vars(Continue(h))

Spec == Init /\ [][Next]_vars /\ Fairness

-----------------------------------------------------------------------------
TypeOK ==
  /\ viewer \in Viewers
  /\ loop \in {"top", "permit", "act", "env", "store", "closed"}
  /\ paused \in BOOLEAN /\ requests \in Nat
  /\ ui \in [Threads -> {"idle", "asking", "pausing", "reset", "zero"}]
  /\ loaded \in [Threads -> Nat]
  /\ {command, inForce, written} \subseteq Velocities
  /\ {obs, actedOn, returned} \subseteq {"now", "past"}
  /\ resetObs \in [Threads -> {"now", "past"}]
  /\ {asked, granted, nudges, resets, blind, stray} \subseteq Nat
  /\ unanswered \in BOOLEAN

\* In the MuJoCo viewer no press of N is lost, although the loop uses requests up
\* while the key callback is in the middle of counting one: the steps that used one
\* up and the requests left make up at least what was asked for.  (They may be more,
\* for the callback puts back what the loop used up meanwhile.  In the web viewer
\* two clicks may count as one.)
PressesNotLost == viewer # "viser" => granted + requests >= asked

\* session.obs and the state of the environment part only around a Backspace, and
\* each one costs at most two steps whose action was chosen for another state:
\* the step it falls into, and one after the callback overwrites a newer
\* observation with that of the reset.
BlindStepsBounded == blind <= 2 * resets

\* A step runs under a command the loop did not write in the same iteration only
\* when a Backspace fell between the two, so at most once per Backspace.
StrayCommandsBounded == stray <= resets

\* Every single step asked for is followed by a step, whatever the user does with
\* the pause meanwhile and however clicks overlap, unless the window is closed.
PressAnswered == unanswered ~> (~unanswered \/ loop = "closed")

\* Presses being finite, the requests are all used up in the end: a paused robot
\* comes to rest, and a later pause finds no request left over from before.
ComesToRest == <>[](requests = 0 \/ loop = "closed")

\* Once no key is pressed any more the command in force is that of the commander,
\* also while paused and after a reset that drew another one.
CommandArrives == HasCommander ~> [](inForce = command \/ loop = "closed")
=============================================================================
