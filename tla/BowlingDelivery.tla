--------------------------- MODULE BowlingDelivery ---------------------------
(***************************************************************************)
(* One delivery of the cricket robot: rollout_case                          *)
(* (dynamics/amp_bowling_probe.py), which steps the physics and takes an     *)
(* action at every control tick; the monitor that judges what it sees        *)
(* (DeliveryMonitor, DeliveryEvents in scripts/g1_cricket_delivery_trial.py); *)
(* and the clock that starts the arm on a good foot landing                  *)
(* (SupportSwingClock in dynamics/bowling_support_clock.py).                 *)
(*                                                                         *)
(* Data: times are ages in physics steps, counted up to the longest one that *)
(* is compared with; the ball has its distance down the pitch, and whether it *)
(* is straight enough where that is tested; of a foot's bounds we keep whether *)
(* they are legal.  The feet and the arm are followed until the release, for  *)
(* nothing in the judgement reads them afterwards.                          *)
(***************************************************************************)
EXTENDS Integers, FiniteSets

CONSTANTS
  Goal,      \* TARGET_POPPING_X; the ball is at 0 .. Goal
  Zone,      \* where the first bounce is allowed
  Period,    \* physics steps of a control tick
  ArmAfter,  \* steps (0.02 s) a foot must be in the air before it may land
  Settle,    \* steps (0.2 s) at the start in which no landing counts
  Fresh,     \* the longest a landing may start the swing after it (0.1 s),
  Stale,     \* count as the front foot's of a release (0.5 s),
  Stride,    \* or as the back foot's (just under: 1 s)
  Window,    \* how long after its start a swing may release (1 s)
  Profiles,  \* the options environments are made with: learn_release,
             \* support_triggered_swing, release_curriculum (graded) and the
             \* curriculum of the flight
  None       \* no time, no place, no result

\* The kinds of failure: those the monitor adds as they happen, those finish()
\* adds, and of the latter FLIGHT_FAILURES.
Seen == {"footwork", "arm", "contact"}
FlightFailures == {"zone", "bounces", "corridor"}
Failures == Seen \cup FlightFailures \cup {"incomplete", "no release", "limits"}

ASSUME GoalAssumption == Goal \in Nat /\ Goal > 0 /\ Zone \subseteq 0 .. Goal - 1

ASSUME TimesAssumption ==
  /\ Period \in Nat /\ Period > 0
  /\ ArmAfter \in Nat /\ Settle \in Nat /\ Window \in Nat
  /\ Fresh \in Nat /\ Stale \in Nat /\ Stride \in Nat
  /\ Fresh <= Stale /\ Stale < Stride

ASSUME ProfilesAssumption ==
  Profiles \subseteq [learn : BOOLEAN, supported : BOOLEAN, graded : BOOLEAN,
                      curriculum : {"none", "first bounce", "one bounce"}]

\* A bounce: where, and whether it was straight enough.
Places == [at : 0 .. Goal, straight : BOOLEAN]

ASSUME NoneAssumption ==
  /\ None \notin Nat /\ None \notin BOOLEAN
  /\ \A p \in Places : p # None
  /\ \A f \in SUBSET Failures : f # None

VARIABLES
  profile,               \* the options of this environment
  phase,                 \* where the rollout stands
  tick, clock,           \* physics steps of this period; of the episode, to Settle + 1
  foot, front,           \* the feet as the monitor saw them; whether the front one is loaded
  swing,                 \* SupportSwingClock: how long ago started_at was
  released,              \* release_record
  failures,              \* DeliveryEvents.failures
  x, onPitch,            \* previous_ball, pitch_previous
  bounces, bounce,       \* bounces_before_target, first_bounce
  crossing,              \* crossing: whether it is in the corridor
  frontier,              \* one_bounce_frontier: the distance
  excess, worst,         \* a joint beyond its limit now, or so far
  fallen,                \* terminal
  result                 \* the failures of finish()

approach == <<clock, foot, front, swing>>
flight == <<x, onPitch, bounces, bounce, crossing, frontier>>
limits == <<excess, worst>>

Feet == {"front", "back"}

\* One step later, for ages compared with at most top.
Older(age, top) == IF age = None THEN None ELSE IF age < top THEN age + 1 ELSE age

-----------------------------------------------------------------------------
(* The feet *)

\* Not loaded, and its lowest point above 2 mm.
InAir(s) == s = "air"

\* observe_support, a step after f.
Airborne(f, s) == IF ~InAir(s) THEN None
                  ELSE IF f.airborne = None THEN 0 ELSE Older(f.airborne, ArmAfter)
Armed(f, s) == f.armed \/ (InAir(s) /\ Airborne(f, s) = ArmAfter)
Lands(f, s) == s = "loaded" /\ f.armed /\ clock' > Settle

Supported(f, s, legal) ==
  [airborne |-> Airborne(f, s),
   armed    |-> s # "loaded" /\ Armed(f, s),
   landing  |-> IF Lands(f, s) THEN 0 ELSE Older(f.landing, Stride),
   legal    |-> IF Lands(f, s) THEN legal ELSE f.legal]

\* not feet_failures(front, back, side, time).
LegalFeet ==
  LET f == foot["front"]
      b == foot["back"]
  IN /\ f.landing # None /\ b.landing # None
     /\ f.landing < b.landing /\ b.landing < Stride
     /\ f.landing <= Stale
     /\ f.legal /\ b.legal

-----------------------------------------------------------------------------
(* A control tick *)

\* SupportSwingClock.advance, before the action is asked for.
Advance ==
  \/ swing # None /\ swing' = swing
  \/ swing = None /\ swing' = None
  \/ /\ swing = None /\ profile.supported
     /\ front /\ foot["front"].landing # None /\ foot["front"].landing <= Fresh
     /\ LegalFeet
     /\ swing' = 0

\* Seeded fault: the feet are only checked when the swing starts.
CheckedAtStart == ~profile.supported \/ (swing' # None /\ swing' <= Window)

\* can_release, and the window of the sweep.
CanRelease == \/ ~profile.supported
              \/ /\ swing' # None /\ swing' <= Window
                 /\ ~profile.learn \/ LegalFeet

NoFoot == [airborne |-> None, armed |-> FALSE, landing |-> None, legal |-> FALSE]

\* DeliveryEvents.release: it judges the feet, the arm and the speed of the ball.
Release ==
  /\ ~released /\ CanRelease
  /\ released' = TRUE
  /\ \E arm \in SUBSET {"arm"} :
       failures' = failures \cup arm \cup (IF LegalFeet THEN {} ELSE {"footwork"})

\* rollout.send: the swing goes on; the ball may be ready, the action may permit.
Control ==
  /\ phase = "waiting"
  /\ IF released THEN UNCHANGED <<approach, released, failures>>
     ELSE /\ Advance
          /\ clock' = clock
          /\ \/ Release /\ foot' = [s \in Feet |-> NoFoot] /\ front' = FALSE
             \/ UNCHANGED <<foot, front, released, failures>>
  /\ tick' = 0 /\ phase' = "physics"
  /\ UNCHANGED <<profile, flight, limits, fallen, result>>

-----------------------------------------------------------------------------
(* A physics step, and what the monitor makes of it *)

FeetMove ==
  IF released THEN UNCHANGED approach
  ELSE /\ clock' = IF clock > Settle THEN clock ELSE clock + 1
       /\ \E s \in [Feet -> {"loaded", "low", "air"}] :
            /\ \E legal \in [{f \in Feet : Lands(foot[f], s[f])} -> BOOLEAN] :
                 foot' = [f \in Feet |-> Supported(foot[f], s[f], legal[f])]
            /\ front' = (s["front"] = "loaded")
       /\ swing' = Older(swing, Window + 1)

\* Contacts of the robot with itself, the wicket or, but for its feet, the ground;
\* of the ball with anything before the release, and after it with more than the
\* pitch and the wicket.
Contacts ==
  \E seen \in SUBSET {"contact"} :
    failures' = failures \cup seen \cup (IF onPitch' /\ ~released THEN {"contact"} ELSE {})

\* Seeded fault: every sample on the pitch is a bounce until it has bounced.
FirstTouch == onPitch' /\ bounces = 0 /\ released /\ crossing = None

Bounces == onPitch' /\ ~onPitch /\ released /\ crossing = None
Crosses == released /\ crossing = None /\ x < Goal /\ x' = Goal

\* observe_ball; bounces are counted as none, one, more.
BallMoves ==
  /\ x' \in IF released THEN {x - 1, x, x + 1} \cap (0 .. Goal) ELSE {x}
  /\ onPitch' \in BOOLEAN
  /\ bounces' = IF Bounces /\ bounces < 2 THEN bounces + 1 ELSE bounces
  /\ IF Bounces /\ bounce = None
     THEN \E straight \in BOOLEAN : bounce' = [at |-> x', straight |-> straight]
     ELSE bounce' = bounce
  /\ IF Crosses THEN crossing' \in BOOLEAN ELSE crossing' = crossing

\* advance_one_bounce_frontier.
Frontier == IF ~released \/ bounces' # 1 THEN frontier
            ELSE IF crossing' # None THEN Goal ELSE x'

LimitsSeen ==
  /\ excess' \in BOOLEAN
  /\ worst' = (worst \/ excess')

\* The next step, or the end: the robot fell, or its 8 s, a whole number of periods,
\* are over.
Simulate ==
  /\ phase = "physics"
  /\ FeetMove /\ BallMoves /\ Contacts /\ frontier' = Frontier /\ LimitsSeen
  /\ tick' = tick + 1
  /\ \/ phase' = "ending" /\ fallen' = TRUE
     \/ /\ phase' \in IF tick' < Period THEN {"physics"} ELSE {"yielded", "ending"}
        /\ fallen' = fallen
  /\ UNCHANGED <<profile, released, result>>

\* The state is no number: the generator raises, and with it what the monitor saw
\* is lost.
Raise ==
  /\ phase = "physics"
  /\ phase' = "dead"
  /\ UNCHANGED <<profile, tick, approach, released, failures, flight, limits, fallen, result>>

InZone == bounce # None /\ bounce.at \in Zone /\ bounce.straight

\* DeliveryEvents.finish; the peaks of the actuator forces and of the depth of
\* contacts are read nowhere else.
Finish ==
  /\ phase = "ending"
  /\ \E beyond \in BOOLEAN : result' = failures \cup {f \in Failures :
       \/ f = "incomplete" /\ fallen
       \/ f = "no release" /\ ~released
       \/ f = "limits" /\ (worst \/ beyond)
       \/ f = "zone" /\ ~InZone
       \/ f = "bounces" /\ bounces # 1
       \/ f = "corridor" /\ crossing # TRUE}
  /\ phase' = "returned"
  /\ UNCHANGED <<profile, tick, approach, released, failures, flight, limits, fallen>>

-----------------------------------------------------------------------------
\* rollout_case up to its first tick.
Start ==
  /\ phase' = "waiting" /\ tick' = 0 /\ clock' = 0
  /\ foot' = [s \in Feet |-> NoFoot] /\ front' = FALSE /\ swing' = None
  /\ released' = FALSE /\ failures' = {}
  /\ x' = 0 /\ onPitch' = FALSE /\ bounces' = 0 /\ bounce' = None
  /\ crossing' = None /\ frontier' = None
  /\ excess' = FALSE /\ worst' = FALSE /\ fallen' = FALSE
  /\ result' = None
  /\ UNCHANGED profile

\* No rollout yet.
DeliveryInit ==
  /\ profile \in Profiles
  /\ phase = "over" /\ tick = 0 /\ clock = 0
  /\ foot = [s \in Feet |-> NoFoot] /\ front = FALSE /\ swing = None
  /\ released = FALSE /\ failures = {}
  /\ x = 0 /\ onPitch = FALSE /\ bounces = 0 /\ bounce = None
  /\ crossing = None /\ frontier = None
  /\ excess = FALSE /\ worst = FALSE /\ fallen = FALSE
  /\ result = None
=============================================================================
