------------------------------ MODULE BowlingEnv ------------------------------
(***************************************************************************)
(* AmpBowlingEnv (dynamics/amp_bowling_env.py): a gym environment over the   *)
(* rollout, which it holds as a generator.  step() sends it an action, runs   *)
(* it to its next tick and pays: a penalty for every failure the monitor saw  *)
(* since, the change of the flight credit, a measure of how far the ball got  *)
(* after it bounced, which is taken back when the delivery is spoilt, and at  *)
(* the end a prize for the delivery as finish() judged it.                   *)
(*                                                                         *)
(* Left out are the three terms of the reward that measure the moment: the    *)
(* gain of speed, the size of the action and the excess of a joint.  Left out  *)
(* too is which hand and resolution the rollout is made for.  A failure is    *)
(* charged once for its kind here, once for its name in the code.            *)
(***************************************************************************)
EXTENDS BowlingDelivery

VARIABLES
  previous,        \* previous_failures
  credit,          \* flight_credit
  paid, charged,   \* history: credit and penalties paid in this episode,
  prize            \* and what was paid for its end

rewards == <<previous, credit, paid, charged, prize>>
vars == <<profile, phase, tick, approach, released, failures, flight, limits, fallen, result,
          rewards>>

-----------------------------------------------------------------------------
\* reset(): a rollout that is under way is closed.
Reset ==
  /\ phase \in {"waiting", "over", "dead"}
  /\ Start
  /\ previous' = {} /\ credit' = 0
  /\ paid' = 0 /\ charged' = 0 /\ prize' = 0

\* one_bounce_flight_credit and first_bounce_credit, of a delivery without failures:
\* the distance the ball made good.  Their factor for how far it is off the line
\* lies between 0 and 1; of it only the first bounce's 0 is kept.
Credit ==
  IF ~released \/ bounce = None THEN 0
  ELSE CASE profile.curriculum = "none" -> 0
         [] profile.curriculum = "one bounce" -> IF InZone /\ frontier # None THEN frontier ELSE 0
         [] profile.curriculum = "first bounce" ->
              IF bounce.straight /\ bounce.at < Goal THEN bounce.at ELSE 0

\* Seeded fault: the failures of finish() are not asked for.
SpoiltSoFar == failures \cup (IF excess THEN {"limits"} ELSE {})

\* The failures that cost the flight credit.
Spoilt == failures \cup (IF excess THEN {"limits"} ELSE {})
                   \cup (IF result = None THEN {} ELSE result \ FlightFailures)

\* bowling_reward's terminal, of a step that got a result.
Terminal ==
  CASE result = {} -> 50
    [] result # {} /\ ~profile.graded -> -5
    [] result # {} /\ profile.graded /\ ~released -> -10
    [] result # {} /\ profile.graded /\ released ->
         IF result \subseteq FlightFailures THEN 5 ELSE -5

\* The end of step().
Pay ==
  /\ phase \in {"yielded", "returned"}
  /\ credit' = IF Spoilt = {} THEN Credit ELSE 0
  /\ paid' = paid + credit' - credit
  /\ charged' = charged + Cardinality(failures \ previous)
  /\ prize' = IF result = None THEN prize ELSE prize + Terminal
  /\ previous' = failures
  /\ phase' = IF phase = "yielded" THEN "waiting" ELSE "over"
  /\ UNCHANGED <<profile, tick, approach, released, failures, flight, limits, fallen, result>>

Init ==
  /\ DeliveryInit
  /\ previous = {} /\ credit = 0 /\ paid = 0 /\ charged = 0 /\ prize = 0

Rollout == (Control \/ Simulate \/ Raise \/ Finish) /\ UNCHANGED rewards

Next == Reset \/ Rollout \/ Pay

Spec == Init /\ [][Next]_vars

-----------------------------------------------------------------------------
TypeOK ==
  /\ profile \in Profiles
  /\ phase \in {"over", "waiting", "physics", "yielded", "ending", "returned", "dead"}
  /\ tick \in Nat /\ clock \in Nat
  /\ foot \in [Feet -> [airborne : Nat \cup {None}, armed : BOOLEAN,
                         landing : Nat \cup {None}, legal : BOOLEAN]]
  /\ front \in BOOLEAN /\ swing \in Nat \cup {None}
  /\ released \in BOOLEAN /\ failures \subseteq Seen
  /\ x \in 0 .. Goal /\ onPitch \in BOOLEAN
  /\ bounces \in 0 .. 2 /\ bounce \in Places \cup {None}
  /\ crossing \in BOOLEAN \cup {None} /\ frontier \in (0 .. Goal) \cup {None}
  /\ {excess, worst, fallen} \subseteq BOOLEAN
  /\ result \in (SUBSET Failures) \cup {None}
  /\ previous \subseteq Seen /\ credit \in 0 .. Goal
  /\ paid \in Int /\ charged \in Nat /\ prize \in Int

\* With a learned release and the support clock the ball is never let go on feet
\* that break a rule, although the swing began up to a second before on feet that
\* have moved since, and the two checks of them are made by different objects.
LearnedReleaseIsLegal == profile.learn /\ profile.supported => "footwork" \notin failures

\* What an episode was paid is what its delivery was worth: the credit paid step by
\* step adds up to the credit of the end, a failure is charged once, a delivery
\* that failed for anything but its flight keeps no credit, although joints,
\* forces and depths are judged over the whole episode at its end only, and the
\* full credit goes to deliveries that bounced exactly once before the target.  The
\* prize is paid once, at the end; the full one for a passed delivery and no other,
\* a positive one only if the ball was let go and nothing was ever charged; and
\* where the end is graded, step() and bowling_reward(), who each ask whether only
\* the flight failed, agree: who keeps credit is not punished.
RewardIsTheOutcome ==
  /\ phase \in {"waiting", "over"} => paid = credit /\ charged = Cardinality(failures)
  /\ phase = "over" /\ result # None /\ credit > 0 => result \subseteq FlightFailures
  /\ phase = "over" /\ profile.curriculum = "one bounce" =>
       /\ result = {} => credit = Goal
       /\ credit = Goal => bounces = 1 /\ crossing # None
  /\ phase = "waiting" => prize = 0
  /\ phase = "over" /\ result # None =>
       /\ prize \in {50, 5, -5, -10}
       /\ prize = 50 <=> result = {}
       /\ prize > 0 => released /\ charged = 0
       /\ profile.graded /\ credit > 0 => prize > 0

\* The monitor sees the ball at the physics steps only and keeps counters and first
\* occurrences; what it passes an umpire who watches the ball would pass.
Call ==
  IF failures # {} THEN "spoilt"
  ELSE IF ~released THEN "carried"
  ELSE IF bounces = 0 THEN IF crossing = None THEN "flying" ELSE "spoilt"
  ELSE IF bounces # 1 \/ ~InZone THEN "spoilt"
  ELSE IF crossing = None THEN "bounced"
  ELSE IF crossing = TRUE THEN "delivered" ELSE "spoilt"

Umpire == INSTANCE FairDelivery WITH
  ball <- x, ground <- onPitch, call <- Call, passed <- (result = {})

ImplementsFairDelivery == Umpire!Spec
=============================================================================
