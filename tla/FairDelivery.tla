---------------------------- MODULE FairDelivery ----------------------------
(***************************************************************************)
(* What the bowling environment promises to call a delivery: an umpire who  *)
(* watches the ball.  It is carried, then let go; it must land once on the   *)
(* stretch of pitch allowed for the bounce and reach the target plane before *)
(* it lands again.  Anything may spoil a delivery, and a spoilt one stays    *)
(* spoilt until the next begins.                                            *)
(***************************************************************************)
EXTENDS Integers

CONSTANTS
  Goal,   \* the target plane; the ball is at 0 .. Goal
  Zone    \* where it may bounce

VARIABLES
  ball, ground,   \* where the ball is, whether it touches the pitch
  call,           \* "carried", "flying", "bounced", "delivered" or "spoilt"
  passed          \* whether the delivery was passed

vars == <<ball, ground, call, passed>>

Init == ball = 0 /\ ground = FALSE /\ call = "carried" /\ passed = FALSE

\* Another delivery.
Restart == ball' = 0 /\ ground' = FALSE /\ call' = "carried" /\ passed' = FALSE

LetGo ==
  /\ call = "carried" /\ call' = "flying"
  /\ UNCHANGED <<ball, ground, passed>>

Lands == ground' /\ ~ground

\* What may become of the delivery while the ball moves.
Judged ==
  \/ call' = "spoilt"
  \/ call = "carried" /\ ball' = ball /\ call' = call
  \/ call = "flying" /\ ~Lands /\ ball' < Goal /\ call' = call
  \/ call = "flying" /\ Lands /\ ball' \in Zone /\ call' = "bounced"
  \/ call = "bounced" /\ ~Lands /\ ball' < Goal /\ call' = call
  \/ call = "bounced" /\ ~Lands /\ ball' = Goal /\ call' = "delivered"
  \/ call = "delivered" /\ call' = call

Move ==
  /\ ball' \in 0 .. Goal /\ ground' \in BOOLEAN
  /\ Judged
  /\ UNCHANGED passed

\* A delivery is passed only once it was made.
Pass ==
  /\ call = "delivered" /\ passed' = TRUE
  /\ UNCHANGED <<ball, ground, call>>

Next == Restart \/ LetGo \/ Move \/ Pass

Spec == Init /\ [][Next]_vars
=============================================================================
