------------------------------ MODULE MCBowling ------------------------------
(* An instance of BowlingEnv for TLC. *)
EXTENDS BowlingEnv

MiddleOfThePitch == {1, 2}

\* The profile of the policy bundle; one without a learned release, under each of
\* the older rewards of the flight, with and without the graded end.
ThreeProfiles ==
  {[learn |-> TRUE, supported |-> TRUE, graded |-> TRUE, curriculum |-> "one bounce"],
   [learn |-> FALSE, supported |-> TRUE, graded |-> TRUE, curriculum |-> "first bounce"],
   [learn |-> FALSE, supported |-> FALSE, graded |-> FALSE, curriculum |-> "none"]}
=============================================================================
