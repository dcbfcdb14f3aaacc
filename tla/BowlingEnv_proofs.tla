-------------------------- MODULE BowlingEnv_proofs --------------------------
(***************************************************************************)
(* Proofs about the bowling environment: a learned release is legal, an      *)
(* episode is paid what its delivery was worth, and what the monitor passes  *)
(* is a fair delivery, for any pitch, any periods and any rules of the feet. *)
(***************************************************************************)
EXTENDS BowlingEnv, FiniteSetTheorems, TLAPS

-----------------------------------------------------------------------------
(* Types *)

LEMMA CurriculumTyped ==
  ASSUME profile \in Profiles
  PROVE  profile.curriculum \in {"none", "first bounce", "one bounce"}
BY ProfilesAssumption

LEMMA GoalIsNotZero == Goal # 0
BY GoalAssumption

LEMMA NoneIsNothing == None # {} /\ None # TRUE
BY NoneAssumption, Zenon

LEMMA OlderTyped ==
  ASSUME NEW age \in Nat \cup {None}, NEW top \in Nat
  PROVE  Older(age, top) \in Nat \cup {None}
BY NoneAssumption DEF Older

FootType == [airborne : Nat \cup {None}, armed : BOOLEAN,
             landing : Nat \cup {None}, legal : BOOLEAN]

LEMMA NoFootTyped == [s \in Feet |-> NoFoot] \in [Feet -> FootType]
<1>1. NoFoot \in FootType
  BY DEF NoFoot, FootType
<1> QED
  BY <1>1

LEMMA InitTyped == Init => TypeOK
<1> SUFFICES ASSUME Init PROVE TypeOK
  OBVIOUS
<1>1. foot \in [Feet -> FootType]
  BY NoFootTyped DEF Init, DeliveryInit
<1>2. x \in 0 .. Goal /\ credit \in 0 .. Goal /\ bounces \in 0 .. 2
  BY GoalAssumption DEF Init, DeliveryInit
<1>3. failures \subseteq Seen /\ previous \subseteq Seen
  BY DEF Init, DeliveryInit
<1>4. front \in BOOLEAN /\ released \in BOOLEAN /\ onPitch \in BOOLEAN
  BY DEF Init, DeliveryInit
<1>5. {excess, worst, fallen} \subseteq BOOLEAN
  BY DEF Init, DeliveryInit
<1> QED
  BY <1>1, <1>2, <1>3, <1>4, <1>5 DEF Init, DeliveryInit, TypeOK, FootType

LEMMA SupportedTyped ==
  ASSUME NEW f \in FootType, NEW s \in {"loaded", "low", "air"}, NEW legal,
         Lands(f, s) => legal \in BOOLEAN
  PROVE  Supported(f, s, legal) \in FootType
<1>1. ArmAfter \in Nat /\ Stride \in Nat
  BY TimesAssumption
<1>2. Airborne(f, s) \in Nat \cup {None}
  BY <1>1, OlderTyped DEF Airborne, FootType
<1>3. Older(f.landing, Stride) \in Nat \cup {None}
  BY <1>1, OlderTyped DEF FootType
<1>4. (s # "loaded" /\ Armed(f, s)) \in BOOLEAN
  BY DEF Armed
<1>5. (IF Lands(f, s) THEN legal ELSE f.legal) \in BOOLEAN
  BY DEF FootType
<1> QED
  BY <1>2, <1>3, <1>4, <1>5 DEF Supported, FootType

LEMMA FeetMoveTyped ==
  ASSUME TypeOK, FeetMove
  PROVE  /\ clock' \in Nat /\ foot' \in [Feet -> FootType] /\ front' \in BOOLEAN
         /\ swing' \in Nat \cup {None}
<1>1. CASE released
  BY <1>1 DEF FeetMove, TypeOK, approach, FootType
<1>2. CASE ~released
  <2>1. clock' \in Nat
    BY <1>2 DEF FeetMove, TypeOK
  <2>2. swing' \in Nat \cup {None}
    BY <1>2, OlderTyped, TimesAssumption DEF FeetMove, TypeOK
  <2>3. PICK s \in [Feet -> {"loaded", "low", "air"}] :
          /\ \E legal \in [{f \in Feet : Lands(foot[f], s[f])} -> BOOLEAN] :
               foot' = [f \in Feet |-> Supported(foot[f], s[f], legal[f])]
          /\ front' = (s["front"] = "loaded")
    BY <1>2 DEF FeetMove
  <2>4. PICK legal \in [{f \in Feet : Lands(foot[f], s[f])} -> BOOLEAN] :
          foot' = [f \in Feet |-> Supported(foot[f], s[f], legal[f])]
    BY <2>3
  <2>5. ASSUME NEW f \in Feet PROVE Supported(foot[f], s[f], legal[f]) \in FootType
    <3>1. foot[f] \in FootType /\ s[f] \in {"loaded", "low", "air"}
      BY DEF TypeOK, FootType
    <3>2. Lands(foot[f], s[f]) => legal[f] \in BOOLEAN
      OBVIOUS
    <3> QED
      BY <3>1, <3>2, SupportedTyped
  <2> QED
    BY <2>1, <2>2, <2>3, <2>4, <2>5
<1> QED
  BY <1>1, <1>2

LEMMA BallMovesTyped ==
  ASSUME TypeOK, BallMoves
  PROVE  /\ x' \in 0 .. Goal /\ onPitch' \in BOOLEAN /\ bounces' \in 0 .. 2
         /\ bounce' \in Places \cup {None} /\ crossing' \in BOOLEAN \cup {None}
<1>1. x' \in 0 .. Goal
  BY GoalAssumption DEF TypeOK, BallMoves
<1>2. bounces' \in 0 .. 2
  BY DEF TypeOK, BallMoves
<1>3. bounce' \in Places \cup {None}
  BY <1>1 DEF TypeOK, BallMoves, Places
<1>4. crossing' \in BOOLEAN \cup {None}
  BY DEF TypeOK, BallMoves
<1> QED
  BY <1>1, <1>2, <1>3, <1>4 DEF BallMoves

LEMMA CreditTyped == TypeOK => Credit \in 0 .. Goal
<1> SUFFICES ASSUME TypeOK PROVE Credit \in 0 .. Goal
  OBVIOUS
<1>1. Goal \in Nat /\ 0 \in 0 .. Goal
  BY GoalAssumption
<1>2. profile.curriculum \in {"none", "first bounce", "one bounce"}
  BY CurriculumTyped DEF TypeOK
<1>3. bounce # None => bounce.at \in 0 .. Goal
  BY DEF TypeOK, Places
<1> QED
  BY <1>1, <1>2, <1>3 DEF Credit, TypeOK

LEMMA PrizeTyped == Terminal \in {50, 5, -5, -10}
BY DEF Terminal

LEMMA NextTyped == TypeOK /\ [Next]_vars => TypeOK'
<1> SUFFICES ASSUME TypeOK, [Next]_vars PROVE TypeOK'
  OBVIOUS
<1>1. CASE Reset
  <2>1. foot' \in [Feet -> FootType]
    BY <1>1, NoFootTyped DEF Reset, Start
  <2>2. x' \in 0 .. Goal /\ credit' \in 0 .. Goal /\ bounces' \in 0 .. 2
    BY <1>1, GoalAssumption DEF Reset, Start
  <2>3. failures' \subseteq Seen /\ previous' \subseteq Seen
    BY <1>1 DEF Reset, Start
  <2>4. front' \in BOOLEAN /\ released' \in BOOLEAN /\ onPitch' \in BOOLEAN
    BY <1>1 DEF Reset, Start
  <2>5. {excess', worst', fallen'} \subseteq BOOLEAN
    BY <1>1 DEF Reset, Start
  <2> QED
    BY <1>1, <2>1, <2>2, <2>3, <2>4, <2>5 DEF Reset, Start, TypeOK, FootType
<1>2. CASE Control /\ UNCHANGED rewards
  <2>1. swing' \in Nat \cup {None}
    BY <1>2 DEF Control, Advance, approach, TypeOK
  <2>2. released' \in BOOLEAN /\ failures' \subseteq Seen
    BY <1>2 DEF Control, Release, TypeOK, Seen
  <2>3. clock' \in Nat /\ foot' \in [Feet -> FootType] /\ front' \in BOOLEAN
    BY <1>2, NoFootTyped DEF Control, approach, TypeOK, FootType
  <2> QED
    BY <1>2, <2>1, <2>2, <2>3 DEF Control, TypeOK, FootType, flight, limits, rewards
<1>3. CASE Simulate /\ UNCHANGED rewards
  <2>1. /\ FeetMove /\ BallMoves
    BY <1>3 DEF Simulate
  <2>2. failures' \subseteq Seen
    BY <1>3 DEF Simulate, Contacts, TypeOK, Seen
  <2>3. frontier' \in (0 .. Goal) \cup {None}
    BY <1>3, <2>1, BallMovesTyped, GoalAssumption DEF Simulate, Frontier, TypeOK
  <2>4. {excess', worst', fallen'} \subseteq BOOLEAN
    BY <1>3 DEF Simulate, LimitsSeen, TypeOK
  <2>5. phase' \in {"over", "waiting", "physics", "yielded", "ending", "returned", "dead"}
    BY <1>3 DEF Simulate
  <2>6. tick' \in Nat
    BY <1>3 DEF Simulate, TypeOK
  <2> QED
    BY <1>3, <2>1, <2>2, <2>3, <2>4, <2>5, <2>6, FeetMoveTyped, BallMovesTyped
       DEF Simulate, TypeOK, FootType, rewards
<1>4. CASE Raise /\ UNCHANGED rewards
  BY <1>4 DEF Raise, TypeOK, approach, flight, limits, rewards
<1>5. CASE Finish /\ UNCHANGED rewards
  <2>1. result' \in SUBSET Failures
    BY <1>5 DEF Finish, TypeOK, Failures
  <2> QED
    BY <1>5, <2>1 DEF Finish, TypeOK, approach, flight, limits, rewards
<1>6. CASE Pay
  <2>1. credit' \in 0 .. Goal /\ paid' \in Int
    BY <1>6, CreditTyped, GoalAssumption DEF Pay, TypeOK
  <2>3. prize' \in Int
    BY <1>6, PrizeTyped DEF Pay, TypeOK
  <2>2. charged' \in Nat
    <3>1. IsFiniteSet(Seen)
      <4>1. Seen = {} \cup {"footwork"} \cup {"arm"} \cup {"contact"}
        BY DEF Seen
      <4> QED
        BY <4>1, FS_EmptySet, FS_AddElement
    <3>2. Cardinality(failures \ previous) \in Nat
      BY <3>1, FS_Subset, FS_CardinalityType DEF TypeOK
    <3> QED
      BY <1>6, <3>2 DEF Pay, TypeOK
  <2> QED
    BY <1>6, <2>1, <2>2, <2>3 DEF Pay, TypeOK, approach, flight, limits
<1>7. CASE UNCHANGED vars
  BY <1>7 DEF TypeOK, vars, approach, flight, limits, rewards
<1> QED
  BY <1>1, <1>2, <1>3, <1>4, <1>5, <1>6, <1>7 DEF Next, Rollout

\* The variables of the environment and the rollout keep their types.
THEOREM BowlingTyped == Spec => []TypeOK
BY InitTyped, NextTyped, PTL DEF Spec

-----------------------------------------------------------------------------
(* The release *)

\* A learned release on the support clock is legal: can_release and release judge
\* the same landings at the same time.
THEOREM LearnedReleasesAreLegal == Spec => []LearnedReleaseIsLegal
<1>1. Init => LearnedReleaseIsLegal
  BY DEF Init, DeliveryInit, LearnedReleaseIsLegal
<1>2. LearnedReleaseIsLegal /\ [Next]_vars => LearnedReleaseIsLegal'
  <2> SUFFICES ASSUME LearnedReleaseIsLegal, [Next]_vars PROVE LearnedReleaseIsLegal'
    OBVIOUS
  <2>1. CASE Reset
    BY <2>1 DEF Reset, Start, LearnedReleaseIsLegal
  <2>2. CASE Control
    BY <2>2 DEF Control, Release, CanRelease, LearnedReleaseIsLegal
  <2>3. CASE Simulate
    BY <2>3 DEF Simulate, Contacts, LearnedReleaseIsLegal
  <2>4. CASE Raise \/ Finish \/ Pay
    BY <2>4 DEF Raise, Finish, Pay, LearnedReleaseIsLegal
  <2>5. CASE UNCHANGED vars
    BY <2>5 DEF vars, LearnedReleaseIsLegal
  <2> QED
    BY <2>1, <2>2, <2>3, <2>4, <2>5 DEF Next, Rollout
<1> QED
  BY <1>1, <1>2, PTL DEF Spec

-----------------------------------------------------------------------------
(* The flight of the ball, and how it is judged *)

\* The records of the flight agree with each other, and there are none before the
\* release.
FlightInv ==
  /\ ~released => bounces = 0 /\ crossing = None /\ frontier = None
  /\ crossing = None => x < Goal
  /\ bounces = 0 <=> bounce = None
  /\ frontier = Goal <=> bounces = 1 /\ crossing # None

\* finish() has judged what the rollout saw.
ResultInv ==
  /\ excess => worst
  /\ phase \notin {"returned", "over"} => result = None
  /\ phase = "returned" => result # None
  /\ result # None =>
       /\ failures \subseteq result
       /\ worst => "limits" \in result
       /\ ~released => "no release" \in result
       /\ result = {} => released /\ InZone /\ bounces = 1 /\ crossing = TRUE

LEMMA FlightHolds == TypeOK /\ FlightInv /\ [Next]_vars => FlightInv'
<1> SUFFICES ASSUME TypeOK, FlightInv, [Next]_vars PROVE FlightInv'
  OBVIOUS
<1>1. CASE Reset
  BY <1>1, GoalAssumption, NoneAssumption DEF Reset, Start, FlightInv
<1>2. CASE Control
  BY <1>2 DEF Control, Release, flight, FlightInv
<1>3. CASE Simulate
  <2> USE <1>3 DEF Simulate
  <2>1. /\ BallMoves /\ released' = released /\ frontier' = Frontier
        /\ None \notin 0 .. Goal /\ Goal \in Nat /\ Goal > 0
    BY NoneAssumption, GoalAssumption
  <2>2. /\ x \in 0 .. Goal /\ bounces \in {0, 1, 2} /\ released \in BOOLEAN
        /\ crossing \in BOOLEAN \cup {None} /\ frontier \in (0 .. Goal) \cup {None}
    BY DEF TypeOK
  <2>3. ~released => bounces' = 0 /\ crossing' = None /\ frontier' = None
    BY <2>1 DEF BallMoves, Bounces, Crosses, Frontier, FlightInv
  <2>4. crossing' = None => crossing = None /\ x' < Goal
    BY <2>1, <2>2, NoneAssumption DEF BallMoves, Crosses, FlightInv
  <2>5. bounces' = 0 <=> bounce' = None
    <3>1. CASE Bounces /\ bounce = None
      <4>1. PICK straight \in BOOLEAN : bounce' = [at |-> x', straight |-> straight]
        BY <2>1, <3>1 DEF BallMoves
      <4>2. bounce' \in Places
        BY <4>1, BallMovesTyped DEF Simulate, Places
      <4>3. bounces' = 1
        BY <2>1, <2>2, <3>1 DEF BallMoves, FlightInv
      <4> QED
        BY <4>2, <4>3, NoneAssumption
    <3>2. CASE ~(Bounces /\ bounce = None)
      <4>1. bounce' = bounce
        BY <2>1, <3>2 DEF BallMoves
      <4> QED
        BY <2>1, <2>2, <3>2, <4>1 DEF BallMoves, FlightInv
    <3> QED
      BY <3>1, <3>2
  <2>6. frontier' = Goal <=> bounces' = 1 /\ crossing' # None
    <3>1. CASE ~released \/ bounces' # 1
      <4>1. frontier' = frontier
        BY <2>1, <3>1 DEF Frontier
      <4>2. bounces' # 1 => ~(bounces = 1 /\ crossing # None)
        BY <2>1 DEF BallMoves, Bounces
      <4> QED
        BY <2>1, <2>2, <2>3, <3>1, <4>1, <4>2 DEF FlightInv
    <3>2. CASE released /\ bounces' = 1
      BY <2>1, <2>4, <3>2 DEF Frontier
    <3> QED
      BY <2>2, <3>1, <3>2
  <2> QED
    BY <2>1, <2>3, <2>4, <2>5, <2>6 DEF FlightInv
<1>4. CASE Raise \/ Finish \/ Pay
  BY <1>4 DEF Raise, Finish, Pay, flight, FlightInv
<1>5. CASE UNCHANGED vars
  BY <1>5 DEF vars, flight, FlightInv
<1> QED
  BY <1>1, <1>2, <1>3, <1>4, <1>5 DEF Next, Rollout

LEMMA ResultHolds == TypeOK /\ ResultInv /\ [Next]_vars => ResultInv'
<1> SUFFICES ASSUME TypeOK, ResultInv, [Next]_vars PROVE ResultInv'
  OBVIOUS
<1>1. CASE Reset
  BY <1>1 DEF Reset, Start, ResultInv
<1>2. CASE Control
  BY <1>2 DEF Control, limits, ResultInv
<1>3. CASE Simulate
  BY <1>3 DEF Simulate, LimitsSeen, ResultInv
<1>4. CASE Raise
  BY <1>4 DEF Raise, limits, ResultInv
<1>5. CASE Finish
  <2>1. PICK beyond \in BOOLEAN : result' = failures \cup {f \in Failures :
       \/ f = "incomplete" /\ fallen
       \/ f = "no release" /\ ~released
       \/ f = "limits" /\ (worst \/ beyond)
       \/ f = "zone" /\ ~InZone
       \/ f = "bounces" /\ bounces # 1
       \/ f = "corridor" /\ crossing # TRUE}
    BY <1>5 DEF Finish
  <2>2. result' \subseteq Failures /\ failures \subseteq result'
    BY <2>1 DEF TypeOK, Failures
  <2>3. result' # None
    BY <2>2, NoneAssumption
  <2>4. worst => "limits" \in result'
    BY <2>1 DEF Failures
  <2>5. /\ ~released => "no release" \in result'
        /\ ~InZone => "zone" \in result'
        /\ bounces # 1 => "bounces" \in result'
        /\ crossing # TRUE => "corridor" \in result'
    BY <2>1 DEF Failures, FlightFailures
  <2>6. result' = {} => released /\ InZone /\ bounces = 1 /\ crossing = TRUE
    BY <2>5
  <2> QED
    BY <1>5, <2>2, <2>3, <2>4, <2>5, <2>6 DEF Finish, flight, limits, InZone, ResultInv
<1>6. CASE Pay
  BY <1>6 DEF Pay, flight, limits, InZone, ResultInv
<1>7. CASE UNCHANGED vars
  BY <1>7 DEF vars, flight, limits, InZone, ResultInv
<1> QED
  BY <1>1, <1>2, <1>3, <1>4, <1>5, <1>6, <1>7 DEF Next, Rollout

Judged == TypeOK /\ FlightInv /\ ResultInv

LEMMA InitJudged == Init => Judged
<1> SUFFICES ASSUME Init PROVE FlightInv /\ ResultInv
  BY InitTyped DEF Judged
<1>1. FlightInv
  BY GoalAssumption, NoneAssumption DEF Init, DeliveryInit, FlightInv
<1>2. ResultInv
  BY DEF Init, DeliveryInit, ResultInv
<1> QED
  BY <1>1, <1>2

LEMMA AlwaysJudged == Spec => []Judged
<1>1. Judged /\ [Next]_vars => Judged'
  BY NextTyped, FlightHolds, ResultHolds DEF Judged
<1> QED
  BY <1>1, InitJudged, PTL DEF Spec

-----------------------------------------------------------------------------
(* The reward *)

\* Between the steps every failure has been charged, and each was charged once.
PayInv ==
  /\ paid = credit
  /\ previous \subseteq failures /\ charged = Cardinality(previous)
  /\ phase \in {"waiting", "over"} => previous = failures

\* What the last credit of an episode was given for.
CreditInv ==
  phase = "over" =>
    /\ result = None => credit = 0
    /\ result # None /\ credit > 0 => result \subseteq FlightFailures
    /\ profile.curriculum = "one bounce" =>
         /\ result = {} => credit = Goal
         /\ credit = Goal => bounces = 1 /\ crossing # None

\* The prize is paid at the end only, for what the end was.
PrizeInv ==
  /\ phase # "over" => prize = 0
  /\ phase = "over" /\ result = None => prize = 0
  /\ phase = "over" /\ result # None =>
       /\ prize = Terminal
       /\ credit > 0 => released

LEMMA SeenIsFinite == IsFiniteSet(Seen)
<1>1. Seen = {} \cup {"footwork"} \cup {"arm"} \cup {"contact"}
  BY DEF Seen
<1> QED
  BY <1>1, FS_EmptySet, FS_AddElement

LEMMA PayHolds == TypeOK /\ PayInv /\ [Next]_vars => PayInv'
<1> SUFFICES ASSUME TypeOK, PayInv, [Next]_vars PROVE PayInv'
  OBVIOUS
<1>1. CASE Reset
  BY <1>1, FS_EmptySet DEF Reset, Start, PayInv
<1>2. CASE (Control \/ Simulate \/ Raise \/ Finish) /\ UNCHANGED rewards
  <2>1. failures \subseteq failures'
    BY <1>2 DEF Control, Release, Simulate, Contacts, Raise, Finish
  <2>2. phase' \notin {"waiting", "over"}
    BY <1>2 DEF Control, Simulate, Raise, Finish
  <2> QED
    BY <1>2, <2>1, <2>2 DEF PayInv, rewards
<1>3. CASE Pay
  <2>1. credit \in Int /\ credit' \in Int
    BY <1>3, CreditTyped, GoalAssumption DEF Pay, TypeOK
  <2>2. paid' = credit'
    BY <1>3, <2>1 DEF Pay, PayInv
  <2>3. charged' = Cardinality(failures)
    <3>1. IsFiniteSet(failures)
      BY SeenIsFinite, FS_Subset DEF TypeOK
    <3>2. Cardinality(failures \ previous) = Cardinality(failures) - Cardinality(failures \cap previous)
      BY <3>1, FS_Difference
    <3>3. failures \cap previous = previous
      BY DEF PayInv
    <3>4. Cardinality(failures) \in Nat /\ Cardinality(previous) \in Nat
      BY <3>1, FS_Subset, FS_CardinalityType DEF PayInv
    <3> QED
      BY <1>3, <3>2, <3>3, <3>4 DEF Pay, PayInv
  <2> QED
    BY <1>3, <2>2, <2>3 DEF Pay, PayInv
<1>4. CASE UNCHANGED vars
  BY <1>4 DEF vars, rewards, PayInv
<1> QED
  BY <1>1, <1>2, <1>3, <1>4 DEF Next, Rollout

LEMMA FullCredit ==
  ASSUME TypeOK, FlightInv, profile.curriculum = "one bounce", Credit = Goal
  PROVE  bounces = 1 /\ crossing # None
<1>1. frontier = Goal
  BY GoalIsNotZero DEF Credit
<1> QED
  BY <1>1 DEF FlightInv

LEMMA CreditHolds == Judged /\ CreditInv /\ [Next]_vars => CreditInv'
<1> SUFFICES ASSUME Judged, CreditInv, [Next]_vars PROVE CreditInv'
  OBVIOUS
<1> USE DEF Judged
<1>1. CASE Reset \/ Rollout
  BY <1>1 DEF Reset, Start, Rollout, Control, Simulate, Raise, Finish, CreditInv
<1>2. CASE Pay /\ phase = "returned"
  <2>1. /\ result' = result /\ result # None /\ profile' = profile
        /\ bounces' = bounces /\ crossing' = crossing
        /\ credit' = IF Spoilt = {} THEN Credit ELSE 0
    BY <1>2 DEF Pay, flight, ResultInv
  <2>2. credit' > 0 => result \subseteq FlightFailures
    BY <2>1 DEF Spoilt
  <2>3. ASSUME profile.curriculum = "one bounce"
        PROVE  /\ result = {} => credit' = Goal
               /\ credit' = Goal => bounces = 1 /\ crossing # None
    <3>1. ASSUME result = {} PROVE credit' = Goal
      <4>1. /\ failures = {} /\ ~excess
            /\ released /\ InZone /\ bounces = 1 /\ crossing = TRUE
        BY <2>1, <3>1 DEF ResultInv
      <4>2. Spoilt = {}
        BY <3>1, <4>1 DEF Spoilt
      <4>3. frontier = Goal /\ frontier # None /\ bounce # None
        BY <4>1, GoalAssumption, NoneAssumption DEF FlightInv, InZone
      <4>4. Credit = Goal
        BY <2>3, <4>1, <4>3 DEF Credit
      <4> QED
        BY <2>1, <4>2, <4>4
    <3>2. ASSUME credit' = Goal PROVE bounces = 1 /\ crossing # None
      <4>1. Credit = Goal
        BY <2>1, <3>2, GoalAssumption
      <4> QED
        BY <2>3, <4>1, FullCredit
    <3> QED
      BY <3>1, <3>2
  <2> QED
    BY <2>1, <2>2, <2>3 DEF CreditInv
<1>3. CASE Pay /\ phase # "returned"
  BY <1>3 DEF Pay, CreditInv
<1>4. CASE UNCHANGED vars
  BY <1>4 DEF vars, flight, rewards, CreditInv
<1> QED
  BY <1>1, <1>2, <1>3, <1>4 DEF Next

LEMMA PrizeHolds == Judged /\ PrizeInv /\ [Next]_vars => PrizeInv'
<1> SUFFICES ASSUME Judged, PrizeInv, [Next]_vars PROVE PrizeInv'
  OBVIOUS
<1> USE DEF Judged
<1>1. CASE Reset
  BY <1>1 DEF Reset, Start, PrizeInv
<1>2. CASE Rollout
  <2>1. prize' = prize /\ prize = 0 /\ phase' # "over"
    <3>1. phase # "over" /\ phase' # "over" /\ prize' = prize
      BY <1>2 DEF Rollout, Control, Simulate, Raise, Finish, rewards
    <3> QED
      BY <3>1 DEF PrizeInv
  <2> QED
    BY <2>1 DEF PrizeInv
<1>3. CASE Pay /\ phase = "returned"
  <2>1. /\ result # None /\ result' = result /\ profile' = profile /\ released' = released
        /\ prize = 0 /\ prize' = prize + Terminal /\ phase' = "over"
    BY <1>3 DEF Pay, ResultInv, PrizeInv
  <2>2. Terminal' = Terminal
    BY <2>1 DEF Terminal
  <2>3. prize' = Terminal
    BY <2>1, PrizeTyped
  <2>4. credit' > 0 => released'
    <3>1. ~released => Credit = 0
      BY DEF Credit
    <3>2. credit' = 0 \/ credit' = Credit
      BY <1>3 DEF Pay
    <3>3. ~(0 > 0)
      OBVIOUS
    <3> QED
      BY <2>1, <3>1, <3>2, <3>3
  <2> QED
    BY <2>1, <2>2, <2>3, <2>4 DEF PrizeInv
<1>4. CASE Pay /\ phase = "yielded"
  <2>1. result = None /\ prize = 0 /\ prize' = prize /\ phase' = "waiting"
    BY <1>4 DEF Pay, ResultInv, PrizeInv
  <2> QED
    BY <2>1 DEF PrizeInv
<1>5. CASE UNCHANGED vars
  BY <1>5 DEF vars, rewards, Terminal, PrizeInv
<1> QED
  BY <1>1, <1>2, <1>3, <1>4, <1>5 DEF Next, Pay

\* The prize of an episode that is over, read off its result.
LEMMA PrizeIsTheOutcome ==
  ASSUME Judged, PayInv, CreditInv, PrizeInv, phase = "over", result # None
  PROVE  /\ prize \in {50, 5, -5, -10}
         /\ prize = 50 <=> result = {}
         /\ prize > 0 => released /\ charged = 0
         /\ profile.graded /\ credit > 0 => prize > 0
<1>1. prize = Terminal
  BY DEF PrizeInv
<1>2. /\ failures \subseteq result /\ failures \subseteq Seen
      /\ result = {} => released
  BY DEF Judged, ResultInv, TypeOK
<1>3. prize > 0 => result \subseteq FlightFailures /\ released
  BY <1>1, <1>2 DEF Terminal
<1>4. result \subseteq FlightFailures => charged = 0
  <2> SUFFICES ASSUME result \subseteq FlightFailures PROVE charged = 0
    OBVIOUS
  <2>1. failures = {}
    BY <1>2 DEF Seen, FlightFailures
  <2> QED
    BY <2>1, FS_EmptySet DEF PayInv
<1>5. profile.graded /\ credit > 0 => prize > 0
  <2> SUFFICES ASSUME profile.graded, credit > 0 PROVE prize > 0
    OBVIOUS
  <2>1. released /\ result \subseteq FlightFailures
    BY DEF PrizeInv, CreditInv
  <2> QED
    BY <1>1, <2>1 DEF Terminal
<1> QED
  BY <1>1, <1>3, <1>4, <1>5 DEF Terminal

\* What an episode was paid is what its delivery was worth: credit and penalties
\* step by step, and the prize at its end.
THEOREM EpisodesArePaidTheirWorth == Spec => []RewardIsTheOutcome
<1> DEFINE Inv == Judged /\ PayInv /\ CreditInv /\ PrizeInv
<1>1. Init => Inv
  <2> SUFFICES ASSUME Init PROVE PayInv /\ CreditInv /\ PrizeInv
    BY InitJudged
  <2>1. PayInv
    BY FS_EmptySet DEF Init, DeliveryInit, PayInv
  <2>2. CreditInv
    BY NoneIsNothing, GoalIsNotZero DEF Init, DeliveryInit, CreditInv
  <2>3. PrizeInv
    BY DEF Init, DeliveryInit, PrizeInv
  <2> QED
    BY <2>1, <2>2, <2>3
<1>2. Inv /\ [Next]_vars => Inv'
  <2> SUFFICES ASSUME Inv, [Next]_vars PROVE Inv'
    OBVIOUS
  <2>1. Judged'
    BY NextTyped, FlightHolds, ResultHolds DEF Judged
  <2>2. PayInv'
    BY PayHolds DEF Judged
  <2>3. CreditInv'
    BY CreditHolds
  <2>4. PrizeInv'
    BY PrizeHolds
  <2> QED
    BY <2>1, <2>2, <2>3, <2>4
<1>3. Inv => RewardIsTheOutcome
  BY PrizeIsTheOutcome DEF PayInv, CreditInv, PrizeInv, RewardIsTheOutcome
<1> QED
  BY <1>1, <1>2, <1>3, PTL DEF Spec

-----------------------------------------------------------------------------
(* The refinement *)

LEMMA InitUmpire == Init => Umpire!Init
BY NoneAssumption DEF Init, DeliveryInit, Umpire!Init, Call

\* The release lets the ball go, or spoils the delivery.
LEMMA ReleaseUmpire == Judged /\ Control => [Umpire!Next]_(Umpire!vars)
<1> SUFFICES ASSUME Judged, Control PROVE [Umpire!Next]_(Umpire!vars)
  OBVIOUS
<1>1. x' = x /\ onPitch' = onPitch /\ bounces' = bounces /\ bounce' = bounce
      /\ crossing' = crossing /\ result' = result /\ InZone' = InZone
  BY DEF Control, flight, InZone
<1>2. CASE released' = released /\ failures' = failures
  BY <1>1, <1>2 DEF Call, Umpire!vars
<1>3. CASE ~released /\ released' /\ failures \subseteq failures'
  <2>1. CASE failures' # {}
    <3>1. Call' = "spoilt"
      BY <2>1 DEF Call
    <3>2. x \in 0 .. Goal /\ onPitch \in BOOLEAN
      BY DEF Judged, TypeOK
    <3> QED
      BY <1>1, <3>1, <3>2 DEF Umpire!Next, Umpire!Move, Umpire!Judged
  <2>2. CASE failures' = {}
    <3>1. failures = {} /\ bounces = 0 /\ crossing = None
      BY <1>3, <2>2 DEF Judged, FlightInv
    <3>2. Call = "carried" /\ Call' = "flying"
      BY <1>1, <1>3, <2>2, <3>1 DEF Call
    <3> QED
      BY <1>1, <3>2 DEF Umpire!Next, Umpire!LetGo
  <2> QED
    BY <2>1, <2>2
<1> QED
  BY <1>2, <1>3 DEF Control, Release

\* A physics step is a move of the ball, judged as the umpire would.
LEMMA SimulateUmpire == Judged /\ Simulate => Umpire!Move
<1> SUFFICES ASSUME Judged, Simulate PROVE Umpire!Move
  OBVIOUS
<1> USE DEF Judged
<1>1. /\ BallMoves /\ released' = released /\ result' = result
      /\ failures \subseteq failures'
  BY DEF Simulate, Contacts
<1>2. /\ x \in 0 .. Goal /\ bounces \in {0, 1, 2} /\ released \in BOOLEAN
      /\ crossing \in BOOLEAN \cup {None}
  BY DEF TypeOK
<1>3. x' \in 0 .. Goal /\ onPitch' \in BOOLEAN
  BY <1>1, BallMovesTyped
<1>4. crossing' = None => crossing = None /\ x' < Goal
  BY <1>1, <1>2, <1>3, GoalAssumption, NoneAssumption DEF BallMoves, Crosses, FlightInv
<1>5. bounces # 0 => bounce' = bounce
  BY <1>1 DEF BallMoves, FlightInv
<1>6. Umpire!Lands <=> onPitch' /\ ~onPitch
  BY DEF Umpire!Lands
<1>7. Umpire!Judged
  <2>1. CASE Call' = "spoilt"
    BY <2>1 DEF Umpire!Judged
  <2>2. CASE failures' = {} /\ ~released
    <3>1. Call = "carried" /\ Call' = "carried" /\ x' = x
      BY <1>1, <2>2 DEF Call, BallMoves
    <3> QED
      BY <3>1 DEF Umpire!Judged
  <2>3. CASE failures' = {} /\ released /\ bounces' = 0 /\ crossing' = None
    <3>1. bounces = 0 /\ crossing = None /\ ~(onPitch' /\ ~onPitch) /\ x' < Goal
      BY <1>1, <1>2, <1>4, <2>3 DEF BallMoves, Bounces
    <3>2. Call = "flying" /\ Call' = "flying"
      BY <1>1, <2>3, <3>1 DEF Call
    <3> QED
      BY <1>6, <3>1, <3>2 DEF Umpire!Judged
  <2>4. CASE failures' = {} /\ released /\ bounces' = 1 /\ InZone' /\ crossing' = None
    <3>1. Call' = "bounced" /\ failures = {} /\ crossing = None /\ x' < Goal
      BY <1>1, <1>4, <2>4 DEF Call
    <3>2. CASE bounces = 0
      <4>1. Bounces /\ bounce = None
        BY <1>1, <2>4, <3>2 DEF BallMoves, FlightInv
      <4>2. x' \in Zone
        BY <1>1, <2>4, <4>1 DEF BallMoves, InZone
      <4>3. Call = "flying"
        BY <2>4, <3>1, <3>2 DEF Call
      <4> QED
        BY <1>6, <3>1, <4>1, <4>2, <4>3 DEF Umpire!Judged, Bounces
    <3>3. CASE bounces = 1
      <4>1. ~(onPitch' /\ ~onPitch)
        BY <1>1, <2>4, <3>1, <3>3 DEF BallMoves, Bounces
      <4>2. Call = "bounced"
        BY <1>5, <2>4, <3>1, <3>3 DEF Call, InZone
      <4> QED
        BY <1>6, <3>1, <4>1, <4>2 DEF Umpire!Judged
    <3>4. bounces # 2
      BY <1>1, <2>4 DEF BallMoves
    <3> QED
      BY <1>2, <3>2, <3>3, <3>4
  <2>5. CASE failures' = {} /\ released /\ bounces' = 1 /\ InZone' /\ crossing' = TRUE
    <3>1. Call' = "delivered" /\ failures = {}
      <4>1. failures = {}
        BY <1>1, <2>5
      <4>2. Call' = "delivered"
        <5>1. bounces' # 0 /\ ~(bounces' # 1) /\ released'
          BY <1>1, <2>5
        <5>2. crossing' # None
          BY <2>5, NoneIsNothing, Zenon
        <5> QED
          BY <2>5, <5>1, <5>2, Zenon DEF Call
      <4> QED
        BY <4>1, <4>2
    <3>2. CASE crossing = TRUE
      <4>1. bounces = 1
        BY <1>1, <2>5, <3>2, NoneAssumption DEF BallMoves, Bounces
      <4>2. Call = "delivered"
        BY <1>5, <2>5, <3>1, <3>2, <4>1, NoneAssumption DEF Call, InZone
      <4> QED
        BY <3>1, <4>2 DEF Umpire!Judged
    <3>3. CASE crossing = None
      <4>1. x' = Goal
        BY <1>1, <2>5, <3>3, NoneAssumption DEF BallMoves, Crosses
      <4>2. bounces = 1
        <5>1. SUFFICES ASSUME bounces # 1 PROVE FALSE
          OBVIOUS
        <5>2. Bounces /\ bounce = None
          BY <1>1, <1>2, <2>5, <5>1 DEF BallMoves, FlightInv
        <5>3. x' \in Zone
          BY <1>1, <2>5, <5>2 DEF BallMoves, InZone
        <5> QED
          BY <4>1, <5>3, GoalAssumption
      <4>3. ~(onPitch' /\ ~onPitch)
        BY <1>1, <2>5, <3>3, <4>2 DEF BallMoves, Bounces
      <4>4. Call = "bounced"
        BY <1>5, <2>5, <3>1, <3>3, <4>2 DEF Call, InZone
      <4> QED
        BY <1>6, <3>1, <4>1, <4>3, <4>4 DEF Umpire!Judged
    <3>4. crossing # FALSE
      BY <1>1, <2>5, NoneAssumption DEF BallMoves, Crosses
    <3> QED
      BY <1>2, <3>2, <3>3, <3>4
  <2> QED
    BY <1>1, <2>1, <2>2, <2>3, <2>4, <2>5 DEF Call
<1> QED
  BY <1>1, <1>3, <1>7 DEF Umpire!Move

\* finish() passes what the umpire saw delivered.
LEMMA FinishUmpire ==
  ASSUME Judged, Finish, ResultInv'
  PROVE  [Umpire!Next]_(Umpire!vars)
<1>1. /\ x' = x /\ onPitch' = onPitch /\ failures' = failures /\ released' = released
      /\ bounces' = bounces /\ crossing' = crossing /\ InZone' = InZone
  BY DEF Finish, flight, InZone
<1>2. Call' = Call
  BY <1>1 DEF Call
<1>3. result = None
  BY DEF Judged, ResultInv, Finish
<1>4. CASE result' = {}
  <2>1. failures = {} /\ released /\ InZone /\ bounces = 1 /\ crossing = TRUE
    BY <1>1, <1>4, NoneIsNothing DEF ResultInv
  <2>2. Call = "delivered"
    <3>1. bounces # 0 /\ ~(bounces # 1)
      BY <2>1
    <3>2. crossing # None
      BY <2>1, NoneIsNothing, Zenon
    <3> QED
      BY <2>1, <3>1, <3>2, Zenon DEF Call
  <2> QED
    BY <1>1, <1>2, <1>4, <2>2, NoneIsNothing DEF Umpire!Next, Umpire!Pass
<1>5. CASE result' # {}
  BY <1>1, <1>2, <1>3, <1>5, NoneIsNothing DEF Umpire!vars
<1> QED
  BY <1>4, <1>5

LEMMA NextUmpire == Judged /\ Judged' /\ [Next]_vars => [Umpire!Next]_(Umpire!vars)
<1> SUFFICES ASSUME Judged, Judged', [Next]_vars PROVE [Umpire!Next]_(Umpire!vars)
  OBVIOUS
<1>1. CASE Reset
  <2>1. /\ x' = 0 /\ onPitch' = FALSE /\ Call' = "carried" /\ result' = None
    BY <1>1 DEF Reset, Start, Call
  <2> QED
    BY <2>1, NoneIsNothing DEF Umpire!Next, Umpire!Restart
<1>2. CASE Control
  BY <1>2, ReleaseUmpire
<1>3. CASE Simulate
  BY <1>3, SimulateUmpire DEF Umpire!Next
<1>4. CASE Finish
  BY <1>4, FinishUmpire DEF Judged
<1>5. CASE Raise \/ Pay \/ UNCHANGED vars
  <2>1. /\ x' = x /\ onPitch' = onPitch /\ failures' = failures /\ released' = released
        /\ bounces' = bounces /\ crossing' = crossing /\ bounce' = bounce
        /\ result' = result
    BY <1>5 DEF Raise, Pay, vars, flight
  <2> QED
    BY <2>1 DEF Call, InZone, Umpire!vars
<1> QED
  BY <1>1, <1>2, <1>3, <1>4, <1>5 DEF Next, Rollout

\* What the monitor passes is a fair delivery, for any pitch and any zone of the
\* bounce.
THEOREM DeliveriesAreFair == Spec => ImplementsFairDelivery
<1>1. Judged /\ Judged' /\ [Next]_vars => [Umpire!Next]_(Umpire!vars)
  BY NextUmpire
<1> QED
  BY <1>1, InitUmpire, AlwaysJudged, PTL DEF Spec, ImplementsFairDelivery, Umpire!Spec
=============================================================================
