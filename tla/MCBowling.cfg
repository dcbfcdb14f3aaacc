SPECIFICATION Spec
CONSTANTS
  Goal = 3
  Zone <- MiddleOfThePitch
  Period = 2
  ArmAfter = 1
  Settle = 1
  Fresh = 1
  Stale = 1
  Stride = 3
  Window = 2
  Profiles <- ThreeProfiles
  None = None
INVARIANTS
  LearnedReleaseIsLegal
  RewardIsTheOutcome
PROPERTIES ImplementsFairDelivery
