SPECIFICATION Spec
CONSTANTS
  Threads = {k1, k2}
  KeyThread = k1
  Viewers = {"native", "keyboard", "viser"}
  Low = 0
  High = 1
  MaxRequests = 2
  MaxNudges = 1
  MaxResets = 2
INVARIANTS
  PressesNotLost
  BlindStepsBounded
  StrayCommandsBounded
PROPERTIES
  PressAnswered
  ComesToRest
  CommandArrives
CHECK_DEADLOCK FALSE
