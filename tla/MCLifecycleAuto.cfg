SPECIFICATION Spec
CONSTANTS
  Envs = {e1, e2}
  Commands = {c1, c2}
  Periods = {2}
  Substeps = 2
  PreStepControl = FALSE
  FiniteHorizon = FALSE
  HasEvents = TRUE
  CommandWrites = TRUE
  AutoresetModes <- Always
  ResetRequests <- EveryReset
  Lengths = {}
  Counters = {1}
  Faults = {}
  MaxStep = 2
  None = None
SYMMETRY EnvSymmetry
INVARIANTS
  TerminalObservation
  ObservationsFresh
  NothingLost
