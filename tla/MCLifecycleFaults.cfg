SPECIFICATION Spec
CONSTANTS
  Envs = {e1, e2}
  Commands = {c1}
  Periods = {2}
  Substeps = 2
  PreStepControl = FALSE
  FiniteHorizon = TRUE
  HasEvents = FALSE
  CommandWrites = FALSE
  AutoresetModes <- Either
  ResetRequests <- EveryReset
  Lengths = {}
  Counters = {}
  Faults = {"physics", "update", "commit", "managers", "refresh"}
  MaxStep = 2
  None = None
SYMMETRY EnvSymmetry
PROPERTIES
  ResetRepairs
