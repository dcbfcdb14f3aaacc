SPECIFICATION Spec
CONSTANTS
  Envs = {e1, e2}
  Commands = {c1, c2}
  Periods = {1, 2}
  Substeps = 2
  PreStepControl = TRUE
  FiniteHorizon = TRUE
  HasEvents = FALSE
  CommandWrites = FALSE
  AutoresetModes <- Never
  ResetRequests <- EveryReset
  Lengths = {0, 1}
  Counters = {0, 1}
  Faults = {"commit"}
  MaxStep = 2
  None = None
SYMMETRY EnvSymmetry
INVARIANTS
  TypeOK
  CountersAgree
  WaitsForReset
  FlagsAgree
PROPERTIES
  ResetIsLocal
