SPECIFICATION Spec
CONSTANTS
  Envs = {e1, e2}
  Commands = {c1}
  Periods = {2}
  Substeps = 2
  PreStepControl = FALSE
  FiniteHorizon = FALSE
  HasEvents = FALSE
  CommandWrites = FALSE
  AutoresetModes <- Always
  ResetRequests <- EveryReset
  Lengths = {}
  Counters = {1}
  Faults = {}
  MaxStep = 2
  None = None
SYMMETRY EnvSymmetry
INVARIANTS
  TerminalActionIntact
