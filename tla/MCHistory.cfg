SPECIFICATION Spec
CONSTANTS
  Row = {r1, r2}
  Zero = Zero
  MinLag = 1
  MaxLag = 2
  UpdatePeriod = 2
  PerEnv = TRUE
  PerEnvPhase = TRUE
  Holds = FALSE
  HistoryLength = 2
  MaxAge = 3
SYMMETRY RowSymmetry
INVARIANTS
  TypeOK
  TrueDelay
  OneEpisode
  CacheIsCurrent
  MinLagWithinPeriod
PROPERTIES
  ImplementsWindows
