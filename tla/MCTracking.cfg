SPECIFICATION TrackSpec
CONSTANTS
  Envs = {e1, e2}
  push = push
  wind = wind
  Terms = {push, wind}
  GlobalTerms = {wind}
  Range <- Ranges
  Dt = 2
  Batch = Batch
  Last = 2
  Clips <- TwoClips
  BinCount = 2
  Modes = {"adaptive"}
  AutoResets = {TRUE, FALSE}
  Faults = {"commit"}
  Counters = {1}
  MaxStep = 3
SYMMETRY EnvSymmetry
INVARIANTS
  FrameInClip
  InStep
  BuffersCurrent
PROPERTIES
  IntervalsKept
