SPECIFICATION Spec
CONSTANTS
  Envs = {e1, e2}
  Rots <- Cycle
  Vels <- Cycle
  ToBody <- MCToBody
  ToWorld <- MCToWorld
  Joints = {0}
  DefaultRow <- DefaultPose
  RandFields = {mass}
  GainFields = {}
  Cols = {}
  Values = {0}
  DefaultValues <- DefaultColumns
  Bodies = {}
  MocapPoses = {0}
  NoWrite = NoWrite
SYMMETRY EnvSymmetry
INVARIANTS StagedInsideReset
PROPERTIES VelocityDelivered ImplementsAtomicReset
