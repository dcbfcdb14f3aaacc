SPECIFICATION Spec
CONSTANTS
  Envs = {e1}
  Rots = {0}
  Vels = {0}
  ToBody <- MCToBody
  ToWorld <- MCToWorld
  Joints = {0, 1}
  DefaultRow <- DefaultPose
  RandFields = {}
  GainFields = {gains}
  Cols = {c1, c2}
  Values = {0, 1}
  DefaultValues <- DefaultColumns
  Bodies = {ball, paddle}
  MocapPoses = {0, 1}
  NoWrite = NoWrite
INVARIANTS TypeOK
PROPERTIES ChangesAreReported MocapFollowsState ImplementsAtomicReset
