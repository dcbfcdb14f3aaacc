SPECIFICATION GatedSpec
CONSTANTS
  Envs = {e1, e2}
  Rots = {0}
  Vels = {0}
  ToBody <- Same
  ToWorld <- Same
  Joints = {0}
  DefaultRow <- DefaultPose
  RandFields = {mass, friction}
  GainFields = {}
  Cols = {c1, c2}
  Values = {0, 1}
  DefaultValues <- DefaultColumns
  Bodies = {}
  MocapPoses = {0}
  NoWrite = NoWrite
  gated = gated
  always = always
  mass = mass
  friction = friction
  c1 = c1
  c2 = c2
  Order <- GatedFirst
  Target <- SharedField
  ColumnsOf <- OwnColumn
  MinSteps <- Gate
  MaxCount = 2
  NoDraw = NoDraw
SYMMETRY EnvSymmetry
INVARIANTS LastDrawPersists
