SPECIFICATION Spec
CONSTANTS
  PanMaxVelocity = 3
  TiltMaxVelocity = 3
  Delta = 2
  SchedFreq = 4
  LeaseTicks = 2
  PositionMin <- Far
  PositionMax = 100
  FastVelocity = 3
  BackoffVelocity = 2
  SlowVelocity = 1
  PostHomeVelocity = 2
  MaxTravel = 3
  ReleaseMax = 2
  Clearance = 1
  Park = 2
  StableTicks = 2
  CheckSteps = 2
  CheckVelocity = 1
  JogMax = 2
  JogVelocity = 1
  PanFaults = {}
  TiltFaults = {}
  TicksPerControl = 2
  DirectionCalibrated = TRUE
  HostAxes <- BothAxes
  HostVelocities <- Velocities3
  HostJogs <- Jogs
  PanRange = 0
  TiltRange = 3
  HostMayVanish = FALSE
INVARIANTS
  TypeOK
  LeaseCoversEveryCommand
  ReferenceIsKept
  NoEdgeIntoSwitch
PROPERTIES
  ReversalPassesThroughRest
  JogAccountsEveryStep
