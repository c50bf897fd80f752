SPECIFICATION FairSpec
CONSTANTS
  PanMaxVelocity = 2
  TiltMaxVelocity = 2
  Delta = 1
  SchedFreq = 2
  LeaseTicks = 2
  PositionMin <- Low
  PositionMax = 8
  FastVelocity = 2
  BackoffVelocity = 2
  SlowVelocity = 1
  PostHomeVelocity = 2
  MaxTravel = 1
  ReleaseMax = 1
  Clearance = 1
  Park = 1
  StableTicks = 1
  CheckSteps = 2
  CheckVelocity = 1
  JogMax = 1
  JogVelocity = 1
  PanFaults = {}
  TiltFaults = {"FATAL"}
  TicksPerControl = 2
  DirectionCalibrated = TRUE
  HostAxes <- TiltOnly
  HostVelocities <- TwoWay
  HostJogs <- OneJog
  PanRange = 0
  TiltRange = 2
  HostMayVanish = TRUE
INVARIANTS
  NothingOutlivesPower
PROPERTIES
  HostLossStopsMotion
  HomingEnds
  PowerDownCompletes
