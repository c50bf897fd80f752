SPECIFICATION Spec
CONSTANTS
  PanMaxVelocity = 2
  TiltMaxVelocity = 2
  Delta = 1
  SchedFreq = 2
  LeaseTicks = 2
  PositionMin <- Near
  PositionMax = 3
  FastVelocity = 2
  BackoffVelocity = 2
  SlowVelocity = 1
  PostHomeVelocity = 2
  MaxTravel = 1
  ReleaseMax = 1
  Clearance = 1
  Park = 1
  StableTicks = 1
  CheckSteps = 1
  CheckVelocity = 1
  JogMax = 1
  JogVelocity = 1
  PanFaults = {"RESET","COMM"}
  TiltFaults = {}
  TicksPerControl = 2
  DirectionCalibrated = FALSE
  HostAxes <- BothAxes
  HostVelocities <- TwoWay
  HostJogs <- OneJog
  PanRange = 3
  TiltRange = 1
  HostMayVanish = FALSE
INVARIANTS
  PinsFollowAxis
  ConfiguresOnlyInactiveAxes
  FaultedAxisIsStopping
PROPERTIES
  PositionCountsEdges
