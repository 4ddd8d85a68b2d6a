\* Where the axes go: two axes, all motion commands, no laser.
CONSTANTS
  W <- MCW
  IntRange = 65536
  Axes <- XY
  HomeDir <- DirXY
  Switch <- SwitchXY
  QueueRoom = 2
  RasterRoom = 1
  Targets <- TargetsXY
  Pixels = {}
  HomeSets <- HomeXY
  Starts <- StartXY
  Hosts <- MotionHosts
  MaxCommands = 3

SPECIFICATION FairSpec

\* The host may stop sending.
CHECK_DEADLOCK FALSE

INVARIANTS
  PlannerAgrees
  DrainedIsStill
  HomeIsCalibrated

PROPERTY
  DrainReturns
