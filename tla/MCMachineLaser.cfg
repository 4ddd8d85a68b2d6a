\* The beam: one axis, every laser mode, and raster lines with one pulse per byte and
\* a buffer shorter than two of them.  W is small, since an
\* idle stepper runs the laser's counter round all its values.
CONSTANTS
  W = 16
  IntRange = 65536
  Axes <- X
  HomeDir <- DirX
  Switch <- SwitchX
  QueueRoom = 2
  RasterRoom = 2
  Targets <- TargetsX
  Pixels = {0, 255}
  HomeSets <- HomeX
  Starts <- StartX
  Hosts <- LaserHosts
  MaxCommands = 3

SPECIFICATION FairSpec

\* The host may stop sending.
CHECK_DEADLOCK FALSE

INVARIANTS
  DarkJobs
  OwnPixels

PROPERTIES
  RestIsDark
  PulseEnds
  RoomComes
