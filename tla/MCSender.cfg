CONSTANTS
  W = 65536
  SCALE_DIGITS = 1
  MAX_DIGITS = 4
  LASER_MAX_RASTER_LINE = 5
  MAX_FILENAME_LEN = 16
  Jobs <- MCJobs
  Noise <- MCNoise
  MaxFaults = 1
  MaxFull = 1

SPECIFICATION FairSpec

\* A host that waits for the answer to a line without its end stops, and so does
\* one that dies of an answer it cannot read.
CHECK_DEADLOCK FALSE

INVARIANTS
  BytesInBounds
  ExecutesJob
  RastersOnce

PROPERTY
  JobEnds
