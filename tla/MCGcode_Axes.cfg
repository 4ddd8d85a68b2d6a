CONSTANTS
  Commands <- MCCommands
  Bare = Bare
  XYSteps = 7922
  XYLength = 100000
  ZSteps = 8
  ZLength = 10
  kHz = 16000
  MIN_SPEED = 5000
  MAX_SPEED = 100984
  HomePos <- MCHomePos
  IntRange = 65536
  LongRange = 536870912
  Rounds = 16
  Unknown <- MCUnknown
  Reach = 46000
  MaxCommands = 4

SPECIFICATION Spec

\* The bound on commands ends a behaviour.
CHECK_DEADLOCK FALSE

INVARIANTS
  GoesAsTold
