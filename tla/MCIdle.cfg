CONSTANTS
  Period = 4
  PerMilli = 2
  Levels <- MCLevels
  Radix <- MCRadix
  W = 16
  MaxNow = 84
  Stack = 2815
  Waits = {4}
  Durations <- MCDurations
  Tour <- MCTour
  ByteW = 3
  MilliW = 2
  MinuteW = 2
  MinW = 4
  MaxLag = 6
  MaxHold = 2
  MaxStart = 8
  MaxPulse = 40

SPECIFICATION FairSpec

INVARIANT
  FlagsServed

PROPERTIES
  LasingMeasured
  ScreenTells
  WaitsLongEnough
  WaitEnds
