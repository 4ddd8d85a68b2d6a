CONSTANTS
  MaxTotal = 24
  MaxAdd = 26
  W <- MCW
  Totals <- MCTotals
  Adds <- MCAdds
  Pc3Bytes = FALSE
  HasEind = FALSE
  LogBuild = 0
  FlashWords = 131072
  FlashBytes = 131072
  Flash <- NoFlash

SPECIFICATION Spec

\* A job ends.
CHECK_DEADLOCK FALSE

INVARIANTS
  FollowsLine
  NearReference
  RoutinesCompute
