\* The smallest ring on which both walks agree for all arcs.
CONSTANTS
  MinRadius = 16
  MaxRadius = 17
  Arcs <- MCArcs

SPECIFICATION ArcSpec

\* An arc ends.
CHECK_DEADLOCK FALSE

INVARIANTS
  ErrExact
  Lands
  OnCircle
