\* Smallest power of two at which a buffer holds several elements.
CONSTANTS
  Data = {a, b}
  Size = 4

SPECIFICATION Spec

\* Main may wait for room in a buffer whose reader is silent (LASER_RASTERDATA
\* with an idle stepper): the system really stops there.
CHECK_DEADLOCK FALSE

INVARIANT
  UsedSafe

PROPERTY
  ImplementsFifo
