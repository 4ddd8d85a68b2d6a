CONSTANTS
  RxSize = 16
  TxSize = 4
  HostFifo = 3
  ReplyLength = 4

SPECIFICATION FairSpec

\* A host that was stopped is never told to go on, see HostResumes.
CHECK_DEADLOCK FALSE

INVARIANTS
  NoLostWakeup
  NoOverrun

PROPERTY
  AsksToResume
