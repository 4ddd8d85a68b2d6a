CONSTANTS
  CDC_TX_SIZE = 2
  CDC_RX_SIZE = 2
  Banks = 2
  TRANSMIT_FLUSH_TIMEOUT = 2
  TRANSMIT_TIMEOUT = 2
  Frames = 3
  MaxChars = 5
  ENDPOINT0_SIZE = 16
  Requests <- MCRequests
  MaxRequests <- MCMaxRequests
  MaxResets = 1

SPECIFICATION FairSpec

INVARIANTS
  InOrder
  NothingLeftBehind

PROPERTIES
  DescriptorWhole
  RequestsEnd
  CallReturns
  Arrives
