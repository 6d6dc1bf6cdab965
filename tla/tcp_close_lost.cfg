\* What the comment of close says of the socket it is given.
CONSTANTS
  TxPackets = 2
  RxPackets = 2
SPECIFICATION Spec
INVARIANT ClosedForReuse
CHECK_DEADLOCK FALSE
