\* Messages of two words in a memory for eight.
CONSTANTS
  Senders = {s1, s2}
  Receivers = {r1}
  MessageBytes = 8
  MemoryBytes = 64
  MaxSent = 3
SPECIFICATION QueueSpec
INVARIANT
  CopiesFit
CHECK_DEADLOCK FALSE
