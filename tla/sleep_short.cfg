\* Threads that sleep for 15 ms with a tick of 10 ms.
CONSTANTS
  Waiters = {a, b, c}
  Bits = {1}
  Asks <- AsksForEvent
  TicksPerSecond = 100
  TickModulus = 65536
  Initial = 200
  Period = 100
  SleepMillis = 15
  Busy = 1
SPECIFICATION AppSpec
INVARIANT
  SleepRoundsUp
CHECK_DEADLOCK FALSE
