\* bin/network.rs: a queue of two messages, four measurements, any loss of
\* the connection.  bin/event_flag.rs: the times of the program.
CONSTANTS
  th1 = th1
  th2 = th2
  th3 = th3
  Waiters = {th1, th2, th3}
  Bits = {1}
  Asks <- AsksForEvent
  Capacity = 2
  MaxMeasured = 4
  TicksPerSecond = 100
  TickModulus = 65536
  Initial = 5000
  Period = 1000
  SleepMillis = 100
  Busy = 2
SPECIFICATION ApplicationsSpec
INVARIANTS
  NothingLost
  StartsWithNetwork
  AppInv
PROPERTIES
  
  EveryoneServed
\* A panic halts the processor.
CHECK_DEADLOCK FALSE
