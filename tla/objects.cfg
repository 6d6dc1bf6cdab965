\* The kernel objects, one in each behaviour: a mutex whose guards may change
\* threads, Executor::new, a queue of two messages of two words (th3 sends and
\* receives), event flags and a semaphore.
CONSTANTS
  th1 = th1
  th2 = th2
  th3 = th3
  th4 = th4
  NoThread = NoThread
  Threads = {th1, th2, th3, th4}
  Static = FALSE
  Reentrant = TRUE
  MaxCount = 2
  Senders = {th1, th2, th3}
  Receivers = {th3, th4}
  MessageBytes = 8
  MemoryBytes = 64
  MaxSent = 5
  Bits = {1, 2}
  Waiters = {th1, th2, th3}
  Asks <- ObjectAsks
  Users = {th1, th2, th3, th4}
  InitialCount = 2
SPECIFICATION ObjectsSpec
INVARIANTS
  MutualExclusion
  MutexInv
  NoGuardOnFree
  OneExecutor
  HandleUsable
  NothingLost
  SuspendedRightly
  FlagsInv
  SemInv
PROPERTIES
  LockReturns
  QueueDelivers
  ImplementsChannel
  AnyServed
  GetReturns
\* A dropped mutex is used no more, a panic halts the processor.
CHECK_DEADLOCK FALSE
