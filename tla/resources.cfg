\* The network, pools, allocator, threads, start-up and the bus, one in each
\* behaviour.  Three threads call initialize of the network, every call may
\* fail, and its pools have three packets; the heap starts inside a word.
CONSTANTS
  th1 = th1
  TxPackets = 3
  RxPackets = 3
  Threads = {a, b, c}
  PoolUsers = {th1, th2}
  BytePools = {byte}
  BlockPools = {block1, block2}
  Size = 1
  Base = 2
  PoolBytes = 80
  Layouts <- HeapLayouts
  UsizeModulus = 65536
  OverflowChecks = FALSE
  Boxed = {th1, th2}
  CFunc = {th3}
  MaxHandles = 2
  Readers = {th1, th2}
  Users = {th3}
SPECIFICATION ResourcesSpec
INVARIANTS
  PacketsAccounted
  SocketClean
  SetupSafe
  OneNetwork
  PoolsInv
  OwnMemory
  Releasable
  ThreadsInv
  Prepared
  BusSafe
PROPERTIES
  ResetIsFinal
  AllocateReturns
  FailureIsFinal
\* The processor halts on a panic, the client waits for ever once the TX pool
\* has leaked away, the heap is full, the programs run.
CHECK_DEADLOCK FALSE
