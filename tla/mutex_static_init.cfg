\* StaticMutex: initialize takes &self.
CONSTANTS
  th1 = th1
  th2 = th2
  th3 = th3
  th4 = th4
  NoOwner = NoOwner
  NoThread = NoOwner
  Threads = {th1, th2}
  Static = TRUE
  Reentrant = FALSE
  MaxCount = 1
SPECIFICATION Spec
INVARIANT
  MutualExclusion
CHECK_DEADLOCK FALSE
