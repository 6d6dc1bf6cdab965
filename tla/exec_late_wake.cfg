\* One thread; the Waker is kept after block_on returned.
CONSTANTS
  t1 = t1
  t2 = t2
  t3 = t3
  w1 = w1
  w2 = w2
  NoOwner = NoOwner
  Tasks = {t1}
  Wakers = {w1, w2}
  NoThread = NoOwner
  NSlots = 1
  Deregister = FALSE
SPECIFICATION Spec
INVARIANT
  LateWakeAllowed
CHECK_DEADLOCK FALSE
