\* Two threads, two slots; futures deregister.
CONSTANTS
  t1 = t1
  t2 = t2
  t3 = t3
  w1 = w1
  w2 = w2
  NoOwner = NoOwner
  Tasks = {t1, t2}
  Wakers = {w1, w2}
  NoThread = NoOwner
  NSlots = 2
  Deregister = TRUE
SPECIFICATION Spec
INVARIANT
  NoLostWakeup
SYMMETRY Symmetry
CHECK_DEADLOCK FALSE
