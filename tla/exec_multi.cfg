\* Three threads, two slots, late wake-ups.
CONSTANTS
  t1 = t1
  t2 = t2
  t3 = t3
  w1 = w1
  w2 = w2
  NoOwner = NoOwner
  Tasks = {t1, t2, t3}
  Wakers = {w1, w2}
  NoThread = NoOwner
  NSlots = 2
  Deregister = FALSE
SPECIFICATION Spec
INVARIANTS
  SlotExclusive
SYMMETRY Symmetry
\* A panic halts the processor.
CHECK_DEADLOCK FALSE
