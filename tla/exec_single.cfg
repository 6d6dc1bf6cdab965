\* One thread calls block_on, two wakers; futures deregister.
CONSTANTS
  t1 = t1
  t2 = t2
  t3 = t3
  w1 = w1
  w2 = w2
  NoOwner = NoOwner
  Tasks = {t1}
  Wakers = {w1, w2}
  NoThread = NoOwner
  NSlots = 2
  Deregister = TRUE
SPECIFICATION FairSpec
INVARIANTS
  NoPanic
  NoLostWakeup
  IInv
PROPERTIES
  NoSpuriousWakeup
  ReadyFinishes
  ImplementsBlockOn
