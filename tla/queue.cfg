SPECIFICATION Spec
CONSTANTS
  Threads = {t1, t2, t3}
  Capacity = 2
  Ops <- AllOps
  MaxItems = 3
INVARIANTS
  NothingLostOrReordered
  SleepersAreCovered
PROPERTY
  ImplementsContract
