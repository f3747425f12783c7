SPECIFICATION Spec
CONSTANTS
  t1 = t1
  t2 = t2
  t3 = t3
  Threads <- MCThreads
  NoThread = NoThread
  Slot <- MCSlot
  NoSlot = NoSlot
  Capacity = 2
INVARIANTS IInv NoOrphanSlot
PROPERTY RefinesAtomicSlotCache
