SPECIFICATION Spec
CONSTANTS
  a1 = a1
  a2 = a2
  Account = {a1, a2}
  Version = {"LegacyV0", "V1"}
  NoRate = NoRate
  NoSample = NoSample
  NoSlot = NoSlot
  Txns <- MCTxns
  Slot <- MCSlot
  Capacity = 2
  MaxSamples = 3
INVARIANT MostRecentSlotsKept
