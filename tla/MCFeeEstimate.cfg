SPECIFICATION EstimateSpec
CONSTANTS
  a1 = a1
  a2 = a2
  Account = {a1, a2}
  Version = {"LegacyV0", "V1"}
  NoRate = NoRate
  NoSample = NoSample
  NoSlot = NoSlot
  NoLookback = NoLookback
  NoRequest = NoRequest
  AnyAccount = AnyAccount
  Capacity = 2
  Shards = 2
  Slot <- MCSlot
  ShardOf <- MCShardOf
  Txns <- MCTxns
  Requests <- MCRequests
  MaxSamples = 4
INVARIANTS
  IInv MapTracksWindow StoreBounded EntriesExact InOrderKeepsMostRecent
  LookbackComplete AnswerCoherent AnswerUpToDate OneStayPerSlot
PROPERTIES OldestEvicted LookbackNewestFirst
