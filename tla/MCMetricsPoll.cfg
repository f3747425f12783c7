SPECIFICATION PollSpec
CONSTANTS
  Account = {}
  Version = {"LegacyV0", "V1"}
  NoRate = NoRate
  NoSample = NoSample
  NoSlot = NoSlot
  NoLookback = NoLookback
  NoRequest = NoRequest
  AnyAccount = AnyAccount
  Global = Global
  NaN = NaN
  General = General
  Unset = Unset
  MinRecommendedFee = 2
  Capacity = 1
  Shards = 2
  Slot <- MCSlot
  ShardOf <- MCShardOf
  Txns <- MCTxns
  ALL <- MCAll
  Requests = {}
  MaxSamples = 2
PROPERTY GaugesSettle
