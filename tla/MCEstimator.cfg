SPECIFICATION EstimatorSpec
CONSTANTS
  a1 = a1
  a2 = a2
  Account = {a1, a2}
  Version = {"LegacyV0", "V1"}
  NoRate = NoRate
  NoSample = NoSample
  NoSlot = NoSlot
  NoLookback = NoLookback
  NoRequest = NoRequest
  AnyAccount = AnyAccount
  Global = Global
  NaN = NaN
  BadKey = BadKey
  MaxKeys = 3
  HasClient = TRUE
  MinRecommendedFee = 3
  Capacity = 2
  Shards = 2
  Slot <- MCSlot
  ShardOf <- MCShardOf
  Txns <- MCTxns
  Requests = {}
  Asks <- MCAsks
  Found <- MCFound
  MaxSamples = 3
PROPERTIES AnswerHonest DetailsExplain
