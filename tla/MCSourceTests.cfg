SPECIFICATION TestSpec
CONSTANTS
  account_1 = account_1
  account_2 = account_2
  account_3 = account_3
  account_unrelated = account_unrelated
  Account = {account_1, account_2, account_3, account_unrelated}
  Version = {"LegacyV0", "V1"}
  NoRate = NoRate
  NoSample = NoSample
  NoSlot = NoSlot
  NoLookback = NoLookback
  NoRequest = NoRequest
  AnyAccount = AnyAccount
  Global = Global
  NaN = NaN
  BadKey = BadKey
  MaxKeys = 500
  HasClient = FALSE
  MinRecommendedFee = 10000
  Capacity = 102
  Shards = 1
  Slot <- MCSlot
  ShardOf <- MCShardOf
  Txns <- MCTxns
  Requests = {}
  Asks <- MCAsks
  Found = {}
  MaxSamples = 111
CHECK_DEADLOCK FALSE
PROPERTY ReplayAgrees
