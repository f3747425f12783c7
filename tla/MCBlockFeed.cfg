SPECIFICATION FeedSpec
CONSTANTS
  Slot = {1, 2, 3}
  Account = {}
  Version = {"V1"}
  NoRate = NoRate
  NoSample = NoSample
  NoSlot = NoSlot
  Capacity = 1
  MaxSamples = 5
  Consumers = 2
  MaxBlocks = 4
  MaxWire = 3
  Txns <- MCTxns
  SlotOf <- MCSlotOf
  Content <- MCContent
INVARIANTS ConsumersAgree GapsOnlyBetweenSubscriptions DeliveriesRecorded
PROPERTIES Resubscribes PingAnswered RefinesGrpcGeyser
