SPECIFICATION Spec
CONSTANTS
  k1 = k1
  k2 = k2
  k3 = k3
  t1 = t1
  t2 = t2
  Key = {k1, k2, k3}
  Table = {t1, t2}
  None = None
  MaxTransactionSize = 4
  WireSizes = {3, 4, 5, 7}
  MaxAddresses = 2
  Messages <- MCMessages
INVARIANTS SizeGate NothingInvented OwnFeesCounted
