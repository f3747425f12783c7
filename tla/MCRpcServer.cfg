SPECIFICATION Spec
CONSTANTS
  k1 = k1
  k2 = k2
  Key = {k1, k2}
  BadKey = BadKey
  None = None
  MaxKeys = 2
  MaxLookbackSlots = 150
  Requests <- MCRequests
  Found <- MCFound
  HasClient = TRUE
  Estimates <- MCEstimates
  MinRecommendedFee = 10
INVARIANTS TypeOK CalculationServable AnswersAsAsked
