SPECIFICATION Spec
CONSTANTS
  DataType = {"Global", "Account"}
  Fee <- MCFee
  MaxFee = 4
  MaxFees <- MCMaxFees
INVARIANTS LevelsOrdered OutbidsItsShare NotOverpriced
PROPERTY ZerosNeverRaise
