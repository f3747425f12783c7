---------------------------- MODULE MCPercentiles ---------------------------
EXTENDS Percentiles

MCFee == {0, 1, 4}

\* 14 is the first length at which the 95th percentile is not the maximum.
MCMaxFees == [k \in DataType |-> IF k = "Global" THEN 15 ELSE 6]
=============================================================================
