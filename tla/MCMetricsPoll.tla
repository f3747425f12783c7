---------------------------- MODULE MCMetricsPoll ----------------------------
EXTENDS MetricsPoll

MCSlot == 1..3
MCShardOf == [s \in MCSlot |-> IF s = 1 THEN 1 ELSE 2]
MCAll == <<"LegacyV0", "V1">>

\* A transaction of each version, and a vote.
MCTxns ==
  { [rate |-> 1, vote |-> FALSE, version |-> "LegacyV0", accounts |-> {}],
    [rate |-> 2, vote |-> FALSE, version |-> "V1", accounts |-> {}],
    [rate |-> 3, vote |-> TRUE, version |-> "LegacyV0", accounts |-> {}] }
=============================================================================
