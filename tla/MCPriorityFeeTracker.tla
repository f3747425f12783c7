------------------------ MODULE MCPriorityFeeTracker ------------------------
EXTENDS PriorityFeeTracker

CONSTANTS a1, a2

MCSlot == 1..3

\* A plain transaction, one on both accounts in the other format, a vote, and
\* one that is skipped.
MCTxns ==
  { [rate |-> 1, vote |-> FALSE, version |-> "LegacyV0", accounts |-> {a1}],
    [rate |-> 2, vote |-> FALSE, version |-> "V1", accounts |-> {a1, a2}],
    [rate |-> 3, vote |-> TRUE, version |-> "LegacyV0", accounts |-> {a2}],
    [rate |-> NoRate, vote |-> FALSE, version |-> "V1", accounts |-> {a1}] }
=============================================================================
