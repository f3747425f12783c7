---------------------------- MODULE MCFeeEstimate ---------------------------
EXTENDS FeeEstimate

CONSTANTS a1, a2

MCSlot == 1..3
MCShardOf == [s \in MCSlot |-> IF s = 1 THEN 1 ELSE 2]

Both == [rate |-> 2, vote |-> FALSE, version |-> "V1", accounts |-> {a1, a2}]
Vote == [rate |-> 3, vote |-> TRUE, version |-> "LegacyV0", accounts |-> {a2}]
MCTxns == {Both, Vote}

Ask(algorithm, accounts, vote, empty, lookback) ==
  [algorithm |-> algorithm, accounts |-> accounts, include_vote |-> vote,
   include_empty_slots |-> empty, lookback |-> lookback]

\* All slots, the newest with an account asked for twice, the two newest.
MCRequests ==
  { Ask("v2", <<a1, a2>>, FALSE, TRUE, NoLookback),
    Ask("v1", <<a2, a2>>, TRUE, TRUE, 1),
    Ask("v1", <<>>, FALSE, FALSE, 2) }
=============================================================================
