----------------------------- MODULE MCEstimator -----------------------------
EXTENDS Estimator

CONSTANTS a1, a2

MCSlot == 1..3
MCShardOf == [s \in MCSlot |-> IF s = 1 THEN 1 ELSE 2]

Plain == [rate |-> 1, vote |-> FALSE, version |-> "LegacyV0", accounts |-> {a1}]
Both == [rate |-> 2, vote |-> FALSE, version |-> "V1", accounts |-> {a1, a2}]
Vote == [rate |-> 5, vote |-> TRUE, version |-> "LegacyV0", accounts |-> {a2}]
MCTxns == {Plain, Both, Vote}

NoOptions ==
  [encoding |-> NoLookback, priority_level |-> NoLookback,
   include_all_priority_fee_levels |-> NoLookback, lookback_slots |-> NoLookback,
   include_vote |-> NoLookback, recommended |-> NoLookback,
   evaluate_empty_slot_as_zero |-> NoLookback, include_details |-> NoLookback]

ForKeys(keys, options) ==
  [transaction |-> NoLookback, account_keys |-> keys, options |-> options]

\* Everything counted, of a list with an account twice; the newest slot without
\* votes, with details; one that names nobody; one that asks the node, for the
\* recommended fee.
MCAsks ==
  { ForKeys(<<a1, a1, a2>>, [NoOptions EXCEPT !.include_vote = TRUE,
                             !.include_details = TRUE,
                             !.include_all_priority_fee_levels = TRUE]),
    ForKeys(<<a2, BadKey>>, [NoOptions EXCEPT !.lookback_slots = 1,
                             !.priority_level = "High", !.include_details = TRUE]),
    ForKeys(NoLookback, NoLookback),
    [ForKeys(NoLookback, [NoOptions EXCEPT !.recommended = TRUE])
       EXCEPT !.transaction = "valid"] }

MCFound == {<<>>, <<a2, a1>>}
=============================================================================
