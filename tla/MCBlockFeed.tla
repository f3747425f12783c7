----------------------------- MODULE MCBlockFeed -----------------------------
EXTENDS BlockFeed

Fee(rate) == [rate |-> rate, vote |-> FALSE, version |-> "V1", accounts |-> {}]

MCTxns == {Fee(1), Fee(2), Fee(NoRate)}

\* A late block after a newer one, the first one again, and an empty block.
First == <<Fee(1), Fee(NoRate), Fee(2)>>
Late == <<Fee(NoRate), Fee(1)>>
MCSlotOf == <<2, 1, 2, 3>>
MCContent == <<First, Late, First, <<>>>>
=============================================================================
