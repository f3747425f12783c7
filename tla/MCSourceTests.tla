---------------------------- MODULE MCSourceTests ----------------------------
EXTENDS SourceTests

MCSlot == 0..110
MCShardOf == [s \in MCSlot |-> 1]
MCTxns == UNION {{p.txn : p \in Range(Tests[i].pushes)} : i \in DOMAIN Tests}
MCAsks == UNION {{c.what : c \in Tests[i].calls} : i \in 16..19}  \* the server's
=============================================================================
