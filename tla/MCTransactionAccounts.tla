------------------------ MODULE MCTransactionAccounts ------------------------
EXTENDS TransactionAccounts

CONSTANTS k1, k2, k3, t1, t2

Payer ==
  [writable_signers |-> <<k1>>, readonly_signers |-> <<>>, writable |-> <<>>, readonly |-> <<k2>>]
Approver ==
  [writable_signers |-> <<>>, readonly_signers |-> <<k1>>, writable |-> <<k2>>, readonly |-> <<>>]

From(t, writable, readonly) == [table |-> t, writable |-> writable, readonly |-> readonly]

\* No table, one, two, and one table twice.
MCMessages ==
  { [roles |-> Approver, lookups |-> None],
    [roles |-> Payer, lookups |-> <<>>],
    [roles |-> Payer, lookups |-> <<From(t1, {1}, {0})>>],
    [roles |-> Approver, lookups |-> <<From(t2, {1}, {}), From(t1, {0, 1}, {})>>],
    [roles |-> Payer, lookups |-> <<From(t1, {0}, {}), From(t1, {1}, {})>>] }
=============================================================================
