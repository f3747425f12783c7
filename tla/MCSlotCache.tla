---------------------------- MODULE MCSlotCache -----------------------------
EXTENDS SlotCache

CONSTANTS t1, t2, t3

MCSlot == 1..3
MCThreads == {t1, t2, t3}
=============================================================================
