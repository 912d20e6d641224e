--------------------------- MODULE MCSharedRuntime ---------------------------
EXTENDS SharedRuntime

CONSTANTS r1, r2

MCTwoBrokers == {1, 2}
=============================================================================
