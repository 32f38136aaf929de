------------------------- MODULE MCExecutionCredit -------------------------
\* Three threads of the two processes sharing two permits.
EXTENDS ExecutionCredit, TLC

CONSTANTS parent, child1, child2

MCCallers == {parent, child1, child2}
MCSymmetry == Permutations(MCCallers)
=============================================================================
