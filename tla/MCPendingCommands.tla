-------------------------- MODULE MCPendingCommands --------------------------
EXTENDS PendingCommands, TLC

CONSTANTS l1, l2, c1

MCLocations1 == {l1}
MCLocations2 == {l1, l2}
MCCallers == {c1}
MCSymmetry == Permutations(MCLocations2)
=============================================================================
