--------------------------- MODULE MCLocalOverlay ---------------------------
EXTENDS LocalOverlay, TLC

CONSTANTS r1, m1, m2, m3, p1, p2

MCReaders == {r1}
MCMakers == {m1, m2, m3}
MCMakers2 == {m1, m2}
MCSources == {p1, p2}

Symmetric == Permutations(MCMakers) \cup Permutations(MCSources)
=============================================================================
