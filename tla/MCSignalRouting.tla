--------------------------- MODULE MCSignalRouting ---------------------------
EXTENDS SignalRouting, TLC

Symmetry == Permutations(Engines \ Managers)
=============================================================================
