--------------------------- MODULE MCFleetReconcile ---------------------------
EXTENDS FleetReconcile, TLC

CONSTANTS a, b

Pair == {a, b}
PairSymmetry == Permutations(Pair)
MCVersions == 1..16
===============================================================================
