--------------------------- MODULE MCLeaseElection ---------------------------
(* Small instances of LeaseElection for TLC. *)
EXTENDS LeaseElection, TLC

CONSTANTS r1, r2

Pair == {r1, r2}

PairSymmetry == Permutations(Pair)
=============================================================================
