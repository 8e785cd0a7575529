------------------------- MODULE MCLeaseContinuity --------------------------
(* Small instances of LeaseContinuity for TLC. *)
EXTENDS LeaseContinuity, TLC

CONSTANTS r1, r2, a, b

Pair == {r1, r2}
Solo == {r1}

Both == {a, b}
OnlyB == {b}

Absent == {"absent"}
Kept == {"annotated", "checkpoint", "stale"}

\* Replicas are identical, and so are identities: the code compares two for equality.
FullSymmetry == Permutations(Pair) \cup Permutations(Both)
=============================================================================
