------------------------- MODULE MCCheckpointReplay -------------------------
(* Small instances of CheckpointReplay for TLC. *)
EXTENDS CheckpointReplay

CONSTANTS r1, r2, a, b

Pair == {r1, r2}
Solo == {r1}

Both == {a, b}

Kept == {"annotated", "checkpoint", "stale"}
=============================================================================
