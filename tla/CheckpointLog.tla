--------------------------- MODULE CheckpointLog ----------------------------
(***************************************************************************)
(* What the replicas together promise about the NVIDIA continuity          *)
(* checkpoint: an append-only log.  Every entry takes the next sequence,   *)
(* the transitions of the entries never decrease, and all the entries of   *)
(* one transition are written by one replica.  LeaseContinuity keeps only  *)
(* the last entry, in annotations of the Lease, and implements this log by *)
(* compare-and-swap on the Lease's resourceVersion.                        *)
(***************************************************************************)
EXTENDS Naturals, Sequences

CONSTANTS Writer,   \* the replicas, and whoever wrote before them
          Content   \* what a checkpoint records: baseline and candidate

VARIABLE log

Entry == [content: Content, epoch: Nat, seq: Nat, by: Writer]

\* The checkpoint that the replicas inherit, if any, is the first entry.
Init ==
  \/ Len(log) = 0
  \/ Len(log) = 1 /\ log[1] \in Entry /\ log[1].seq = 1

\* An entry may follow the log as it stands: it has the next sequence, and is
\* of a later epoch or by the writer of the last entry.
Follows(new) ==
  /\ new \in Entry
  /\ new.seq = Len(log) + 1
  /\ Len(log) > 0 => LET last == log[Len(log)]
                     IN \/ new.epoch > last.epoch
                        \/ new.epoch = last.epoch /\ new.by = last.by

Commit ==
  /\ Len(log') = Len(log) + 1
  /\ \A i \in 1..Len(log) : log'[i] = log[i]
  /\ Follows(log'[Len(log')])

Spec == Init /\ [][Commit]_log
=============================================================================
