-------------------------- MODULE CheckpointReplay --------------------------
(***************************************************************************)
(* LeaseContinuity with somebody else at the Lease: the checkpoint         *)
(* annotation is put back to an earlier value, alone (a replay) or         *)
(* together with its sequence floor (a Lease restored from a backup).      *)
(***************************************************************************)
EXTENDS LeaseContinuity

\* Writing the annotations gives the Lease a new version.  It counts as a
\* fault, which bounds how often it happens.
PutBack(i, floor) ==
  /\ Fails
  /\ commits[i].ckpt # lease.ckpt
  /\ lease' = [lease EXCEPT !.ckpt = commits[i].ckpt, !.floor = floor]
  /\ rvCurrent' = {}
  /\ UNCHANGED <<mem, call, commits, crashes>>

Replay(i) == PutBack(i, lease.floor)

Backup(i) == PutBack(i, commits[i].ckpt.seq)

ReplayNext ==
  \/ Next
  \/ \E i \in 1..Len(commits) : Replay(i) \/ Backup(i)

ReplaySpec == Init /\ [][ReplayNext]_vars

\* The annotation is put back, but the floor never.
AnnotationReplayNext ==
  \/ Next
  \/ \E i \in 1..Len(commits) : Replay(i)

AnnotationReplaySpec == Init /\ [][AnnotationReplayNext]_vars

-----------------------------------------------------------------------------
\* Within the life of a process, the sequence it works from never decreases,
\* even when the Lease itself went back: the sequence fence of
\* _save_epoch_state refuses every receipt that would.
SequenceNeverRegresses ==
  [][\A r \in Replica : mem[r].loaded /\ mem'[r].loaded
                          => mem'[r].seq >= mem[r].seq]_vars

\* A process never starts from a replayed checkpoint: what it loads is the last
\* checkpoint written, its pair and its sequence, or nothing where nothing was.
\* Only a floor that went back, too, and stays behind the checkpoints written
\* ever after, hides it.
RestoresTheLatest ==
  [][\A r \in Replica :
       LET latest == commits[Len(commits)].ckpt IN
       ~mem[r].loaded /\ mem'[r].loaded /\ lease.floor = Len(commits)
         => /\ mem'[r].seq = Len(commits)
            /\ Len(commits) > 0 => /\ (SettledBase(r))' = latest.base
                                   /\ (SettledCand(r))' = latest.cand]_vars

\* A replayed checkpoint is never the ground for another: while checkpoint and
\* floor disagree nothing is written, so the log stays free of forks.
NoWriteOverReplay ==
  [][commits' # commits => FloorSound]_vars
=============================================================================
