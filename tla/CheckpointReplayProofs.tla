----------------------- MODULE CheckpointReplayProofs -----------------------
(***************************************************************************)
(* What is left of the safety of LeaseContinuity when somebody puts back   *)
(* the checkpoint annotation, or the whole Lease, for any number of        *)
(* replicas and as often as they like.                                     *)
(***************************************************************************)
EXTENDS CheckpointReplay, LeaseContinuityProofs

\* The sequences are dense up to a backup; from then on they are behind, and
\* the floor with them.
FloorFollows ==
  /\ lease.floor <= Len(commits)
  /\ lease.floor = Len(commits) => SequenceIsDense
  /\ \A i \in 1..Len(commits) :
       /\ commits[i].ckpt.seq \in 1..i
       /\ commits[i].ckpt.seq = i => \A j \in 1..i : commits[j].ckpt.seq = j

\* The Lease carries one of the checkpoints that were written.
LeaseFromHistory ==
  /\ lease.ckpt = NoCheckpoint => lease.floor = 0 /\ Len(commits) = 0
  /\ lease.ckpt # NoCheckpoint
       => \E i \in 1..Len(commits) : lease.ckpt = commits[i].ckpt

\* A PATCH the server would accept was preceded by a GET that found checkpoint
\* and floor in agreement, and they still are.
WritesAreFounded == \A r \in rvCurrent : At(r, "write") => FloorSound

ReplayInv ==
  /\ TypeOK
  /\ EpochHasOneWriter /\ EpochsFollowLease /\ AbsentIsEmpty
  /\ RequestsAreCurrent /\ WritesAreFounded
  /\ PhasesAreSound /\ AllSettled
  /\ FloorFollows /\ LeaseFromHistory

-----------------------------------------------------------------------------
\* The invariant.

\* What the history says of the Lease, the memory of a replica may rely on.
LEMMA HistoryRecords ==
  ASSUME TypeOK, FloorFollows, LeaseFromHistory
  PROVE  LeaseRecords
<1>1. CASE lease.ckpt = NoCheckpoint
  BY <1>1 DEF LeaseFromHistory, LeaseRecords, Recorded, NoCheckpoint
<1>2. CASE lease.ckpt # NoCheckpoint
  <2>1. PICK i \in 1..Len(commits) : lease.ckpt = commits[i].ckpt
    BY <1>2 DEF LeaseFromHistory
  <2>2. lease.ckpt.seq > 0
    <3>1. commits[i].ckpt.seq \in 1..i /\ i \in Nat
      BY DEF FloorFollows
    <3> QED BY <2>1, <3>1
  <2> QED BY <1>2, <2>1, <2>2 DEF LeaseRecords, Recorded
<1> QED BY <1>1, <1>2

\* It holds before anything was put back.
LEMMA ReplayInit == Init => ReplayInv
<1> SUFFICES ASSUME Init PROVE ReplayInv
  OBVIOUS
<1>1. Inv /\ TypeOK /\ LogInv
  BY InvInit, StartLog
<1>2. /\ EpochHasOneWriter /\ EpochsFollowLease /\ RequestsAreCurrent
      /\ PhasesAreSound /\ SequenceIsDense /\ MemoryIsCommitted
  BY <1>1 DEF Inv
<1>3. AllSettled
  BY <1>1, <1>2, SettledByReplica
<1>4. AbsentIsEmpty /\ WritesAreFounded
  BY <1>1 DEF LogInv, LeaseCarriesLastCommit, AbsentIsEmpty, WritesAreFounded, Init
<1>5. Len(commits) \in Nat /\ lease.floor = Len(commits)
  BY <1>1 DEF TypeOK, LogInv, LeaseCarriesLastCommit
<1>6. FloorFollows
  BY <1>2, <1>5 DEF FloorFollows, SequenceIsDense
<1>7. LeaseFromHistory
  <2>1. CASE lease.floor = 0
    BY <1>1, <1>5, <2>1 DEF LogInv, LeaseCarriesLastCommit, LeaseFromHistory
  <2>2. CASE lease.floor # 0
    <3>1. /\ lease.floor \in 1..Len(commits)
          /\ lease.ckpt = commits[lease.floor].ckpt
          /\ lease.ckpt.seq = lease.floor
      BY <1>1, <1>2, <1>5, <2>2 DEF LogInv, LeaseCarriesLastCommit, SequenceIsDense
    <3>2. lease.ckpt # NoCheckpoint
      BY <2>2, <3>1 DEF NoCheckpoint
    <3> QED BY <3>1, <3>2 DEF LeaseFromHistory
  <2> QED BY <2>1, <2>2
<1> QED BY <1>1, <1>2, <1>3, <1>4, <1>6, <1>7 DEF ReplayInv

\* A checkpoint that is written takes the sequence after the floor, which is
\* the next one only while the floor has never gone back.
LEMMA FloorStep ==
  ASSUME TypeOK, RequestsAreCurrent, FloorFollows, LeaseFromHistory,
         NEW r \in Replica, Step(r)
  PROVE  FloorFollows' /\ LeaseFromHistory'
<1> DEFINE n == Len(commits)
<1>1. n \in Nat /\ lease \in Lease /\ lease.floor \in Nat /\ commits \in Seq(Commit)
  BY DEF TypeOK, Lease
<1>2. CASE UNCHANGED <<lease, commits>>
  BY <1>2 DEF FloorFollows, LeaseFromHistory, SequenceIsDense
<1>3. CASE Claims(r) /\ UNCHANGED commits
  <2>1. lease'.floor = lease.floor /\ lease'.ckpt = lease.ckpt
    BY <1>1, <1>3 DEF Claims, Lease
  <2> QED BY <1>3, <2>1 DEF FloorFollows, LeaseFromHistory, SequenceIsDense
<1>4. CASE Commits(r) /\ At(r, "write")
  <2> DEFINE new == [ckpt |-> Written(r), by |-> r]
  <2>1. call[r].floor = lease.floor
    BY <1>4 DEF Commits, RequestsAreCurrent
  <2>2. lease'.floor = lease.floor + 1 /\ lease'.ckpt = Written(r)
    BY <1>1, <1>4, <2>1 DEF Commits, Lease
  <2>3. Written(r).seq = lease.floor + 1
    BY <2>1 DEF Written
  <2>4. new \in Commit
    BY <1>4, CommitsTypes DEF Commit
  <2>5. /\ Len(commits') = n + 1 /\ commits'[n + 1] = new
        /\ \A i \in 1..n : commits'[i] = commits[i]
    BY <1>1, <1>4, <2>4, Appended DEF Commits
  <2>6. commits'[n + 1].ckpt = Written(r)
    BY <2>5
  <2>7. lease.floor <= n /\ (lease.floor = n => \A i \in 1..n : commits[i].ckpt.seq = i)
    BY DEF FloorFollows, SequenceIsDense
  <2>8. lease.floor = n => \A i \in 1..n+1 : commits'[i].ckpt.seq = i
    BY <1>1, <2>3, <2>5, <2>6, <2>7
  <2>9. FloorFollows'
    <3>1. ASSUME NEW i \in 1..n+1
          PROVE  /\ commits'[i].ckpt.seq \in 1..i
                 /\ commits'[i].ckpt.seq = i => \A j \in 1..i : commits'[j].ckpt.seq = j
      <4>1. CASE i = n + 1
        BY <1>1, <2>3, <2>6, <2>7, <2>8, <4>1
      <4>2. CASE i # n + 1
        <5>1. i \in 1..n /\ \A j \in 1..i : j \in 1..n
          BY <1>1, <4>2
        <5> QED BY <2>5, <5>1 DEF FloorFollows
      <4> QED BY <4>1, <4>2
    <3>2. lease'.floor <= n + 1 /\ (lease'.floor = n + 1 => SequenceIsDense')
      BY <1>1, <2>2, <2>5, <2>7, <2>8 DEF SequenceIsDense
    <3> QED BY <2>5, <3>1, <3>2 DEF FloorFollows
  <2>10. LeaseFromHistory'
    <3>1. lease'.ckpt # NoCheckpoint
      BY <1>1, <2>2, <2>3 DEF NoCheckpoint
    <3>2. n + 1 \in 1..Len(commits') /\ lease'.ckpt = commits'[n + 1].ckpt
      BY <1>1, <2>2, <2>5, <2>6
    <3> QED BY <3>1, <3>2 DEF LeaseFromHistory
  <2> QED BY <2>9, <2>10
<1> QED BY <1>2, <1>3, <1>4, LeaseOutcomes

\* Only _verified_write makes a PATCH ready, having compared checkpoint and
\* floor, and any write of the Lease takes all others out of date.
LEMMA FoundedStep ==
  ASSUME TypeOK, WritesAreFounded, NEW r \in Replica, Step(r)
  PROVE  WritesAreFounded'
<1>1. call \in [Replica -> Call] /\ rvCurrent \subseteq Replica
  BY DEF TypeOK
<1>2. CASE Claims(r) \/ Commits(r)
  BY <1>2 DEF Claims, Commits, WritesAreFounded
<1> SUFFICES ASSUME UNCHANGED lease, NEW q \in rvCurrent', call'[q].pc = "write"
             PROVE  FloorSound
  BY <1>2, RequestOutcomes DEF WritesAreFounded, At, FloorSound, Electable, Read
<1>3. CASE Electable(r)
  <2>1. call'[r].pc = "claim" /\ rvCurrent' = rvCurrent \cup {r}
    BY <1>1, <1>3 DEF Electable, Call
  <2>2. q # r /\ q \in rvCurrent /\ call'[q] = call[q]
    BY <1>1, <2>1, Frame
  <2> QED BY <2>2 DEF WritesAreFounded, At
<1>4. CASE Read(r) /\ ~SaveFails(r)
  BY <1>4 DEF Read
<1>5. CASE /\ UNCHANGED <<lease, rvCurrent>>
           /\ call'[r] = call[r] \/ call'[r].pc \notin {"claim", "write"}
  <2>1. q \in rvCurrent /\ call'[q] = call[q]
    BY <1>1, <1>5, Frame
  <2> QED BY <2>1 DEF WritesAreFounded, At
<1> QED BY <1>2, <1>3, <1>4, <1>5, RequestOutcomes DEF Claims, Commits, WritesAreFounded

\* To put the annotation back takes every request out of date, and no floor
\* that is put back reaches the history again.
LEMMA PutBackStep ==
  ASSUME ReplayInv, NEW i \in 1..Len(commits), NEW floor, PutBack(i, floor),
         floor \in {lease.floor, commits[i].ckpt.seq}
  PROVE  ReplayInv'
<1> DEFINE n == Len(commits)
<1>1. /\ n \in Nat /\ i \in 1..n /\ lease \in Lease /\ lease.floor \in Nat
      /\ commits \in Seq(Commit) /\ faults \in 0..MaxFaults
  BY DEF ReplayInv, TypeOK, Lease
<1>2. /\ commits[i] \in Commit /\ commits[i].ckpt \in Checkpoint
      /\ commits[i].ckpt.seq \in 1..i
  <2>1. commits[i] \in Commit
    BY <1>1
  <2> QED BY <2>1 DEF Commit, ReplayInv, FloorFollows
<1>3. floor \in Nat
  BY <1>1, <1>2
<1>4. /\ UNCHANGED <<mem, call, commits, crashes>> /\ rvCurrent' = {}
      /\ faults' \in 0..MaxFaults
      /\ lease' = [lease EXCEPT !.ckpt = commits[i].ckpt, !.floor = floor]
  BY <1>1, BoundsAssumption DEF PutBack, Fails
<1>5. /\ lease' \in Lease /\ lease'.ckpt = commits[i].ckpt /\ lease'.floor = floor
      /\ lease'.exists = lease.exists /\ lease'.holder = lease.holder
      /\ lease'.trans = lease.trans
  BY <1>1, <1>2, <1>3, <1>4 DEF Lease
<1>6. TypeOK'
  BY <1>4, <1>5 DEF ReplayInv, TypeOK
<1>7. EpochHasOneWriter' /\ EpochsFollowLease' /\ AbsentIsEmpty'
  BY <1>4, <1>5 DEF ReplayInv, EpochHasOneWriter, EpochsFollowLease, AbsentIsEmpty
<1>8. RequestsAreCurrent' /\ WritesAreFounded'
  BY <1>4 DEF RequestsAreCurrent, WritesAreFounded
<1>9. PhasesAreSound' /\ AllSettled'
  BY <1>4 DEF ReplayInv, PhasesAreSound, At, Saving, AllSettled, Settled, Recorded
<1>10. FloorFollows'
  <2>1. floor <= n /\ (floor = n => SequenceIsDense)
    <3>1. CASE floor = lease.floor
      BY <3>1 DEF ReplayInv, FloorFollows
    <3>2. CASE floor = commits[i].ckpt.seq
      <4>1. floor \in 1..i /\ (floor = i => \A j \in 1..i : commits[j].ckpt.seq = j)
        BY <1>2, <3>2 DEF ReplayInv, FloorFollows
      <4>2. floor <= n /\ (floor = n => i = n)
        BY <1>1, <4>1
      <4> QED BY <4>1, <4>2 DEF SequenceIsDense
    <3> QED BY <3>1, <3>2
  <2> QED BY <1>4, <1>5, <2>1 DEF ReplayInv, FloorFollows, SequenceIsDense
<1>11. LeaseFromHistory'
  <2>1. commits[i].ckpt # NoCheckpoint
    BY <1>1, <1>2 DEF NoCheckpoint
  <2> QED BY <1>1, <1>4, <1>5, <2>1 DEF LeaseFromHistory
<1> QED BY <1>6, <1>7, <1>8, <1>9, <1>10, <1>11 DEF ReplayInv

\* A step is one of the replicas, an edit, or one that puts the Lease back.
LEMMA ReplayNextIs ==
  ReplayNext <=>
    \/ \E r \in Replica : Step(r)
    \/ Edit
    \/ \E i \in 1..Len(commits) :
         PutBack(i, lease.floor) \/ PutBack(i, commits[i].ckpt.seq)
BY NextIsStep DEF ReplayNext, Replay, Backup

\* The invariant is inductive.
LEMMA ReplayInvStep == ReplayInv /\ [ReplayNext]_vars => ReplayInv'
<1> SUFFICES ASSUME ReplayInv, [ReplayNext]_vars PROVE ReplayInv'
  OBVIOUS
<1>1. CASE UNCHANGED vars
  BY <1>1 DEF ReplayInv, vars, TypeOK, EpochHasOneWriter, EpochsFollowLease,
     AbsentIsEmpty, RequestsAreCurrent, WritesAreFounded, FloorSound, PhasesAreSound,
     At, Saving, AllSettled, Settled, Recorded, FloorFollows, SequenceIsDense,
     LeaseFromHistory
<1>2. CASE Edit
  <2>1. /\ UNCHANGED <<mem, call, commits>> /\ rvCurrent' = {}
        /\ lease'.exists = lease.exists /\ lease'.holder = lease.holder
        /\ lease'.trans = lease.trans /\ lease'.ckpt = lease.ckpt
        /\ lease'.floor = lease.floor
    BY <1>2 DEF Edit, ReplayInv, TypeOK, Lease
  <2>2. TypeOK'
    BY <1>2, EditType DEF ReplayInv
  <2>3. EpochHasOneWriter' /\ EpochsFollowLease' /\ AbsentIsEmpty'
    BY <2>1 DEF ReplayInv, EpochHasOneWriter, EpochsFollowLease, AbsentIsEmpty
  <2>4. RequestsAreCurrent' /\ WritesAreFounded'
    BY <2>1 DEF RequestsAreCurrent, WritesAreFounded
  <2>5. PhasesAreSound' /\ AllSettled'
    BY <2>1 DEF ReplayInv, PhasesAreSound, At, Saving, AllSettled, Settled, Recorded
  <2>6. FloorFollows' /\ LeaseFromHistory'
    BY <2>1 DEF ReplayInv, FloorFollows, LeaseFromHistory, SequenceIsDense
  <2> QED BY <2>2, <2>3, <2>4, <2>5, <2>6 DEF ReplayInv
<1>3. CASE \E r \in Replica : Step(r)
  <2>1. PICK r \in Replica : Step(r)
    BY <1>3
  <2>2. LeaseRecords
    BY HistoryRecords DEF ReplayInv
  <2>3. TypeOK'
    BY <2>1, NextIsStep, TypeStep DEF ReplayInv
  <2>4. EpochHasOneWriter' /\ EpochsFollowLease' /\ AbsentIsEmpty'
    BY <2>1, EpochStep DEF ReplayInv
  <2>5. RequestsAreCurrent' /\ WritesAreFounded'
    BY <2>1, RequestStep, FoundedStep DEF ReplayInv
  <2>6. PhasesAreSound'
    BY <2>1, <2>2, PhaseStep, Frame, PhasesByReplica DEF ReplayInv
  <2>7. AllSettled'
    BY <2>1, <2>2, <2>3, SettledStep DEF ReplayInv
  <2>8. FloorFollows' /\ LeaseFromHistory'
    BY <2>1, FloorStep DEF ReplayInv
  <2> QED BY <2>3, <2>4, <2>5, <2>6, <2>7, <2>8 DEF ReplayInv
<1>4. CASE \E i \in 1..Len(commits) :
             PutBack(i, lease.floor) \/ PutBack(i, commits[i].ckpt.seq)
  BY <1>4, PutBackStep
<1> QED BY <1>1, <1>2, <1>3, <1>4, ReplayNextIs

\* The invariant of every deployment whose Lease somebody puts back.
LEMMA ReplaySafety == ReplaySpec => []ReplayInv
BY ReplayInit, ReplayInvStep, PTL DEF ReplaySpec

-----------------------------------------------------------------------------
\* What a step does to the sequence a replica works from.

\* Memory n is that of m as far as the sequence goes, or further.
Advances(n, m) == n.loaded = m.loaded /\ n.seq >= m.seq

\* A rollback leaves the sequence a process works from as it is.
LEMMA RollbackKeepsSequence ==
  ASSUME TypeOK, NEW r \in Replica, NEW leads, Rollback(r, leads)
  PROVE  Advances(mem'[r], mem[r])
<1>1. mem[r] \in Memory /\ mem[r].seq \in Nat
  BY DEF TypeOK, Memory
<1>2. mem'[r].loaded = mem[r].loaded /\ mem'[r].seq = mem[r].seq
  BY <1>1 DEF Rollback, TypeOK, Memory
<1> QED BY <1>1, <1>2 DEF Advances

\* The fence of _save_epoch_state.
LEMMA ReceiptAdvances ==
  ASSUME TypeOK, NEW r \in Replica, NEW epoch \in Nat, NEW seq \in Nat, NEW idempotent,
         Receipt(r, epoch, seq, idempotent)
  PROVE  Advances(mem'[r], mem[r])
<1>1. mem[r] \in Memory /\ mem[r].seq \in Nat
  BY DEF TypeOK, Memory
<1>2. CASE SaveFails(r)
  BY <1>2, RollbackKeepsSequence DEF SaveFails
<1>3. CASE ~SaveFails(r)
  <2>1. /\ ~Fenced(r, epoch, seq, idempotent)
        /\ mem' = [mem EXCEPT ![r].epoch = epoch, ![r].seq = seq,
                     ![r].stale = IF call[r].accept THEN FALSE ELSE mem[r].stale]
    BY <1>3 DEF Receipt
  <2>2. mem'[r].loaded = mem[r].loaded /\ mem'[r].seq = seq
    BY <1>1, <2>1 DEF TypeOK, Memory
  <2>3. ~(seq < mem[r].seq)
    BY <2>1 DEF Fenced
  <2> QED BY <1>1, <2>2, <2>3 DEF Advances
<1> QED BY <1>2, <1>3

\* A step loads, forgets with a crash, or advances.
LEMMA SequenceStep ==
  ASSUME TypeOK, NEW r \in Replica, Step(r)
  PROVE  \/ \E id \in Observable : Check(r, id)
         \/ ~mem'[r].loaded
         \/ Advances(mem'[r], mem[r])
<1>1. /\ mem[r] \in Memory /\ mem[r].seq \in Nat
      /\ lease.trans \in Nat /\ lease.ckpt.seq \in Nat
      /\ call[r].trans \in Nat /\ call[r].floor + 1 \in Nat
  <2>1. mem[r] \in Memory /\ call[r] \in Call /\ lease \in Lease
    BY DEF TypeOK
  <2>2. mem[r].seq \in Nat
    BY <2>1 DEF Memory
  <2>3. call[r].trans \in Nat /\ call[r].floor \in Nat
    BY <2>1 DEF Call
  <2>4. lease.trans \in Nat /\ lease.ckpt \in Checkpoint
    BY <2>1 DEF Lease
  <2>5. lease.ckpt.seq \in Nat
    BY <2>4 DEF Checkpoint
  <2> QED BY <2>1, <2>2, <2>3, <2>4, <2>5
<1>2. mem'[r] = mem[r] => Advances(mem'[r], mem[r])
  BY <1>1 DEF Advances
<1>3. \/ mem' = [mem EXCEPT ![r].leader = TRUE]
      \/ mem' = [mem EXCEPT ![r].leader = FALSE]
      \/ mem' = [mem EXCEPT ![r].fresh = TRUE]
      \/ mem' = [mem EXCEPT ![r].fresh = FALSE]
      \/ mem' = [mem EXCEPT ![r].leader = FALSE, ![r].fresh = FALSE]
      \/ mem' = [mem EXCEPT ![r].fresh = FALSE, ![r].leader = FALSE]
      \/ mem' = [mem EXCEPT ![r].ok = FALSE, ![r].fresh = FALSE]
      => Advances(mem'[r], mem[r])
  <2> DEFINE m == mem[r]
             outcomes == {[m EXCEPT !.leader = TRUE], [m EXCEPT !.leader = FALSE],
                          [m EXCEPT !.fresh = TRUE], [m EXCEPT !.fresh = FALSE],
                          [m EXCEPT !.leader = FALSE, !.fresh = FALSE],
                          [m EXCEPT !.fresh = FALSE, !.leader = FALSE],
                          [m EXCEPT !.ok = FALSE, !.fresh = FALSE]}
  <2>1. \A n \in outcomes : n.loaded = m.loaded /\ n.seq = m.seq
    BY <1>1 DEF Memory
  <2>2. \A n : n.loaded = m.loaded /\ n.seq = m.seq => Advances(n, m)
    <3>1. m.seq >= m.seq
      BY <1>1
    <3> QED BY <3>1 DEF Advances
  <2>3. /\ mem' = [mem EXCEPT ![r].leader = TRUE] => mem'[r] \in outcomes
        /\ mem' = [mem EXCEPT ![r].leader = FALSE] => mem'[r] \in outcomes
        /\ mem' = [mem EXCEPT ![r].fresh = TRUE] => mem'[r] \in outcomes
        /\ mem' = [mem EXCEPT ![r].fresh = FALSE] => mem'[r] \in outcomes
        /\ mem' = [mem EXCEPT ![r].leader = FALSE, ![r].fresh = FALSE] => mem'[r] \in outcomes
        /\ mem' = [mem EXCEPT ![r].fresh = FALSE, ![r].leader = FALSE] => mem'[r] \in outcomes
        /\ mem' = [mem EXCEPT ![r].ok = FALSE, ![r].fresh = FALSE] => mem'[r] \in outcomes
    BY DEF TypeOK
  <2> HIDE DEF outcomes
  <2> QED BY <2>1, <2>2, <2>3
<1>4. CASE Gate(r)
  BY <1>3, <1>4 DEF Gate, CheckFails, ReplayDetected, Abandon
<1>5. CASE Election(r)
  <2>1. NotElected(r) => Advances(mem'[r], mem[r])
    BY <1>3, RollbackKeepsSequence DEF NotElected
  <2> QED BY <1>2, <1>3, <1>5, <2>1 DEF Election, Electable, Standby, ElectFails, Claim,
      Elected, ClaimConflicts, ClaimUnknown
<1>6. CASE Save(r)
  <2>1. SaveFails(r) => Advances(mem'[r], mem[r])
    BY RollbackKeepsSequence DEF SaveFails
  <2>2. /\ Receipt(r, lease.trans, lease.ckpt.seq, TRUE) => Advances(mem'[r], mem[r])
        /\ Receipt(r, call[r].trans, call[r].floor + 1, FALSE) => Advances(mem'[r], mem[r])
    BY <1>1, ReceiptAdvances
  <2> QED BY <1>2, <1>6, <2>1, <2>2 DEF Save, Match, Read, Write, WriteConflicts,
      WriteUnknown, WriteFails, Readback, ReadbackUnknown, Reconcile, SaveGetFails
<1>7. CASE Serve(r)
  BY <1>2, <1>3, <1>7 DEF Serve, ListSettles, ListDefers, ApiLost, WatchEvent,
     WatchEnds, LeadershipAges
<1>8. CASE Crash(r)
  BY <1>8 DEF Crash, TypeOK, Boot
<1> QED BY <1>4, <1>5, <1>6, <1>7, <1>8 DEF Step

\* The gate keeps the sequence, and the pair it may have to fall back to.
LEMMA CheckKeeps ==
  ASSUME TypeOK, NEW r \in Replica, NEW id \in Observable, Check(r, id)
  PROVE  LET m == Loaded(r) IN
         /\ m \in Memory
         /\ mem'[r].loaded = m.loaded /\ mem'[r].seq = m.seq
         /\ (SettledBase(r))' = m.base /\ (SettledCand(r))' = m.cand
<1> DEFINE m == Loaded(r)
           save == NeedsSave(m.base, m.cand, m.stale, id)
<1>1. m \in Memory
  BY LoadedType
<1>2. mem'[r] = Judged(m, id) /\ call'[r] = Judgement(m, id)
  BY DEF Check, TypeOK
<1> HIDE DEF m
<1>3. /\ mem'[r].loaded = m.loaded /\ mem'[r].seq = m.seq
      /\ mem'[r].base = NextBase(m.base, m.cand, m.stale, id)
      /\ mem'[r].cand = NextCand(m.base, m.cand, m.stale, id)
  BY <1>1, <1>2 DEF Judged, Memory
<1>4. CASE save
  <2>1. call'[r].why = "save" /\ call'[r].base = m.base /\ call'[r].cand = m.cand
    BY <1>2, <1>4 DEF Judgement
  <2> QED BY <1>1, <1>3, <2>1 DEF SettledBase, SettledCand, Saving, m
<1>5. CASE ~save
  <2>1. call'[r].why = "list"
    BY <1>2, <1>5 DEF Judgement
  <2>2. mem'[r].base = m.base /\ mem'[r].cand = m.cand
    BY <1>3, <1>5 DEF NeedsSave
  <2> QED BY <1>1, <1>3, <2>1, <2>2 DEF SettledBase, SettledCand, Saving, m
<1> QED BY <1>4, <1>5

\* What a process loads while the floor counts the checkpoints is the last one.
LEMMA LoadsTheLatest ==
  ASSUME ReplayInv, NEW r \in Replica, ~mem[r].loaded, CheckpointSound,
         lease.floor = Len(commits)
  PROVE  LET m == Loaded(r)
             latest == commits[Len(commits)].ckpt
         IN /\ m.seq = Len(commits)
            /\ Len(commits) > 0 => m.base = latest.base /\ m.cand = latest.cand
<1>1. mem[r] \in Memory /\ Len(commits) \in Nat
  BY DEF ReplayInv, TypeOK
<1>2. /\ Loaded(r).base = lease.ckpt.base /\ Loaded(r).cand = lease.ckpt.cand
      /\ Loaded(r).seq = IF lease.ckpt = NoCheckpoint THEN lease.floor ELSE lease.ckpt.seq
  BY <1>1 DEF Loaded, Restored, Memory
<1>3. CASE lease.ckpt = NoCheckpoint
  BY <1>1, <1>2, <1>3 DEF ReplayInv, LeaseFromHistory
<1>4. CASE lease.ckpt # NoCheckpoint
  <2>1. PICK i \in 1..Len(commits) : lease.ckpt = commits[i].ckpt
    BY <1>4 DEF ReplayInv, LeaseFromHistory
  <2>2. lease.ckpt.seq = Len(commits) /\ commits[i].ckpt.seq = i
    BY <1>4 DEF CheckpointSound, ReplayInv, FloorFollows, SequenceIsDense
  <2> QED BY <1>2, <1>4, <2>1, <2>2
<1> QED BY <1>3, <1>4

-----------------------------------------------------------------------------
\* The theorems.

\* Whatever is put back, the replicas that lead in turn keep their transitions
\* apart: takeovers count leaseTransitions, which no checkpoint carries.
THEOREM OneWriterDespiteReplay == ReplaySpec => []EpochHasOneWriter
<1>1. ReplayInv => EpochHasOneWriter
  BY DEF ReplayInv
<1> QED BY <1>1, ReplaySafety, PTL

\* No checkpoint is written while the Lease's checkpoint disagrees with its
\* floor (_verified_write compares them in the GET its PATCH is bound to).
THEOREM NoFork == ReplaySpec => NoWriteOverReplay
<1>1. ReplayInv /\ [ReplayNext]_vars => [commits' # commits => FloorSound]_vars
  <2> SUFFICES ASSUME ReplayInv, ReplayNext, commits' # commits PROVE FloorSound
    BY DEF vars
  <2>1. PICK r \in Replica : Commits(r) /\ At(r, "write")
    BY ReplayNextIs, LeaseOutcomes DEF Edit, PutBack
  <2> QED BY <2>1 DEF Commits, ReplayInv, WritesAreFounded
<1> QED BY <1>1, ReplaySafety, PTL DEF ReplaySpec, NoWriteOverReplay

\* Within the life of a process the sequence it works from never decreases, a
\* Lease that went back notwithstanding.
THEOREM FencedSequence == ReplaySpec => SequenceNeverRegresses
<1>1. ReplayInv /\ [ReplayNext]_vars
      => [\A r \in Replica : mem[r].loaded /\ mem'[r].loaded
                               => mem'[r].seq >= mem[r].seq]_vars
  <2> SUFFICES ASSUME ReplayInv, ReplayNext, NEW r \in Replica,
                      mem[r].loaded, mem'[r].loaded
               PROVE  mem'[r].seq >= mem[r].seq
    OBVIOUS
  <2>1. TypeOK /\ mem[r].seq \in Nat
    BY DEF ReplayInv, TypeOK, Memory
  <2>2. CASE UNCHANGED mem
    BY <2>1, <2>2
  <2>3. CASE \E q \in Replica : Step(q)
    <3>1. PICK q \in Replica : Step(q)
      BY <2>3
    <3>2. CASE q # r
      BY <2>1, <3>1, <3>2, Frame
    <3>3. CASE \E id \in Observable : Check(r, id)
      <4>1. mem'[r].seq = Loaded(r).seq
        BY <2>1, <3>3, CheckKeeps
      <4> QED BY <2>1, <4>1 DEF Loaded
    <3>4. CASE Advances(mem'[r], mem[r])
      BY <3>4 DEF Advances
    <3> QED BY <2>1, <3>1, <3>2, <3>3, <3>4, SequenceStep
  <2> QED BY <2>2, <2>3, ReplayNextIs DEF Edit, PutBack
<1> QED BY <1>1, ReplaySafety, PTL DEF ReplaySpec, SequenceNeverRegresses

\* A replica that starts, or starts again, while no floor was put back works
\* from the last checkpoint that was written, whatever the annotation held in
\* between: load() compares it with the floor.
THEOREM LatestRestored == ReplaySpec => RestoresTheLatest
<1> DEFINE Restores ==
      \A r \in Replica :
        LET latest == commits[Len(commits)].ckpt IN
        ~mem[r].loaded /\ mem'[r].loaded /\ lease.floor = Len(commits)
          => /\ mem'[r].seq = Len(commits)
             /\ Len(commits) > 0 => /\ (SettledBase(r))' = latest.base
                                    /\ (SettledCand(r))' = latest.cand
<1>1. ReplayInv /\ [ReplayNext]_vars => [Restores]_vars
  <2> SUFFICES ASSUME ReplayInv, ReplayNext, NEW r \in Replica,
                      ~mem[r].loaded, mem'[r].loaded, lease.floor = Len(commits)
               PROVE  /\ mem'[r].seq = Len(commits)
                      /\ Len(commits) > 0 =>
                           /\ (SettledBase(r))' = commits[Len(commits)].ckpt.base
                           /\ (SettledCand(r))' = commits[Len(commits)].ckpt.cand
    OBVIOUS
  <2>1. PICK q \in Replica : Step(q)
    BY ReplayNextIs DEF Edit, PutBack
  <2>2. TypeOK
    BY DEF ReplayInv
  <2>3. q = r
    BY <2>1, <2>2, Frame
  <2>4. PICK id \in Observable : Check(r, id)
    BY <2>1, <2>2, <2>3, SequenceStep DEF Advances
  <2>5. CheckpointSound
    BY <2>4 DEF Check
  <2> QED BY <2>2, <2>4, <2>5, CheckKeeps, LoadsTheLatest
<1> QED BY <1>1, ReplaySafety, PTL DEF ReplaySpec, RestoresTheLatest

\* However often the annotation is put back, as long as its floor is not, the
\* replicas go on with the append-only log as if nothing had happened: what is
\* written next has the next sequence.  A backup, whose floor is an earlier one,
\* is not covered, and breaks it (_save_epoch_state, _restore_epoch_state).
THEOREM LogSurvivesReplay == AnnotationReplaySpec => ImplementsLog
<1> DEFINE Counted == lease.floor = Len(commits)
<1>1. Init => Counted /\ Log!Init
  BY StartLog, LogInit DEF LogInv, LeaseCarriesLastCommit
<1>2. ReplayInv /\ Counted /\ [AnnotationReplayNext]_vars => Counted'
  <2> SUFFICES ASSUME ReplayInv, Counted, AnnotationReplayNext
               PROVE  Counted'
    BY DEF vars
  <2>1. /\ lease \in Lease /\ commits \in Seq(Commit) /\ Len(commits) \in Nat /\ TypeOK
        /\ lease.floor \in Nat
    BY DEF ReplayInv, TypeOK, Lease
  <2>2. CASE \E r \in Replica : Step(r)
    <3>1. PICK r \in Replica : Step(r)
      BY <2>2
    <3>2. CASE UNCHANGED <<lease, commits>>
      BY <3>2
    <3>3. CASE Claims(r) /\ UNCHANGED commits
      BY <2>1, <3>3 DEF Claims, Lease
    <3>4. CASE Commits(r) /\ At(r, "write")
      <4>1. lease'.floor = lease.floor + 1
        BY <2>1, <3>4 DEF Commits, Lease, ReplayInv, RequestsAreCurrent
      <4>2. [ckpt |-> Written(r), by |-> r] \in Commit
        BY <2>1, <3>4, CommitsTypes DEF Commit
      <4>3. Len(commits') = Len(commits) + 1
        BY <2>1, <3>4, <4>2, Appended DEF Commits
      <4> QED BY <4>1, <4>3
    <3> QED BY <3>1, <3>2, <3>3, <3>4, LeaseOutcomes
  <2>3. CASE Edit
    BY <2>1, <2>3 DEF Edit, Lease
  <2>4. ASSUME NEW i \in 1..Len(commits), Replay(i)
        PROVE  Counted'
    BY <2>1, <2>4 DEF Replay, PutBack, Lease
  <2> QED BY <2>2, <2>3, <2>4, NextIsStep DEF AnnotationReplayNext
<1>3. ReplayInv /\ ReplayInv' /\ Counted' /\ [ReplayNext]_vars => [Log!Commit]_History
  <2> SUFFICES ASSUME ReplayInv, ReplayInv', Counted', [ReplayNext]_vars
               PROVE  [Log!Commit]_History
    OBVIOUS
  <2>1. UNCHANGED commits \/ \E r \in Replica : Commits(r)
    BY ReplayNextIs, LeaseOutcomes DEF vars, Edit, PutBack
  <2>2. TypeOK /\ TypeOK' /\ SequenceIsDense' /\ EpochHasOneWriter'
    BY DEF ReplayInv, FloorFollows
  <2> QED BY <2>1, <2>2, LogCommit
<1>4. [AnnotationReplayNext]_vars => [ReplayNext]_vars
  BY DEF AnnotationReplayNext, ReplayNext
<1> QED BY <1>1, <1>2, <1>3, <1>4, ReplaySafety, PTL DEF AnnotationReplaySpec, ReplaySpec, ImplementsLog, Log!Spec
=============================================================================
