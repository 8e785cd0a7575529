----------------------- MODULE LeaseContinuityProofs ------------------------
(***************************************************************************)
(* The safety of LeaseContinuity for every number of replicas, every set   *)
(* of identities and every bound.                                          *)
(***************************************************************************)
EXTENDS LeaseContinuity, TLAPS

\* A process that has just started, and a cycle that has not begun.
LEMMA StartTypes == Boot \in Memory /\ Idle \in Call
BY DEF Boot, Idle, Memory, Call, Phase, Purpose, MaybeIdentity

\* The gate answers with identities it was given.
LEMMA GateTypes ==
  ASSUME NEW base \in MaybeIdentity, NEW cand \in MaybeIdentity,
         NEW stale \in BOOLEAN, NEW id \in Identity
  PROVE  /\ Accepts(base, cand, stale, id) \in BOOLEAN
         /\ NeedsSave(base, cand, stale, id) \in BOOLEAN
         /\ NextBase(base, cand, stale, id) \in MaybeIdentity
         /\ NextCand(base, cand, stale, id) \in MaybeIdentity
BY DEF Accepts, NeedsSave, NextBase, NextCand, MaybeIdentity

\* A judged memory and the call that goes with it are well formed.
LEMMA JudgedTypes ==
  ASSUME NEW m \in Memory, NEW id \in Identity
  PROVE  Judged(m, id) \in Memory /\ Judgement(m, id) \in Call
<1>1. /\ m.base \in MaybeIdentity /\ m.cand \in MaybeIdentity
      /\ m.stale \in BOOLEAN /\ m.fresh \in BOOLEAN
  BY DEF Memory
<1>2. /\ Accepts(m.base, m.cand, m.stale, id) \in BOOLEAN
      /\ NeedsSave(m.base, m.cand, m.stale, id) \in BOOLEAN
      /\ NextBase(m.base, m.cand, m.stale, id) \in MaybeIdentity
      /\ NextCand(m.base, m.cand, m.stale, id) \in MaybeIdentity
  BY <1>1, GateTypes
<1>3. Judged(m, id) \in Memory
  BY <1>1, <1>2 DEF Judged, Memory
<1>4. Judgement(m, id) \in Call
  BY <1>1, <1>2 DEF Judgement, Call, Phase, Purpose, MaybeIdentity
<1> QED BY <1>3, <1>4

\* What a process loads is well formed.
LEMMA LoadedType ==
  ASSUME TypeOK, NEW r \in Replica
  PROVE  Loaded(r) \in Memory
<1>1. mem[r] \in Memory
  BY DEF TypeOK
<1>2. lease.ckpt \in Checkpoint /\ lease.trans \in Nat /\ lease.floor \in Nat /\ lease.legacy \in BOOLEAN
  BY DEF TypeOK, Lease
<1>3. (lease.ckpt.epoch # lease.trans) \in BOOLEAN
  OBVIOUS
<1>a. (IF lease.ckpt = NoCheckpoint THEN lease.floor ELSE lease.ckpt.seq) \in Nat
  BY <1>2 DEF Checkpoint
<1>4. Restored(mem[r]) \in Memory
  BY <1>1, <1>2, <1>3, <1>a DEF Restored, Memory, Checkpoint
<1> QED BY <1>1, <1>4 DEF Loaded

\* Giving a save up, and ending a cycle, keep memory and call well formed.
LEMMA RollbackTypes ==
  ASSUME TypeOK, NEW r \in Replica, NEW leads \in BOOLEAN, Rollback(r, leads)
  PROVE  mem' \in [Replica -> Memory] /\ call' \in [Replica -> Call]
<1>1. mem[r] \in Memory /\ call[r].base \in MaybeIdentity /\ call[r].cand \in MaybeIdentity
  BY DEF TypeOK, Call
<1>2. [mem[r] EXCEPT !.base = call[r].base, !.cand = call[r].cand,
                     !.ok = FALSE, !.fresh = FALSE, !.leader = leads] \in Memory
  BY <1>1 DEF Memory
<1>3. mem' \in [Replica -> Memory]
  BY <1>2 DEF Rollback, TypeOK
<1>4. call' \in [Replica -> Call]
  BY StartTypes DEF Rollback, TypeOK
<1> QED BY <1>3, <1>4

\* So does going on, or giving up, without leadership.
LEMMA NotElectedTypes ==
  ASSUME TypeOK, NEW r \in Replica, NotElected(r)
  PROVE  mem' \in [Replica -> Memory] /\ call' \in [Replica -> Call]
<1>1. mem[r] \in Memory /\ call[r] \in Call
  BY DEF TypeOK
<1>2. CASE Rollback(r, FALSE)
  BY <1>2, RollbackTypes
<1>3. CASE mem' = [mem EXCEPT ![r].leader = FALSE] /\ Goto(r, "list")
  BY <1>1, <1>3 DEF Goto, TypeOK, Memory, Call, Phase
<1>4. CASE /\ mem' = [mem EXCEPT ![r].leader = FALSE, ![r].fresh = FALSE]
           /\ call' = [call EXCEPT ![r] = Idle]
  BY <1>1, <1>4, StartTypes DEF TypeOK, Memory
<1> QED BY <1>2, <1>3, <1>4 DEF NotElected

\* So does the receipt of a save, fenced or not.
LEMMA ReceiptTypes ==
  ASSUME TypeOK, NEW r \in Replica, NEW epoch \in Nat, NEW seq \in Nat, NEW idempotent,
         Receipt(r, epoch, seq, idempotent)
  PROVE  mem' \in [Replica -> Memory] /\ call' \in [Replica -> Call]
<1>1. mem[r] \in Memory /\ call[r] \in Call
  BY DEF TypeOK
<1>2. CASE SaveFails(r)
  <2>1. mem[r].leader \in BOOLEAN
    BY <1>1 DEF Memory
  <2> QED BY <1>2, <2>1, RollbackTypes DEF SaveFails
<1>3. CASE ~SaveFails(r)
  <2>1. (IF call[r].accept THEN FALSE ELSE mem[r].stale) \in BOOLEAN
    BY <1>1 DEF Memory
  <2> DEFINE new == [mem[r] EXCEPT !.epoch = epoch, !.seq = seq,
                        !.stale = IF call[r].accept THEN FALSE ELSE mem[r].stale]
  <2>a. new \in Memory
    BY <1>1, <2>1 DEF Memory
  <2>2. mem' \in [Replica -> Memory]
    BY <1>3, <2>a DEF Receipt, TypeOK
  <2>3. [Idle EXCEPT !.pc = "elect", !.why = "list", !.seen = call[r].seen, !.accept = TRUE] \in Call
    BY <1>1, StartTypes DEF Call, Phase, Purpose
  <2>4. call' \in [Replica -> Call]
    BY <1>3, <2>3, StartTypes DEF Receipt, TypeOK
  <2> QED BY <2>2, <2>4
<1> QED BY <1>2, <1>3

\* Writes of the Lease keep it, and the history of checkpoints, well formed.
LEMMA ClaimsTypes ==
  ASSUME TypeOK, NEW r \in Replica, Claims(r)
  PROVE  lease' \in Lease /\ rvCurrent' \subseteq Replica
<1>1. lease \in Lease /\ call[r].trans \in Nat
  BY DEF TypeOK, Call
<1> QED BY <1>1 DEF Claims, Lease

\* A checkpoint that is written is a checkpoint, and joins the history.
LEMMA CommitsTypes ==
  ASSUME TypeOK, NEW r \in Replica, Commits(r)
  PROVE  /\ lease' \in Lease /\ rvCurrent' \subseteq Replica
         /\ commits' \in Seq(Commit)
         /\ Written(r) \in Checkpoint
<1>1. /\ lease \in Lease /\ mem[r] \in Memory /\ call[r] \in Call
      /\ commits \in Seq(Commit)
  BY DEF TypeOK
<1>2. Written(r) \in Checkpoint
  BY <1>1 DEF Written, Checkpoint, Memory, Call
<1>a. call[r].floor + 1 \in Nat
  BY <1>1 DEF Call
<1>b. [lease EXCEPT !.annotated = TRUE, !.ckpt = Written(r),
                    !.floor = call[r].floor + 1] \in Lease
  BY <1>1, <1>2, <1>a DEF Lease
<1>3. lease' \in Lease /\ rvCurrent' \subseteq Replica
  BY <1>b DEF Commits
<1>4. [ckpt |-> Written(r), by |-> r] \in Commit
  BY <1>2 DEF Commit
<1> QED BY <1>1, <1>2, <1>3, <1>4 DEF Commits

\* The requests of a replica stay well formed.
LEMMA CallTypes ==
  ASSUME NEW c \in Call, NEW pc \in Phase
  PROVE  /\ [c EXCEPT !.pc = pc] \in Call
         /\ [c EXCEPT !.pc = pc, !.why = "watch"] \in Call
         /\ \A trans \in Nat : [c EXCEPT !.pc = pc, !.trans = trans] \in Call
         /\ \A trans, floor \in Nat :
              [c EXCEPT !.pc = pc, !.trans = trans, !.floor = floor] \in Call
         /\ \A attempt \in 0..2 :
              [c EXCEPT !.pc = pc, !.attempt = attempt] \in Call
<1> DEFINE Attempts == 0..2
<1> HIDE DEF Attempts
<1>1. Call = [pc: Phase, why: Purpose, seen: MaybeIdentity, accept: BOOLEAN,
              base: MaybeIdentity, cand: MaybeIdentity,
              trans: Nat, floor: Nat, attempt: Attempts]
  BY DEF Call, Attempts
<1>2. \A attempt \in Attempts : [c EXCEPT !.pc = pc, !.attempt = attempt] \in Call
  BY <1>1
<1>3. \A attempt \in 0..2 : [c EXCEPT !.pc = pc, !.attempt = attempt] \in Call
  BY <1>2 DEF Attempts
<1> QED BY <1>1, <1>3 DEF Purpose

\* ensure_leader keeps the types; an election without a purpose would not.
LEMMA ElectionType ==
  ASSUME TypeOK, PhasesAreSound, NEW r \in Replica, Election(r)
  PROVE  TypeOK'
<1>1. mem[r] \in Memory /\ call[r] \in Call /\ lease \in Lease
  BY DEF TypeOK
<1>2. CASE Electable(r)
  <2> DEFINE t == IF lease.exists /\ lease.holder # r
                  THEN lease.trans + 1 ELSE lease.trans
  <2>1. t \in Nat
    BY <1>1 DEF Lease
  <2>2. [call[r] EXCEPT !.pc = "claim", !.trans = t] \in Call
    BY <1>1, <2>1, CallTypes DEF Phase
  <2> QED BY <1>2, <2>2 DEF Electable, TypeOK
<1>3. CASE Standby(r)
  BY <1>3, NotElectedTypes DEF Standby, TypeOK
<1>4. CASE ElectFails(r)
  BY <1>4, NotElectedTypes, BoundsAssumption DEF ElectFails, TypeOK, Fails
<1>5. CASE Claim(r)
  <2>1. call[r].why \in {"save", "list", "watch"}
    BY <1>1, <1>5 DEF Claim, At, PhasesAreSound, Call, Purpose
  <2>2. mem' \in [Replica -> Memory]
    BY <1>1, <1>5 DEF Claim, Elected, TypeOK, Memory
  <2>3. call' \in [Replica -> Call]
    BY <1>1, <1>5, <2>1 DEF Claim, Elected, Goto, TypeOK, Call, Phase
  <2> QED BY <1>5, <2>2, <2>3, ClaimsTypes DEF Claim, TypeOK
<1>6. CASE ClaimConflicts(r)
  BY <1>6, NotElectedTypes DEF ClaimConflicts, TypeOK
<1>7. CASE ClaimUnknown(r)
  BY <1>7, NotElectedTypes, ClaimsTypes, BoundsAssumption
     DEF ClaimUnknown, TypeOK, Fails
<1> QED BY <1>2, <1>3, <1>4, <1>5, <1>6, <1>7 DEF Election

\* The save of a checkpoint keeps the types; in particular it tries twice.
LEMMA SaveType ==
  ASSUME TypeOK, NEW r \in Replica, Save(r)
  PROVE  TypeOK'
<1>1. /\ mem[r] \in Memory /\ call[r] \in Call /\ lease \in Lease
      /\ mem[r].leader \in BOOLEAN /\ lease.ckpt \in Checkpoint
      /\ lease.trans \in Nat /\ lease.floor \in Nat /\ lease.ckpt.seq \in Nat
      /\ call[r].trans \in Nat /\ call[r].floor \in Nat
  BY DEF TypeOK, Memory, Lease, Checkpoint, Call
<1>2. SaveFails(r) => mem' \in [Replica -> Memory] /\ call' \in [Replica -> Call]
  BY <1>1, RollbackTypes DEF SaveFails
<1>3. \A p \in Phase : Goto(r, p) => call' \in [Replica -> Call]
  <2>1. \A p \in Phase : [call[r] EXCEPT !.pc = p] \in Call
    BY <1>1, CallTypes
  <2> QED BY <2>1 DEF Goto, TypeOK
<1>4. {"read", "readback", "reconcile"} \subseteq Phase
  BY DEF Phase
<1>5. CASE Match(r)
  <2>1. [call[r] EXCEPT !.pc = "read", !.attempt = 1] \in Call
    <3>1. 1 \in 0..2 /\ "read" \in Phase
      BY DEF Phase
    <3> QED BY <1>1, <3>1, CallTypes
  <2>2. Receipt(r, lease.trans, lease.ckpt.seq, TRUE)
          => mem' \in [Replica -> Memory] /\ call' \in [Replica -> Call]
    BY <1>1, ReceiptTypes
  <2> QED BY <1>2, <1>5, <2>1, <2>2 DEF Match, TypeOK
<1>6. CASE Read(r)
  <2>1. [call[r] EXCEPT !.pc = "write", !.trans = lease.trans,
                        !.floor = lease.floor] \in Call
    BY <1>1, CallTypes DEF Phase
  <2>2. mem' \in [Replica -> Memory] /\ call' \in [Replica -> Call]
    <3>1. CASE SaveFails(r)
      BY <1>2, <3>1
    <3>2. CASE ~SaveFails(r)
      <4>1. /\ call' = [call EXCEPT ![r].pc = "write",
                                    ![r].trans = lease.trans,
                                    ![r].floor = lease.floor]
            /\ mem' = mem
        BY <1>6, <3>2 DEF Read
      <4>2. call' = [call EXCEPT ![r] =
                       [call[r] EXCEPT !.pc = "write", !.trans = lease.trans,
                                       !.floor = lease.floor]]
        BY <4>1 DEF TypeOK
      <4> QED BY <2>1, <4>1, <4>2 DEF TypeOK
    <3> QED BY <3>1, <3>2
  <2>3. rvCurrent' \subseteq Replica
    BY <1>6 DEF Read, TypeOK
  <2> QED BY <1>6, <2>2, <2>3 DEF Read, TypeOK
<1>7. CASE Write(r)
  BY <1>3, <1>4, <1>7, CommitsTypes DEF Write, TypeOK
<1>8. CASE WriteConflicts(r)
  <2>1. call[r].attempt < 2 =>
          [call[r] EXCEPT !.pc = "read", !.attempt = call[r].attempt + 1] \in Call
    <3>1. call[r].attempt < 2 => call[r].attempt + 1 \in 0..2
      BY <1>1 DEF Call
    <3> QED BY <1>1, <3>1, CallTypes DEF Phase
  <2> QED BY <1>2, <1>8, <2>1 DEF WriteConflicts, TypeOK
<1>9. CASE WriteUnknown(r)
  BY <1>3, <1>4, <1>9, CommitsTypes, BoundsAssumption
     DEF WriteUnknown, TypeOK, Fails
<1>10. CASE WriteFails(r)
  BY <1>2, <1>10, CommitsTypes, BoundsAssumption DEF WriteFails, TypeOK, Fails
<1>11. CASE Readback(r)
  <2>1. call[r].floor + 1 \in Nat
    BY <1>1
  <2>2. Receipt(r, call[r].trans, call[r].floor + 1, FALSE)
          => mem' \in [Replica -> Memory] /\ call' \in [Replica -> Call]
    BY <1>1, <2>1, ReceiptTypes
  <2> QED BY <1>2, <1>11, <2>2 DEF Readback, TypeOK
<1>12. CASE ReadbackUnknown(r)
  BY <1>3, <1>4, <1>12, BoundsAssumption DEF ReadbackUnknown, TypeOK, Fails
<1>13. CASE Reconcile(r)
  <2>1. Receipt(r, lease.trans, lease.ckpt.seq, TRUE)
          => mem' \in [Replica -> Memory] /\ call' \in [Replica -> Call]
    BY <1>1, ReceiptTypes
  <2> QED BY <1>2, <1>13, <2>1 DEF Reconcile, TypeOK
<1>14. CASE SaveGetFails(r)
  BY <1>2, <1>14, BoundsAssumption DEF SaveGetFails, TypeOK, Fails
<1> QED
  BY <1>5, <1>6, <1>7, <1>8, <1>9, <1>10, <1>11, <1>12, <1>13, <1>14 DEF Save

\* The relist and the watch keep the types.
LEMMA ServeType ==
  ASSUME TypeOK, NEW r \in Replica, Serve(r)
  PROVE  TypeOK'
<1>1. mem[r] \in Memory /\ call[r] \in Call
  BY DEF TypeOK
<1>2. mem' \in [Replica -> Memory]
  <2>1. /\ [mem[r] EXCEPT !.fresh = TRUE] \in Memory
        /\ [mem[r] EXCEPT !.fresh = FALSE] \in Memory
        /\ [mem[r] EXCEPT !.fresh = FALSE, !.leader = FALSE] \in Memory
        /\ [mem[r] EXCEPT !.leader = FALSE] \in Memory
    BY <1>1 DEF Memory
  <2> QED BY <2>1 DEF Serve, ListSettles, ListDefers, ApiLost, WatchEvent,
                      WatchEnds, LeadershipAges, TypeOK
<1>3. call' \in [Replica -> Call]
  <2>1. [call[r] EXCEPT !.pc = "watch"] \in Call
    BY <1>1 DEF Call, Phase
  <2>2. [call[r] EXCEPT !.pc = "elect", !.why = "watch"] \in Call
    BY <1>1 DEF Call, Phase, Purpose
  <2> QED
    BY <2>1, <2>2, StartTypes DEF Serve, ListSettles, ListDefers, ApiLost,
       WatchEvent, WatchEnds, LeadershipAges, TypeOK, Goto
<1> QED
  BY <1>2, <1>3, BoundsAssumption DEF Serve, ListSettles, ListDefers, ApiLost,
     WatchEvent, WatchEnds, LeadershipAges, TypeOK, Fails

\* The preflight and the continuity gate keep the types.
LEMMA GateType ==
  ASSUME TypeOK, NEW r \in Replica, Gate(r)
  PROVE  TypeOK'
<1>1. CASE \E id \in Observable : Check(r, id)
  <2>1. PICK id \in Observable : Check(r, id)
    BY <1>1
  <2>2. Judged(Loaded(r), id) \in Memory /\ Judgement(Loaded(r), id) \in Call
    BY LoadedType, JudgedTypes, ObservableAssumption
  <2> QED BY <2>1, <2>2 DEF Check, TypeOK
<1>2. Abandon(r) => mem' \in [Replica -> Memory] /\ call' \in [Replica -> Call]
  <2>1. [mem[r] EXCEPT !.ok = FALSE, !.fresh = FALSE] \in Memory
    BY DEF TypeOK, Memory
  <2> QED BY <2>1, StartTypes DEF Abandon, TypeOK
<1>3. CASE CheckFails(r)
  BY <1>2, <1>3, BoundsAssumption DEF CheckFails, TypeOK, Fails
<1>4. CASE ReplayDetected(r)
  BY <1>2, <1>4 DEF ReplayDetected, TypeOK
<1> QED BY <1>1, <1>3, <1>4 DEF Gate

\* A replica that starts again keeps the types.
LEMMA CrashType ==
  ASSUME TypeOK, NEW r \in Replica, Crash(r)
  PROVE  TypeOK'
BY StartTypes, BoundsAssumption DEF Crash, TypeOK

\* An edit of the Lease keeps the types.
LEMMA EditType ==
  ASSUME TypeOK, Edit
  PROVE  TypeOK'
<1>1. lease' \in Lease
  BY DEF Edit, TypeOK, Lease
<1>2. UNCHANGED <<mem, call, commits, crashes>> /\ rvCurrent' = {}
  BY DEF Edit
<1>3. faults' \in 0..MaxFaults
  BY BoundsAssumption DEF Edit, Fails, TypeOK
<1> QED BY <1>1, <1>2, <1>3 DEF TypeOK

\* A step keeps every variable well formed, given that elections are held for
\* a purpose.
LEMMA TypeStep ==
  ASSUME TypeOK, PhasesAreSound, [Next]_vars
  PROVE  TypeOK'
<1>1. CASE UNCHANGED vars
  BY <1>1 DEF vars, TypeOK
<1>2. CASE Next
  BY <1>2, GateType, ElectionType, SaveType, ServeType, CrashType, EditType
     DEF Next
<1> QED BY <1>1, <1>2

-----------------------------------------------------------------------------
\* A step of one replica, and what it leaves alone.

Step(r) == Gate(r) \/ Election(r) \/ Save(r) \/ Serve(r) \/ Crash(r)

\* Every step of the system is a step of one replica, or an edit of the Lease.
LEMMA NextIsStep == Next <=> Edit \/ \E r \in Replica : Step(r)
BY DEF Next, Step

\* Memory and request of a replica change in its own steps only.
LEMMA Frame ==
  ASSUME TypeOK, NEW r \in Replica, Step(r), NEW q \in Replica, q # r
  PROVE  mem'[q] = mem[q] /\ call'[q] = call[q]
<1> USE DEF TypeOK
<1>1. (\E leads \in BOOLEAN : Rollback(r, leads)) \/ SaveFails(r)
      => mem'[q] = mem[q] /\ call'[q] = call[q]
  BY DEF Rollback, SaveFails
<1>2. NotElected(r) => mem'[q] = mem[q] /\ call'[q] = call[q]
  BY <1>1 DEF NotElected, Goto
<1>3. \A e, s, i : Receipt(r, e, s, i) => mem'[q] = mem[q] /\ call'[q] = call[q]
  BY <1>1 DEF Receipt
<1>4. CASE Gate(r)
  BY <1>4 DEF Gate, Check, CheckFails, ReplayDetected, Abandon
<1>5. CASE Election(r)
  BY <1>5, <1>2 DEF Election, Electable, Standby, ElectFails, Claim, Elected,
                    ClaimConflicts, ClaimUnknown, Goto
<1>6. CASE Save(r)
  BY <1>6, <1>1, <1>3 DEF Save, Match, Read, Write, WriteConflicts, WriteUnknown,
     WriteFails, Readback, ReadbackUnknown, Reconcile, SaveGetFails, Goto
<1>7. CASE Serve(r)
  BY <1>7 DEF Serve, ListSettles, ListDefers, ApiLost, WatchEvent, WatchEnds,
              LeadershipAges, Goto
<1>8. CASE Crash(r)
  BY <1>8 DEF Crash
<1> QED BY <1>4, <1>5, <1>6, <1>7, <1>8 DEF Step

\* The Lease changes only by a claim or by a checkpoint.
LEMMA LeaseOutcomes ==
  ASSUME NEW r \in Replica, Step(r)
  PROVE  \/ UNCHANGED <<lease, commits>>
         \/ Claims(r) /\ At(r, "claim") /\ UNCHANGED commits
         \/ Commits(r) /\ At(r, "write")
<1>1. CASE Gate(r)
  BY <1>1 DEF Gate, Check, CheckFails, ReplayDetected
<1>2. CASE Election(r)
  BY <1>2 DEF Election, Electable, Standby, ElectFails, Claim, ClaimConflicts,
              ClaimUnknown
<1>3. CASE Save(r)
  BY <1>3 DEF Save, Match, Read, Write, WriteConflicts, WriteUnknown,
     WriteFails, Readback, ReadbackUnknown, Reconcile, SaveGetFails
<1>4. CASE Serve(r)
  BY <1>4 DEF Serve, ListSettles, ListDefers, ApiLost, WatchEvent, WatchEnds,
              LeadershipAges
<1>5. CASE Crash(r)
  BY <1>5 DEF Crash
<1> QED BY <1>1, <1>2, <1>3, <1>4, <1>5 DEF Step

-----------------------------------------------------------------------------
\* The history of checkpoints and the Lease.

LogInv ==
  /\ SequenceIsDense
  /\ EpochHasOneWriter
  /\ LeaseCarriesLastCommit
  /\ EpochsFollowLease

\* What Append does to a history of checkpoints.
LEMMA Appended ==
  ASSUME NEW s \in Seq(Commit), NEW e \in Commit
  PROVE  /\ Len(Append(s, e)) = Len(s) + 1
         /\ Append(s, e)[Len(s) + 1] = e
         /\ \A i \in 1..Len(s) : Append(s, e)[i] = s[i]
OBVIOUS

\* How the Lease may look when the replicas start.
LEMMA StartLeases ==
  ASSUME NEW start \in LeaseKind, StartLease(start)
  PROVE  /\ lease \in Lease /\ lease.holder = Other
         /\ \/ lease.floor = 0 /\ lease.ckpt = NoCheckpoint
            \/ /\ lease.exists /\ lease.floor = 1
               /\ lease.ckpt.seq = 1 /\ lease.ckpt.epoch = 0
<1>1. NoLease \in Lease
  BY DEF NoLease, NoCheckpoint, Lease, Checkpoint, MaybeIdentity
<1>2. CASE start \in {"absent", "bare", "annotated", "legacy"}
  <2>1. lease \in Lease
    BY <1>1, <1>2 DEF StartLease, Lease
  <2>2. lease.holder = Other /\ lease.floor = 0 /\ lease.ckpt = NoCheckpoint
    <3>1. /\ NoLease.holder = Other /\ NoLease.floor = 0
          /\ NoLease.ckpt = NoCheckpoint
      BY DEF NoLease
    <3> QED BY <1>1, <1>2, <3>1 DEF StartLease, Lease
  <2> QED BY <2>1, <2>2
<1>3. CASE start \in {"checkpoint", "stale"}
  <2>1. PICK b \in MaybeIdentity, c \in MaybeIdentity, t \in {0, 1} :
          lease = KeptLease(b, c, t)
    BY <1>3 DEF StartLease, MaybeIdentity
  <2> QED BY <2>1 DEF KeptLease, Lease, Checkpoint
<1> QED BY <1>2, <1>3 DEF LeaseKind

\* The n-th checkpoint has sequence n, and the Lease keeps the last one.
LEMMA StartLog ==
  ASSUME Init
  PROVE  TypeOK /\ LogInv /\ RequestsAreCurrent
<1>1. PICK start \in LeaseKind : StartLease(start)
  BY StartsAssumption DEF Init
<1>2. /\ lease \in Lease /\ lease.holder = Other
      /\ \/ lease.floor = 0 /\ lease.ckpt = NoCheckpoint
         \/ /\ lease.exists /\ lease.floor = 1
            /\ lease.ckpt.seq = 1 /\ lease.ckpt.epoch = 0
  BY <1>1, StartLeases
<1>3. TypeOK /\ rvCurrent = {}
  <2>1. [ckpt |-> lease.ckpt, by |-> Other] \in Commit
    BY <1>2 DEF Commit, Lease
  <2>2. commits \in Seq(Commit)
    BY <2>1 DEF Init
  <2> QED BY <1>2, <2>2, StartTypes, BoundsAssumption DEF Init, TypeOK
<1>4. CASE lease.floor = 0
  <2>1. commits = <<>> /\ lease.ckpt = NoCheckpoint
    BY <1>2, <1>4 DEF Init
  <2> QED BY <1>2, <1>3, <1>4, <2>1 DEF LogInv, SequenceIsDense,
      EpochHasOneWriter, LeaseCarriesLastCommit, EpochsFollowLease,
      RequestsAreCurrent
<1>5. CASE lease.floor = 1
  <2>1. /\ commits = <<[ckpt |-> lease.ckpt, by |-> Other]>>
        /\ lease.exists /\ lease.ckpt.seq = 1 /\ lease.ckpt.epoch = 0
    BY <1>2, <1>5 DEF Init
  <2>2. Len(commits) = 1 /\ commits[1] = [ckpt |-> lease.ckpt, by |-> Other]
    BY <2>1
  <2>3. lease.trans \in Nat
    BY <1>2 DEF Lease
  <2> QED BY <1>2, <1>3, <1>5, <2>1, <2>2, <2>3 DEF LogInv, SequenceIsDense,
      EpochHasOneWriter, LeaseCarriesLastCommit, EpochsFollowLease,
      RequestsAreCurrent
<1> QED BY <1>2, <1>4, <1>5

\* A Lease that does not exist was never held and carries nothing.
AbsentIsEmpty == ~lease.exists => lease.holder = Other /\ Len(commits) = 0

\* Transitions: a claim begins one without checkpoints, and a PATCH stays in
\* the one its writer holds.
LEMMA EpochStep ==
  ASSUME TypeOK, EpochHasOneWriter, EpochsFollowLease, AbsentIsEmpty,
         RequestsAreCurrent, NEW r \in Replica, Step(r)
  PROVE  EpochHasOneWriter' /\ EpochsFollowLease' /\ AbsentIsEmpty'
<1> DEFINE n == Len(commits)
<1>1. n \in Nat /\ lease \in Lease /\ commits \in Seq(Commit)
  BY DEF TypeOK
<1>2. /\ lease.trans \in Nat
      /\ \A i \in 1..n : commits[i] \in Commit /\ commits[i].ckpt.epoch \in Nat
  <2>1. \A e \in Commit : e.ckpt.epoch \in Nat
    BY DEF Commit, Checkpoint
  <2>2. \A i \in 1..n : commits[i] \in Commit
    BY <1>1
  <2> QED BY <1>1, <2>1, <2>2 DEF Lease
<1>3. CASE UNCHANGED <<lease, commits>>
  BY <1>3 DEF EpochHasOneWriter, EpochsFollowLease, AbsentIsEmpty
<1>4. CASE Claims(r) /\ At(r, "claim") /\ UNCHANGED commits
  <2>1. call[r].trans = IF lease.exists /\ lease.holder # r
                        THEN lease.trans + 1 ELSE lease.trans
    BY <1>4 DEF Claims, RequestsAreCurrent
  <2>2. /\ lease'.exists = TRUE /\ lease'.holder = r
        /\ lease'.trans = call[r].trans
    BY <1>1, <1>4 DEF Claims, Lease
  <2>3. EpochsFollowLease'
    BY <1>1, <1>2, <1>4, <2>1, <2>2 DEF EpochsFollowLease, AbsentIsEmpty
  <2> QED BY <1>4, <2>2, <2>3 DEF EpochHasOneWriter, AbsentIsEmpty
<1>5. CASE Commits(r) /\ At(r, "write")
  <2> DEFINE new == [ckpt |-> Written(r), by |-> r]
  <2>1. lease.holder = r /\ call[r].trans = lease.trans
    BY <1>5 DEF Commits, RequestsAreCurrent
  <2>2. /\ lease'.exists = lease.exists /\ lease'.holder = r
        /\ lease'.trans = lease.trans
    BY <1>1, <1>5, <2>1 DEF Commits, Lease
  <2>3. Written(r).epoch = lease.trans
    BY <2>1 DEF Written
  <2>4. new \in Commit
    BY <1>5, CommitsTypes DEF Commit
  <2>5. /\ Len(commits') = n + 1 /\ commits'[n + 1] = new
        /\ \A i \in 1..n : commits'[i] = commits[i]
    BY <1>1, <1>5, <2>4, Appended DEF Commits
  <2>6. EpochsFollowLease'
    BY <1>1, <1>2, <2>1, <2>2, <2>3, <2>5 DEF EpochsFollowLease
  <2>7. EpochHasOneWriter'
    BY <1>1, <1>2, <2>1, <2>3, <2>5 DEF EpochHasOneWriter, EpochsFollowLease
  <2>8. lease.exists
    BY <2>1, ReplicaAssumption DEF AbsentIsEmpty
  <2> QED BY <2>2, <2>6, <2>7, <2>8 DEF AbsentIsEmpty
<1> QED BY <1>3, <1>4, <1>5, LeaseOutcomes

\* The Lease and the history of checkpoints change together: a PATCH carries
\* the next sequence.
LEMMA LogStep ==
  ASSUME TypeOK, LogInv, RequestsAreCurrent, NEW r \in Replica, Step(r)
  PROVE  LogInv'
<1> DEFINE n == Len(commits)
<1>1. n \in Nat /\ lease \in Lease /\ commits \in Seq(Commit)
  BY DEF TypeOK
<1>2. EpochHasOneWriter' /\ EpochsFollowLease'
  <2>1. AbsentIsEmpty
    BY DEF LogInv, LeaseCarriesLastCommit, AbsentIsEmpty
  <2> QED BY <2>1, EpochStep DEF LogInv
<1>3. CASE UNCHANGED <<lease, commits>>
  BY <1>2, <1>3 DEF LogInv, SequenceIsDense, LeaseCarriesLastCommit
<1>4. CASE Claims(r) /\ At(r, "claim") /\ UNCHANGED commits
  <2>1. /\ lease'.exists = TRUE
        /\ lease'.floor = lease.floor /\ lease'.ckpt = lease.ckpt
    BY <1>1, <1>4 DEF Claims, Lease
  <2>2. LeaseCarriesLastCommit'
    BY <1>4, <2>1 DEF LogInv, LeaseCarriesLastCommit
  <2> QED BY <1>2, <1>4, <2>2 DEF LogInv, SequenceIsDense
<1>5. CASE Commits(r) /\ At(r, "write")
  <2> DEFINE new == [ckpt |-> Written(r), by |-> r]
  <2>1. lease.holder = r /\ call[r].floor = lease.floor
    BY <1>5 DEF Commits, RequestsAreCurrent
  <2>2. /\ lease'.exists = lease.exists
        /\ lease'.floor = n + 1 /\ lease'.ckpt = Written(r)
    BY <1>1, <1>5, <2>1 DEF Commits, Lease, LogInv, LeaseCarriesLastCommit
  <2>3. Written(r).seq = n + 1
    BY <2>1 DEF Written, LogInv, LeaseCarriesLastCommit
  <2>4. new \in Commit
    BY <1>5, CommitsTypes DEF Commit
  <2>5. /\ Len(commits') = n + 1 /\ commits'[n + 1] = new
        /\ \A i \in 1..n : commits'[i] = commits[i]
    BY <1>1, <1>5, <2>4, Appended DEF Commits
  <2>6. SequenceIsDense'
    BY <1>1, <2>3, <2>5 DEF LogInv, SequenceIsDense
  <2>7. lease.exists
    BY <2>1, ReplicaAssumption DEF LogInv, LeaseCarriesLastCommit
  <2>8. LeaseCarriesLastCommit'
    BY <2>2, <2>5, <2>7 DEF LeaseCarriesLastCommit
  <2> QED BY <1>2, <2>6, <2>8 DEF LogInv
<1> QED BY <1>3, <1>4, <1>5, LeaseOutcomes

\* What a step does to the requests that the server would accept.
LEMMA RequestOutcomes ==
  ASSUME TypeOK, NEW r \in Replica, Step(r)
  PROVE  \/ Claims(r) \/ Commits(r)
         \/ Electable(r)
         \/ Read(r) /\ ~SaveFails(r)
         \/ /\ UNCHANGED <<lease, rvCurrent>>
            /\ \/ call'[r] = call[r]
               \/ call'[r].pc \notin {"claim", "write"}
<1>t. mem[r] \in Memory /\ call[r] \in Call /\ rvCurrent \subseteq Replica
  BY DEF TypeOK
<1>a. \A p : Goto(r, p) => call'[r].pc = p
  BY <1>t DEF Goto, TypeOK, Call
<1>b. call' = [call EXCEPT ![r] = Idle] => call'[r].pc = "check"
  BY DEF TypeOK, Idle
<1> DEFINE quiet == call'[r] = call[r] \/ call'[r].pc \notin {"claim", "write"}
<1>1. (\E leads \in BOOLEAN : Rollback(r, leads)) \/ SaveFails(r) => quiet
  BY <1>b DEF Rollback, SaveFails
<1>2. NotElected(r) => quiet
  BY <1>1, <1>a, <1>b DEF NotElected
<1>3. \A e, s, i : Receipt(r, e, s, i) => quiet
  <2>1. call' = [call EXCEPT ![r] = [Idle EXCEPT !.pc = "elect", !.why = "list",
                                       !.seen = call[r].seen, !.accept = TRUE]]
        => call'[r].pc = "elect"
    BY DEF TypeOK, Idle
  <2> QED BY <1>1, <1>b, <2>1 DEF Receipt
<1>4. CASE Gate(r)
  BY <1>4, <1>b DEF Gate, Check, CheckFails, ReplayDetected, Abandon,
                    Judgement, TypeOK
<1>5. CASE Election(r)
  <2>1. Standby(r) \/ ElectFails(r) \/ ClaimConflicts(r)
        => quiet /\ UNCHANGED <<lease, rvCurrent>>
    BY <1>2 DEF Standby, ElectFails, ClaimConflicts
  <2>2. ClaimUnknown(r)
        => Claims(r) \/ (quiet /\ UNCHANGED <<lease, rvCurrent>>)
    BY <1>2 DEF ClaimUnknown
  <2> QED BY <1>5, <2>1, <2>2 DEF Election, Claim
<1>6. CASE Save(r)
  <2>1. Match(r) => quiet /\ UNCHANGED <<lease, rvCurrent>>
    <3>1. call' = [call EXCEPT ![r].pc = "read", ![r].attempt = 1]
          => call'[r].pc = "read"
      BY <1>t DEF TypeOK, Call
    <3> QED BY <1>1, <1>3, <3>1 DEF Match
  <2>2. WriteConflicts(r) => quiet /\ UNCHANGED <<lease, rvCurrent>>
    <3>1. call' = [call EXCEPT ![r].pc = "read",
                               ![r].attempt = call[r].attempt + 1]
          => call'[r].pc = "read"
      BY <1>t DEF TypeOK, Call
    <3> QED BY <1>1, <3>1 DEF WriteConflicts
  <2>3. Readback(r) \/ ReadbackUnknown(r) \/ Reconcile(r) \/ SaveGetFails(r)
        => quiet /\ UNCHANGED <<lease, rvCurrent>>
    BY <1>a, <1>1, <1>3 DEF Readback, ReadbackUnknown, Reconcile, SaveGetFails
  <2>4. WriteUnknown(r) \/ WriteFails(r)
        => Commits(r) \/ (quiet /\ UNCHANGED <<lease, rvCurrent>>)
    BY <1>a, <1>1 DEF WriteUnknown, WriteFails
  <2>5. Read(r) => \/ ~SaveFails(r)
                   \/ quiet /\ UNCHANGED <<lease, rvCurrent>>
    <3>1. call' = [call EXCEPT ![r].pc = "write", ![r].trans = lease.trans,
                               ![r].floor = lease.floor]
          => call'[r].pc = "write"
      BY <1>t DEF TypeOK, Call
    <3>2. SaveFails(r) => call'[r].pc = "check"
      BY <1>b DEF SaveFails, Rollback
    <3> QED BY <1>1, <3>1, <3>2 DEF Read
  <2> QED BY <1>6, <2>1, <2>2, <2>3, <2>4, <2>5 DEF Save, Write
<1>7. CASE Serve(r)
  <2>1. call' = [call EXCEPT ![r].pc = "elect", ![r].why = "watch"]
        => call'[r].pc = "elect"
    BY <1>t DEF TypeOK, Call
  <2> QED BY <1>7, <1>a, <1>b, <2>1 DEF Serve, ListSettles, ListDefers, ApiLost,
             WatchEvent, WatchEnds, LeadershipAges
<1>8. CASE Crash(r)
  BY <1>8, <1>b DEF Crash
<1> QED BY <1>4, <1>5, <1>6, <1>7, <1>8 DEF Step

\* A write of the Lease makes every other request out of date; a request that
\* is computed from a GET is up to date.
LEMMA RequestStep ==
  ASSUME TypeOK, PhasesAreSound, RequestsAreCurrent,
         NEW r \in Replica, Step(r)
  PROVE  RequestsAreCurrent'
<1>1. mem[r] \in Memory /\ call[r] \in Call /\ rvCurrent \subseteq Replica
  BY DEF TypeOK
<1>2. CASE Claims(r) \/ Commits(r)
  BY <1>2 DEF Claims, Commits, RequestsAreCurrent
<1>3. CASE Electable(r)
  <2>1. /\ call'[r].pc = "claim" /\ lease' = lease
        /\ call'[r].trans = IF lease.exists /\ lease.holder # r
                            THEN lease.trans + 1 ELSE lease.trans
    BY <1>1, <1>3 DEF Electable, TypeOK, Call
  <2>2. \A q \in rvCurrent' : q # r => q \in rvCurrent /\ call'[q] = call[q]
    BY <1>1, <1>3, Frame DEF Electable
  <2> QED BY <2>1, <2>2 DEF RequestsAreCurrent, At
<1>4. CASE Read(r) /\ ~SaveFails(r)
  <2>1. lease.holder = r /\ lease' = lease /\ rvCurrent' = rvCurrent \cup {r}
    BY <1>4 DEF Read
  <2>2. /\ call'[r].pc = "write" /\ call'[r].trans = lease.trans
        /\ call'[r].floor = lease.floor
    BY <1>1, <1>4 DEF Read, TypeOK, Call
  <2>3. \A q \in rvCurrent' : q # r => q \in rvCurrent /\ call'[q] = call[q]
    BY <1>1, <2>1, Frame
  <2> SUFFICES ASSUME NEW q \in rvCurrent'
               PROVE  /\ call'[q].pc = "claim" =>
                           call'[q].trans =
                             IF lease.exists /\ lease.holder # q
                             THEN lease.trans + 1 ELSE lease.trans
                      /\ call'[q].pc = "write" =>
                           /\ lease.holder = q
                           /\ call'[q].trans = lease.trans
                           /\ call'[q].floor = lease.floor
    BY <2>1 DEF RequestsAreCurrent, At
  <2>4. CASE q = r
    BY <2>1, <2>2, <2>4
  <2>5. CASE q # r
    BY <2>3, <2>5 DEF RequestsAreCurrent, At
  <2> QED BY <2>4, <2>5
<1>5. CASE /\ UNCHANGED <<lease, rvCurrent>>
           /\ \/ call'[r] = call[r]
              \/ call'[r].pc \notin {"claim", "write"}
  <2>1. \A q \in rvCurrent' : q # r => call'[q] = call[q]
    BY <1>1, <1>5, Frame
  <2>2. \A q \in rvCurrent' : \/ call'[q] = call[q]
                              \/ call'[q].pc \notin {"claim", "write"}
    BY <1>5, <2>1
  <2> SUFFICES ASSUME NEW q \in rvCurrent', call'[q] = call[q]
               PROVE  /\ At(q, "claim")' =>
                           call'[q].trans =
                             IF lease.exists /\ lease.holder # q
                             THEN lease.trans + 1 ELSE lease.trans
                      /\ At(q, "write")' => /\ lease.holder = q
                                            /\ call'[q].trans = lease.trans
                                            /\ call'[q].floor = lease.floor
    BY <1>5, <2>2 DEF RequestsAreCurrent, At
  <2> QED BY <1>5 DEF RequestsAreCurrent, At
<1> QED BY <1>2, <1>3, <1>4, <1>5, RequestOutcomes

\* The pair (b, c) is that of a checkpoint with sequence n, if any.
Recorded(b, c, n) ==
  \/ n = 0 /\ b = NoIdentity /\ c = NoIdentity
  \/ /\ n > 0
     /\ \E i \in 1..Len(commits) :
          /\ commits[i].ckpt.seq = n
          /\ commits[i].ckpt.base = b /\ commits[i].ckpt.cand = c

\* The Lease carries a checkpoint that was written, or none at all.
LeaseRecords ==
  /\ Recorded(lease.ckpt.base, lease.ckpt.cand, lease.ckpt.seq)
  /\ lease.ckpt = NoCheckpoint => lease.floor = 0

\* The Lease records the last checkpoint written.
LEMMA LeaseRecorded ==
  ASSUME TypeOK, LogInv
  PROVE  LeaseRecords
<1>1. lease.floor \in Nat /\ lease.floor = Len(commits)
  BY DEF TypeOK, Lease, LogInv, LeaseCarriesLastCommit
<1>2. CASE lease.floor = 0
  <2>1. lease.ckpt = NoCheckpoint
    BY <1>2 DEF LogInv, LeaseCarriesLastCommit
  <2> QED BY <1>2, <2>1 DEF LeaseRecords, Recorded, NoCheckpoint
<1>3. CASE lease.floor # 0
  <2>1. /\ lease.floor \in 1..Len(commits) /\ lease.floor > 0
        /\ lease.ckpt = commits[lease.floor].ckpt
        /\ lease.ckpt.seq = lease.floor
    BY <1>1, <1>3 DEF LogInv, LeaseCarriesLastCommit, SequenceIsDense
  <2>2. lease.ckpt # NoCheckpoint
    BY <2>1 DEF NoCheckpoint
  <2> QED BY <2>1, <2>2 DEF LeaseRecords, Recorded
<1> QED BY <1>2, <1>3

\* MemoryIsCommitted, of a replica with memory m and request c.
Settled(m, c) ==
  m.loaded => Recorded(IF c.why = "save" THEN c.base ELSE m.base,
                       IF c.why = "save" THEN c.cand ELSE m.cand, m.seq)

AllSettled == \A r \in Replica : Settled(mem[r], call[r])

-----------------------------------------------------------------------------
\* The phases of a replica's cycle.

\* PhasesAreSound, of a replica with memory m and request c.
PhaseOf(m, c) ==
  /\ c.pc = "check" <=> c.why = "none"
  /\ c.pc \in {"match", "read", "write", "readback", "reconcile"}
       => c.why = "save"
  /\ c.pc \in {"list", "watch"} => c.why # "save"
  /\ c.pc # "check" => m.loaded
  /\ m.fresh => c.why \in {"list", "watch"}
  /\ c.why \in {"list", "watch"} \/ (c.why = "save" /\ c.accept)
       => m.base = c.seen /\ m.cand = NoIdentity
  /\ c.why \in {"list", "watch"} => m.seq > 0

\* PhasesAreSound says the same of every replica.
LEMMA PhasesByReplica ==
  /\ PhasesAreSound <=> \A r \in Replica : PhaseOf(mem[r], call[r])
  /\ PhasesAreSound' <=> \A r \in Replica : PhaseOf(mem'[r], call'[r])
BY DEF PhasesAreSound, PhaseOf, At, Saving

\* A cycle that ends leaves the replica at its preflight.
LEMMA IdlePhase ==
  ASSUME NEW m \in Memory, m.fresh = FALSE
  PROVE  PhaseOf(m, Idle)
BY DEF PhaseOf, Idle

\* A save that is given up ends the cycle.
LEMMA RollbackPhase ==
  ASSUME TypeOK, NEW r \in Replica, NEW leads \in BOOLEAN, Rollback(r, leads)
  PROVE  PhaseOf(mem'[r], call'[r])
<1>1. mem'[r] \in Memory
  BY RollbackTypes
<1>2. mem'[r].fresh = FALSE /\ call'[r] = Idle
  BY DEF Rollback, TypeOK, Memory
<1> QED BY <1>1, <1>2, IdlePhase

\* Without leadership a cycle ends, or its relist goes on with what the gate
\* accepted.
LEMMA NotElectedPhase ==
  ASSUME TypeOK, PhasesAreSound, NEW r \in Replica, NotElected(r),
         call[r].pc \in {"elect", "claim"}
  PROVE  PhaseOf(mem'[r], call'[r])
<1>1. /\ mem[r] \in Memory /\ call[r] \in Call /\ PhaseOf(mem[r], call[r])
      /\ mem'[r] \in Memory
  BY NotElectedTypes, PhasesByReplica DEF TypeOK
<1>2. CASE Rollback(r, FALSE)
  BY <1>2, RollbackPhase
<1>3. CASE /\ call[r].why = "list" /\ Goto(r, "list")
           /\ mem' = [mem EXCEPT ![r].leader = FALSE]
  <2>1. /\ mem'[r] = [mem[r] EXCEPT !.leader = FALSE]
        /\ call'[r] = [call[r] EXCEPT !.pc = "list"]
    BY <1>3 DEF TypeOK, Goto
  <2> QED BY <1>1, <1>3, <2>1 DEF PhaseOf, Memory, Call
<1>4. CASE /\ mem' = [mem EXCEPT ![r].leader = FALSE, ![r].fresh = FALSE]
           /\ call' = [call EXCEPT ![r] = Idle]
  <2>1. mem'[r].fresh = FALSE /\ call'[r] = Idle
    BY <1>4 DEF TypeOK, Memory
  <2> QED BY <1>1, <2>1, IdlePhase
<1> QED BY <1>2, <1>3, <1>4 DEF NotElected

\* After a save only an accepted snapshot, which is the baseline, is served.
LEMMA ReceiptPhase ==
  ASSUME TypeOK, PhasesAreSound, NEW r \in Replica, Saving(r), ~At(r, "check"),
         NEW epoch \in Nat, NEW seq \in Nat, NEW idempotent \in BOOLEAN,
         Receipt(r, epoch, seq, idempotent)
  PROVE  PhaseOf(mem'[r], call'[r])
<1>1. /\ mem[r] \in Memory /\ call[r] \in Call /\ PhaseOf(mem[r], call[r])
      /\ mem'[r] \in Memory
  BY ReceiptTypes, PhasesByReplica DEF TypeOK
<1>2. CASE SaveFails(r)
  BY <1>1, <1>2, RollbackPhase DEF SaveFails, Memory
<1>3. CASE ~SaveFails(r)
  <2>1. /\ ~Fenced(r, epoch, seq, idempotent)
        /\ mem' = [mem EXCEPT ![r].epoch = epoch, ![r].seq = seq,
                     ![r].stale = IF call[r].accept THEN FALSE
                                                    ELSE mem[r].stale]
        /\ call'[r] = IF call[r].accept
                      THEN [Idle EXCEPT !.pc = "elect", !.why = "list",
                               !.seen = call[r].seen, !.accept = TRUE]
                      ELSE Idle
    BY <1>3 DEF Receipt, TypeOK
  <2>2. /\ mem'[r].fresh = mem[r].fresh /\ mem'[r].base = mem[r].base
        /\ mem'[r].cand = mem[r].cand /\ mem'[r].loaded = mem[r].loaded
        /\ mem'[r].seq = seq
    BY <1>1, <2>1 DEF TypeOK, Memory
  <2>3. mem[r].fresh = FALSE /\ mem[r].loaded
    BY <1>1 DEF PhaseOf, Saving, At, Memory
  <2>4. seq > 0
    BY <1>1, <2>1 DEF Fenced, Memory
  <2>5. CASE call[r].accept
    <3>1. /\ call'[r].pc = "elect" /\ call'[r].why = "list"
          /\ call'[r].seen = call[r].seen
      BY <2>1, <2>5 DEF Idle
    <3>2. mem[r].base = call[r].seen /\ mem[r].cand = NoIdentity
      BY <1>1, <2>5 DEF PhaseOf, Saving
    <3> QED BY <2>2, <2>3, <2>4, <3>1, <3>2 DEF PhaseOf
  <2>6. CASE ~call[r].accept
    BY <1>1, <2>1, <2>2, <2>3, <2>6, IdlePhase
  <2> QED BY <2>5, <2>6
<1> QED BY <1>2, <1>3

\* The gate accepts exactly the snapshot it then works from, and saves whatever
\* it does not accept.
LEMMA JudgedPhase ==
  ASSUME NEW m \in Memory, NEW id \in Identity, m.loaded, m.fresh = FALSE,
         m.seq = 0 => m.base = NoIdentity
  PROVE  PhaseOf(Judged(m, id), Judgement(m, id))
<1>1. /\ m.base \in MaybeIdentity /\ m.cand \in MaybeIdentity
      /\ m.stale \in BOOLEAN /\ m.seq \in Nat
  BY DEF Memory
<1> DEFINE accept == Accepts(m.base, m.cand, m.stale, id)
           save == NeedsSave(m.base, m.cand, m.stale, id)
           new == Judged(m, id)
           next == Judgement(m, id)
<1>2. /\ next.pc = "elect" /\ next.seen = id /\ next.accept = accept
      /\ next.why = IF save THEN "save" ELSE "list"
  BY DEF Judgement
<1>3. /\ new.loaded = m.loaded /\ new.seq = m.seq
      /\ new.base = NextBase(m.base, m.cand, m.stale, id)
      /\ new.cand = NextCand(m.base, m.cand, m.stale, id)
  BY DEF Judged, Memory
<1>4. ~new.fresh
  BY DEF Judged, Memory
<1>5. accept => new.base = id /\ new.cand = NoIdentity
  BY <1>3 DEF NextBase, NextCand
<1>6. ~save => accept /\ new.base = m.base /\ m.seq > 0
  BY <1>1, <1>3, <1>5, NoIdentityAssumption
     DEF NeedsSave, NextBase, NextCand, Accepts
<1> QED BY <1>2, <1>3, <1>4, <1>5, <1>6 DEF PhaseOf

\* Every step leaves the replica that takes it in a sound phase.
LEMMA PhaseStep ==
  ASSUME TypeOK, LeaseRecords, PhasesAreSound, AllSettled,
         NEW r \in Replica, Step(r)
  PROVE  PhaseOf(mem'[r], call'[r])
<1> DEFINE m == mem[r]
           c == call[r]
<1>1. /\ m \in Memory /\ c \in Call /\ PhaseOf(m, c)
      /\ lease \in Lease
  BY PhasesByReplica DEF TypeOK
<1>2. m.leader \in BOOLEAN /\ c.trans \in Nat /\ c.floor \in Nat
  BY <1>1 DEF Memory, Call
<1>3. /\ c.pc \in {"match", "read", "write", "readback", "reconcile"}
      /\ SaveFails(r)
      => PhaseOf(mem'[r], call'[r])
  BY <1>2, RollbackPhase DEF SaveFails
<1>4. \A p : Goto(r, p) => call'[r] = [c EXCEPT !.pc = p]
  BY DEF Goto, TypeOK
<1>5. CASE Gate(r)
  <2>1. CASE \E id \in Observable : Check(r, id)
    <3>1. PICK id \in Observable : Check(r, id)
      BY <2>1
    <3>2. id \in Identity /\ Loaded(r) \in Memory
      BY LoadedType, ObservableAssumption
    <3>3. Loaded(r).loaded /\ Loaded(r).fresh = FALSE
      BY <1>1, <3>1 DEF Loaded, Restored, Check, At, PhaseOf, Memory
    <3>4. Loaded(r).seq = 0 => Loaded(r).base = NoIdentity
      <4>1. CASE m.loaded
        <5>1. Recorded(m.base, m.cand, m.seq)
          BY <1>1, <3>1, <4>1 DEF AllSettled, Settled, Check, At, PhaseOf
        <5> QED BY <4>1, <5>1 DEF Loaded, Recorded
      <4>2. CASE ~m.loaded
        <5>1. Loaded(r).seq = lease.ckpt.seq /\ Loaded(r).base = lease.ckpt.base
          BY <1>1, <4>2 DEF Loaded, Restored, Memory, LeaseRecords, NoCheckpoint
        <5> QED BY <5>1 DEF LeaseRecords, Recorded
      <4> QED BY <4>1, <4>2
    <3>5. PhaseOf(Judged(Loaded(r), id), Judgement(Loaded(r), id))
      BY <3>2, <3>3, <3>4, JudgedPhase
    <3> QED BY <3>1, <3>5 DEF Check, TypeOK
  <2>2. CASE Abandon(r)
    <3>1. mem'[r] = [m EXCEPT !.ok = FALSE, !.fresh = FALSE] /\ call'[r] = Idle
      BY <2>2 DEF Abandon, TypeOK
    <3> QED BY <1>1, <3>1, IdlePhase DEF Memory
  <2> QED BY <1>5, <2>1, <2>2 DEF Gate, CheckFails, ReplayDetected
<1>6. CASE Election(r)
  <2>1. CASE NotElected(r) /\ c.pc \in {"elect", "claim"}
    BY <2>1, NotElectedPhase
  <2>2. CASE Electable(r)
    <3>1. mem'[r] = m /\ c.pc = "elect"
      BY <2>2 DEF Electable, At
    <3>2. /\ call'[r].pc = "claim" /\ call'[r].why = c.why
          /\ call'[r].seen = c.seen /\ call'[r].accept = c.accept
      BY <1>1, <2>2 DEF Electable, TypeOK, Call
    <3> QED BY <1>1, <3>1, <3>2 DEF PhaseOf
  <2>3. CASE Claim(r)
    <3>1. /\ mem'[r] = [m EXCEPT !.leader = TRUE] /\ c.pc = "claim"
      BY <2>3 DEF Claim, Elected, TypeOK, At
    <3>2. c.why \in {"save", "list", "watch"}
      BY <1>1, <3>1 DEF PhaseOf, Call, Purpose
    <3>3. call'[r] = [c EXCEPT !.pc = CASE c.why = "save"  -> "match"
                                        [] c.why = "list"  -> "list"
                                        [] c.why = "watch" -> "watch"]
      BY <1>4, <2>3 DEF Claim, Elected
    <3>4. /\ mem'[r].loaded = m.loaded /\ mem'[r].base = m.base
          /\ mem'[r].cand = m.cand /\ mem'[r].seq = m.seq
          /\ mem'[r].fresh = m.fresh
      BY <1>1, <3>1 DEF Memory
    <3>5. /\ c.why = "save" => call'[r].pc = "match"
          /\ c.why = "list" => call'[r].pc = "list"
          /\ c.why = "watch" => call'[r].pc = "watch"
          /\ call'[r].why = c.why /\ call'[r].seen = c.seen
          /\ call'[r].accept = c.accept
      BY <1>1, <3>3 DEF Call
    <3> QED BY <1>1, <3>1, <3>2, <3>4, <3>5 DEF PhaseOf
  <2> QED
    BY <1>6, <2>1, <2>2, <2>3
       DEF Election, Standby, ElectFails, ClaimConflicts, ClaimUnknown, At
<1>7. CASE Save(r)
  <2>1. /\ c.pc \in {"match", "read", "write", "readback", "reconcile"}
        /\ Saving(r) /\ ~At(r, "check")
    <3>1. c.pc \in {"match", "read", "write", "readback", "reconcile"}
      BY <1>7 DEF Save, Match, Read, Write, WriteConflicts, WriteUnknown,
         WriteFails, Readback, ReadbackUnknown, Reconcile, SaveGetFails, At
    <3> QED BY <1>1, <3>1 DEF PhaseOf, Saving, At
  <2>2. CASE SaveFails(r)
    BY <1>3, <2>1, <2>2
  <2>3. CASE \E epoch, seq \in Nat, idempotent \in BOOLEAN :
               Receipt(r, epoch, seq, idempotent)
    BY <2>1, <2>3, ReceiptPhase
  <2>4. CASE /\ mem'[r] = m
             /\ call'[r].pc \in {"read", "write", "readback", "reconcile"}
             /\ call'[r].why = c.why /\ call'[r].seen = c.seen
             /\ call'[r].accept = c.accept
    BY <1>1, <2>1, <2>4 DEF PhaseOf, Saving, At
  <2>5. c.floor + 1 \in Nat /\ lease.trans \in Nat /\ lease.ckpt.seq \in Nat
    BY <1>1, <1>2 DEF Lease, Checkpoint
  <2> DEFINE moved == /\ mem'[r] = m
                      /\ call'[r].pc \in {"read", "write", "readback", "reconcile"}
                      /\ call'[r].why = c.why /\ call'[r].seen = c.seen
                      /\ call'[r].accept = c.accept
  <2>6. \A p \in {"readback", "reconcile"} :
          Goto(r, p) /\ UNCHANGED mem => moved
    <3> SUFFICES ASSUME NEW p \in {"readback", "reconcile"},
                        Goto(r, p), UNCHANGED mem
                 PROVE  moved
      OBVIOUS
    <3>1. call'[r] = [c EXCEPT !.pc = p] /\ mem'[r] = m
      BY <1>4
    <3> QED BY <1>1, <3>1 DEF Call
  <2>7. Match(r) => SaveFails(r) \/ moved
                    \/ Receipt(r, lease.trans, lease.ckpt.seq, TRUE)
    <3> SUFFICES ASSUME call' = [call EXCEPT ![r].pc = "read", ![r].attempt = 1],
                        UNCHANGED mem
                 PROVE  moved
      BY DEF Match
    <3> DEFINE d == [c EXCEPT !.pc = "read"]
    <3>1. call'[r] = [d EXCEPT !.attempt = 1] /\ mem'[r] = m
      BY DEF TypeOK
    <3>2. /\ d \in Call /\ d.pc = "read" /\ d.why = c.why
          /\ d.seen = c.seen /\ d.accept = c.accept
      BY <1>1 DEF Call, Phase
    <3> HIDE DEF d
    <3>3. /\ call'[r].pc = d.pc /\ call'[r].why = d.why
          /\ call'[r].seen = d.seen /\ call'[r].accept = d.accept
      BY <3>1, <3>2 DEF Call
    <3> QED BY <3>1, <3>2, <3>3
  <2>8. Read(r) => SaveFails(r) \/ moved
    BY <1>1 DEF Read, TypeOK, Call
  <2>9. WriteConflicts(r) => SaveFails(r) \/ moved
    BY <1>1 DEF WriteConflicts, TypeOK, Call
  <2>10. Write(r) \/ WriteUnknown(r) \/ ReadbackUnknown(r) => moved
    BY <2>6 DEF Write, WriteUnknown, ReadbackUnknown
  <2>11. WriteFails(r) \/ SaveGetFails(r) => SaveFails(r)
    BY DEF WriteFails, SaveGetFails
  <2>12. Readback(r) => SaveFails(r) \/ Receipt(r, c.trans, c.floor + 1, FALSE)
    BY DEF Readback
  <2>13. Reconcile(r) => SaveFails(r)
                         \/ Receipt(r, lease.trans, lease.ckpt.seq, TRUE)
    BY DEF Reconcile
  <2> QED
    BY <1>2, <1>7, <2>2, <2>3, <2>4, <2>5, <2>7, <2>8, <2>9, <2>10, <2>11,
       <2>12, <2>13 DEF Save
<1>8. CASE Serve(r)
  <2>1. CASE mem'[r] = m /\ call'[r] = [c EXCEPT !.pc = "elect", !.why = "watch"]
             /\ c.pc = "watch"
    BY <1>1, <2>1 DEF PhaseOf, Call, Purpose
  <2>2. CASE /\ mem'[r] \in Memory /\ mem'[r].fresh = FALSE
             /\ call'[r] = Idle
    BY <2>2, IdlePhase
  <2>3. CASE /\ mem'[r] = [m EXCEPT !.fresh = TRUE]
             /\ call'[r] = [c EXCEPT !.pc = "watch"] /\ c.pc = "list"
    BY <1>1, <2>3 DEF PhaseOf, Memory, Call, Purpose
  <2>4. CASE mem'[r] = [m EXCEPT !.leader = FALSE] /\ call'[r] = c
    BY <1>1, <2>4 DEF PhaseOf, Memory
  <2>5. mem'[r] \in Memory
    BY <1>8, ServeType DEF TypeOK
  <2>6. WatchEvent(r) => /\ mem'[r] = m /\ c.pc = "watch"
                         /\ call'[r] = [c EXCEPT !.pc = "elect", !.why = "watch"]
    BY DEF WatchEvent, TypeOK, At
  <2>7. ListDefers(r) \/ ApiLost(r) \/ WatchEnds(r)
        => mem'[r].fresh = FALSE /\ call'[r] = Idle
    BY <1>1 DEF ListDefers, ApiLost, WatchEnds, TypeOK, Memory
  <2>8. ListSettles(r) => /\ mem'[r] = [m EXCEPT !.fresh = TRUE]
                          /\ call'[r] = [c EXCEPT !.pc = "watch"]
                          /\ c.pc = "list"
    BY <1>4 DEF ListSettles, TypeOK, At
  <2>9. LeadershipAges(r) => mem'[r] = [m EXCEPT !.leader = FALSE] /\ call'[r] = c
    BY DEF LeadershipAges, TypeOK
  <2> QED
    BY <1>8, <2>1, <2>2, <2>3, <2>4, <2>5, <2>6, <2>7, <2>8, <2>9 DEF Serve
<1>9. CASE Crash(r)
  <2>1. mem'[r] = Boot /\ call'[r] = Idle
    BY <1>9 DEF Crash, TypeOK
  <2> QED BY <2>1, StartTypes, IdlePhase DEF Boot
<1> QED BY <1>5, <1>6, <1>7, <1>8, <1>9 DEF Step

-----------------------------------------------------------------------------
\* The memory of a replica and the checkpoint with its sequence.

\* Where the n-th checkpoint has sequence n, MemoryIsCommitted says the same of
\* every replica.
LEMMA SettledByReplica ==
  TypeOK /\ SequenceIsDense => (MemoryIsCommitted <=> AllSettled)
<1> SUFFICES ASSUME TypeOK, SequenceIsDense, NEW r \in Replica
             PROVE  Settled(mem[r], call[r]) <=>
                      (mem[r].loaded =>
                         \/ /\ mem[r].seq = 0
                            /\ SettledBase(r) = NoIdentity
                            /\ SettledCand(r) = NoIdentity
                         \/ /\ mem[r].seq \in 1..Len(commits)
                            /\ commits[mem[r].seq].ckpt.base = SettledBase(r)
                            /\ commits[mem[r].seq].ckpt.cand = SettledCand(r))
  BY DEF MemoryIsCommitted, AllSettled
<1>1. mem[r].seq \in Nat /\ Len(commits) \in Nat
  BY DEF TypeOK, Memory
<1>2. \A i \in 1..Len(commits) : commits[i].ckpt.seq = i
  BY DEF SequenceIsDense
<1>3. Settled(mem[r], call[r]) <=>
        (mem[r].loaded => Recorded(SettledBase(r), SettledCand(r), mem[r].seq))
  BY DEF Settled, SettledBase, SettledCand, Saving
<1> QED BY <1>1, <1>2, <1>3 DEF Recorded

\* Checkpoints that were written stay written.
LEMMA StaysRecorded ==
  ASSUME TypeOK, TypeOK', NEW b, NEW c, NEW n, Recorded(b, c, n),
         Len(commits') >= Len(commits),
         \A i \in 1..Len(commits) : commits'[i] = commits[i]
  PROVE  Recorded(b, c, n)'
<1>1. Len(commits) \in Nat /\ Len(commits') \in Nat
  BY DEF TypeOK
<1>2. \A i \in 1..Len(commits) : i \in 1..Len(commits')
  BY <1>1
<1> QED BY <1>2 DEF Recorded

\* Checkpoints are never taken back.
LEMMA HistoryStays ==
  ASSUME TypeOK, NEW r \in Replica, Step(r)
  PROVE  /\ Len(commits') >= Len(commits)
         /\ \A i \in 1..Len(commits) : commits'[i] = commits[i]
<1>1. CASE UNCHANGED commits
  BY <1>1 DEF TypeOK
<1>2. CASE Commits(r)
  <2>1. commits \in Seq(Commit) /\ [ckpt |-> Written(r), by |-> r] \in Commit
    BY <1>2, CommitsTypes DEF TypeOK, Commit
  <2> QED BY <1>2, <2>1, Appended DEF Commits
<1> QED BY <1>1, <1>2, LeaseOutcomes

\* A save that is given up restores the pair that was settled.
LEMMA RollbackSettled ==
  ASSUME TypeOK, AllSettled, NEW r \in Replica, Saving(r),
         NEW leads \in BOOLEAN, Rollback(r, leads)
  PROVE  Settled(mem'[r], call'[r])
<1>1. mem[r] \in Memory /\ Settled(mem[r], call[r])
  BY DEF TypeOK, AllSettled
<1>2. /\ mem'[r].loaded = mem[r].loaded /\ mem'[r].seq = mem[r].seq
      /\ mem'[r].base = call[r].base /\ mem'[r].cand = call[r].cand
      /\ call'[r].why = "none"
  BY <1>1 DEF Rollback, TypeOK, Memory, Idle
<1> QED BY <1>1, <1>2 DEF Settled, Saving

\* A save that is acknowledged settles the pair that was written.
LEMMA ReceiptSettled ==
  ASSUME TypeOK, AllSettled, NEW r \in Replica, Saving(r),
         NEW epoch \in Nat, NEW seq \in Nat, NEW idempotent \in BOOLEAN,
         Receipt(r, epoch, seq, idempotent),
         Recorded(mem[r].base, mem[r].cand, seq)
  PROVE  Settled(mem'[r], call'[r])
<1>1. mem[r] \in Memory
  BY DEF TypeOK
<1>2. CASE SaveFails(r)
  BY <1>1, <1>2, RollbackSettled DEF SaveFails, Memory
<1>3. CASE ~SaveFails(r)
  <2>1. /\ mem' = [mem EXCEPT ![r].epoch = epoch, ![r].seq = seq,
                     ![r].stale = IF call[r].accept THEN FALSE
                                                    ELSE mem[r].stale]
        /\ call'[r] = IF call[r].accept
                      THEN [Idle EXCEPT !.pc = "elect", !.why = "list",
                               !.seen = call[r].seen, !.accept = TRUE]
                      ELSE Idle
    BY <1>3 DEF Receipt, TypeOK
  <2>3. call'[r].why \in {"list", "none"}
    <3>1. CASE call[r].accept
      BY <2>1, <3>1 DEF Idle
    <3>2. CASE ~call[r].accept
      BY <2>1, <3>2 DEF Idle
    <3> QED BY <3>1, <3>2
  <2>2. /\ mem'[r].base = mem[r].base /\ mem'[r].cand = mem[r].cand
        /\ mem'[r].seq = seq
    BY <1>1, <2>1 DEF TypeOK, Memory
  <2> QED BY <2>2, <2>3 DEF Settled
<1> QED BY <1>2, <1>3

\* What the gate decides can be undone: the pair it started from is kept, or
\* still stands.
LEMMA JudgedSettled ==
  ASSUME NEW m \in Memory, NEW id \in Identity, Recorded(m.base, m.cand, m.seq)
  PROVE  Settled(Judged(m, id), Judgement(m, id))
<1> DEFINE save == NeedsSave(m.base, m.cand, m.stale, id)
<1>1. /\ Judged(m, id).seq = m.seq
      /\ Judged(m, id).base = NextBase(m.base, m.cand, m.stale, id)
      /\ Judged(m, id).cand = NextCand(m.base, m.cand, m.stale, id)
  BY DEF Judged, Memory
<1>2. CASE save
  BY <1>1, <1>2 DEF Judgement, Settled
<1>3. CASE ~save
  <2>1. /\ NextBase(m.base, m.cand, m.stale, id) = m.base
        /\ NextCand(m.base, m.cand, m.stale, id) = m.cand
    BY <1>3 DEF NeedsSave
  <2>2. Judgement(m, id).why = "list"
    BY <1>3 DEF Judgement
  <2> QED BY <1>1, <2>1, <2>2 DEF Settled
<1> QED BY <1>2, <1>3

\* Every step leaves the memory of the replica that takes it at a checkpoint.
LEMMA MemoryStep ==
  ASSUME TypeOK, LeaseRecords, PhasesAreSound, AllSettled,
         NEW r \in Replica, Step(r)
  PROVE  Settled(mem'[r], call'[r])
<1> DEFINE m == mem[r]
           c == call[r]
           kept == /\ mem'[r].loaded = m.loaded /\ mem'[r].seq = m.seq
                   /\ mem'[r].base = m.base /\ mem'[r].cand = m.cand
                   /\ call'[r].why = "save" <=> c.why = "save"
                   /\ c.why = "save" => /\ call'[r].base = c.base
                                        /\ call'[r].cand = c.cand
<1>1. /\ m \in Memory /\ c \in Call /\ lease \in Lease
      /\ PhaseOf(m, c) /\ Settled(m, c)
  BY PhasesByReplica DEF TypeOK, AllSettled
<1>2. m.leader \in BOOLEAN /\ c.trans \in Nat /\ c.floor \in Nat
  BY <1>1 DEF Memory, Call
<1>3. CASE kept
  BY <1>1, <1>3 DEF Settled
<1>4. \A p : Goto(r, p) => /\ call'[r].why = c.why
                           /\ call'[r].base = c.base /\ call'[r].cand = c.cand
  BY <1>1 DEF Goto, TypeOK, Call
<1>5. CASE Gate(r)
  <2>1. CASE \E id \in Observable : Check(r, id)
    <3>1. PICK id \in Observable : Check(r, id)
      BY <2>1
    <3>2. id \in Identity /\ Loaded(r) \in Memory
      BY LoadedType, ObservableAssumption
    <3>3. Recorded(Loaded(r).base, Loaded(r).cand, Loaded(r).seq)
      <4>1. CASE m.loaded
        BY <1>1, <3>1, <4>1 DEF Loaded, Settled, Check, At, PhaseOf
      <4>2. CASE ~m.loaded
        <5>1. /\ Loaded(r).seq = lease.ckpt.seq
              /\ Loaded(r).base = lease.ckpt.base
              /\ Loaded(r).cand = lease.ckpt.cand
          BY <1>1, <4>2 DEF Loaded, Restored, Memory, LeaseRecords, NoCheckpoint
        <5> QED BY <5>1 DEF LeaseRecords
      <4> QED BY <4>1, <4>2
    <3> QED BY <3>1, <3>2, <3>3, JudgedSettled DEF Check, TypeOK
  <2>2. Abandon(r) => kept
    <3> SUFFICES ASSUME Abandon(r) PROVE kept
      OBVIOUS
    <3>1. c.why = "none" \/ c.pc # "check"
      BY <1>1 DEF PhaseOf
    <3>2. mem'[r] = [m EXCEPT !.ok = FALSE, !.fresh = FALSE] /\ call'[r] = Idle
      BY DEF Abandon, TypeOK
    <3>3. c.why = "none"
      BY <1>1, <1>5, <3>2 DEF PhaseOf, Gate, Check, CheckFails, ReplayDetected, At
    <3> QED BY <1>1, <3>2, <3>3 DEF Memory, Idle
  <2> QED BY <1>3, <1>5, <2>1, <2>2 DEF Gate, CheckFails, ReplayDetected
<1>6. CASE Election(r)
  <2>1. CASE NotElected(r)
    <3>1. CASE Rollback(r, FALSE) /\ Saving(r)
      BY <3>1, RollbackSettled
    <3>2. CASE /\ c.why \in {"list", "watch"}
               /\ call'[r].why \in {"list", "none"}
               /\ mem'[r].loaded = m.loaded /\ mem'[r].seq = m.seq
               /\ mem'[r].base = m.base /\ mem'[r].cand = m.cand
      BY <1>3, <3>2
    <3>3. c.why = "list" /\ Goto(r, "list") => call'[r].why = "list"
      BY <1>4
    <3>4. call' = [call EXCEPT ![r] = Idle] => call'[r].why = "none"
      BY DEF TypeOK, Idle
    <3>5. \/ mem' = [mem EXCEPT ![r].leader = FALSE]
          \/ mem' = [mem EXCEPT ![r].leader = FALSE, ![r].fresh = FALSE]
          => /\ mem'[r].loaded = m.loaded /\ mem'[r].seq = m.seq
             /\ mem'[r].base = m.base /\ mem'[r].cand = m.cand
      BY <1>1 DEF TypeOK, Memory
    <3> QED BY <2>1, <3>1, <3>2, <3>3, <3>4, <3>5 DEF NotElected, Saving
  <2>2. Electable(r) => kept
    BY <1>1 DEF Electable, TypeOK, Call
  <2>3. Claim(r) => kept
    <3>1. mem' = [mem EXCEPT ![r].leader = TRUE]
          => /\ mem'[r].loaded = m.loaded /\ mem'[r].seq = m.seq
             /\ mem'[r].base = m.base /\ mem'[r].cand = m.cand
      BY <1>1 DEF TypeOK, Memory
    <3> QED BY <1>4, <3>1 DEF Claim, Elected
  <2> QED BY <1>3, <1>6, <2>1, <2>2, <2>3
     DEF Election, Standby, ElectFails, ClaimConflicts, ClaimUnknown
<1>7. CASE Save(r)
  <2>1. Saving(r)
    <3>1. c.pc \in {"match", "read", "write", "readback", "reconcile"}
      BY <1>7 DEF Save, Match, Read, Write, WriteConflicts, WriteUnknown,
         WriteFails, Readback, ReadbackUnknown, Reconcile, SaveGetFails, At
    <3> QED BY <1>1, <3>1 DEF PhaseOf, Saving
  <2>2. CASE SaveFails(r)
    BY <1>2, <2>1, <2>2, RollbackSettled DEF SaveFails
  <2>3. CASE Receipt(r, lease.trans, lease.ckpt.seq, TRUE) /\ AlreadySaved(r)
    <3>1. lease.ckpt.seq \in Nat /\ lease.trans \in Nat
      BY <1>1 DEF Lease, Checkpoint
    <3>2. Recorded(m.base, m.cand, lease.ckpt.seq)
      BY <2>3 DEF AlreadySaved, LeaseRecords
    <3> QED BY <2>1, <2>3, <3>1, <3>2, ReceiptSettled
  <2>4. CASE /\ Receipt(r, c.trans, c.floor + 1, FALSE)
             /\ lease.floor = c.floor + 1 /\ lease.ckpt = Written(r)
    <3>1. c.floor + 1 \in Nat
      BY <1>2
    <3>2. Recorded(m.base, m.cand, c.floor + 1)
      BY <2>4 DEF Written, LeaseRecords
    <3> QED BY <1>2, <2>1, <2>4, <3>1, <3>2, ReceiptSettled
  <2>5. \A p : Goto(r, p) /\ UNCHANGED mem => kept
    BY <1>4
  <2>6. Match(r) => \/ SaveFails(r) \/ kept
                    \/ /\ Receipt(r, lease.trans, lease.ckpt.seq, TRUE)
                       /\ AlreadySaved(r)
    <3>1. call' = [call EXCEPT ![r].pc = "read", ![r].attempt = 1]
          => /\ call'[r].why = c.why
             /\ call'[r].base = c.base /\ call'[r].cand = c.cand
      BY <1>1 DEF TypeOK, Call
    <3> QED BY <3>1 DEF Match
  <2>7. Read(r) => SaveFails(r) \/ kept
    BY <1>1 DEF Read, TypeOK, Call
  <2>8. WriteConflicts(r) => SaveFails(r) \/ kept
    BY <1>1 DEF WriteConflicts, TypeOK, Call
  <2>9. Write(r) \/ WriteUnknown(r) \/ ReadbackUnknown(r) => kept
    BY <2>5 DEF Write, WriteUnknown, ReadbackUnknown
  <2>10. WriteFails(r) \/ SaveGetFails(r) => SaveFails(r)
    BY DEF WriteFails, SaveGetFails
  <2>11. Readback(r) => \/ SaveFails(r)
                        \/ /\ Receipt(r, c.trans, c.floor + 1, FALSE)
                           /\ lease.floor = c.floor + 1
                           /\ lease.ckpt = Written(r)
    BY DEF Readback
  <2>12. Reconcile(r) => \/ SaveFails(r)
                         \/ /\ Receipt(r, lease.trans, lease.ckpt.seq, TRUE)
                            /\ AlreadySaved(r)
    BY DEF Reconcile
  <2> QED BY <1>3, <1>7, <2>2, <2>3, <2>4, <2>6, <2>7, <2>8, <2>9, <2>10,
             <2>11, <2>12 DEF Save
<1>8. CASE Serve(r)
  <2>1. /\ mem'[r].loaded = m.loaded /\ mem'[r].seq = m.seq
        /\ mem'[r].base = m.base /\ mem'[r].cand = m.cand
    BY <1>1, <1>8 DEF Serve, ListSettles, ListDefers, ApiLost, WatchEvent,
                      WatchEnds, LeadershipAges, TypeOK, Memory
  <2>2. CASE LeadershipAges(r)
    BY <1>3, <2>1, <2>2 DEF LeadershipAges
  <2>3. CASE ~LeadershipAges(r)
    <3>1. c.why # "save"
      BY <1>1, <1>8, <2>3 DEF Serve, ListSettles, ListDefers, ApiLost,
         WatchEvent, WatchEnds, PhaseOf, At
    <3>2. call' = [call EXCEPT ![r] = Idle] => call'[r].why = "none"
      BY DEF TypeOK, Idle
    <3>3. call' = [call EXCEPT ![r].pc = "elect", ![r].why = "watch"]
          => call'[r].why = "watch"
      BY <1>1 DEF TypeOK, Call
    <3>4. call'[r].why # "save"
      BY <1>4, <1>8, <2>3, <3>1, <3>2, <3>3 DEF Serve, ListSettles, ListDefers,
         ApiLost, WatchEvent, WatchEnds
    <3> QED BY <1>3, <2>1, <3>1, <3>4
  <2> QED BY <2>2, <2>3
<1>9. CASE Crash(r)
  BY <1>9 DEF Crash, TypeOK, Boot, Settled
<1> QED BY <1>5, <1>6, <1>7, <1>8, <1>9 DEF Step

\* So does every step the memories of all replicas.
LEMMA SettledStep ==
  ASSUME TypeOK, TypeOK', LeaseRecords, PhasesAreSound, AllSettled,
         NEW r \in Replica, Step(r)
  PROVE  AllSettled'
<1>1. \A q \in Replica : Settled(mem'[q], call'[q])
  BY MemoryStep, Frame DEF AllSettled
<1>2. /\ Len(commits') >= Len(commits)
      /\ \A i \in 1..Len(commits) : commits'[i] = commits[i]
  BY HistoryStays
<1>3. \A b, c, n : Recorded(b, c, n) => Recorded(b, c, n)'
  BY <1>2, StaysRecorded
<1> QED BY <1>1, <1>3 DEF AllSettled, Settled

-----------------------------------------------------------------------------
\* The theorems.

\* The invariant holds when the replicas start.
LEMMA InvInit == Init => Inv
<1> SUFFICES ASSUME Init PROVE Inv
  OBVIOUS
<1>1. TypeOK /\ LogInv /\ RequestsAreCurrent
  BY StartLog
<1>2. \A r \in Replica : mem[r] = Boot /\ call[r] = Idle
  BY DEF Init
<1>3. PhasesAreSound
  BY <1>2, StartTypes, IdlePhase, PhasesByReplica DEF Boot
<1>4. MemoryIsCommitted
  <2>1. AllSettled
    BY <1>2 DEF AllSettled, Settled, Boot
  <2> QED BY <1>1, <2>1, SettledByReplica DEF LogInv
<1> QED BY <1>1, <1>3, <1>4 DEF Inv, LogInv

\* An edit of the Lease makes every request out of date, and no more.
LEMMA EditKeeps ==
  ASSUME TypeOK, LeaseCarriesLastCommit, EpochsFollowLease, PhasesAreSound,
         Edit
  PROVE  /\ LeaseCarriesLastCommit' /\ EpochsFollowLease'
         /\ RequestsAreCurrent' /\ PhasesAreSound'
         /\ MemoryIsCommitted => MemoryIsCommitted'
         /\ UNCHANGED commits
<1>1. /\ lease'.exists = lease.exists /\ lease'.holder = lease.holder
      /\ lease'.trans = lease.trans /\ lease'.ckpt = lease.ckpt
      /\ lease'.floor = lease.floor
  BY DEF Edit, TypeOK, Lease
<1>2. UNCHANGED <<mem, call, commits>> /\ rvCurrent' = {}
  BY DEF Edit
<1> QED
  BY <1>1, <1>2 DEF LeaseCarriesLastCommit, EpochsFollowLease,
     RequestsAreCurrent, PhasesAreSound, MemoryIsCommitted, At, Saving,
     SettledBase, SettledCand

\* The invariant is inductive.
LEMMA InvStep == Inv /\ [Next]_vars => Inv'
<1> SUFFICES ASSUME Inv, [Next]_vars PROVE Inv'
  OBVIOUS
<1>1. /\ TypeOK /\ LogInv /\ RequestsAreCurrent /\ PhasesAreSound
      /\ LeaseRecords /\ AllSettled
  BY SettledByReplica, LeaseRecorded DEF Inv, LogInv
<1>2. CASE UNCHANGED vars
  BY <1>2 DEF Inv, vars, TypeOK, SequenceIsDense, EpochHasOneWriter,
     LeaseCarriesLastCommit, EpochsFollowLease, RequestsAreCurrent,
     PhasesAreSound, MemoryIsCommitted, At, Saving, SettledBase, SettledCand
<1>3. CASE Edit
  BY <1>1, <1>3, EditKeeps, EditType
     DEF Inv, LogInv, SequenceIsDense, EpochHasOneWriter
<1>4. CASE \E r \in Replica : Step(r)
  <2>1. PICK r \in Replica : Step(r)
    BY <1>4
  <2>2. TypeOK' /\ LogInv' /\ RequestsAreCurrent'
    BY <1>1, <2>1, NextIsStep, TypeStep, LogStep, RequestStep
  <2>3. \A q \in Replica : PhaseOf(mem'[q], call'[q])
    BY <1>1, <2>1, PhaseStep, Frame, PhasesByReplica
  <2>4. AllSettled'
    BY <1>1, <2>1, <2>2, SettledStep
  <2>5. MemoryIsCommitted'
    <3>1. (TypeOK /\ SequenceIsDense => (MemoryIsCommitted <=> AllSettled))'
      BY SettledByReplica, PTL
    <3> QED BY <2>2, <2>4, <3>1 DEF LogInv
  <2> QED BY <2>2, <2>3, <2>5, PhasesByReplica DEF Inv, LogInv
<1> QED BY <1>2, <1>3, <1>4, NextIsStep

\* The inductive invariant: every reachable state of every deployment is well
\* formed, the Lease carries the last of the checkpoints ever written, a
\* request that the server would accept was computed from the Lease as it is,
\* and the memory of every replica is that of a checkpoint.
THEOREM Safety == Spec => []Inv
BY InvInit, InvStep, PTL DEF Spec

\* Every variable keeps its type.
THEOREM TypeCorrect == Spec => []TypeOK
<1>1. Inv => TypeOK
  BY DEF Inv
<1> QED BY <1>1, Safety, PTL

\* Compare-and-swap on the Lease leaves no sequence out and uses none twice.
THEOREM DenseSequence == Spec => []SequenceIsDense
<1>1. Inv => SequenceIsDense
  BY DEF Inv
<1> QED BY <1>1, Safety, PTL

\* A deposed leader never writes into the transition of its successor.
THEOREM OneWriterPerEpoch == Spec => []EpochHasOneWriter
<1>1. Inv => EpochHasOneWriter
  BY DEF Inv
<1> QED BY <1>1, Safety, PTL

\* Failures and rollbacks leave a replica with the state of the checkpoint
\* whose sequence it remembers.
THEOREM CommittedMemory == Spec => []MemoryIsCommitted
<1>1. Inv => MemoryIsCommitted
  BY DEF Inv
<1> QED BY <1>1, Safety, PTL

\* A ready replica serves the snapshot that a stored checkpoint names as the
\* baseline.
THEOREM PersistedReadiness == Spec => []ReadyIsPersisted
<1>1. Inv => ReadyIsPersisted
  <2> SUFFICES ASSUME Inv, NEW r \in Replica, Ready(r)
               PROVE  /\ mem[r].base = call[r].seen
                      /\ mem[r].cand = NoIdentity
                      /\ mem[r].seq \in 1..Len(commits)
                      /\ commits[mem[r].seq].ckpt.base = call[r].seen
    BY DEF ReadyIsPersisted
  <2>1. /\ call[r].why \in {"list", "watch"} /\ mem[r].seq > 0
        /\ mem[r].base = call[r].seen /\ mem[r].cand = NoIdentity
        /\ mem[r].loaded /\ mem[r] \in Memory
    BY DEF Inv, PhasesAreSound, Ready, TypeOK
  <2>2. mem[r].seq # 0
    BY <2>1 DEF Memory
  <2> QED BY <2>1, <2>2
          DEF Inv, MemoryIsCommitted, SettledBase, SettledCand, Saving
<1> QED BY <1>1, Safety, PTL

-----------------------------------------------------------------------------
\* Refinement.

\* The log of CheckpointLog has an entry for every checkpoint.
HistoryShape ==
  /\ Len(History) = Len(commits)
  /\ \A i \in 1..Len(commits) :
       /\ History[i] = [content |-> <<commits[i].ckpt.base, commits[i].ckpt.cand>>,
                        epoch |-> commits[i].ckpt.epoch,
                        seq |-> commits[i].ckpt.seq,
                        by |-> commits[i].by]
       /\ History[i] \in Log!Entry

\* The history consists of entries of the log.
LEMMA HistoryEntries == TypeOK => HistoryShape
<1> SUFFICES ASSUME TypeOK PROVE HistoryShape
  OBVIOUS
<1>1. commits \in Seq(Commit) /\ Len(commits) \in Nat
  BY DEF TypeOK
<1>2. Len(History) = Len(commits)
  BY <1>1 DEF History
<1>3. \A c \in Commit : [content |-> <<c.ckpt.base, c.ckpt.cand>>,
                         epoch |-> c.ckpt.epoch, seq |-> c.ckpt.seq,
                         by |-> c.by] \in Log!Entry
  BY DEF Commit, Checkpoint, Log!Entry
<1>4. \A i \in 1..Len(commits) : commits[i] \in Commit
  BY <1>1
<1> QED BY <1>2, <1>3, <1>4 DEF History, HistoryShape

\* The replicas start with an empty log, or with the entry they inherit.
LEMMA LogInit == Init => Log!Init
<1> SUFFICES ASSUME Init PROVE Log!Init
  OBVIOUS
<1>1. TypeOK /\ LogInv
  BY StartLog
<1>2. lease.floor \in {0, 1}
  <2>1. PICK start \in LeaseKind : StartLease(start)
    BY StartsAssumption DEF Init
  <2> QED BY <2>1, StartLeases
<1>3. Len(commits) = lease.floor
  BY <1>1 DEF LogInv, LeaseCarriesLastCommit
<1>4. Len(commits) = 1 => commits[1].ckpt.seq = 1
  BY <1>1 DEF LogInv, SequenceIsDense
<1>5. HistoryShape
  BY <1>1, HistoryEntries
<1>6. CASE Len(commits) = 0
  BY <1>5, <1>6 DEF HistoryShape, Log!Init
<1>7. CASE Len(commits) = 1
  BY <1>4, <1>5, <1>7 DEF HistoryShape, Log!Init
<1> QED BY <1>2, <1>3, <1>6, <1>7

\* A step of the replicas commits one entry to the log, or leaves it alone.
LEMMA LogCommit ==
  ASSUME TypeOK, TypeOK', SequenceIsDense', EpochHasOneWriter',
         UNCHANGED commits \/ \E r \in Replica : Commits(r)
  PROVE  [Log!Commit]_History
<1>1. CASE UNCHANGED commits
  BY <1>1 DEF History
<1>2. CASE \E r \in Replica : Commits(r)
  <2>1. PICK r \in Replica : Commits(r)
    BY <1>2
  <2> DEFINE n == Len(commits)
             new == [ckpt |-> Written(r), by |-> r]
  <2>2. n \in Nat /\ commits \in Seq(Commit) /\ new \in Commit
    BY <2>1, CommitsTypes DEF TypeOK, Commit
  <2>3. /\ Len(commits') = n + 1 /\ commits'[n + 1] = new
        /\ \A i \in 1..n : commits'[i] = commits[i]
    <3>1. commits' = Append(commits, new)
      BY <2>1 DEF Commits
    <3> QED BY <2>2, <3>1, Appended
  <2>4. HistoryShape /\ HistoryShape'
    <3>1. TypeOK' => HistoryShape'
      BY HistoryEntries, PTL
    <3> QED BY <3>1, HistoryEntries
  <2>5. /\ Len(History') = n + 1 /\ Len(History) = n
        /\ \A i \in 1..n : History'[i] = History[i]
        /\ History'[n + 1] \in Log!Entry
    <3>1. Len(History') = n + 1 /\ Len(History) = n
      BY <2>3, <2>4 DEF HistoryShape
    <3>2. ASSUME NEW i \in 1..n PROVE History'[i] = History[i]
      <4>1. i \in 1..Len(commits) /\ i \in 1..Len(commits')
        BY <2>2, <2>3
      <4>2. commits'[i] = commits[i]
        BY <2>3
      <4> QED BY <2>4, <4>1, <4>2 DEF HistoryShape
    <3>3. n + 1 \in 1..Len(commits')
      BY <2>2, <2>3
    <3> QED BY <2>4, <3>1, <3>2, <3>3 DEF HistoryShape
  <2>6. commits'[n + 1].ckpt.seq = n + 1
    BY <2>2, <2>3 DEF SequenceIsDense
  <2>7. n > 0 => /\ commits[n].ckpt.epoch <= commits'[n + 1].ckpt.epoch
                 /\ commits[n].ckpt.epoch = commits'[n + 1].ckpt.epoch
                      => commits[n].by = commits'[n + 1].by
    BY <2>2, <2>3 DEF EpochHasOneWriter
  <2>8. /\ History'[n + 1].seq = commits'[n + 1].ckpt.seq
        /\ History'[n + 1].epoch = commits'[n + 1].ckpt.epoch
        /\ History'[n + 1].by = commits'[n + 1].by
        /\ n > 0 => /\ History[n].epoch = commits[n].ckpt.epoch
                    /\ History[n].by = commits[n].by
    <3>1. n + 1 \in 1..Len(commits')
      BY <2>2, <2>3
    <3>2. n > 0 => n \in 1..Len(commits)
      BY <2>2
    <3>3. History'[n + 1] = [content |-> <<commits'[n + 1].ckpt.base,
                                           commits'[n + 1].ckpt.cand>>,
                             epoch |-> commits'[n + 1].ckpt.epoch,
                             seq |-> commits'[n + 1].ckpt.seq,
                             by |-> commits'[n + 1].by]
      BY <2>4, <3>1 DEF HistoryShape
    <3>4. n > 0 => History[n] = [content |-> <<commits[n].ckpt.base,
                                               commits[n].ckpt.cand>>,
                                 epoch |-> commits[n].ckpt.epoch,
                                 seq |-> commits[n].ckpt.seq,
                                 by |-> commits[n].by]
      BY <2>4, <3>2 DEF HistoryShape
    <3> QED BY <3>3, <3>4
  <2>9. /\ n > 0 => commits[n].ckpt.epoch \in Nat
        /\ commits'[n + 1].ckpt.epoch \in Nat
    <3>1. \A c \in Commit : c.ckpt.epoch \in Nat
      BY DEF Commit, Checkpoint
    <3>2. n > 0 => commits[n] \in Commit
      BY <2>2
    <3> QED BY <2>2, <2>3, <3>1, <3>2
  <2>10. Log!Follows(History'[n + 1])
    BY <2>2, <2>5, <2>6, <2>7, <2>8, <2>9 DEF Log!Follows
  <2> QED BY <2>5, <2>10 DEF Log!Commit
<1> QED BY <1>1, <1>2

\* The replicas implement the append-only log.
THEOREM Refinement == Spec => ImplementsLog
<1>1. Inv /\ Inv' /\ [Next]_vars => [Log!Commit]_History
  <2> SUFFICES ASSUME Inv, Inv', [Next]_vars PROVE [Log!Commit]_History
    OBVIOUS
  <2>1. UNCHANGED commits \/ \E r \in Replica : Commits(r)
    BY LeaseOutcomes, NextIsStep DEF vars, Edit
  <2> QED BY <2>1, LogCommit DEF Inv
<1> QED BY <1>1, Safety, LogInit, PTL DEF Spec, ImplementsLog, Log!Spec

-----------------------------------------------------------------------------
\* Promotion: a baseline is written by who has it as baseline or candidate of
\* the checkpoint it works from.

\* No checkpoint is without a baseline, so "no baseline" is no way to confirm.
BaselinesExist ==
  \A i \in 1..Len(commits) : commits[i].ckpt.base # NoIdentity

\* A replica with memory m that saves, having kept the pair of request c, took
\* its baseline from that pair, unless the pair had none; and it writes no
\* empty one.
ConfirmOf(m, c) ==
  c.why = "save" =>
    /\ m.base = c.base \/ m.base = c.cand \/ c.base = NoIdentity
    /\ m.base # NoIdentity \/ m.cand # NoIdentity
    /\ c.pc = "write" => m.base # NoIdentity

Confirming == \A r \in Replica : ConfirmOf(mem[r], call[r])

\* The gate takes a new baseline from the candidate, or for want of one.
LEMMA JudgedConfirms ==
  ASSUME NEW m \in Memory, NEW id \in Identity
  PROVE  ConfirmOf(Judged(m, id), Judgement(m, id))
<1>1. /\ Judged(m, id).base = NextBase(m.base, m.cand, m.stale, id)
      /\ Judged(m, id).cand = NextCand(m.base, m.cand, m.stale, id)
  BY DEF Judged, Memory
<1>2. /\ Judgement(m, id).pc = "elect"
      /\ Judgement(m, id).why = "save"
           => Judgement(m, id).base = m.base /\ Judgement(m, id).cand = m.cand
  BY DEF Judgement
<1>3. id # NoIdentity
  BY NoIdentityAssumption
<1> QED BY <1>1, <1>2, <1>3 DEF ConfirmOf, NextBase, NextCand, Accepts

\* Every step of a replica keeps the pair it saves and the one it fell back to,
\* or ends the save.
LEMMA ConfirmStep ==
  ASSUME TypeOK, PhasesAreSound, NEW r \in Replica, Step(r),
         ConfirmOf(mem[r], call[r])
  PROVE  ConfirmOf(mem'[r], call'[r])
<1> DEFINE m == mem[r]
           c == call[r]
           kept == /\ mem'[r].base = m.base /\ mem'[r].cand = m.cand
                   /\ call'[r].why = c.why
                   /\ call'[r].base = c.base /\ call'[r].cand = c.cand
           over == call'[r].why # "save"
<1>1. m \in Memory /\ c \in Call /\ PhaseOf(m, c)
  BY PhasesByReplica DEF TypeOK
<1>2. CASE over
  BY <1>2 DEF ConfirmOf
<1>3. CASE kept /\ (call'[r].pc = "write" => c.pc = "write")
  BY <1>3 DEF ConfirmOf
<1>4. \A p : Goto(r, p) => /\ call'[r].why = c.why /\ call'[r].pc = p
                           /\ call'[r].base = c.base /\ call'[r].cand = c.cand
  BY <1>1 DEF Goto, TypeOK, Call
<1>5. call' = [call EXCEPT ![r] = Idle] => over
  BY DEF TypeOK, Idle
<1>6. \A leads : Rollback(r, leads) => over
  BY <1>5 DEF Rollback
<1>7. SaveFails(r) => over
  BY <1>6 DEF SaveFails
<1>8. \A e, s, i : Receipt(r, e, s, i) => over
  <2> SUFFICES ASSUME NEW e, NEW s, NEW i, Receipt(r, e, s, i), ~SaveFails(r) PROVE over
    BY <1>7
  <2>1. call'[r] = IF call[r].accept
                   THEN [Idle EXCEPT !.pc = "elect", !.why = "list",
                                     !.seen = call[r].seen, !.accept = TRUE]
                   ELSE Idle
    BY DEF Receipt, TypeOK
  <2>2. CASE call[r].accept
    BY <2>1, <2>2 DEF Idle
  <2>3. CASE ~call[r].accept
    BY <2>1, <2>3 DEF Idle
  <2> QED BY <2>2, <2>3
<1>9. CASE Gate(r)
  <2>1. CASE \E id \in Observable : Check(r, id)
    <3>1. PICK id \in Observable : Check(r, id)
      BY <2>1
    <3>2. id \in Identity /\ Loaded(r) \in Memory
      BY LoadedType, ObservableAssumption
    <3> QED BY <3>1, <3>2, JudgedConfirms DEF Check, TypeOK
  <2> QED BY <1>2, <1>5, <1>9, <2>1 DEF Gate, CheckFails, ReplayDetected, Abandon
<1>10. CASE Election(r)
  <2>1. CASE NotElected(r)
    BY <1>2, <1>4, <1>5, <1>6, <2>1 DEF NotElected
  <2>2. Electable(r) => kept /\ call'[r].pc = "claim"
    BY <1>1 DEF Electable, TypeOK, Call
  <2>3. CASE Claim(r)
    <3>1. mem'[r].base = m.base /\ mem'[r].cand = m.cand
      BY <1>1, <2>3 DEF Claim, Elected, TypeOK, Memory
    <3>2. \/ call[r].why = "save" /\ Goto(r, "match")
          \/ call[r].why # "save" /\ \E p : Goto(r, p)
      BY <2>3 DEF Claim, Elected
    <3> QED BY <1>2, <1>3, <1>4, <3>1, <3>2
  <2> QED BY <1>3, <1>10, <2>1, <2>2, <2>3
     DEF Election, Standby, ElectFails, ClaimConflicts, ClaimUnknown
<1>11. CASE Save(r)
  <2>1. CASE Read(r)
    <3>1. CASE /\ call' = [call EXCEPT ![r].pc = "write", ![r].trans = lease.trans,
                                       ![r].floor = lease.floor]
               /\ Encodable(mem[r].base, mem[r].cand) /\ UNCHANGED mem
      <4>1. kept
        BY <1>1, <3>1 DEF TypeOK, Call
      <4> QED BY <3>1, <4>1 DEF ConfirmOf, Encodable
    <3> QED BY <1>2, <1>7, <2>1, <3>1 DEF Read
  <2>2. CASE Match(r)
    <3>1. CASE call' = [call EXCEPT ![r].pc = "read", ![r].attempt = 1] /\ UNCHANGED mem
      <4>1. kept /\ call'[r].pc = "read"
        BY <1>1, <3>1 DEF TypeOK, Call
      <4> QED BY <1>3, <4>1
    <3> QED BY <1>2, <1>7, <1>8, <2>2, <3>1 DEF Match
  <2>3. CASE WriteConflicts(r)
    <3>1. CASE /\ call' = [call EXCEPT ![r].pc = "read", ![r].attempt = call[r].attempt + 1]
               /\ UNCHANGED mem
      <4>1. kept /\ call'[r].pc = "read"
        BY <1>1, <3>1 DEF TypeOK, Call
      <4> QED BY <1>3, <4>1
    <3> QED BY <1>2, <1>7, <2>3, <3>1 DEF WriteConflicts
  <2>4. CASE Write(r) \/ WriteUnknown(r) \/ ReadbackUnknown(r)
    <3>1. mem' = mem /\ (Goto(r, "readback") \/ Goto(r, "reconcile"))
      BY <2>4 DEF Write, WriteUnknown, ReadbackUnknown
    <3> QED BY <1>3, <1>4, <3>1
  <2>5. CASE Readback(r) \/ Reconcile(r)
    BY <1>2, <1>7, <1>8, <2>5 DEF Readback, Reconcile
  <2>6. CASE WriteFails(r) \/ SaveGetFails(r)
    BY <1>2, <1>7, <2>6 DEF WriteFails, SaveGetFails
  <2> QED BY <1>11, <2>1, <2>2, <2>3, <2>4, <2>5, <2>6 DEF Save
<1>12. CASE Serve(r)
  <2>1. CASE LeadershipAges(r)
    <3>1. /\ mem'[r].base = m.base /\ mem'[r].cand = m.cand /\ call' = call
      BY <1>1, <2>1 DEF LeadershipAges, TypeOK, Memory
    <3> QED BY <1>3, <3>1
  <2>2. CASE ~LeadershipAges(r)
    <3>1. c.why # "save"
      BY <1>1, <1>12, <2>2 DEF Serve, ListSettles, ListDefers, ApiLost,
         WatchEvent, WatchEnds, PhaseOf, At
    <3>2. call' = [call EXCEPT ![r].pc = "elect", ![r].why = "watch"] => over
      BY <1>1 DEF TypeOK, Call
    <3> QED BY <1>2, <1>4, <1>5, <1>12, <2>2, <3>1, <3>2 DEF Serve, ListSettles,
         ListDefers, ApiLost, WatchEvent, WatchEnds
  <2> QED BY <2>1, <2>2
<1>13. CASE Crash(r)
  BY <1>2, <1>5, <1>13 DEF Crash
<1> QED BY <1>9, <1>10, <1>11, <1>12, <1>13 DEF Step

\* A checkpoint is written with the baseline in memory, which is one.
LEMMA BaselinesStep ==
  ASSUME TypeOK, PhasesAreSound, BaselinesExist, Confirming,
         NEW r \in Replica, Step(r)
  PROVE  BaselinesExist'
<1>1. CASE UNCHANGED commits
  BY <1>1 DEF BaselinesExist
<1>2. CASE Commits(r) /\ At(r, "write")
  <2>1. commits \in Seq(Commit) /\ [ckpt |-> Written(r), by |-> r] \in Commit
    BY <1>2, CommitsTypes DEF TypeOK, Commit
  <2>2. Written(r).base # NoIdentity
    BY <1>2, PhasesByReplica DEF Written, Confirming, ConfirmOf, At, PhaseOf
  <2> QED BY <1>2, <2>1, <2>2, Appended DEF Commits, BaselinesExist
<1> QED BY <1>1, <1>2, LeaseOutcomes

\* Inherited checkpoints have baselines, and nobody saves yet.
LEMMA ConfirmInit == Init => BaselinesExist /\ Confirming
<1> SUFFICES ASSUME Init PROVE BaselinesExist /\ Confirming
  OBVIOUS
<1>1. Confirming
  BY DEF Init, Confirming, ConfirmOf, Idle
<1>2. PICK start \in LeaseKind : StartLease(start)
  BY StartsAssumption DEF Init
<1>3. lease.floor = 0 \/ lease.ckpt.base # NoIdentity
  <2>1. CASE start \in {"checkpoint", "stale"}
    BY <1>2, <2>1, NoIdentityAssumption DEF StartLease, KeptLease
  <2>2. CASE start \notin {"checkpoint", "stale"}
    <3>1. NoLease \in Lease /\ NoLease.floor = 0
      BY DEF NoLease, NoCheckpoint, Lease, Checkpoint, MaybeIdentity
    <3> QED BY <1>2, <2>2, <3>1 DEF StartLease, Lease
  <2> QED BY <2>1, <2>2
<1>4. BaselinesExist
  BY <1>3 DEF Init, BaselinesExist
<1> QED BY <1>1, <1>4

\* Inv and the two facts about promotion are invariants together.
LEMMA Promotion == Spec => [](Inv /\ BaselinesExist /\ Confirming)
<1>1. ASSUME Inv, BaselinesExist, Confirming, [Next]_vars
      PROVE  Inv' /\ BaselinesExist' /\ Confirming'
  <2>1. Inv'
    BY <1>1, InvStep
  <2>2. CASE UNCHANGED vars \/ Edit
    BY <1>1, <2>1, <2>2 DEF vars, Edit, BaselinesExist, Confirming
  <2>3. CASE \E r \in Replica : Step(r)
    <3>1. PICK r \in Replica : Step(r)
      BY <2>3
    <3>2. TypeOK /\ PhasesAreSound
      BY <1>1 DEF Inv
    <3>3. \A q \in Replica : ConfirmOf(mem'[q], call'[q])
      BY <1>1, <3>1, <3>2, ConfirmStep, Frame DEF Confirming
    <3> QED BY <1>1, <2>1, <3>1, <3>2, <3>3, BaselinesStep DEF Confirming
  <2> QED BY <1>1, <2>2, <2>3, NextIsStep
<1> QED BY <1>1, InvInit, ConfirmInit, PTL DEF Spec

\* Whatever was lost to a crash, a conflict or a late answer, a replica that
\* works from a stored checkpoint writes as baseline the one that checkpoint
\* has, or its candidate.
THEOREM Promoted == Spec => PromotedFromCheckpoint
<1> DEFINE Kept ==
      \A r \in Replica :
        LET written == commits'[Len(commits')]
            origin == commits[mem[r].seq].ckpt
        IN commits' # commits /\ written.by = r /\ mem[r].seq > 0
             => written.ckpt.base \in {origin.base, origin.cand}
<1>1. ASSUME Inv, BaselinesExist, Confirming, [Next]_vars
      PROVE  Kept
  <2> SUFFICES ASSUME NEW r \in Replica, commits' # commits,
                      commits'[Len(commits')].by = r, mem[r].seq > 0
               PROVE  commits'[Len(commits')].ckpt.base
                        \in {commits[mem[r].seq].ckpt.base, commits[mem[r].seq].ckpt.cand}
    OBVIOUS
  <2>1. TypeOK /\ PhasesAreSound /\ MemoryIsCommitted
    BY <1>1 DEF Inv
  <2>2. PICK q \in Replica : Commits(q) /\ At(q, "write")
    BY <1>1, NextIsStep, LeaseOutcomes DEF vars, Edit
  <2>3. commits \in Seq(Commit) /\ [ckpt |-> Written(q), by |-> q] \in Commit
    BY <2>1, <2>2, CommitsTypes DEF TypeOK, Commit
  <2>4. commits'[Len(commits')] = [ckpt |-> Written(q), by |-> q]
    BY <2>2, <2>3, Appended DEF Commits
  <2>5. q = r /\ commits'[Len(commits')].ckpt.base = mem[r].base
    BY <2>4 DEF Written
  <2>6. Saving(r) /\ mem[r].loaded
    BY <2>1, <2>2, <2>5, PhasesByReplica DEF PhaseOf, At, Saving
  <2>7. /\ mem[r].seq \in 1..Len(commits)
        /\ commits[mem[r].seq].ckpt.base = call[r].base
        /\ commits[mem[r].seq].ckpt.cand = call[r].cand
    BY <2>1, <2>6 DEF MemoryIsCommitted, SettledBase, SettledCand
  <2>8. call[r].base # NoIdentity
    BY <1>1, <2>7 DEF BaselinesExist
  <2> QED BY <1>1, <2>5, <2>6, <2>7, <2>8 DEF Confirming, ConfirmOf, Saving
<1>2. Inv /\ BaselinesExist /\ Confirming /\ [Next]_vars => [Kept]_vars
  BY <1>1
<1> QED BY Promotion, <1>2, PTL DEF Spec, PromotedFromCheckpoint
=============================================================================
