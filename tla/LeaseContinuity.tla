-------------------------- MODULE LeaseContinuity ---------------------------
(***************************************************************************)
(* The operator's replicas, their Lease election and the NVIDIA continuity *)
(* checkpoint they keep in annotations of the same Lease object.           *)
(*                                                                         *)
(* Every replica runs Runtime.run_forever in one thread: a preflight, the  *)
(* continuity gate, a checkpoint save when the gate changed its mind, a    *)
(* leadership check, a relist and a watch, over and over.  Each request to *)
(* the Kubernetes API is one step, so the requests of several replicas     *)
(* interleave; a request may fail before or after the server applied it,   *)
(* and a replica may crash between any two requests.                       *)
(***************************************************************************)
EXTENDS ContinuityGate, Naturals, Sequences

CONSTANTS Replica,         \* the operator pods, by identity
          Other,           \* holderIdentity "", or a pod that no longer runs
          Observable,      \* the identities the NVIDIA preflight may observe
          Starts,          \* how the Lease may look when the replicas start
          MaxTransitions,  \* bound: takeovers stop at this leaseTransitions
          MaxSequence,     \* bound: the server refuses checkpoints above it
          MaxFaults,       \* bound: failures, delays and edits of the Lease
          MaxCrashes       \* bound: crashes of replicas

ASSUME ReplicaAssumption == Other \notin Replica
ASSUME ObservableAssumption == Observable \subseteq Identity
ASSUME BoundsAssumption ==
  /\ MaxTransitions \in Nat
  /\ MaxSequence \in Nat
  /\ MaxFaults \in Nat
  /\ MaxCrashes \in Nat

VARIABLES lease,      \* the Lease object in the API server
          rvCurrent,  \* replicas whose last GET returned today's version
          mem,        \* the Runtime's fields, by replica
          call,       \* the request a replica is about to make, its locals
          commits,    \* history: every checkpoint written, with its writer
          faults,     \* failures injected so far
          crashes     \* crashes so far

vars == <<lease, rvCurrent, mem, call, commits, faults, crashes>>

-----------------------------------------------------------------------------
\* The Lease.  resourceVersion is modelled by who still knows it: a write gives
\* the object a new version, and a PATCH is applied iff its version is current.

Checkpoint == [base: MaybeIdentity, cand: MaybeIdentity, epoch: Nat, seq: Nat]

NoCheckpoint ==
  [base |-> NoIdentity, cand |-> NoIdentity, epoch |-> 0, seq |-> 0]

Lease == [exists: BOOLEAN, holder: Replica \cup {Other}, trans: Nat,
          annotated: BOOLEAN, legacy: BOOLEAN, ckpt: Checkpoint, floor: Nat]

NoLease == [exists |-> FALSE, holder |-> Other, trans |-> 0,
            annotated |-> FALSE, legacy |-> FALSE,
            ckpt |-> NoCheckpoint, floor |-> 0]

LeaseKind == {"absent", "bare", "annotated", "legacy", "checkpoint", "stale"}

ASSUME StartsAssumption == Starts \subseteq LeaseKind

KeptLease(b, c, t) ==
  [exists |-> TRUE, holder |-> Other, trans |-> t,
   annotated |-> TRUE, legacy |-> FALSE,
   ckpt |-> [base |-> b, cand |-> c, epoch |-> 0, seq |-> 1], floor |-> 1]

\* What the replicas may find: no Lease, one without annotations (as
\* ensure_leader itself creates it), one with annotations of others, one with
\* the checkpoint format of an earlier release, and a checkpoint of the
\* current or of an earlier transition.
StartLease(start) ==
  \/ start = "absent" /\ lease = NoLease
  \/ start = "bare" /\ lease = [NoLease EXCEPT !.exists = TRUE]
  \/ start = "annotated" /\ lease = [NoLease EXCEPT !.exists = TRUE,
                                                    !.annotated = TRUE]
  \/ start = "legacy" /\ lease = [NoLease EXCEPT !.exists = TRUE,
                                                 !.annotated = TRUE,
                                                 !.legacy = TRUE]
  \/ /\ start = "checkpoint"
     /\ \E b \in Identity : lease = KeptLease(b, NoIdentity, 0)
  \/ /\ start = "stale"
     /\ \E b \in Identity, c \in MaybeIdentity : lease = KeptLease(b, c, 1)

\* Wrong on purpose: the retained floor is not consulted.
CheckpointTrusted == TRUE

\* A stored checkpoint is trusted only when it agrees with the retained floor.
CheckpointSound ==
  \/ lease.ckpt = NoCheckpoint
  \/ lease.ckpt.seq = lease.floor

\* The same, where a floor without a checkpoint is an error too.
FloorSound ==
  IF lease.ckpt = NoCheckpoint THEN lease.floor = 0
                               ELSE lease.ckpt.seq = lease.floor

-----------------------------------------------------------------------------
\* A replica.

Phase == {"check", "elect", "claim", "match", "read", "write", "readback",
          "reconcile", "list", "watch"}

\* Why ensure_leader runs: for a save, before the relist, for a watch event.
Purpose == {"none", "save", "list", "watch"}

Memory == [loaded: BOOLEAN, base: MaybeIdentity, cand: MaybeIdentity,
           epoch: Nat, seq: Nat, stale: BOOLEAN,
           ok: BOOLEAN, fresh: BOOLEAN, leader: BOOLEAN]

Boot == [loaded |-> FALSE, base |-> NoIdentity, cand |-> NoIdentity,
         epoch |-> 0, seq |-> 0, stale |-> FALSE,
         ok |-> TRUE, fresh |-> FALSE, leader |-> FALSE]

Call == [pc: Phase, why: Purpose, seen: MaybeIdentity, accept: BOOLEAN,
         base: MaybeIdentity, cand: MaybeIdentity,
         trans: Nat, floor: Nat, attempt: 0..2]

Idle == [pc |-> "check", why |-> "none", seen |-> NoIdentity, accept |-> FALSE,
         base |-> NoIdentity, cand |-> NoIdentity,
         trans |-> 0, floor |-> 0, attempt |-> 0]

Commit == [ckpt: Checkpoint, by: Replica \cup {Other}]

TypeOK ==
  /\ lease \in Lease
  /\ rvCurrent \subseteq Replica
  /\ mem \in [Replica -> Memory]
  /\ call \in [Replica -> Call]
  /\ commits \in Seq(Commit)
  /\ faults \in 0..MaxFaults
  /\ crashes \in 0..MaxCrashes

Init ==
  /\ \E start \in Starts : StartLease(start)
  /\ rvCurrent = {}
  /\ mem = [r \in Replica |-> Boot]
  /\ call = [r \in Replica |-> Idle]
  /\ commits = IF lease.floor = 0 THEN <<>>
               ELSE <<[ckpt |-> lease.ckpt, by |-> Other]>>
  /\ faults = 0
  /\ crashes = 0

At(r, phase) == call[r].pc = phase

Goto(r, phase) == call' = [call EXCEPT ![r].pc = phase]

Reads(r) == rvCurrent' = rvCurrent \cup {r}

Fails == faults < MaxFaults /\ faults' = faults + 1

-----------------------------------------------------------------------------
\* The preflight and the continuity gate.

\* What _restore_checkpoint_once leaves in memory when store.load() succeeds.
Restored(m) ==
  [m EXCEPT !.loaded = TRUE,
            !.base = lease.ckpt.base,
            !.cand = lease.ckpt.cand,
            !.epoch = lease.trans,
            !.seq = IF lease.ckpt = NoCheckpoint THEN lease.floor
                    ELSE lease.ckpt.seq,
            !.stale = IF lease.ckpt = NoCheckpoint THEN lease.legacy
                      ELSE lease.ckpt.epoch # lease.trans]

\* The replica's cycle ends without a watch: "relist" or "reconnect".
Abandon(r) ==
  /\ mem' = [mem EXCEPT ![r].ok = FALSE, ![r].fresh = FALSE]
  /\ call' = [call EXCEPT ![r] = Idle]

\* The checkpoint is loaded at the first healthy snapshot of a process.
Loaded(r) == IF mem[r].loaded THEN mem[r] ELSE Restored(mem[r])

\* Memory m after the gate has judged id.
Judged(m, id) ==
  LET accept == Accepts(m.base, m.cand, m.stale, id)
  IN [m EXCEPT !.base = NextBase(m.base, m.cand, m.stale, id),
               !.cand = NextCand(m.base, m.cand, m.stale, id),
               !.ok = accept,
               !.fresh = accept /\ m.fresh]

\* Where the cycle goes on: the pair of m is kept for a rollback.
Judgement(m, id) ==
  LET save == NeedsSave(m.base, m.cand, m.stale, id)
  IN [pc |-> "elect", why |-> IF save THEN "save" ELSE "list", seen |-> id,
      accept |-> Accepts(m.base, m.cand, m.stale, id),
      base |-> IF save THEN m.base ELSE NoIdentity,
      cand |-> IF save THEN m.cand ELSE NoIdentity,
      trans |-> 0, floor |-> 0, attempt |-> 0]

\* A healthy snapshot with identity id is put to the gate.  What the gate
\* decides is in memory before it is persisted.
Check(r, id) ==
  /\ At(r, "check")
  /\ mem[r].loaded \/ CheckpointSound
  /\ mem' = [mem EXCEPT ![r] = Judged(Loaded(r), id)]
  /\ call' = [call EXCEPT ![r] = Judgement(Loaded(r), id)]
  /\ UNCHANGED <<lease, rvCurrent, commits, faults, crashes>>

\* The preflight reports an error or a snapshot that is not ready, or the GET
\* of the first load fails: nothing is loaded and the next cycle tries again.
CheckFails(r) ==
  /\ At(r, "check")
  /\ Fails
  /\ Abandon(r)
  /\ UNCHANGED <<lease, rvCurrent, commits, crashes>>

\* store.load() refuses a checkpoint that disagrees with the retained floor.
ReplayDetected(r) ==
  /\ At(r, "check")
  /\ ~mem[r].loaded /\ ~CheckpointSound
  /\ Abandon(r)
  /\ UNCHANGED <<lease, rvCurrent, commits, faults, crashes>>

-----------------------------------------------------------------------------
\* LeaseElector.ensure_leader, as Runtime._leader calls it.

\* Wrong on purpose: the undecided pair stays in memory.
RollbackForgets(r, leads) ==
  /\ mem' = [mem EXCEPT ![r].ok = FALSE, ![r].fresh = FALSE,
                        ![r].leader = leads]
  /\ call' = [call EXCEPT ![r] = Idle]

\* The checkpoint could not be persisted: the old pair returns to memory and
\* the cycle ends in "reconnect".
Rollback(r, leads) ==
  /\ mem' = [mem EXCEPT ![r].base = call[r].base, ![r].cand = call[r].cand,
                        ![r].ok = FALSE, ![r].fresh = FALSE,
                        ![r].leader = leads]
  /\ call' = [call EXCEPT ![r] = Idle]

SaveFails(r) == Rollback(r, mem[r].leader)

Elected(r) ==
  /\ mem' = [mem EXCEPT ![r].leader = TRUE]
  /\ Goto(r, CASE call[r].why = "save"  -> "match"
               [] call[r].why = "list"  -> "list"
               [] call[r].why = "watch" -> "watch")

\* Without the Lease a save fails, a list goes on, and a watch event is left
\* unsettled, which ends the watch.
NotElected(r) ==
  \/ /\ call[r].why = "save"
     /\ Rollback(r, FALSE)
  \/ /\ call[r].why = "list"
     /\ mem' = [mem EXCEPT ![r].leader = FALSE]
     /\ Goto(r, "list")
  \/ /\ call[r].why = "watch"
     /\ mem' = [mem EXCEPT ![r].leader = FALSE, ![r].fresh = FALSE]
     /\ call' = [call EXCEPT ![r] = Idle]

\* Wrong on purpose: a takeover keeps the transition of its predecessor.
ElectableQuietly(r) ==
  /\ At(r, "elect")
  /\ rvCurrent' = rvCurrent \cup {r}
  /\ call' = [call EXCEPT ![r].pc = "claim", ![r].trans = lease.trans]
  /\ UNCHANGED <<lease, mem, commits, faults, crashes>>

\* GET finds the Lease absent, ours, unheld, or not renewed in time, and the
\* claim is prepared; a claim on a Lease of someone else is a new transition.
Electable(r) ==
  /\ At(r, "elect")
  /\ lease.exists /\ lease.holder # r => lease.trans < MaxTransitions
  /\ rvCurrent' = rvCurrent \cup {r}
  /\ call' = [call EXCEPT ![r].pc = "claim",
                          ![r].trans = IF lease.exists /\ lease.holder # r
                                       THEN lease.trans + 1 ELSE lease.trans]
  /\ UNCHANGED <<lease, mem, commits, faults, crashes>>

\* GET finds the Lease of another replica renewed recently.
Standby(r) ==
  /\ At(r, "elect")
  /\ lease.exists
  /\ \/ lease.holder \notin {r, Other}
     \/ lease.holder # r /\ lease.trans = MaxTransitions
  /\ NotElected(r)
  /\ UNCHANGED <<lease, rvCurrent, commits, faults, crashes>>

ElectFails(r) ==
  /\ At(r, "elect")
  /\ Fails
  /\ NotElected(r)
  /\ UNCHANGED <<lease, rvCurrent, commits, crashes>>

\* Wrong on purpose: requests of others stay valid across the claim.
ClaimsQuietly(r) ==
  /\ r \in rvCurrent
  /\ lease' = [lease EXCEPT !.exists = TRUE, !.holder = r,
                            !.trans = call[r].trans]
  /\ UNCHANGED rvCurrent

\* The POST or the PATCH takes effect; other versions of the Lease are history.
Claims(r) ==
  /\ r \in rvCurrent
  /\ lease' = [lease EXCEPT !.exists = TRUE, !.holder = r,
                            !.trans = call[r].trans]
  /\ rvCurrent' = {}

Claim(r) ==
  /\ At(r, "claim")
  /\ Claims(r)
  /\ Elected(r)
  /\ UNCHANGED <<commits, faults, crashes>>

\* The Lease was written since the GET: 409, and ensure_leader gives up.
ClaimConflicts(r) ==
  /\ At(r, "claim")
  /\ r \notin rvCurrent
  /\ NotElected(r)
  /\ UNCHANGED <<lease, rvCurrent, commits, faults, crashes>>

\* No answer, an error, or an answer too late to be fresh: the claim may or
\* may not have been applied, and the replica does not believe in it.
ClaimUnknown(r) ==
  /\ At(r, "claim")
  /\ Fails
  /\ \/ Claims(r)
     \/ UNCHANGED <<lease, rvCurrent>>
  /\ NotElected(r)
  /\ UNCHANGED <<commits, crashes>>

-----------------------------------------------------------------------------
\* LeaseCheckpointStore.save_receipt and Runtime._save_epoch_state.

\* The Lease already carries the pair being saved, in its current transition.
AlreadySaved(r) ==
  /\ lease.ckpt # NoCheckpoint
  /\ lease.ckpt.epoch = lease.trans
  /\ lease.ckpt.base = mem[r].base
  /\ lease.ckpt.cand = mem[r].cand

\* Wrong on purpose: a Lease without a checkpoint is an error.
MatchNeedsCheckpoint(r) ==
  \/ lease.holder # r
  \/ ~lease.annotated
  \/ lease.ckpt = NoCheckpoint

\* _matching_current_commit raises rather than answers.  It insists on an
\* annotations dictionary, which a Lease nobody annotated does not have.
MatchImpossible(r) ==
  \/ lease.holder # r
  \/ ~lease.annotated
  \/ ~FloorSound
  \/ /\ lease.ckpt # NoCheckpoint
     /\ lease.ckpt.epoch = lease.trans
     /\ ~Encodable(mem[r].base, mem[r].cand)

\* Wrong on purpose: only a repeated sequence is refused.
FencedRepeats(r, epoch, seq, idempotent) ==
  seq = mem[r].seq /\ (seq = 0 \/ ~idempotent \/ epoch # mem[r].epoch)

\* The receipt of a save meets the runtime's sequence fence: it must advance,
\* or repeat the remembered sequence and epoch with proof of idempotence.
Fenced(r, epoch, seq, idempotent) ==
  \/ seq < mem[r].seq
  \/ /\ seq = mem[r].seq
     /\ seq = 0 \/ ~idempotent \/ epoch # mem[r].epoch

\* Wrong on purpose: a confirmed checkpoint stays stale.
ReceiptStale(r, epoch, seq, idempotent) ==
  \/ /\ Fenced(r, epoch, seq, idempotent)
     /\ SaveFails(r)
  \/ /\ ~Fenced(r, epoch, seq, idempotent)
     /\ mem' = [mem EXCEPT ![r].epoch = epoch, ![r].seq = seq]
     /\ call' = [call EXCEPT ![r] =
                   IF call[r].accept
                   THEN [Idle EXCEPT !.pc = "elect", !.why = "list",
                                     !.seen = call[r].seen, !.accept = TRUE]
                   ELSE Idle]

\* A save that is acknowledged ends the cycle of a refused snapshot and lets
\* an accepted one go on to leadership and the relist.
Receipt(r, epoch, seq, idempotent) ==
  \/ /\ Fenced(r, epoch, seq, idempotent)
     /\ SaveFails(r)
  \/ /\ ~Fenced(r, epoch, seq, idempotent)
     /\ mem' = [mem EXCEPT ![r].epoch = epoch, ![r].seq = seq,
                           ![r].stale = IF call[r].accept THEN FALSE
                                              ELSE mem[r].stale]
     /\ call' = [call EXCEPT ![r] =
                   IF call[r].accept
                   THEN [Idle EXCEPT !.pc = "elect", !.why = "list",
                                     !.seen = call[r].seen, !.accept = TRUE]
                   ELSE Idle]

Match(r) ==
  /\ At(r, "match")
  /\ \/ MatchImpossible(r) /\ SaveFails(r)
     \/ /\ ~MatchImpossible(r) /\ AlreadySaved(r)
        /\ Receipt(r, lease.trans, lease.ckpt.seq, TRUE)
     \/ /\ ~MatchImpossible(r) /\ ~AlreadySaved(r)
        /\ call' = [call EXCEPT ![r].pc = "read", ![r].attempt = 1]
        /\ UNCHANGED mem
  /\ UNCHANGED <<lease, rvCurrent, commits, faults, crashes>>

\* Wrong on purpose: checkpoint and floor are not compared again.
ReadUnchecked(r) ==
  /\ At(r, "read")
  /\ lease.holder = r
  /\ Encodable(mem[r].base, mem[r].cand)
  /\ call' = [call EXCEPT ![r].pc = "write", ![r].trans = lease.trans,
                          ![r].floor = lease.floor]
  /\ rvCurrent' = rvCurrent \cup {r}
  /\ UNCHANGED <<lease, mem, commits, faults, crashes>>

\* _verified_write reads the Lease, whose version the PATCH will be bound to.
Read(r) ==
  /\ At(r, "read")
  /\ \/ /\ lease.holder = r /\ FloorSound
        /\ Encodable(mem[r].base, mem[r].cand)
        /\ call' = [call EXCEPT ![r].pc = "write",
                                ![r].trans = lease.trans,
                                ![r].floor = lease.floor]
        /\ rvCurrent' = rvCurrent \cup {r}
        /\ UNCHANGED mem
     \/ /\ ~(lease.holder = r /\ FloorSound
                /\ Encodable(mem[r].base, mem[r].cand))
        /\ SaveFails(r)
        /\ UNCHANGED rvCurrent
  /\ UNCHANGED <<lease, commits, faults, crashes>>

\* Wrong on purpose: the sequence follows memory, not the stored floor.
WrittenFromMemory(r) == [base |-> mem[r].base, cand |-> mem[r].cand,
                         epoch |-> call[r].trans, seq |-> mem[r].seq + 1]

\* The pair in memory, in the transition and after the floor that Read saw.
Written(r) == [base |-> mem[r].base, cand |-> mem[r].cand,
               epoch |-> call[r].trans, seq |-> call[r].floor + 1]

\* Wrong on purpose: the PATCH is not bound to the version that was read.
CommitsBlindly(r) ==
  /\ call[r].floor < MaxSequence
  /\ lease' = [lease EXCEPT !.annotated = TRUE, !.ckpt = Written(r),
                            !.floor = call[r].floor + 1]
  /\ rvCurrent' = {}
  /\ commits' = Append(commits, [ckpt |-> Written(r), by |-> r])

\* The PATCH takes effect: checkpoint and floor change together.
Commits(r) ==
  /\ r \in rvCurrent
  /\ call[r].floor < MaxSequence
  /\ lease' = [lease EXCEPT !.annotated = TRUE, !.ckpt = Written(r),
                            !.floor = call[r].floor + 1]
  /\ rvCurrent' = {}
  /\ commits' = Append(commits, [ckpt |-> Written(r), by |-> r])

Write(r) ==
  /\ At(r, "write")
  /\ Commits(r)
  /\ Goto(r, "readback")
  /\ UNCHANGED <<mem, faults, crashes>>

\* Wrong on purpose: conflicts are retried without end.
WriteConflictsForever(r) ==
  /\ At(r, "write")
  /\ r \notin rvCurrent
  /\ call' = [call EXCEPT ![r].pc = "read",
                          ![r].attempt = call[r].attempt + 1]
  /\ UNCHANGED <<lease, rvCurrent, mem, commits, faults, crashes>>

\* 409 or 412: once more from the read, then the save fails.
WriteConflicts(r) ==
  /\ At(r, "write")
  /\ r \notin rvCurrent
  /\ \/ /\ call[r].attempt < 2
        /\ call' = [call EXCEPT ![r].pc = "read",
                                ![r].attempt = call[r].attempt + 1]
        /\ UNCHANGED mem
     \/ call[r].attempt = 2 /\ SaveFails(r)
  /\ UNCHANGED <<lease, rvCurrent, commits, faults, crashes>>

\* The connection is lost: the PATCH may have been applied, so look again.
WriteUnknown(r) ==
  /\ At(r, "write")
  /\ Fails
  /\ \/ Commits(r)
     \/ UNCHANGED <<lease, rvCurrent, commits>>
  /\ Goto(r, "reconcile")
  /\ UNCHANGED <<mem, crashes>>

\* The server answers with an error, having applied the PATCH or not.
WriteFails(r) ==
  /\ At(r, "write")
  /\ \/ Fails /\ Commits(r)
     \/ Fails /\ UNCHANGED <<lease, rvCurrent, commits>>
     \/ /\ call[r].floor >= MaxSequence
        /\ UNCHANGED <<lease, rvCurrent, commits, faults>>
  /\ SaveFails(r)
  /\ UNCHANGED crashes

\* The readback must show this very checkpoint under this holder and epoch.
Readback(r) ==
  /\ At(r, "readback")
  /\ LET verified == /\ lease.holder = r
                     /\ lease.trans = call[r].trans
                     /\ lease.floor = call[r].floor + 1
                     /\ lease.ckpt = Written(r)
     IN \/ /\ verified
           /\ Receipt(r, call[r].trans, call[r].floor + 1, FALSE)
        \/ ~verified /\ SaveFails(r)
  /\ UNCHANGED <<lease, rvCurrent, commits, faults, crashes>>

\* The connection is lost during the readback: look again.
ReadbackUnknown(r) ==
  /\ At(r, "readback")
  /\ Fails
  /\ Goto(r, "reconcile")
  /\ UNCHANGED <<lease, rvCurrent, mem, commits, crashes>>

\* After an unknown outcome the save succeeds iff the Lease now carries it.
Reconcile(r) ==
  /\ At(r, "reconcile")
  /\ \/ /\ ~MatchImpossible(r) /\ AlreadySaved(r)
        /\ Receipt(r, lease.trans, lease.ckpt.seq, TRUE)
     \/ MatchImpossible(r) /\ SaveFails(r)
     \/ ~AlreadySaved(r) /\ ~MatchImpossible(r) /\ SaveFails(r)
  /\ UNCHANGED <<lease, rvCurrent, commits, faults, crashes>>

\* Any GET of the save fails, and with it the save.
SaveGetFails(r) ==
  /\ call[r].pc \in {"match", "read", "readback", "reconcile"}
  /\ Fails
  /\ SaveFails(r)
  /\ UNCHANGED <<lease, rvCurrent, commits, crashes>>

-----------------------------------------------------------------------------
\* The relist and the watch, as far as readiness and leadership go.

\* Every listed fleet settles (there may be none): the watch is opened.
ListSettles(r) ==
  /\ At(r, "list")
  /\ mem' = [mem EXCEPT ![r].fresh = TRUE]
  /\ Goto(r, "watch")
  /\ UNCHANGED <<lease, rvCurrent, commits, faults, crashes>>

\* A listed fleet does not settle, for want of leadership, because its deletion
\* is held, or because its PATCH is fenced: "relist", and no leadership is
\* believed across the exception.
ListDefers(r) ==
  /\ At(r, "list")
  /\ mem' = [mem EXCEPT ![r].fresh = FALSE, ![r].leader = FALSE]
  /\ call' = [call EXCEPT ![r] = Idle]
  /\ UNCHANGED <<lease, rvCurrent, commits, faults, crashes>>

\* The list or the watch fails: no leadership is believed across it.
ApiLost(r) ==
  /\ call[r].pc \in {"list", "watch"}
  /\ Fails
  /\ mem' = [mem EXCEPT ![r].fresh = FALSE, ![r].leader = FALSE]
  /\ call' = [call EXCEPT ![r] = Idle]
  /\ UNCHANGED <<lease, rvCurrent, commits, crashes>>

\* A watch event is reconciled, which begins with a leadership check.
WatchEvent(r) ==
  /\ At(r, "watch")
  /\ call' = [call EXCEPT ![r].pc = "elect", ![r].why = "watch"]
  /\ UNCHANGED <<lease, rvCurrent, mem, commits, faults, crashes>>

WatchEnds(r) ==
  /\ At(r, "watch")
  /\ mem' = [mem EXCEPT ![r].fresh = FALSE]
  /\ call' = [call EXCEPT ![r] = Idle]
  /\ UNCHANGED <<lease, rvCurrent, commits, faults, crashes>>

\* leadership_fresh(): a verification older than leader_fresh_seconds is void.
LeadershipAges(r) ==
  /\ mem[r].leader
  /\ Fails
  /\ mem' = [mem EXCEPT ![r].leader = FALSE]
  /\ UNCHANGED <<lease, rvCurrent, call, commits, crashes>>

\* The process dies and starts again under the same identity.
Crash(r) ==
  /\ crashes < MaxCrashes
  /\ mem[r] # Boot \/ call[r] # Idle
  /\ crashes' = crashes + 1
  /\ mem' = [mem EXCEPT ![r] = Boot]
  /\ call' = [call EXCEPT ![r] = Idle]
  /\ UNCHANGED <<lease, rvCurrent, commits, faults>>

\* Somebody else writes to the Lease, say an annotation of theirs.
Edit ==
  /\ lease.exists
  /\ Fails
  /\ lease' = [lease EXCEPT !.annotated = TRUE]
  /\ rvCurrent' = {}
  /\ UNCHANGED <<mem, call, commits, crashes>>

-----------------------------------------------------------------------------

Election(r) ==
  \/ Electable(r) \/ Standby(r) \/ ElectFails(r)
  \/ Claim(r) \/ ClaimConflicts(r) \/ ClaimUnknown(r)

Save(r) ==
  \/ Match(r) \/ Read(r)
  \/ Write(r) \/ WriteConflicts(r) \/ WriteUnknown(r) \/ WriteFails(r)
  \/ Readback(r) \/ ReadbackUnknown(r) \/ Reconcile(r) \/ SaveGetFails(r)

Serve(r) ==
  \/ ListSettles(r) \/ ListDefers(r) \/ ApiLost(r)
  \/ WatchEvent(r) \/ WatchEnds(r) \/ LeadershipAges(r)

Gate(r) ==
  \/ \E id \in Observable : Check(r, id)
  \/ CheckFails(r) \/ ReplayDetected(r)

Next ==
  \/ \E r \in Replica :
       Gate(r) \/ Election(r) \/ Save(r) \/ Serve(r) \/ Crash(r)
  \/ Edit

Spec == Init /\ [][Next]_vars

\* run_forever never stops by itself and every request is answered or times
\* out, so the loop of every replica keeps moving.
Fairness ==
  \A r \in Replica : WF_vars(Gate(r) \/ Election(r) \/ Save(r) \/ Serve(r))

FairSpec == Spec /\ Fairness

-----------------------------------------------------------------------------
\* Properties.

\* Runtime.ready(), but for api_reachable and termination.
Ready(r) ==
  /\ mem[r].ok /\ mem[r].fresh /\ mem[r].leader
  /\ mem[r].loaded /\ ~mem[r].stale

Saving(r) == call[r].why = "save"

\* The pair a replica fell back to should its save fail.
SettledBase(r) == IF Saving(r) THEN call[r].base ELSE mem[r].base
SettledCand(r) == IF Saving(r) THEN call[r].cand ELSE mem[r].cand

\* The compare-and-swap on resourceVersion gives every checkpoint a sequence of
\* its own: the n-th checkpoint ever written has sequence n, whatever replicas
\* raced, conflicted, retried or crashed.
SequenceIsDense ==
  \A i \in 1..Len(commits) : commits[i].ckpt.seq = i

\* Checkpoints of one Lease transition come from one replica, and transitions
\* never run backwards: a deposed leader cannot write into the epoch of its
\* successor, nor a late write of the old epoch follow one of the new.
EpochHasOneWriter ==
  \A i, j \in 1..Len(commits) :
    i <= j => /\ commits[i].ckpt.epoch <= commits[j].ckpt.epoch
              /\ commits[i].ckpt.epoch = commits[j].ckpt.epoch
                   => commits[i].by = commits[j].by

\* Whatever failed, was rolled back or reconciled, the continuity state a
\* replica works from is exactly the checkpoint that carries its sequence.
MemoryIsCommitted ==
  \A r \in Replica :
    mem[r].loaded =>
      \/ /\ mem[r].seq = 0
         /\ SettledBase(r) = NoIdentity
         /\ SettledCand(r) = NoIdentity
      \/ /\ mem[r].seq \in 1..Len(commits)
         /\ commits[mem[r].seq].ckpt.base = SettledBase(r)
         /\ commits[mem[r].seq].ckpt.cand = SettledCand(r)

\* A ready replica serves the very snapshot it observed last, that snapshot is
\* the baseline of a checkpoint it knows to be stored, and no candidate is
\* waiting for confirmation.
ReadyIsPersisted ==
  \A r \in Replica :
    Ready(r) =>
      /\ mem[r].base = call[r].seen
      /\ mem[r].cand = NoIdentity
      /\ mem[r].seq \in 1..Len(commits)
      /\ commits[mem[r].seq].ckpt.base = call[r].seen

\* The history of checkpoints, as CheckpointLog sees it.
History == [i \in 1..Len(commits) |->
              [content |-> <<commits[i].ckpt.base, commits[i].ckpt.cand>>,
               epoch |-> commits[i].ckpt.epoch,
               seq |-> commits[i].ckpt.seq,
               by |-> commits[i].by]]

Log == INSTANCE CheckpointLog WITH
         Writer <- Replica \cup {Other},
         Content <- MaybeIdentity \X MaybeIdentity,
         log <- History

\* Whatever the replicas do to each other, the checkpoints they write form the
\* append-only log that CheckpointLog specifies.
ImplementsLog == Log!Spec

\* A replica that works from a stored checkpoint writes no baseline but the one
\* that checkpoint has, or its candidate: whatever was lost to a crash, a
\* rollback or a late answer between the two observations, a snapshot is stored
\* as a candidate before its writer confirms it.
PromotedFromCheckpoint ==
  [][\A r \in Replica :
       LET written == commits'[Len(commits')]
           origin == commits[mem[r].seq].ckpt
       IN commits' # commits /\ written.by = r /\ mem[r].seq > 0
            => written.ckpt.base \in {origin.base, origin.cand}]_vars

\* The first baseline of a cluster is eventually persisted by its leader.
FirstBaselinePersisted == <>(lease.ckpt # NoCheckpoint)

\* A fleet keeps the list of a leader from settling.
LeaderPutOff == \E r \in Replica : mem[r].leader /\ ListDefers(r)

\* With failures and crashes behind it and a stable snapshot, the deployment
\* has a ready replica again and again, once no deletion is held any more, and
\* no PATCH is fenced, for good.
ServesAgain ==
  <>[][~LeaderPutOff]_vars => []<>(\E r \in Replica : Ready(r))
-----------------------------------------------------------------------------
\* The inductive invariant behind the safety properties.

\* The Lease carries the last checkpoint written, and its sequence as floor.
LeaseCarriesLastCommit ==
  /\ lease.floor = Len(commits)
  /\ lease.ckpt = IF lease.floor = 0 THEN NoCheckpoint
                  ELSE commits[lease.floor].ckpt
  /\ ~lease.exists => lease.holder = Other /\ lease.floor = 0

\* No checkpoint is ahead of the Lease, and those of its transition are by its
\* holder: a claim by somebody else begins a transition with none.
EpochsFollowLease ==
  \A i \in 1..Len(commits) :
    /\ commits[i].ckpt.epoch <= lease.trans
    /\ commits[i].ckpt.epoch = lease.trans => commits[i].by = lease.holder

\* A request bound to the current version of the Lease was computed from the
\* Lease as it is.
RequestsAreCurrent ==
  \A r \in rvCurrent :
    /\ At(r, "claim") =>
         call[r].trans = IF lease.exists /\ lease.holder # r
                         THEN lease.trans + 1 ELSE lease.trans
    /\ At(r, "write") => /\ lease.holder = r
                         /\ call[r].trans = lease.trans
                         /\ call[r].floor = lease.floor

\* What each phase of the cycle takes for granted: why it runs, and that an
\* accepted snapshot is the baseline in memory.
PhasesAreSound ==
  \A r \in Replica :
    /\ At(r, "check") <=> call[r].why = "none"
    /\ call[r].pc \in {"match", "read", "write", "readback", "reconcile"}
         => Saving(r)
    /\ call[r].pc \in {"list", "watch"} => ~Saving(r)
    /\ ~At(r, "check") => mem[r].loaded
    /\ mem[r].fresh => call[r].why \in {"list", "watch"}
    /\ call[r].why \in {"list", "watch"} \/ (Saving(r) /\ call[r].accept)
         => mem[r].base = call[r].seen /\ mem[r].cand = NoIdentity
    /\ call[r].why \in {"list", "watch"} => mem[r].seq > 0

Inv ==
  /\ TypeOK
  /\ SequenceIsDense
  /\ EpochHasOneWriter
  /\ LeaseCarriesLastCommit
  /\ EpochsFollowLease
  /\ RequestsAreCurrent
  /\ PhasesAreSound
  /\ MemoryIsCommitted
=============================================================================
