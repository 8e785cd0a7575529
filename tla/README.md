# A verification project for nvlx

nvlx is two programs in one Python package (`src/src/nvlx`): command-line tools
that build, install, upgrade and diagnose NVIDIA drivers on a Linux machine, and
`nvlx-operator`, a Kubernetes operator for the custom resource `GPUFleet`. The
operator is where most of the hard behaviour is. Several replicas contend for one
Lease object, and the holder keeps, in annotations of that same Lease, a
*continuity checkpoint* of the NVIDIA resources it last observed. A replica may
serve only while it leads and while what it observes is what the checkpoint says.
A server of its own tells the kubelet whether it does. Of the tools, the driver
upgrade is the one that keeps state across crashes: a journal, a marker that asks
for a verdict after the next boot, and a guard that rolls back.

The package is written as a chain of releases: `runtime_v1664.Runtime` extends
`runtime_v1663.Runtime` and so on down to `runtime_v16.Runtime`; the same holds
of the checkpoint store and, more than a hundred modules long, of the health
server. What is modelled is the program that `operator_cli_v16.main` builds, that
is the last override of every method together with everything it calls through
`super()`.

## Inventory

| Component | State | Operations | Correct when | Modelled by |
|---|---|---|---|---|
| Lease election (`lease_v16`, `runtime_v1621`, `v1622`) | the Lease: holder, renewTime, leaseTransitions, resourceVersion; in memory `leader` and when it was verified | `ensure_leader`: GET, then POST or PATCH; `leadership_fresh` | one writer per transition; two replicas are never ready at once; a Lease in force is not taken | `LeaseElection` (clocks), `LeaseContinuity` (order, conflicts, checkpoints) |
| Continuity gate (`runtime_v1632`-`v1634`) | baseline, candidate, stale | `_continuity_accepts` | a changed snapshot is accepted only when it is seen again, even across a restart | `ContinuityGate`, `LeaseContinuity` |
| Checkpoint store (`nvidia_checkpoint_v1633`-`v1651`) | checkpoint and sequence floor annotations | `load`, `save_receipt` | sequences dense, no fork, no replay, an unknown outcome settled | `LeaseContinuity`, `CheckpointReplay`, `CheckpointLog` |
| Checkpoint transaction (`runtime_v1635`-`v1652`) | epoch, sequence, loaded | `_restore_checkpoint_once`, `_save_epoch_state` | memory is always that of a stored checkpoint; sequences never go back | `LeaseContinuity`, `CheckpointReplay` |
| Main loop (`runtime_v16`, `v1623`-`v1629`, `runtime_guard_v161`) | `inventory_fresh`, watch cache, pending event, deferred list | `run_forever`, `list_and_watch_once`, `reconcile_object`, `stop` | no version of a fleet is missed while the inventory counts as fresh | `FleetReconcile` (the objects), `LeaseContinuity` (the cycle), `ReadinessProbe` (the order of its writes) |
| GPUFleet writes (`operator_v15`, `reconcile_v14`, `finalizer`) | GPUFleet status and finalizers | `_patch_status_result`, `_finalize` | a write is computed from the object it is applied to; a finalizer does not go while the fleet is held, and goes when it may | `FleetReconcile` |
| Readiness and diagnosis (`runtime_v163`, `v1642`, `v1643`, `v166`-`v1664`) | derived from fields another thread writes | `ready`, `readiness_diagnosis` | a 200 was true; probes do no lasting harm | `LeaseContinuity`, `ReadinessProbe` |
| Health server (`http_v16*`) | slots, connections, deadlines | admission of a request, `/livez`, `/readyz`, `/metrics`, `close` | bounded workers, no slot lost, only whole and documented requests get to the runtime, every connection ends | `HealthGuards`, `HealthRequests`, `HealthServer`, `ServingPool` |
| Driver upgrade (`transaction`, `rollback`, `package_state`, `watchdog`, `build.install_modules`) | module files, packages, journal, pending marker | begin, install, arm, validate, roll back; the boot guard | an unfinished rollback is asked for again, the marker goes only when what it asks for is done | `DriverTransaction` |
| Preflight (`nvidia_inventory_v163`, `v1631`) | none | `check` | the identity is that of one consistent listing | an input of `LeaseContinuity` |
| API client (`k8s_api_v16`) | none | `request_json`, `watch_lines` | errors are told apart: refused, failed, unknown | failure actions of `LeaseContinuity` and `FleetReconcile` |
| Fence helpers (`fence_*`, `leadership_v155`...) | a file no other module uses | compare, recover, advance | - | not modelled |
| Controller policy (`controller_state`, `rollout*`, `circuit_breaker`, ...), approvals and audit | one file, replaced atomically | decisions over plain values | - | not modelled |
| Driver build, diagnostics, integrations | none of their own | probes, reports | - | not modelled: pure I/O |

**How they interact.** One thread runs `run_forever`: preflight, gate, save (which
itself asks for leadership), leadership, list, watch, over and over. All of
election, checkpoint and GPUFleet writes go to the API server, which is the only
thing replicas share; the server serialises requests and refuses a PATCH whose
resourceVersion is not current. The health server has an accepting thread, a
worker and a deadline timer for each connection; its workers evaluate readiness,
which reads the loop's fields without a lock and takes leadership away when it
has aged. A signal handler writes the same fields between two steps of the loop.
The driver tools share nothing with the operator but the machine: their commands
meet each other, and the guard, only through the files under `/var/lib/nvlx`.

**What is hard.** Requests of several replicas interleave; a request may be
applied and its answer lost; a process may die between any two requests, or the
machine between any two writes; memory may describe an object that has changed;
a watch repeats events and forgets; an annotation may be put back by somebody
else; two threads read and write the same fields one at a time. `PROJECT.json`
lists each hazard at its line, with the property that covers it or why none does.

## Modules

| Module | Models |
|---|---|
| `ContinuityGate` | The decision of `_continuity_accepts` as operators on baseline, candidate, stale and the observed identity, with the two chains (`v1632`/`v1633` and the stale path of `v1634`) merged into one. |
| `LeaseContinuity` | The replicas, the Lease, election, checkpoint store and the main loop's cycle. One action per Kubernetes request. |
| `CheckpointLog` | The abstract promise: an append-only log of checkpoints with dense sequences, where the entries of one transition come from one writer. |
| `CheckpointReplay` | `LeaseContinuity` and somebody who puts the checkpoint annotation back, with or without its floor. |
| `LeaseElection` | Election alone, against the clock: skewed clocks, slow calls, writes that land late, the age of a verification. |
| `FleetReconcile` | The GPUFleet objects: list, settlement of each, watch with its cache and its repeated events, status and finalizer writes with one retry, against users and the other replica. |
| `ReadinessProbe` | The fields of one replica's readiness, read and written one at a time by probing threads, the loop and the signal handler. |
| `HealthGuards` | Every gate of the chain of request checks, as a predicate on a request, in the order they speak; refusals; the dispatch. No state. |
| `HealthRequests` | Clients that write requests of every kind, to compare the chain with the list of `README.md`. |
| `HealthServer` | Accepting thread, slots, workers, idle timeout, deadline timers and clients, on top of `HealthGuards`. |
| `ServingPool` | The abstract promise: connections arrive, no more than `Slots` are served at once, each at most once, and all else is turned away. |
| `DriverTransaction` | A driver upgrade between crashes and boots, the guard, and the user at the keyboard. |
| `LeaseContinuityProofs`, `CheckpointReplayProofs`, `LeaseElectionProofs`, `FleetReconcileProofs`, `ReadinessProbeProofs`, `HealthRequestsProofs`, `HealthServerProofs`, `DriverTransactionProofs` | The theorems about the module of that name. |
| `MC...` | Small instances: sets for the constants, symmetries. `ReadinessProbe` and `DriverTransaction` need none. |

`LeaseContinuity` extends `ContinuityGate` and is extended by `CheckpointReplay`;
`HealthServer` and `HealthRequests` extend `HealthGuards`. `LeaseContinuity`
implements `CheckpointLog` and `HealthServer` implements `ServingPool`, both by a
refinement mapping that a run checks and a theorem proves.

### State and code

**`LeaseContinuity`**

* `lease` is the Lease object. `holder`, `trans` and the two annotations are
  fields; `ckpt` is the decoded annotation (`NoCheckpoint`: absent), `floor` the
  sequence floor, `annotated` whether `metadata.annotations` exists, `legacy`
  whether an annotation of format 1 or 2 is there. Digest and canonical JSON
  protect exactly the record they encode, and are abstracted to it.
* `rvCurrent` stands for resourceVersion. All the code ever does with it is to
  hand back the version it read, so what matters is which replicas still know
  the current one: a GET that precedes a write adds the replica, a write empties
  the set, and a write takes effect only from within it.
* `mem[r]` is the Runtime: `base`, `cand`, `epoch`, `seq`, `stale`, `loaded`
  (`nvidia_checkpoint_*`), `ok` (`nvidia_preflight_ok`), `fresh`
  (`inventory_fresh`), `leader` (`leadership_fresh()`).
* `call[r]` is the program counter with the locals of the methods on the stack:
  `why` ensure_leader runs, the snapshot `seen`, whether it was accepted, the
  pair to fall back to, and what the write in progress read.
* `commits` is a history variable: every checkpoint that took effect, with its
  writer. Nothing reads it but properties (and `Replay`).
* The holder `Other` is the empty holderIdentity, or a pod that no longer runs
  and whose Lease has run out.

The order of a cycle is the code's: `Check` (preflight, restore, gate), then
`Electable`/`Claim` for the save, `Match`, `Read`, `Write`, `Readback`, and
`Reconcile` when the outcome is unknown; `Receipt` is the fence of
`_save_epoch_state`; then leadership again, `ListSettles`, and `WatchEvent`s.

**`LeaseElection`**: `now` is true time and `offset[r]` how far the clock of a
replica is ahead of it (`_now`); `call[r].began` is the `now` of `ensure_leader`,
read once before the GET; `belief[r]` is `stats.leader` with
`_leader_verified_monotonic`, set when the call has returned; `late` holds
PATCHes whose sender saw an error and which the server may still apply. The
constants are `leaseDurationSeconds`, `max_clock_skew_seconds`,
`leader_fresh_seconds`, and two facts about the surroundings: how long a call
takes at most and how far clocks are apart. `LeaseContinuity` is the same
election without time, where any Lease may be found expired: it does not depend
on exclusion, which is why the checkpoints stay safe when exclusion fails.

**`FleetReconcile`**: `fleet` is the API server, `stream` the watch, `past` an
event it may repeat. `stage` is where `list_and_watch_once` is, `step` where
`reconcile_object` is; `todo`, `listed` and `deferred` are the list in progress,
`work` the delivery being reconciled, `fresh` the answer of the GET after a
conflict, `seen` the watch cache `_watch_seen` in its order, `inventory` is
`inventory_fresh`. `done` is a history variable. A resourceVersion is an element
of `Versions`, taken again once nobody holds a copy of it: the code only compares
two of one object for equality. A uid, on the other hand, is never used again: it
is the name with the number of the edit that created the object. `Keep` and
`Seeded` are `_prune_watch_state_from_list` and `_seed_watch_state_from_list`, as
recursive functions over the cache and the listed objects. The cursor `last_resource_version` is reported
and never used to open a watch, so it is left out.

**`ReadinessProbe`**: `stats` has one component per field that `ready()` reads.
`loop.todo` holds the assignments a handler still has to make, in the order of
the code, and `DoWrite` makes one; `Stop` puts the handler's own in front.
`probe[t]` walks through `ReadyReads` and then `CaptureReads`, a read at a step.
`proven` and `seen` are history variables.

**`HealthGuards`**: a gate is a predicate on a request; `Named(r, name)` is
`get_all`, as the places of the fields of that name, and `Options(r)` the places
of the options of all Connection fields. `Gates(r)` lists the gates in the order
in which a request passes them, `Refusal(r)` is the status of the first that objects.

**`HealthServer`**: a request is sent in pieces (request line, fields, blank line).
`phase` is the worker's program counter, `timer` the deadline's (`claimed`: it has
decided under the lock and not yet cut), `free` the semaphore, `Verdict[r][n]`
what `HealthGuards` makes of the first `n` pieces, the shorter request CPython's
header parser makes of a connection that ended included.

**`DriverTransaction`**: `modules` are the module files installed (`Broken`: some of
them), `generations` and `current` the user-space packages: on NixOS those of every
system generation and which one is in use, elsewhere a single entry. `packages`
is the entry in use. `manager` is what the rollback can do with the package
manager: install exact versions (apt, dnf), go back a generation (NixOS), only tell
the user to (pacman), or nothing, since it recorded no package. `journal` is the `transaction.json` files with the snapshots they point
to (`NoBoot`: the boot id could not be read when it began), `marker` the transaction
whose copy is in `pending.json` (`Torn`: the file is there and empty), `boot` the
boot id, `starts` how often systemd started the guard in the present interval
(`Off`: not again in this boot), `command` the nvlx command that runs. Each file
that a later command reads is written by an action of its own. Which release an
installation writes is free, as the verdict is. `undone` and `blind`, the
transactions judged while the boot id could not be read, are history variables.
`AtFirst` is what may be installed before the first upgrade: in the run the release
`old` or none, since starting with `new` would only exchange the two names.

## Runs

Properties are defined, each with a comment, at the end of the module they are
about. Replicas, fleets and identities are symmetric among themselves; `failover`, `exclusion` and
`fleets` use that, and the runs with liveness properties must not.

| Run | Instance | Shows |
|---|---|---|
| `failover` | 2 replicas, 2 identities, every kind of Lease, 1 failure or edit, 1 crash | `SequenceIsDense`, `EpochHasOneWriter`, `MemoryIsCommitted`, `ReadyIsPersisted`, `PromotedFromCheckpoint`, the inductive invariant `Inv`, and `ImplementsLog` |
| `serving` | 2 replicas, stable snapshot, annotated Leases, 2 failures or edits, fairness | `TypeOK` (a save is tried twice and no more), `FirstBaselinePersisted`; `ServesAgain`, once no fleet puts a leader's list off for good |
| `replay` | 1 replica, annotation put back with or without its floor, crash | `RestoresTheLatest`, `NoWriteOverReplay`, `SequenceNeverRegresses` |
| `exclusion` | 2 replicas, clocks up to 1 apart, calls up to 1 long, late writes, 6 units of time, just `Timely` | `AtMostOneLeads`, `LeadsByTheLease`, `TakenWhenExpired`, and the inductive invariant `Inv` |
| `fleets` | 2 fleets, a cache of 1, 1 edit, 1 fault | `TrustedMissesNothing`; `StatusTrue` and `ProtectedUntilSafe`: neither write is a stale decision |
| `fleet_progress` | 2 fleets, a cache of 1, 1 edit, no fault, fairness | `EventuallyDescribed`, `EventuallyReleased` |
| `probes` | 1 probing thread, 2 evaluations, 1 failure, 3 clock values, window 1, SIGTERM, fairness | `ReadyWasTrue`, `ReadyWasLeading`, `Recovers` |
| `gates` | requests of every line with up to 2 fields of every kind; requests of a plain line with up to 3 fields and 2 Connection options of every name | `AdmittedAsDocumented`, `AskedOnlyForBodylessReads`, `EarlierGatesKeepPrecedence` |
| `server` | 2 connections, 1 slot, fairness | `SlotsAccounted`, `AskedForWholeRequests`, `ServesAsPool`, `EveryConnectionEnds` |
| `upgrade` | 2 drivers, every package manager, 1 earlier generation, 2 installations, 3 boots, 2 starts of the guard in an interval, 1 fault, fairness | `HalfRestoredIsMarked`, `VerdictStands`, `MarkerGoesWhenSettled`, `Settles` |
| `bootstrap` | 1 replica, no Lease, fairness | *violated*: `FirstBaselinePersisted` |
| `self_patch` | 2 fleets, no edit, no fault, fairness | *violated*: `Quiesces` |

Every run but three checks for deadlock. `gates` ends when a request has all its
fields, `server` when every connection is closed, `probes` when the loop has
stopped and the clock has run out.

### What the violated runs say

* **bootstrap.** `ensure_leader` creates the Lease without annotations and
  `_matching_current_commit` refuses such a Lease. On a fresh cluster whose
  Lease nobody else annotates, no replica ever becomes ready.
* **self_patch.** `_status_plan` never tells `operator_v15.plan` what it wrote
  last, and every condition is stamped with the present time. So the operator's
  own status write is a MODIFIED event whose status differs from the next plan's,
  and a fleet nobody touches is patched for ever.

### What else the code does

Behaviour met while modelling that follows from the code and that the properties
above are stated around. The models contain all of it, except where a line says
that it is outside them.

* **A takeover without a second observation.** `_restore_checkpoint_once` runs
  once per process, at its first healthy snapshot, which comes *before* the
  process contends for the Lease. `stale` (`runtime_v1636.py:36`) therefore
  compares the checkpoint with the transition of the predecessor. A standby that
  takes the Lease over accepts the inherited baseline at once; the second
  observation that `runtime_v1634.py:51` speaks of happens only when the process
  starts after the transition.
* **A regained Lease.** For the same reason a replica that loses and regains the
  Lease does not load what its successor stored, and may overwrite the
  successor's baseline with its own without an observation by way of a
  candidate. `PromotedFromCheckpoint` therefore compares a write with the
  checkpoint its writer works from, not with the latest one.
* **An upgrade from format 1 or 2.** Such a checkpoint is loaded as "no baseline,
  stale" (`nvidia_checkpoint_v1635.py:111`); the gate then has a candidate
  without a baseline, which `encode_checkpoint` refuses at every cycle. `serving`
  starts without such Leases.
* **Slow calls.** The Lease counts from the clock reading before the GET, belief
  from the return of the call (`runtime_v1621.py:25`), and 25 s + 5 s is the
  Lease's whole duration. A call of 5 s or longer (each of its two requests may
  take 10 s) leaves a replica ready while another may already take the Lease.
  The same reading judges the answer of the GET (`lease_v16.py:73`): a Lease that
  its holder renewed while the GET was on its way is "from the future" by more
  than the tolerance and so regarded as expired, and is taken over. `Timely` is
  the condition that excludes both.
* **A list that never ends.** A held deletion, or a PATCH that stays fenced, puts
  every list off, also a leader's (`runtime_v1629.py:23`): the watch is never
  opened, `inventory_fresh` is never set, leadership is dropped each time
  (`runtime_v1628.py:116`), and no replica becomes ready as long as that lasts.
  `ListDefers` has it, at any time and for any number of times, and `ServesAgain`
  is conditional on its ending for leaders (`LeaderPutOff`): without the condition
  TLC finds it violated. A status PATCH that is refused for good (403, 422)
  raises out of the list, and the fleets behind it are not reconciled. This is
  outside `FleetReconcile`, whose faults are finitely many.
* **A delayed evaluation.** `ready()` and the capture after it look at every field
  twice. If a whole cycle of the loop, or the window, passes in between, 200 may
  be put together from halves of two states, which is why `ReadyWasTrue` excepts
  evaluations that are delayed so. `ReadyWasLeading` excepts nothing.
* **A deadline that fires late.** `expire()` lets go of the lock before it cuts the
  socket (`http_v1666664.py:53`): a timer that has claimed the connection cuts it
  although the request has been parsed meanwhile, and the answer is lost.
* **HEAD with a body.** CPython sets `command` only after it accepted the request
  line, so a HEAD request refused before that gets a body (`http_v166663.py:32`).
  Outside `HealthServer`, which has the status of a response and not its bytes.
* **Metrics.** `reconcile_failures` also counts cycles that reconciled nothing, so
  it can exceed `reconcile_total`; the domain check (`runtime_v1662.py:35`) then
  raises and `/metrics` answers 500. The counters are outside the models.
* **A torn marker.** If the power goes while `pending.json` is written
  (`transaction.py:55`), `load_pending` takes the unreadable file for no
  transaction, and the guard reports success about an unproven driver.
* **A verdict about the kernel that runs.** The guard's second start in a boot
  judges again, by nvidia-smi and the loaded modules, not by the disk. After a
  rollback that failed halfway, a good answer validates the transaction and takes
  the marker away, while the modules on disk are incomplete. This is the
  exception in `HalfRestoredIsMarked`.
* **A second installation before the reboot** takes its snapshot of the first,
  unproven driver and replaces the marker: a rollback then leads back to that
  driver. `MarkerGoesWhenSettled` names it.
* **pacman.** Packages are never restored automatically (`package_state.py:70`),
  so a failed upgrade there keeps its marker through every start of the guard;
  `Settles` asks for `Automatic`. Where the manager is unknown no package is
  recorded, and the rollback restores the modules alone.
* **NixOS.** The rollback is `nixos-rebuild --rollback boot` (`package_state.py:65`):
  it goes to the generation before the one in use, not to the one that was
  recorded, and does so even if the installation made no generation. A retry, after
  the copy or depmod failed, goes one further. Then the transaction is recorded as
  rolled back and the marker removed. So on NixOS `MarkerGoesWhenSettled` (by
  `Restored`) promises the modules and not the packages, and `Settles` nothing
  when no earlier generation is left.
* **An unreadable boot id.** `_boot_id` answers `None` on an error, and
  `validate_pending` (`transaction.py:75`) waits only if it has two ids and they
  are equal. So a transaction that began without one, or is validated without
  one, is judged, and rolled back by the guard, in the boot that installed it; if
  the id can be read later, a transaction judged so may be put back to wait.
  `VerdictStands` excepts those that were judged blind, and the others of the
  module's properties hold for them, too.
* **The guard's limit.** `StartLimitBurst` counts starts within
  `StartLimitIntervalSec=300` (`watchdog.py:17`). A start that hangs is killed after
  90 s and repeated after 20 s, so no more than three fall in one interval, and such a
  guard is started without end; only one that fails quickly is given up. In
  `Guard` a start may therefore begin a new count.

### Bounds and abstractions

* `MaxFaults`, `MaxCrashes`, `MaxEdits` bound how often something goes wrong, not
  where: a failure may hit any request or step, before or after it took effect. In
  `LeaseContinuity` an edit of the Lease by somebody else (`Edit`) counts as one: it
  is what makes a holder's own write conflict while it still is the holder.
  Two replicas suffice for conflicts, takeover and interference in `failover`;
  what three could add is covered by the theorems, which hold for any number.
* `exclusion` has 6 units of time with a Lease of 4: long enough for a Lease to
  expire, be taken over and the new leader to believe, all with the old one's
  requests still under way. `FreshWindow + Latency + Skew` is `Duration - 1` and
  `Latency + Skew` is `Tolerance`, so one unit more on either side would break
  `Timely`; the theorems cover all other settings.
* `MaxSequence` is enforced by the server refusing a write (`WriteFails`), and
  `MaxTransitions` by an expired Lease being found fresh (`Standby`): both are
  outcomes the API may produce anyway, so no behaviour is cut off in the middle.
* Two identities distinguish all the gate can distinguish with one baseline and
  one candidate, a third one being another candidate.
* Time is abstract in `LeaseContinuity`. Any Lease not held by the replica itself
  may be found expired at any time, which includes every behaviour of real
  clocks; and a leadership verification may age at any moment (`LeadershipAges`,
  counted among the failures, because only a delay brings it about).
* In `LeaseContinuity` one call of `_leader()` before the list stands for the
  several the list makes (`runtime_v1621.py:45`, `runtime_v1628.py:45`, and for
  each object). `ReadinessProbe` has them one by one.
* In `ReadinessProbe` a refused observation ends the cycle (`GateRefuses`). Where the
  code first stores it as a candidate, it asks for leadership before that; the
  preflight is not ok during all of it, so no evaluation can come out ready.
* The API server is atomic and answers a GET with the current object. So the
  branches of `_verified_write` that check the PATCH's own response
  (lines 104-125) never fail and are part of `Write`.
* A checkpoint inherited when the replicas start has sequence 1: only the
  difference from later ones matters.
* `CacheLimit = 1` with two fleets makes every second entry push one out of the
  watch cache. What a status says of a fleet is abstracted to the generation and
  the approval it was planned from, since the rest is a function of these.
* In `probes` the clock starts at 1, not later than `Window`: then a proof of 0
  read where the code expects a time gives an age within the window, as it does
  on a machine that has just started.
* `HealthGuards` knows header fields by name, by the parts between commas, by how
  the raw line is spelled (a class: bare LF, folded, blank before the colon, ...)
  and by their size, as far as any gate tells them apart.
* In `upgrade` each verdict of nvidia-smi is free: a driver may be defective, the
  old one still in the initramfs, or the answer slower than its five seconds. So
  neither initramfs nor kernels are tracked. A command runs alone (nothing in the
  code enforces it; the guard is started after the boot has finished, and people
  are assumed to wait for it), and a write that has returned is on the disk. Two
  installations suffice for one to replace the other's marker, three boots for a
  rollback to be cut off by a power loss and taken up after it, one earlier
  generation for a rollback that has one and a retry that has none.
  `MaxFaults` counts failed steps, kills, unreadable boot ids and changes of the
  packages by others together.

### Fairness

* `LeaseContinuity`: weak fairness of each replica's loop as a whole (crashes
  excluded). `run_forever` leaves its loop only when it is stopped, catches every
  exception, and every request has a timeout (`k8s_api_v16`, 10 s; watches 25 s),
  so a live replica keeps moving. Nothing is assumed about *which* step it takes:
  no fair choice between success and failure, only that failures are finitely
  many (`MaxFaults`) in the runs that conclude anything from fairness.
* `FleetReconcile`: weak fairness of `Operator`, for the same reasons.
* `ReadinessProbe`: weak fairness of `Loop`, and strong fairness of the end of a
  list, which has finitely many fleets. Nothing of probes, signals or failures.
* `HealthServer`: weak fairness of the accepting loop, of each worker, and of the
  two timeouts, which the operating system fires. Nothing of clients.
* `DriverTransaction`: weak fairness of a running command, strong fairness of the
  guard, because systemd starts it, and again when it failed, whatever commands
  people give in between, until its limit is hit (`Off`), from when on nothing
  is assumed. `Settles` holds as long as `MaxFaults < Retries`, which is what the
  retries are for.

## Proofs

Each theorem holds for every value of the constants that satisfies the named
assumptions of the modules: `NoIdentity` is no identity, `Other` and `Nobody` no
replica, observable identities are identities, the kinds of Lease are among
`LeaseKind`, `Versions` is not empty, requests are made of what clients can send,
connections are finitely many, `Nothing` and `Broken` are no releases, bounds are
natural numbers, and `Retries` is not 0.

**`LeaseContinuityProofs`**: `Safety` (`Spec => []Inv`), its parts `TypeCorrect`,
`DenseSequence`, `OneWriterPerEpoch`, `CommittedMemory`, and `PersistedReadiness`,
which follows from them; `Refinement` (`Spec => ImplementsLog`); `Promoted`.
Neither property is inductive by itself; `Inv` adds three
facts. `LeaseCarriesLastCommit`: the Lease is the end of the history, its floor
the history's length. `EpochsFollowLease`: no checkpoint is of a later transition
than the Lease, and those of its present transition are by its holder.
`RequestsAreCurrent`: a request whose resourceVersion is still current was
computed from the Lease *as it is* - the heart of compare-and-swap, and what
makes an append of sequence `floor + 1` by the holder in its own transition
correct whenever it takes effect, however late. `PhasesAreSound` says what each
phase takes for granted (above all that what is served is the baseline in
memory), and is what `ReadyIsPersisted` needs on top. `LogStep`, `RequestStep`,
`PhaseStep` and `MemoryStep` prove the conjuncts one by one, by the action that
could disturb them; `Refinement` shows that a step appends one entry to
`History` or leaves it alone. `Promoted` adds that a stored checkpoint always has
a baseline (`BaselinesExist`), and that a replica which saves took its baseline
from the pair it would fall back to (`Confirming`). By `MemoryIsCommitted` that is
the pair of its checkpoint, so what it writes is that one's baseline or candidate.

**`LeaseElectionProofs`**, for any replicas and any settings with

    FreshWindow + Latency + Skew < Duration  and  Latency + Skew <= Tolerance

(`Timely`): `Spec` implies `[]AtMostOneLeads`, `[]LeadsByTheLease` and
`TakenWhenExpired`. At the daemon's settings (25, 30 and 5 s) that is: as long as
an election call and the clock error together stay below 5 s.
The argument is `Ground(r, s)`: a replica that read its clock at `s` either still
holds the Lease with that renewTime or a later one, or so much time has passed
that another could legitimately take it. It survives every accepted write,
because of `Justified`: a write that would still be accepted, even one that lands
late, was computed from a Lease that had run out (`CompetesJustified`), and an
accepted write ends all others (`GroundKept`, `WriteKeeps`).

**`CheckpointReplayProofs`**, where annotations are put back: `OneWriterDespiteReplay`,
`NoFork`, `FencedSequence`, `LatestRestored`, for any number of replicas, replays and
backups, and `LogSurvivesReplay` where the annotation alone is put back
(`AnnotationReplaySpec`): a backup takes the floor back with it, and the log then
repeats a sequence. `Inv` is no longer inductive there: a floor put back
with its checkpoint is smaller than the history is long, and what is written next
repeats a sequence. What remains is `ReplayInv`. The floor is at most
`Len(commits)`, and where it is equal the history is dense; likewise
`commits[i].seq` is at most `i`, and dense up to `i` where it is equal. The Lease
carries some checkpoint that was written. A PATCH whose version is still current
was preceded by a GET that found checkpoint and floor in agreement. And each
memory's pair is that of some written checkpoint of its sequence. The epochs
survive as they are: whoever puts an annotation back leaves holder and transitions
alone, so what is written afterwards is still of the present holder and
transition.

**`FleetReconcileProofs`**: `TypeCorrect`, `NothingMissed`, `OneStatePerVersion`,
`StatusIsTrue`, `FinalizerProtects`, for any fleets, versions, caches, edits and
faults. For the writes the invariant is
`VersionsIdentify` (any two copies of a fleet, on the server, in the stream, in a
list or in a conflict's answer, that have one resourceVersion are equal) with
`RetryJustified` (a retry is of a write that the object just read calls for, on the same
incarnation and with the same decision). A PATCH that matches therefore hits the object it was
planned from, however long it was on the way, and both action properties follow.
For the inventory it is `Trust`. `NothingLost`: from the moment a list is taken,
the present version of every fleet is settled, in the stream, in reconciliation or
still to be taken from the list, or the list is known to be incomplete
(`deferred`). `ListedSettled`: what was listed and reconciled has settled.
`SeenSettled`: while the stream is followed, a fingerprint in the cache is of a
settled version or of the one in reconciliation, so that suppressing a repetition
loses nothing. `SeenReplaced`: during a list the cache has only uids that seeding
will overwrite, unless the list is deferred, which ends it without a watch; this is
what the pruning at the start of a list is for.
What pruning and seeding return is proved by the least number for which it would
be false (`Least`, `StepByStep`, from `WFMin` of the library): `Recursion`
constructs the function that a recursive definition chooses, `Pruning` and
`Seeding` follow its steps.

**`ReadinessProbeProofs`**: `ReadyOnlyWhileLeading` and `ReadyOnlyWhileServing`, for any
threads, evaluations, clocks and failures. The invariant relates an evaluation
that has read only good values so far to what it must have seen. Once it has read
`leader` as true, the Lease had been confirmed, because every loss writes `leader` before
the proof. If the replica was not leading at that moment, the proof was already older
than the window, and stays so until a new one is written - then the replica leads,
and the evaluation sees it - or the read of the age ends the evaluation.
For `serving`: when `inventory_fresh` is read as true the loop is past a settled list
(`Past`), from which neither the API flag nor the inventory can become true again
without another cycle beginning, which is the delay the property excepts. The second
pass over the fields then shows that none of them was lost before leadership
was looked at. The second read of `running` rules `stop()` out, whose first
write is `terminating`: all parts are conditioned on its not having come.

**`HealthRequestsProofs`**: `ChainAdmitsTheList`, `PrecedenceKept`,
`OnlyBodylessReads`, for requests with any number of fields and options and any
budgets, where the run has requests of three fields. `Chain` and `ChainAsList`
unroll the predicates, each of which calls the one before it, to one list;
`ChainIsList` matches the 23 gates with the lines of the documented list. For the
precedence, a request with one more option is refused by the same ones of the
first 17 gates (`EarlierGates`) and by the same or more of the last six
(`LaterGates`), all of which answer 400.

**`HealthServerProofs`**: `TypeCorrect`, `NoSlotLeaks`, `WholeRequests`,
`PoolRefinement`, for any connections, slots and requests. A slot is held by
exactly the workers, so `free` is `Slots` minus their number whatever fails; and a
request that is put before the runtime was admitted by every gate, among them the
one that wants the blank line as CRLF, which no cut-off request has
(`VerdictType`).

**`DriverTransactionProofs`**: `TypeCorrect`, `RecoveryAskedFor`, `VerdictsStand`,
`SettledWhenGone`, for any releases, installations, boots, faults and retries.
The invariant says where the one command can be and what it may rely on there. An
installation is of the latest transaction, and the marker is of an earlier one
until it is replaced (`Installing`). A validation is of the marked transaction, in
a later boot than its installation's or blind; what a rollback has put back so far
follows from where it is (`Validating`). No transaction is from a later boot
(`NoneFromTheFuture`), and one that was judged is from an earlier one or was judged
blind (`JudgedAfterReboot`): so a boot id that is read and equal means that there
is no verdict yet to take back. The first says that nothing but the owner's settlement takes
the marker from an unfinished rollback, the second that at the settlement the
verdict and the disk are as the journal says.

**Only model-checked**: the liveness properties `FirstBaselinePersisted`,
`ServesAgain`, `EventuallyDescribed`, `EventuallyReleased`, `Recovers`,
`EveryConnectionEnds` and `Settles`, since fairness is out of the prover's reach.
Every invariant and every action property that a run checks has a theorem.

## Not modelled

Message texts, logging and the counters that only feed metrics; JSON, SHA-256 and
TLS; header fields byte by byte; the `save` methods of earlier releases of the
store, which the daemon no longer reaches; `--once`; paging and validation of the
NVIDIA inventory.

The fence helpers are called by no other module, and the fence the operator does
use is the checkpoint's floor. Controller policy, approvals and the audit chain
are functions of plain values that single commands evaluate: nothing in them waits
or is interrupted, so unit tests reach what a model would. Diagnostics, report
formatting, integrations, fetching and building are probes and external programs
without a state of their own.

## Plan

What would add most next, in this order:

1. The inventory's paging in `LeaseContinuity`'s `Check`: a listing that changes
   between two pages.
2. `runtime_store` under two commands at once, which read, change and replace the
   same file.
3. Safety halves of the liveness properties as theorems: that a step of the loop
   is enabled wherever the loop can be.
