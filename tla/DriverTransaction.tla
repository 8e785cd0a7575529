-------------------------- MODULE DriverTransaction --------------------------
(***************************************************************************)
(* The upgrade of a machine's NVIDIA kernel modules (transaction.py,       *)
(* rollback.py, build.install_modules): a snapshot, the installation, a    *)
(* marker that asks for a verdict after the next boot, and the boot guard, *)
(* which restores the snapshot when the verdict is bad.                    *)
(*                                                                         *)
(* The disk survives, the process does not: power may go, or systemd kill  *)
(* the guard, between any two writes.  One nvlx command runs at a time.  A *)
(* write that has returned is on the disk.                                 *)
(***************************************************************************)
EXTENDS Naturals, Sequences

CONSTANTS Driver,       \* driver releases
          AtFirst,      \* what may be installed at first
          Retries,      \* StartLimitBurst of the boot guard
          Generations,  \* how many earlier generations a NixOS machine has at first
          MaxInstalls,  \* bound on transactions
          MaxBoots,     \* bound on boots
          MaxFaults     \* bound on failed steps, killed commands and changes by others

ASSUME BudgetsAssumption ==
  /\ {Generations, MaxInstalls, MaxBoots, MaxFaults} \subseteq Nat
  /\ Retries \in Nat \ {0}   \* 0 would switch systemd's limit off

Nothing == "nothing"    \* no NVIDIA files
Broken  == "broken"     \* some files missing, or of another release
Content == Driver \cup {Nothing, Broken}

ASSUME DriversAssumption ==
  /\ {Nothing, Broken} \cap Driver = {}
  /\ AtFirst \subseteq Driver \cup {Nothing}

NoMarker == 0
Torn == MaxInstalls + 1   \* pending.json was opened for writing and is empty

NoBoot == 0               \* boot_id_before of a transaction that could not read boot_id

(* What restore_package_state can do with the manager found: install exact      *)
(* versions (apt, dnf), go back a generation (NixOS), only tell the user to do   *)
(* it (pacman), or nothing, for a manager whose packages it cannot list.         *)
Manager == {"exact", "generations", "manual", "unknown"}

VARIABLES manager,     \* does not change
          modules,     \* module files in /lib/modules
          generations, \* the system's generations, oldest first; one where the manager is not NixOS's
          current,     \* the generation in use: its user-space packages are the machine's
          journal,     \* the transaction.json files, oldest first
          marker,      \* the transaction whose copy is in pending.json
          boot,        \* boot_id, if it can be read
          starts,      \* how often systemd started the guard in the present StartLimitInterval
          command,     \* the nvlx command that runs, and where it is
          faults,
          undone,      \* history: the transaction whose rollback removed files it has not yet put back
          blind        \* history: the transactions judged when boot_id could not be read

files == <<modules, generations, current>>
disk == <<files, journal, marker>>
vars == <<manager, disk, boot, starts, command, faults, undone, blind>>

Off == Retries + 1        \* systemd does not start the guard again in this boot

State == {"prepared", "pending-reboot", "validated", "failed", "rolled-back", "rollback-failed"}
Judged == State \ {"prepared", "pending-reboot"}

Transactions == 1..Len(journal)

Idle == [at |-> "idle", tx |-> 0, why |-> "none"]

Goto(place) == command' = [command EXCEPT !.at = place]
Exit == command' = Idle
At(place) == command.at = place

Mark(t, state) == journal' = [journal EXCEPT ![t].state = state]

Fault == faults < MaxFaults /\ faults' = faults + 1

-----------------------------------------------------------------------------
packages == generations[current]

Install(c) == generations' = [generations EXCEPT ![current] = c] /\ UNCHANGED current

(* capture_package_state. *)
Recorded == IF manager = "unknown" THEN Nothing ELSE packages

(* A machine with a driver, or without any. *)
Init ==
  /\ manager \in Manager
  /\ modules \in AtFirst
  /\ current = IF manager = "generations" THEN Generations + 1 ELSE 1
  /\ generations = [g \in 1..current |-> IF g = current THEN modules ELSE Nothing]
  /\ journal = <<>> /\ marker = NoMarker
  /\ boot = 1 /\ starts = Off /\ faults = 0
  /\ command = Idle
  /\ undone = 0 /\ blind = {}

(* What is not part of nvlx: the package manager and the power.  NixOS makes a  *)
(* new generation, the last one, whichever was in use.                         *)
UserUpgrades(d) ==
  /\ command = Idle
  /\ Fault
  /\ IF manager = "generations"
     THEN generations' = Append(generations, d) /\ current' = Len(generations')
     ELSE Install(d)
  /\ UNCHANGED <<manager, modules, journal, marker, boot, starts, command, undone, blind>>

(* systemd is to start the guard when it finds a marker. *)
Boot ==
  /\ boot < MaxBoots
  /\ boot' = boot + 1
  /\ starts' = IF marker = NoMarker THEN Off ELSE 0
  /\ Exit
  /\ UNCHANGED <<manager, disk, faults, undone, blind>>

(* systemd's timeout, Ctrl-C, or an error that nobody catches. *)
Kill ==
  /\ command # Idle
  /\ Fault /\ Exit
  /\ UNCHANGED <<manager, disk, boot, starts, undone, blind>>

-----------------------------------------------------------------------------
(* install_modules: begin_transaction, modules_install, arm_transaction.      *)
(* What nvidia-smi reports, and whether the recorded packages can be had,      *)
(* decides whether it begins.  Which release it installs matters when its files *)
(* are written, and to the verdict, which is free.                             *)
Begin ==
  /\ command = Idle /\ Len(journal) < MaxInstalls
  /\ \E id \in {boot, NoBoot} :
       /\ IF id = NoBoot THEN Fault ELSE UNCHANGED faults
       /\ journal' = Append(journal, [state |-> "prepared", modules |-> modules,
                                      packages |-> Recorded, boot |-> id])
  /\ command' = [at |-> "prepared", tx |-> Len(journal) + 1, why |-> "install"]
  /\ UNCHANGED <<manager, files, marker, boot, starts, undone, blind>>

InstallStarts ==
  /\ At("prepared")
  /\ modules' = Broken /\ undone' = 0
  /\ Goto("installing")
  /\ UNCHANGED <<manager, generations, current, journal, marker, boot, starts, faults, blind>>

Installed ==
  /\ At("installing")
  /\ modules' \in Driver
  /\ Goto("installed")
  /\ UNCHANGED <<manager, generations, current, journal, marker, boot, starts, faults, undone, blind>>

(* make or depmod fails: the transaction stays prepared. *)
InstallFails ==
  /\ command.at \in {"prepared", "installing", "installed"}
  /\ Fault /\ Exit
  /\ UNCHANGED <<manager, disk, boot, starts, undone, blind>>

ArmRecord ==
  /\ At("installed")
  /\ Mark(command.tx, "pending-reboot")
  /\ Goto("arming")
  /\ UNCHANGED <<manager, files, marker, boot, starts, faults, undone, blind>>

OpenMarker ==
  /\ At("arming")
  /\ marker' = Torn
  /\ Goto("marking")
  /\ UNCHANGED <<manager, files, journal, boot, starts, faults, undone, blind>>

WriteMarker ==
  /\ At("marking")
  /\ marker' = command.tx
  /\ Exit
  /\ UNCHANGED <<manager, files, journal, boot, starts, faults, undone, blind>>

-----------------------------------------------------------------------------
(* validate_pending, up to the verdict.  The verdict is nvidia-smi's, about     *)
(* the running kernel: whatever is on the disk, it may be good or bad, as a      *)
(* driver may be defective, still be in the initramfs, or take more than five    *)
(* seconds to answer.                                                           *)
Awaits(t) ==
  /\ boot = journal[t].boot
  /\ Mark(t, "pending-reboot")
  /\ UNCHANGED <<command, faults, blind>>

\* Wrong on purpose: the verdict does not wait for the reboot.
JudgeableAtOnce(t) ==
  \/ UNCHANGED <<faults, blind>>
  \/ Fault /\ blind' = blind \cup {t}

(* Judged is what is not known to be of this boot: of another one, or one of    *)
(* the two ids could not be read.                                              *)
Judgeable(t) ==
  \/ boot # journal[t].boot /\ UNCHANGED <<faults, blind>>
  \/ Fault /\ blind' = blind \cup {t}

Passes(t) ==
  /\ Judgeable(t)
  /\ Mark(t, "validated")
  /\ command' = [at |-> "settling", tx |-> t, why |-> "validate"]

Fails(t, auto) ==
  /\ Judgeable(t)
  /\ Mark(t, "failed")
  /\ IF auto THEN command' = [at |-> "restoring", tx |-> t, why |-> "validate"]
             ELSE UNCHANGED command

Validate(auto) ==
  /\ command = Idle
  /\ IF marker \in Transactions
     THEN Awaits(marker) \/ Passes(marker) \/ Fails(marker, auto)
     ELSE UNCHANGED <<journal, command, faults, blind>>
  /\ UNCHANGED <<manager, files, marker, boot, undone>>

Started(count) ==
  /\ marker # NoMarker /\ starts # Off
  /\ starts' = IF marker = Torn THEN Off ELSE count
  /\ Validate(TRUE)

\* Wrong on purpose: systemd goes on after the limit.
GuardUnlimited ==
  /\ marker # NoMarker /\ starts' = starts + 1
  /\ Validate(TRUE)

\* Wrong on purpose: a guard that failed is not started again in this boot.
GuardOnce == Started(Off)

(* systemd starts the guard at a boot, and again when it exited with an error   *)
(* or ran into its timeout: any number of times as long as there are never more *)
(* than Retries starts in an interval - one that hangs for 90 seconds outlives  *)
(* the others of its interval -, and not at all once there are.                 *)
Guard ==
  \/ \E count \in {1, starts + 1} : count <= Retries /\ Started(count)
  \/ /\ command = Idle /\ marker # NoMarker
     /\ starts = Retries /\ starts' = Off
     /\ UNCHANGED <<manager, disk, boot, command, faults, undone, blind>>

(* Somebody runs nvlx boot-validate. *)
ByHand == \E auto \in BOOLEAN : Validate(auto) /\ UNCHANGED starts

-----------------------------------------------------------------------------
(* The rollback: packages, module files, depmod, initramfs. *)
Automatic(t) ==
  \/ manager \in {"exact", "unknown"}
  \/ manager = "manual" /\ journal[t].packages = Nothing
  \/ manager = "generations" /\ current > 1

\* Wrong on purpose: that the package manager failed is ignored.
RestoreUnchecked(t) ==
  \/ manager # "generations" /\ journal[t].packages # Nothing /\ Install(journal[t].packages)
  \/ UNCHANGED <<generations, current>>

(* nixos-rebuild --rollback boot goes to the generation before the present one,  *)
(* whatever was recorded.                                                       *)
Restore(t) ==
  CASE manager = "generations" -> current' = current - 1 /\ UNCHANGED generations
    [] manager # "generations" /\ journal[t].packages # Nothing -> Install(journal[t].packages)
    [] OTHER -> UNCHANGED <<generations, current>>

RestorePackages ==
  /\ At("restoring") /\ Automatic(command.tx)
  /\ Restore(command.tx)
  /\ Goto("removing")
  /\ UNCHANGED <<manager, modules, journal, marker, boot, starts, faults, undone, blind>>

RemoveModules ==
  /\ At("removing")
  /\ modules' = Broken
  /\ undone' = IF command.why = "validate" THEN command.tx ELSE 0
  /\ Goto("copying")
  /\ UNCHANGED <<manager, generations, current, journal, marker, boot, starts, faults, blind>>

CopyModules ==
  /\ At("copying")
  /\ modules' = journal[command.tx].modules /\ undone' = 0
  /\ Goto("depmod")
  /\ UNCHANGED <<manager, generations, current, journal, marker, boot, starts, faults, blind>>

(* regenerate_initramfs follows, and nobody hears of its failure. *)
RecordRollback ==
  /\ At("depmod") /\ command.why = "validate"
  /\ Mark(command.tx, "rolled-back")
  /\ Goto("settling")
  /\ UNCHANGED <<manager, files, marker, boot, starts, faults, undone, blind>>

RemoveMarker ==
  /\ At("settling")
  /\ marker' = NoMarker /\ starts' = Off
  /\ Exit
  /\ UNCHANGED <<manager, files, journal, boot, faults, undone, blind>>

\* Wrong on purpose: a failed rollback takes the marker away.
NoMarkerLeft == NoMarker

(* What a failed rollback leaves of the marker: all of it.                      *)
MarkerRetained == marker

(* What a package manager that failed may leave.                                *)
HalfRestored ==
  \/ UNCHANGED <<generations, current>>
  \/ manager = "exact" /\ Install(Broken)
  \/ manager = "generations" /\ Restore(command.tx)

(* The package manager refuses or fails halfway, a file cannot be copied,      *)
(* depmod fails.  pacman is never asked, and NixOS may have no generation left. *)
RollbackFails ==
  /\ command.at \in {"restoring", "removing", "copying", "depmod"}
  /\ IF At("restoring") /\ ~Automatic(command.tx)
     THEN UNCHANGED <<faults, generations, current>>
     ELSE /\ Fault
          /\ IF At("restoring") THEN HalfRestored ELSE UNCHANGED <<generations, current>>
  /\ IF command.why = "validate" THEN Mark(command.tx, "rollback-failed") ELSE UNCHANGED journal
  /\ marker' = MarkerRetained
  /\ Exit
  /\ UNCHANGED <<manager, modules, boot, starts, undone, blind>>

(* rollback-apply: the module files of a snapshot, and nothing else. *)
Apply(t) ==
  /\ command = Idle
  /\ command' = [at |-> "removing", tx |-> t, why |-> "apply"]
  /\ UNCHANGED <<manager, disk, boot, starts, faults, undone, blind>>

Applied ==
  /\ At("depmod") /\ command.why = "apply"
  /\ Exit
  /\ UNCHANGED <<manager, disk, boot, starts, faults, undone, blind>>

-----------------------------------------------------------------------------
Progress ==
  \/ InstallStarts \/ Installed \/ ArmRecord \/ OpenMarker \/ WriteMarker
  \/ RestorePackages \/ RemoveModules \/ CopyModules
  \/ RecordRollback \/ RemoveMarker \/ RollbackFails \/ Applied

Next ==
  \/ Progress \/ Guard \/ ByHand \/ InstallFails \/ Kill \/ Boot
  \/ Begin
  \/ \E d \in Driver : UserUpgrades(d)
  \/ \E t \in Transactions : Apply(t)

Spec == Init /\ [][Next]_vars

(* A command that runs goes on, and systemd does start the guard, whatever      *)
(* commands people give in between.                                            *)
FairSpec == Spec /\ WF_vars(Progress) /\ SF_vars(Guard)

-----------------------------------------------------------------------------
Transaction == [state : State, modules : Content, packages : Content, boot : Nat]

TypeOK ==
  /\ manager \in Manager
  /\ modules \in Content
  /\ generations \in Seq(Content) /\ current \in 1..Len(generations)
  /\ journal \in Seq(Transaction) /\ Len(journal) <= MaxInstalls
  /\ marker \in Transactions \cup {NoMarker, Torn}
  /\ boot \in Nat \ {0} /\ faults \in Nat
  /\ starts \in 0..Off
  /\ command = Idle \/ command.tx \in Transactions
  /\ undone \in Transactions \cup {0}
  /\ blind \subseteq Transactions

(* A rollback that was cut off between the removal of the failed driver's      *)
(* files and the return of the old ones is asked for again: the marker is       *)
(* still there, whatever was killed, rebooted or installed since.  The one way  *)
(* out is a later verdict that the running kernel is healthy, which looks at    *)
(* what is loaded and not at what is on the disk.                               *)
HalfRestoredIsMarked ==
  undone # 0 => marker = undone \/ journal[undone].state = "validated"

(* A transaction that has been judged is never put back to wait for a reboot:   *)
(* a rollback that was begun goes on at the next start of the guard, in any     *)
(* boot, after any kill.  Only one that was judged while the boot id could not  *)
(* be read, and so perhaps before its reboot, may be.                           *)
VerdictStands ==
  [][\A t \in Transactions \ blind :
       journal[t].state \in Judged => journal'[t].state \in Judged]_vars

(* The machine is as it was when transaction t began; but on NixOS the packages *)
(* may be those of any earlier generation.                                      *)
Restored(t) ==
  /\ modules = journal[t].modules
  /\ manager # "generations" /\ journal[t].packages # Nothing => packages = journal[t].packages

(* The request for a verdict goes only with the verdict: a driver that was      *)
(* found healthy, or one whose predecessor is back, modules and, where the      *)
(* package manager installs what it is told, packages; or else a newer          *)
(* installation takes its place.                                                *)
MarkerGoesWhenSettled ==
  [][\A t \in Transactions : marker = t /\ marker' # t =>
       \/ marker' = NoMarker /\ journal[t].state = "validated"
       \/ marker' = NoMarker /\ journal[t].state = "rolled-back" /\ Restored(t)
       \/ At("arming") /\ command.tx > t]_vars

(* A guard that is due after a boot settles the transaction it finds, if it is  *)
(* of an earlier boot and no more than Retries - 1 things go wrong: unless the   *)
(* package manager cannot go back, as pacman, or NixOS at its first generation. *)
Settles ==
  \A t \in 1..MaxInstalls :
    (marker = t /\ starts = 0 /\ journal[t].boot < boot) ~> (marker # t \/ ~Automatic(t))
=============================================================================
