----------------------- MODULE DriverTransactionProofs -----------------------
(* The driver transaction, for any releases, any number of installations,      *)
(* boots, failed steps and killed commands.                                    *)
EXTENDS DriverTransaction, TLAPS

-----------------------------------------------------------------------------
(* The inductive invariant.                                                    *)

InstallPlace  == {"prepared", "installing", "installed", "arming", "marking"}
RollbackPlace == {"restoring", "removing", "copying", "depmod", "settling"}

Commands == [at : {"idle"} \cup InstallPlace \cup RollbackPlace, tx : Nat,
             why : {"none", "install", "validate", "apply"}]

CommandTyped ==
  /\ command \in Commands
  /\ command = Idle \/ (command.why # "none" /\ command.tx \in Transactions)

(* An installation is that of the latest transaction; once it writes modules   *)
(* no rollback is unfinished, and no marker is of a later one.  The marker it  *)
(* writes is empty first.                                                      *)
Installing ==
  command.why = "install" =>
    /\ command.at \in InstallPlace
    /\ command.tx = Len(journal)
    /\ command.at \in {"prepared", "installing", "installed"} => journal[command.tx].state = "prepared"
    /\ command.at # "prepared" => undone = 0
    /\ marker \in Transactions => marker < command.tx
    /\ command.at = "marking" => marker = Torn

PackagesBack(t) ==
  manager # "generations" /\ journal[t].packages # Nothing => packages = journal[t].packages

(* A validation is of the transaction that is marked, in a later boot, or in   *)
(* one that could not be told.  What a rollback has restored so far depends on *)
(* where it is.                                                                *)
Validating ==
  command.why = "validate" =>
    /\ command.at \in RollbackPlace
    /\ marker = command.tx
    /\ journal[command.tx].boot < boot \/ command.tx \in blind
    /\ command.at \in {"removing", "copying", "depmod"} => PackagesBack(command.tx)
    /\ command.at = "depmod" => modules = journal[command.tx].modules /\ undone = 0
    /\ command.at = "settling" =>
         \/ journal[command.tx].state = "validated"
         \/ journal[command.tx].state = "rolled-back" /\ Restored(command.tx) /\ undone = 0

Applying == command.why = "apply" => command.at \in {"removing", "copying", "depmod"}

NoneFromTheFuture == \A t \in Transactions : journal[t].boot <= boot

JudgedAfterReboot ==
  \A t \in Transactions : journal[t].state \in Judged => journal[t].boot < boot \/ t \in blind

IInv ==
  /\ TypeOK /\ CommandTyped
  /\ Installing /\ Validating /\ Applying
  /\ NoneFromTheFuture /\ JudgedAfterReboot /\ HalfRestoredIsMarked

-----------------------------------------------------------------------------
(* What writing the state of a transaction changes: that state alone.          *)
LEMMA Marking ==
  ASSUME journal \in Seq(Transaction), NEW t \in Transactions, NEW s \in State, Mark(t, s)
  PROVE  /\ journal' \in Seq(Transaction)
         /\ Len(journal') = Len(journal)
         /\ journal'[t].state = s
         /\ \A u \in Transactions : u # t => journal'[u] = journal[u]
         /\ \A u \in Transactions : /\ journal'[u].boot = journal[u].boot
                                    /\ journal'[u].modules = journal[u].modules
                                    /\ journal'[u].packages = journal[u].packages
<1>1. journal[t] \in Transaction /\ t \in 1..Len(journal)
  BY DEF Transactions
<1>2. [journal[t] EXCEPT !.state = s] \in Transaction
  BY <1>1 DEF Transaction
<1>3. journal' = [journal EXCEPT ![t] = [journal[t] EXCEPT !.state = s]]
  BY DEF Mark
<1>4. journal' \in Seq(Transaction) /\ Len(journal') = Len(journal)
  BY <1>1, <1>2, <1>3
<1>5. journal'[t] = [journal[t] EXCEPT !.state = s]
  BY <1>1, <1>3
<1>6. \A u \in Transactions : u # t => journal'[u] = journal[u]
  BY <1>3 DEF Transactions
<1>7. /\ journal'[t].state = s
      /\ journal'[t].boot = journal[t].boot
      /\ journal'[t].modules = journal[t].modules
      /\ journal'[t].packages = journal[t].packages
  BY <1>1, <1>5 DEF Transaction
<1> QED BY <1>4, <1>6, <1>7

(* What the package manager installs is in the generation in use.              *)
LEMMA Installs ==
  ASSUME generations \in Seq(Content), current \in 1..Len(generations), NEW c \in Content, Install(c)
  PROVE  /\ generations' \in Seq(Content) /\ current' \in 1..Len(generations')
         /\ packages' = c
<1>1. generations' = [generations EXCEPT ![current] = c] /\ current' = current
  BY DEF Install
<1>2. generations' \in Seq(Content) /\ Len(generations') = Len(generations) /\ generations'[current] = c
  BY <1>1
<1> QED BY <1>1, <1>2 DEF packages

(* What going back leaves: the recorded packages, except on NixOS.             *)
LEMMA Restores ==
  ASSUME IInv, NEW t \in Transactions, Automatic(t), Restore(t)
  PROVE  /\ generations' \in Seq(Content) /\ current' \in 1..Len(generations')
         /\ UNCHANGED <<manager, journal>> => PackagesBack(t)'
<1>1. generations \in Seq(Content) /\ current \in 1..Len(generations) /\ journal[t] \in Transaction
  BY DEF IInv, TypeOK, Transactions
<1>2. journal[t].packages \in Content
  BY <1>1 DEF Transaction
<1>3. CASE manager = "generations"
  <2>1. current > 1
    BY <1>3 DEF Automatic
  <2>2. current' = current - 1 /\ generations' = generations
    BY <1>3 DEF Restore
  <2>3. Len(generations) \in Nat
    BY <1>1
  <2>4. current' \in 1..Len(generations')
    BY <1>1, <2>1, <2>2, <2>3
  <2> QED BY <1>1, <1>3, <2>2, <2>4 DEF PackagesBack
<1>4. CASE manager # "generations" /\ journal[t].packages # Nothing
  <2>1. Install(journal[t].packages)
    BY <1>4 DEF Restore
  <2> QED BY <1>1, <1>2, <2>1, Installs DEF PackagesBack
<1>5. CASE manager # "generations" /\ journal[t].packages = Nothing
  <2>1. UNCHANGED <<generations, current>>
    BY <1>5 DEF Restore
  <2> QED BY <1>1, <1>5, <2>1 DEF PackagesBack
<1> QED BY <1>3, <1>4, <1>5

(* The invariant holds when nothing has been installed.                        *)
LEMMA InitIInv == Init => IInv
<1> SUFFICES ASSUME Init PROVE IInv
  OBVIOUS
<1>1. modules \in Content /\ current \in Nat \ {0} /\ Retries \in Nat \ {0} /\ MaxInstalls \in Nat
  BY BudgetsAssumption, DriversAssumption DEF Init, Content
<1>2. generations \in Seq(Content) /\ Len(generations) = current
  <2>1. generations = [g \in 1..current |-> IF g = current THEN modules ELSE Nothing]
    BY DEF Init
  <2>2. Nothing \in Content
    BY DEF Content
  <2> QED BY <1>1, <2>1, <2>2
<1>3. current \in 1..Len(generations) /\ Off \in 0..Off /\ journal \in Seq(Transaction) /\ Len(journal) = 0
  BY <1>1, <1>2 DEF Off, Init
<1>4. TypeOK
  BY <1>1, <1>2, <1>3 DEF Init, TypeOK
<1>5. Transactions = {}
  BY DEF Init, Transactions
<1>6. CommandTyped /\ Installing /\ Validating /\ Applying
  BY DEF Init, CommandTyped, Commands, Installing, Validating, Applying, Idle
<1> QED BY <1>4, <1>5, <1>6 DEF Init, IInv, NoneFromTheFuture, JudgedAfterReboot, HalfRestoredIsMarked

-----------------------------------------------------------------------------
(* The steps that leave the journal alone.                                     *)

(* The transaction a command works on has a record.                            *)
LEMMA CommandHasRecord ==
  ASSUME IInv, command # Idle
  PROVE  /\ command.tx \in Transactions
         /\ journal[command.tx] \in Transaction
<1>1. command.tx \in Transactions
  BY DEF IInv, CommandTyped
<1> QED BY <1>1 DEF IInv, TypeOK, Transactions

(* A command that is cut off, fails before it has written anything, or ends,   *)
(* leaves what is on the disk.                                                 *)
LEMMA ExitStep ==
  ASSUME IInv, Kill \/ InstallFails \/ Applied
  PROVE  IInv'
<1>1. /\ command' = Idle
      /\ UNCHANGED <<manager, disk, boot, starts, undone, blind>>
      /\ faults' = faults \/ faults' = faults + 1
  BY DEF Kill, InstallFails, Applied, Exit, Fault
<1>2. TypeOK' /\ CommandTyped'
  BY <1>1 DEF IInv, TypeOK, CommandTyped, Commands, Idle, Transactions, disk, files
<1>3. Installing' /\ Validating' /\ Applying'
  BY <1>1 DEF Installing, Validating, Applying, Idle
<1> QED BY <1>1, <1>2, <1>3
        DEF IInv, NoneFromTheFuture, JudgedAfterReboot, HalfRestoredIsMarked, Transactions, disk, files

(* Somebody begins to put a snapshot's files back by hand.                     *)
LEMMA ApplyStep ==
  ASSUME IInv, NEW t \in Transactions, Apply(t)
  PROVE  IInv'
  BY BudgetsAssumption, DriversAssumption
     DEF Apply, disk, files, IInv, TypeOK, CommandTyped, Commands, InstallPlace, RollbackPlace, Transactions, NoMarker, Torn, Idle, Installing, Validating, Applying, NoneFromTheFuture, JudgedAfterReboot, HalfRestoredIsMarked

(* Somebody changes the user-space packages.                                   *)
LEMMA UpgradeStep ==
  ASSUME IInv, NEW d \in Driver, UserUpgrades(d)
  PROVE  IInv'
<1>1. /\ command = Idle /\ faults' = faults + 1
      /\ UNCHANGED <<manager, modules, journal, marker, boot, starts, command, undone, blind>>
  BY DEF UserUpgrades, Fault
<1>2. generations \in Seq(Content) /\ current \in 1..Len(generations) /\ d \in Content
  BY DEF IInv, TypeOK, Content
<1>3. generations' \in Seq(Content) /\ current' \in 1..Len(generations')
  <2>1. CASE manager = "generations"
    <3>1. generations' = Append(generations, d) /\ current' = Len(generations')
      BY <2>1 DEF UserUpgrades
    <3>2. generations' \in Seq(Content) /\ Len(generations') = Len(generations) + 1 /\ Len(generations) \in Nat
      BY <1>2, <3>1
    <3> QED BY <3>1, <3>2
  <2>2. CASE manager # "generations"
    BY <1>2, <2>2, Installs DEF UserUpgrades
  <2> QED BY <2>1, <2>2
<1>4. TypeOK'
  BY <1>1, <1>3 DEF IInv, TypeOK, Transactions
<1>5. CommandTyped' /\ Installing' /\ Validating' /\ Applying'
  BY <1>1 DEF IInv, CommandTyped, Installing, Validating, Applying, Idle, Transactions
<1> QED BY <1>1, <1>4, <1>5
        DEF IInv, NoneFromTheFuture, JudgedAfterReboot, HalfRestoredIsMarked, Transactions

(* After a boot the transactions of this boot may be judged, and every one      *)
(* that was judged stays in the past.                                          *)
LEMMA BootStep == IInv /\ Boot => IInv'
<1> SUFFICES ASSUME IInv, Boot PROVE IInv'
  OBVIOUS
<1>1. boot \in Nat /\ boot' = boot + 1 /\ UNCHANGED <<journal, manager, files, marker, undone, blind, faults>>
  BY DEF Boot, disk, files, IInv, TypeOK
<1>2. ASSUME NEW t \in Transactions PROVE journal[t].boot \in Nat
  <2>1. journal[t] \in Transaction
    BY DEF IInv, TypeOK, Transactions
  <2> QED BY <2>1 DEF Transaction
<1>3. (NoneFromTheFuture /\ JudgedAfterReboot)'
  BY <1>1, <1>2 DEF IInv, NoneFromTheFuture, JudgedAfterReboot, Transactions
<1>4. TypeOK'
  <2>1. starts' \in 0..Off
    BY BudgetsAssumption DEF Boot, Off
  <2> QED BY <1>1, <2>1 DEF Boot, Exit, files, IInv, TypeOK, Transactions
<1>5. (CommandTyped /\ Installing /\ Validating /\ Applying)'
  BY DEF Boot, Exit, Idle, CommandTyped, Commands, Installing, Validating, Applying
<1> QED BY <1>1, <1>3, <1>4, <1>5 DEF IInv, HalfRestoredIsMarked, Transactions

(* A command that goes to its next place is of the same transaction.           *)
LEMMA GotoStep ==
  ASSUME IInv, command.at # "idle", NEW p \in InstallPlace \cup RollbackPlace, Goto(p),
         UNCHANGED <<journal, boot, blind>>
  PROVE  /\ command' \in Commands /\ command'.at = p
         /\ command'.tx = command.tx /\ command'.why = command.why
         /\ command.tx \in Transactions /\ command.why # "none"
         /\ journal[command.tx] \in Transaction
         /\ Transactions' = Transactions
         /\ CommandTyped' /\ NoneFromTheFuture' /\ JudgedAfterReboot'
<1>1. command # Idle
  BY DEF Idle
<1>2. command \in Commands /\ command.tx \in Transactions /\ command.why # "none"
  BY <1>1 DEF IInv, CommandTyped
<1>3. /\ command' \in Commands /\ command'.at = p
      /\ command'.tx = command.tx /\ command'.why = command.why
  BY <1>2 DEF Goto, Commands
<1>4. Transactions' = Transactions
  BY DEF Transactions
<1>5. NoneFromTheFuture' /\ JudgedAfterReboot'
  BY <1>4 DEF IInv, NoneFromTheFuture, JudgedAfterReboot
<1> QED BY <1>1, <1>2, <1>3, <1>4, <1>5, CommandHasRecord DEF CommandTyped

(* Writing the module files of a release, and the marker.                      *)
LEMMA InstallStep ==
  ASSUME IInv, InstallStarts \/ Installed \/ OpenMarker \/ WriteMarker
  PROVE  IInv'
<1> USE BudgetsAssumption, DriversAssumption DEF InstallPlace, RollbackPlace
<1>1. CASE InstallStarts
  <2>1. command.at = "prepared" /\ Goto("installing") /\ UNCHANGED <<journal, boot, blind>>
    BY <1>1 DEF InstallStarts, At
  <2>2. /\ command'.at = "installing" /\ command'.tx = command.tx /\ command'.why = command.why
        /\ command.tx \in Transactions /\ Transactions' = Transactions
        /\ CommandTyped' /\ NoneFromTheFuture' /\ JudgedAfterReboot'
    BY <2>1, GotoStep
  <2>3. TypeOK' /\ HalfRestoredIsMarked'
    BY <1>1, <2>2 DEF InstallStarts, IInv, TypeOK, Content, HalfRestoredIsMarked
  <2>4. Installing'
    BY <1>1, <2>1, <2>2 DEF InstallStarts, IInv, Installing
  <2>5. Validating' /\ Applying'
    BY <2>1, <2>2 DEF IInv, Validating, Applying
  <2> QED BY <2>2, <2>3, <2>4, <2>5 DEF IInv
<1>2. CASE Installed
  <2>1. command.at = "installing" /\ Goto("installed") /\ UNCHANGED <<journal, boot, blind>>
    BY <1>2 DEF Installed, At
  <2>2. /\ command'.at = "installed" /\ command'.tx = command.tx /\ command'.why = command.why
        /\ command.tx \in Transactions /\ Transactions' = Transactions
        /\ journal[command.tx] \in Transaction
        /\ CommandTyped' /\ NoneFromTheFuture' /\ JudgedAfterReboot'
    BY <2>1, GotoStep
  <2>3. modules' \in Content
    BY <1>2 DEF Installed, Content
  <2>4. TypeOK' /\ HalfRestoredIsMarked'
    BY <1>2, <2>2, <2>3 DEF Installed, IInv, TypeOK, Content, HalfRestoredIsMarked
  <2>5. Installing'
    BY <1>2, <2>1, <2>2 DEF Installed, IInv, Installing
  <2>6. Validating' /\ Applying'
    BY <2>1, <2>2 DEF IInv, Validating, Applying
  <2> QED BY <2>2, <2>4, <2>5, <2>6 DEF IInv
<1>3. CASE OpenMarker
  <2>1. command.at = "arming" /\ Goto("marking") /\ UNCHANGED <<journal, boot, blind>>
    BY <1>3 DEF OpenMarker, At
  <2>2. /\ command'.at = "marking" /\ command'.tx = command.tx /\ command'.why = command.why
        /\ command.tx \in Transactions /\ Transactions' = Transactions
        /\ CommandTyped' /\ NoneFromTheFuture' /\ JudgedAfterReboot'
    BY <2>1, GotoStep
  <2>3. command.why = "install" /\ undone = 0
    BY <2>1, <2>2, CommandHasRecord DEF IInv, Installing, Validating, Applying, CommandTyped, Commands, Idle
  <2>4. marker' = Torn /\ UNCHANGED <<manager, modules, generations, current, starts, faults, undone>>
    BY <1>3 DEF OpenMarker, files
  <2>5. TypeOK' /\ HalfRestoredIsMarked'
    BY <2>1, <2>2, <2>3, <2>4 DEF IInv, TypeOK, HalfRestoredIsMarked
  <2>6. Torn \notin Transactions
    BY DEF IInv, TypeOK, Torn, Transactions
  <2>7. Installing' /\ Validating' /\ Applying'
    BY <2>1, <2>2, <2>3, <2>4, <2>6 DEF IInv, Installing, Validating, Applying
  <2> QED BY <2>2, <2>5, <2>7 DEF IInv
<1>4. CASE WriteMarker
  <2>1. command.at = "marking" /\ command' = Idle
    BY <1>4 DEF WriteMarker, At, Exit
  <2>2. command \in Commands /\ command.tx \in Transactions /\ command.why = "install" /\ undone = 0
    BY <2>1 DEF IInv, CommandTyped, Commands, Idle, Installing, Validating, Applying
  <2>3. marker' = command.tx /\ UNCHANGED <<manager, modules, generations, current, journal, boot, starts, faults, undone, blind>>
    BY <1>4 DEF WriteMarker, files
  <2>4. Transactions' = Transactions
    BY <2>3 DEF Transactions
  <2>5. TypeOK' /\ CommandTyped'
    BY <2>1, <2>2, <2>3, <2>4 DEF IInv, TypeOK, CommandTyped, Commands, Idle
  <2>6. Installing' /\ Validating' /\ Applying'
    BY <2>1 DEF Installing, Validating, Applying, Idle
  <2> QED BY <2>2, <2>3, <2>4, <2>5, <2>6
          DEF IInv, NoneFromTheFuture, JudgedAfterReboot, HalfRestoredIsMarked
<1> QED BY <1>1, <1>2, <1>3, <1>4

(* The rollback: what is back stays back until it is recorded, and the marker   *)
(* goes when all of it is.                                                     *)
LEMMA RollbackStep ==
  ASSUME IInv, RestorePackages \/ RemoveModules \/ CopyModules \/ RemoveMarker
  PROVE  IInv'
<1> USE BudgetsAssumption, DriversAssumption DEF InstallPlace, RollbackPlace
<1>1. CASE RestorePackages
  <2>1. command.at = "restoring" /\ Goto("removing") /\ UNCHANGED <<journal, boot, blind>>
    BY <1>1 DEF RestorePackages, At
  <2>2. /\ command'.at = "removing" /\ command'.tx = command.tx /\ command'.why = command.why
        /\ command.tx \in Transactions /\ Transactions' = Transactions
        /\ journal[command.tx] \in Transaction
        /\ CommandTyped' /\ NoneFromTheFuture' /\ JudgedAfterReboot'
    BY <2>1, GotoStep
  <2>3. Automatic(command.tx) /\ Restore(command.tx) /\ UNCHANGED <<manager, modules, marker, starts, faults, undone>>
    BY <1>1 DEF RestorePackages
  <2>4. /\ generations' \in Seq(Content) /\ current' \in 1..Len(generations')
        /\ PackagesBack(command.tx)'
    BY <2>1, <2>2, <2>3, Restores
  <2>5. TypeOK' /\ HalfRestoredIsMarked'
    BY <2>1, <2>2, <2>3, <2>4 DEF IInv, TypeOK, HalfRestoredIsMarked
  <2>6. Installing' /\ Applying'
    BY <2>1, <2>2 DEF IInv, Installing, Applying
  <2>7. Validating'
    BY <2>1, <2>2, <2>3, <2>4 DEF IInv, Validating, PackagesBack
  <2> QED BY <2>2, <2>5, <2>6, <2>7 DEF IInv
<1>2. CASE RemoveModules
  <2>1. command.at = "removing" /\ Goto("copying") /\ UNCHANGED <<journal, boot, blind>>
    BY <1>2 DEF RemoveModules, At
  <2>2. /\ command'.at = "copying" /\ command'.tx = command.tx /\ command'.why = command.why
        /\ command.tx \in Transactions /\ Transactions' = Transactions
        /\ CommandTyped' /\ NoneFromTheFuture' /\ JudgedAfterReboot'
    BY <2>1, GotoStep
  <2>3. /\ modules' = Broken
        /\ undone' = IF command.why = "validate" THEN command.tx ELSE 0
        /\ UNCHANGED <<manager, generations, current, marker, starts, faults>>
    BY <1>2 DEF RemoveModules
  <2>4. TypeOK'
    BY <2>1, <2>2, <2>3 DEF IInv, TypeOK, Content
  <2>5. HalfRestoredIsMarked'
    BY <2>2, <2>3 DEF IInv, Validating, HalfRestoredIsMarked
  <2>6. Installing' /\ Applying'
    BY <2>1, <2>2 DEF IInv, Installing, Applying
  <2>7. Validating'
    BY <2>1, <2>2, <2>3 DEF IInv, Validating, PackagesBack, packages
  <2> QED BY <2>2, <2>4, <2>5, <2>6, <2>7 DEF IInv
<1>3. CASE CopyModules
  <2>1. command.at = "copying" /\ Goto("depmod") /\ UNCHANGED <<journal, boot, blind>>
    BY <1>3 DEF CopyModules, At
  <2>2. /\ command'.at = "depmod" /\ command'.tx = command.tx /\ command'.why = command.why
        /\ command.tx \in Transactions /\ Transactions' = Transactions
        /\ journal[command.tx] \in Transaction
        /\ CommandTyped' /\ NoneFromTheFuture' /\ JudgedAfterReboot'
    BY <2>1, GotoStep
  <2>3. /\ modules' = journal[command.tx].modules /\ undone' = 0
        /\ UNCHANGED <<manager, generations, current, marker, starts, faults>>
    BY <1>3 DEF CopyModules
  <2>4. journal[command.tx].modules \in Content
    BY <2>2 DEF Transaction
  <2>5. TypeOK' /\ HalfRestoredIsMarked'
    BY <2>1, <2>2, <2>3, <2>4 DEF IInv, TypeOK, HalfRestoredIsMarked
  <2>6. Installing' /\ Applying'
    BY <2>1, <2>2 DEF IInv, Installing, Applying
  <2>7. Validating'
    BY <2>1, <2>2, <2>3 DEF IInv, Validating, PackagesBack, packages
  <2> QED BY <2>2, <2>5, <2>6, <2>7 DEF IInv
<1>4. CASE RemoveMarker
  <2>1. command.at = "settling" /\ command' = Idle
    BY <1>4 DEF RemoveMarker, At, Exit
  <2>2. marker' = NoMarker /\ UNCHANGED <<manager, modules, generations, current, journal, boot, faults, undone, blind>> /\ starts' = Off
    BY <1>4 DEF RemoveMarker, files
  <2>3. Transactions' = Transactions
    BY <2>2 DEF Transactions
  <2>4. command.why = "validate"
    BY <2>1 DEF IInv, CommandTyped, Commands, Idle, Installing, Applying
  <2>5. HalfRestoredIsMarked'
    BY <2>1, <2>2, <2>4 DEF IInv, Validating, HalfRestoredIsMarked
  <2>6. TypeOK' /\ CommandTyped'
    BY <2>1, <2>2, <2>3 DEF IInv, TypeOK, CommandTyped, Commands, Idle, Off
  <2>7. Installing' /\ Validating' /\ Applying'
    BY <2>1 DEF Installing, Validating, Applying, Idle
  <2> QED BY <2>2, <2>3, <2>5, <2>6, <2>7
          DEF IInv, NoneFromTheFuture, JudgedAfterReboot
<1> QED BY <1>1, <1>2, <1>3, <1>4

-----------------------------------------------------------------------------
(* The steps that write the journal.                                           *)

(* A new transaction comes after those the journal has.                        *)
LEMMA BeginStep ==
  ASSUME IInv, Begin
  PROVE  IInv'
<1>0. PICK id \in {boot, NoBoot} :
        /\ faults' = faults \/ faults' = faults + 1
        /\ journal' = Append(journal, [state |-> "prepared", modules |-> modules,
                                       packages |-> Recorded, boot |-> id])
  BY DEF Begin, Fault
<1> DEFINE record == [state |-> "prepared", modules |-> modules, packages |-> Recorded, boot |-> id]
<1>1. record \in Transaction
  <2>1. Recorded \in Content
    BY DEF IInv, TypeOK, Recorded, packages, Content
  <2>2. id \in Nat /\ modules \in Content
    BY <1>0 DEF IInv, TypeOK, NoBoot
  <2> QED BY <2>1, <2>2 DEF Transaction, State
<1>2. journal' = Append(journal, record) /\ Len(journal) < MaxInstalls
  BY <1>0 DEF Begin
<1>3. /\ journal' \in Seq(Transaction)
      /\ Len(journal') = Len(journal) + 1
      /\ \A t \in Transactions : journal'[t] = journal[t]
      /\ journal'[Len(journal')] = record
  <2> HIDE DEF record
  <2> QED BY <1>1, <1>2 DEF IInv, TypeOK, Transactions
<1>4. Len(journal) \in Nat /\ Len(journal') \in Nat /\ boot \in Nat /\ MaxInstalls \in Nat
  BY <1>3, BudgetsAssumption DEF IInv, TypeOK
<1>5. Transactions' = Transactions \cup {Len(journal')} /\ Transactions \subseteq Transactions'
  BY <1>3, <1>4 DEF Transactions
<1>6. command = Idle /\ command' = [at |-> "prepared", tx |-> Len(journal'), why |-> "install"]
  BY <1>3 DEF Begin
<1>7. UNCHANGED <<manager, modules, generations, current, marker, boot, starts, undone, blind>>
  BY DEF Begin, files
<1>8. TypeOK'
  BY <1>0, <1>2, <1>3, <1>4, <1>5, <1>6, <1>7 DEF IInv, TypeOK
<1>9. CommandTyped' /\ Validating' /\ Applying'
  BY <1>4, <1>5, <1>6 DEF CommandTyped, Commands, InstallPlace, Validating, Applying
<1>10. Installing'
  <2>1. marker \in Transactions' => marker < Len(journal')
    <3>1. marker \in Transactions \cup {NoMarker, Torn}
      BY DEF IInv, TypeOK
    <3>2. Torn \notin Transactions' /\ NoMarker \notin Transactions'
      BY <1>2, <1>3, <1>4 DEF Transactions, Torn, NoMarker
    <3> QED BY <1>3, <1>4, <3>1, <3>2 DEF Transactions
  <2>2. journal'[Len(journal')].state = "prepared"
    BY <1>3
  <2> QED BY <1>6, <1>7, <2>1, <2>2 DEF Installing, InstallPlace
<1>11. record.state \notin Judged /\ record.boot <= boot
  BY <1>0, <1>4 DEF Judged, State, NoBoot
<1>12. NoneFromTheFuture' /\ JudgedAfterReboot'
  <2> HIDE DEF record
  <2> QED BY <1>3, <1>4, <1>5, <1>7, <1>11 DEF IInv, NoneFromTheFuture, JudgedAfterReboot
<1>13. HalfRestoredIsMarked'
  BY <1>3, <1>7 DEF IInv, TypeOK, HalfRestoredIsMarked
<1> QED BY <1>8, <1>9, <1>10, <1>12, <1>13 DEF IInv

(* The state of the marked transaction, or of any while no rollback is          *)
(* unfinished, may be written: a judged one if the boot is a later one.         *)
LEMMA JournalStep ==
  ASSUME IInv, NEW t \in Transactions, NEW s \in State, Mark(t, s),
         s \in Judged => journal[t].boot < boot \/ t \in blind',
         undone = 0 \/ marker = t,
         blind \subseteq blind', UNCHANGED <<boot, marker, undone>>
  PROVE  /\ journal' \in Seq(Transaction) /\ Len(journal') = Len(journal)
         /\ Transactions' = Transactions
         /\ NoneFromTheFuture' /\ JudgedAfterReboot' /\ HalfRestoredIsMarked'
<1>1. journal \in Seq(Transaction) /\ undone \in Transactions \cup {0}
  BY DEF IInv, TypeOK
<1>2. /\ journal' \in Seq(Transaction) /\ Len(journal') = Len(journal)
      /\ journal'[t].state = s
      /\ \A u \in Transactions : u # t => journal'[u] = journal[u]
      /\ \A u \in Transactions : journal'[u].boot = journal[u].boot
  BY <1>1, Marking
<1>3. Transactions' = Transactions
  BY <1>2 DEF Transactions
<1>4. NoneFromTheFuture'
  BY <1>2, <1>3 DEF IInv, NoneFromTheFuture
<1>5. JudgedAfterReboot'
  BY <1>2, <1>3 DEF IInv, JudgedAfterReboot
<1>6. HalfRestoredIsMarked'
  BY <1>1, <1>2 DEF IInv, HalfRestoredIsMarked
<1> QED BY <1>2, <1>3, <1>4, <1>5, <1>6

(* The transaction is armed: before its marker, and after its modules.         *)
LEMMA ArmStep == IInv /\ ArmRecord => IInv'
<1> SUFFICES ASSUME IInv, ArmRecord PROVE IInv'
  OBVIOUS
<1>1. At("installed") /\ Mark(command.tx, "pending-reboot") /\ Goto("arming")
  BY DEF ArmRecord
<1>2. UNCHANGED <<manager, modules, generations, current, marker, boot, starts, faults, undone, blind>>
  BY DEF ArmRecord, files
<1>3. command \in Commands /\ command.why = "install" /\ command.tx \in Transactions
  BY <1>1 DEF At, IInv, CommandTyped, Idle, Commands, Validating, Applying, RollbackPlace
<1>4. undone = 0
  BY <1>1, <1>3 DEF IInv, Installing, At
<1>5. /\ journal' \in Seq(Transaction) /\ Len(journal') = Len(journal)
      /\ Transactions' = Transactions
      /\ NoneFromTheFuture' /\ JudgedAfterReboot' /\ HalfRestoredIsMarked'
  BY <1>1, <1>2, <1>3, <1>4, JournalStep DEF State, Judged
<1>6. command' = [command EXCEPT !.at = "arming"]
  BY <1>1 DEF Goto
<1>7. TypeOK' /\ CommandTyped'
  BY <1>2, <1>3, <1>5, <1>6 DEF IInv, TypeOK, CommandTyped, Commands, InstallPlace
<1>8. Installing' /\ Validating' /\ Applying'
  <2>1. command.at = "installed"
    BY <1>1 DEF At
  <2> QED BY <1>2, <1>3, <1>5, <1>6, <2>1 DEF IInv, Installing, Validating, Applying, InstallPlace, Commands
<1> QED BY <1>5, <1>7, <1>8 DEF IInv

(* A verdict is of an earlier boot, or it counts as blind.                     *)
LEMMA JudgeableStep ==
  ASSUME IInv, NEW t \in Transactions, Judgeable(t)
  PROVE  /\ journal[t].boot < boot \/ t \in blind'
         /\ blind \subseteq blind' /\ blind' \subseteq Transactions
         /\ faults' \in Nat
<1>1. journal[t] \in Transaction /\ journal[t].boot <= boot /\ boot \in Nat
  BY DEF IInv, TypeOK, NoneFromTheFuture, Transactions
<1>2. journal[t].boot \in Nat
  BY <1>1 DEF Transaction
<1> QED BY <1>1, <1>2 DEF Judgeable, Fault, IInv, TypeOK

(* A verdict, or none before the reboot.                                       *)
LEMMA ValidateStep ==
  ASSUME IInv, NEW auto \in BOOLEAN, Validate(auto), starts' \in 0..Off
  PROVE  IInv'
<1>1. command = Idle /\ UNCHANGED <<manager, modules, generations, current, marker, boot, undone>>
  BY DEF Validate, files
<1>2. CASE marker \notin Transactions
  <2>1. UNCHANGED <<journal, command, faults, blind>>
    BY <1>2 DEF Validate
  <2>2. TypeOK'
    BY <1>1, <2>1 DEF IInv, TypeOK, Transactions
  <2>3. CommandTyped' /\ Installing' /\ Validating' /\ Applying'
    BY <1>1, <2>1 DEF IInv, CommandTyped, Installing, Validating, Applying, Idle, Transactions
  <2> QED BY <1>1, <2>1, <2>2, <2>3
          DEF IInv, NoneFromTheFuture, JudgedAfterReboot, HalfRestoredIsMarked, Transactions
<1>3. CASE marker \in Transactions
  <2>1. Awaits(marker) \/ Passes(marker) \/ Fails(marker, auto)
    BY <1>3 DEF Validate
  <2>2. ASSUME NEW s \in State, Mark(marker, s), blind \subseteq blind',
               s \in Judged => journal[marker].boot < boot \/ marker \in blind'
        PROVE  /\ journal' \in Seq(Transaction) /\ Len(journal') = Len(journal)
               /\ Transactions' = Transactions
               /\ NoneFromTheFuture' /\ JudgedAfterReboot' /\ HalfRestoredIsMarked'
    BY <1>1, <1>3, <2>2, JournalStep DEF IInv, HalfRestoredIsMarked
  <2>3. CASE Awaits(marker)
    <3>1. Mark(marker, "pending-reboot") /\ UNCHANGED <<command, faults, blind>>
      BY <2>3 DEF Awaits
    <3>2. /\ journal' \in Seq(Transaction) /\ Len(journal') = Len(journal)
          /\ Transactions' = Transactions
          /\ NoneFromTheFuture' /\ JudgedAfterReboot' /\ HalfRestoredIsMarked'
      BY <2>2, <3>1 DEF State, Judged
    <3>3. TypeOK'
      BY <1>1, <3>1, <3>2 DEF IInv, TypeOK
    <3> QED BY <1>1, <3>1, <3>2, <3>3
            DEF IInv, CommandTyped, Installing, Validating, Applying, Idle
  <2>4. CASE Passes(marker)
    <3>1. /\ Mark(marker, "validated") /\ Judgeable(marker)
          /\ command' = [at |-> "settling", tx |-> marker, why |-> "validate"]
      BY <2>4 DEF Passes
    <3>2. /\ journal[marker].boot < boot \/ marker \in blind'
          /\ blind \subseteq blind' /\ blind' \subseteq Transactions /\ faults' \in Nat
      BY <1>3, <3>1, JudgeableStep
    <3>3. /\ journal' \in Seq(Transaction) /\ Len(journal') = Len(journal)
          /\ Transactions' = Transactions
          /\ NoneFromTheFuture' /\ JudgedAfterReboot' /\ HalfRestoredIsMarked'
      BY <2>2, <3>1, <3>2 DEF State
    <3>4. journal'[marker].state = "validated" /\ journal'[marker].boot = journal[marker].boot
      BY <1>3, <3>1, Marking DEF IInv, TypeOK, State
    <3>5. TypeOK' /\ CommandTyped'
      BY <1>1, <1>3, <3>1, <3>2, <3>3 DEF IInv, TypeOK, CommandTyped, Commands, RollbackPlace, Transactions
    <3> QED BY <1>1, <3>1, <3>2, <3>3, <3>4, <3>5
            DEF IInv, Installing, Validating, Applying, RollbackPlace
  <2>5. CASE Fails(marker, auto)
    <3>1. /\ Mark(marker, "failed") /\ Judgeable(marker)
          /\ \/ command' = [at |-> "restoring", tx |-> marker, why |-> "validate"]
             \/ command' = command
      BY <2>5 DEF Fails
    <3>2. /\ journal[marker].boot < boot \/ marker \in blind'
          /\ blind \subseteq blind' /\ blind' \subseteq Transactions /\ faults' \in Nat
      BY <1>3, <3>1, JudgeableStep
    <3>3. /\ journal' \in Seq(Transaction) /\ Len(journal') = Len(journal)
          /\ Transactions' = Transactions
          /\ NoneFromTheFuture' /\ JudgedAfterReboot' /\ HalfRestoredIsMarked'
      BY <2>2, <3>1, <3>2 DEF State
    <3>4. journal'[marker].boot = journal[marker].boot
      BY <1>3, <3>1, Marking DEF IInv, TypeOK, State
    <3>5. TypeOK' /\ CommandTyped'
      BY <1>1, <1>3, <3>1, <3>2, <3>3
         DEF IInv, TypeOK, CommandTyped, Commands, RollbackPlace, Transactions, Idle
    <3> QED BY <1>1, <3>1, <3>2, <3>3, <3>4, <3>5
            DEF IInv, Installing, Validating, Applying, RollbackPlace, Idle
  <2> QED BY <2>1, <2>3, <2>4, <2>5
<1> QED BY <1>2, <1>3

(* A rollback that has restored everything says so.                            *)
LEMMA RecordStep == IInv /\ RecordRollback => IInv'
<1> SUFFICES ASSUME IInv, RecordRollback PROVE IInv'
  OBVIOUS
<1>1. /\ command.at = "depmod" /\ command.why = "validate"
      /\ Mark(command.tx, "rolled-back")
      /\ command' = [command EXCEPT !.at = "settling"]
      /\ UNCHANGED <<manager, modules, generations, current, marker, boot, starts, faults, undone, blind>>
  BY DEF RecordRollback, At, Goto, files
<1>2. command \in Commands /\ command.tx \in Transactions
  BY <1>1 DEF IInv, CommandTyped, Idle
<1>3. /\ marker = command.tx
      /\ journal[command.tx].boot < boot \/ command.tx \in blind
      /\ Restored(command.tx) /\ undone = 0
  BY <1>1 DEF IInv, Validating, PackagesBack, Restored
<1>4. /\ journal' \in Seq(Transaction) /\ Len(journal') = Len(journal)
      /\ Transactions' = Transactions
      /\ NoneFromTheFuture' /\ JudgedAfterReboot' /\ HalfRestoredIsMarked'
  BY <1>1, <1>2, <1>3, JournalStep DEF State
<1>5. /\ journal'[command.tx].state = "rolled-back"
      /\ journal'[command.tx].boot = journal[command.tx].boot
      /\ journal'[command.tx].modules = journal[command.tx].modules
      /\ journal'[command.tx].packages = journal[command.tx].packages
  BY <1>1, <1>2, Marking DEF IInv, TypeOK, State
<1>6. command'.at = "settling" /\ command'.tx = command.tx /\ command'.why = "validate" /\ command' \in Commands
  BY <1>1, <1>2 DEF Commands, RollbackPlace
<1>7. TypeOK' /\ CommandTyped'
  BY <1>1, <1>2, <1>4, <1>6 DEF IInv, TypeOK, CommandTyped
<1>8. Restored(command.tx)'
  BY <1>1, <1>3, <1>5, <1>6 DEF Restored, packages
<1>9. Installing' /\ Validating' /\ Applying'
  BY <1>1, <1>3, <1>5, <1>6, <1>8 DEF Installing, Validating, Applying, RollbackPlace
<1> QED BY <1>4, <1>7, <1>9 DEF IInv

(* A rollback that fails keeps its marker.                                     *)
LEMMA FailureStep == IInv /\ RollbackFails => IInv'
<1> SUFFICES ASSUME IInv, RollbackFails PROVE IInv'
  OBVIOUS
<1>1. /\ command.at \in {"restoring", "removing", "copying", "depmod"}
      /\ command' = Idle
      /\ UNCHANGED <<manager, modules, marker, boot, starts, undone, blind>>
      /\ faults' = faults \/ faults' = faults + 1
  BY DEF RollbackFails, MarkerRetained, Exit, Fault
<1>2. command.tx \in Transactions /\ command.why \in {"validate", "apply"}
  BY <1>1 DEF IInv, CommandTyped, Commands, Idle, Installing, InstallPlace
<1>3. /\ journal' \in Seq(Transaction) /\ Len(journal') = Len(journal)
      /\ Transactions' = Transactions
      /\ NoneFromTheFuture' /\ JudgedAfterReboot' /\ HalfRestoredIsMarked'
  <2>1. CASE command.why = "validate"
    <3>1. Mark(command.tx, "rollback-failed")
      BY <2>1 DEF RollbackFails
    <3>2. marker = command.tx /\ (journal[command.tx].boot < boot \/ command.tx \in blind)
      BY <2>1 DEF IInv, Validating
    <3> QED BY <1>1, <1>2, <3>1, <3>2, JournalStep DEF State
  <2>2. CASE command.why = "apply"
    <3>1. UNCHANGED journal
      BY <2>2 DEF RollbackFails
    <3> QED BY <1>1, <3>1
            DEF IInv, TypeOK, NoneFromTheFuture, JudgedAfterReboot, HalfRestoredIsMarked, Transactions
  <2> QED BY <1>2, <2>1, <2>2
<1>4. generations' \in Seq(Content) /\ current' \in 1..Len(generations')
  <2>1. generations \in Seq(Content) /\ current \in 1..Len(generations) /\ Broken \in Content
    BY DEF IInv, TypeOK, Content
  <2>2. CASE UNCHANGED <<generations, current>>
    BY <2>1, <2>2
  <2>3. CASE Install(Broken)
    BY <2>1, <2>3, Installs
  <2>4. CASE Automatic(command.tx) /\ Restore(command.tx)
    BY <1>2, <2>4, Restores
  <2> QED BY <2>2, <2>3, <2>4 DEF RollbackFails, HalfRestored
<1>5. TypeOK' /\ CommandTyped'
  BY <1>1, <1>3, <1>4 DEF IInv, TypeOK, CommandTyped, Commands, Idle
<1>6. Installing' /\ Validating' /\ Applying'
  BY <1>1 DEF Installing, Validating, Applying, Idle
<1> QED BY <1>3, <1>6, <1>5 DEF IInv

-----------------------------------------------------------------------------
(* The theorems.                                                               *)

(* Every step keeps the invariant.                                             *)
LEMMA StepIInv == IInv /\ [Next]_vars => IInv'
<1> SUFFICES ASSUME IInv, [Next]_vars PROVE IInv'
  OBVIOUS
<1>1. CASE UNCHANGED vars
  BY <1>1 DEF vars, disk, files, packages, IInv, TypeOK, CommandTyped, Installing, Validating, Applying, PackagesBack,
              Restored, NoneFromTheFuture, JudgedAfterReboot, HalfRestoredIsMarked, Transactions
<1>2. CASE Begin
  BY <1>2, BeginStep
<1>13. ASSUME NEW d \in Driver, UserUpgrades(d) PROVE IInv'
  BY <1>13, UpgradeStep
<1>3. CASE Guard
  <2>1. starts \in 0..Off /\ Retries \in Nat
    BY BudgetsAssumption DEF IInv, TypeOK
  <2>2. CASE \E count \in {1, starts + 1} : count <= Retries /\ Started(count)
    <3>1. PICK count \in {1, starts + 1} : count <= Retries /\ Started(count)
      BY <2>2
    <3>2. starts' \in 0..Off
      BY <2>1, <3>1 DEF Started, Off
    <3> QED BY <3>1, <3>2, ValidateStep DEF Started
  <2>3. CASE starts' = Off /\ UNCHANGED <<manager, disk, boot, command, faults, undone, blind>>
    <3>1. starts' \in 0..Off
      BY <2>1, <2>3 DEF Off
    <3> QED BY <2>3, <3>1
            DEF disk, files, packages, IInv, TypeOK, CommandTyped, Installing, Validating, Applying, PackagesBack,
                Restored, NoneFromTheFuture, JudgedAfterReboot, HalfRestoredIsMarked, Transactions
  <2> QED BY <1>3, <2>2, <2>3 DEF Guard
<1>4. CASE ByHand
  <2>1. PICK auto \in BOOLEAN : Validate(auto) /\ starts' = starts
    BY <1>4 DEF ByHand
  <2> QED BY <2>1, ValidateStep DEF IInv, TypeOK
<1>5. ASSUME NEW t \in Transactions, Apply(t) PROVE IInv'
  BY <1>5, ApplyStep
<1>6. CASE Boot
  BY <1>6, BootStep
<1>7. CASE Kill \/ InstallFails \/ Applied
  BY <1>7, ExitStep
<1>8. CASE InstallStarts \/ Installed \/ OpenMarker \/ WriteMarker
  BY <1>8, InstallStep
<1>9. CASE RestorePackages \/ RemoveModules \/ CopyModules \/ RemoveMarker
  BY <1>9, RollbackStep
<1>10. CASE ArmRecord
  BY <1>10, ArmStep
<1>11. CASE RecordRollback
  BY <1>11, RecordStep
<1>12. CASE RollbackFails
  BY <1>12, FailureStep
<1> QED BY <1>1, <1>2, <1>3, <1>4, <1>5, <1>6, <1>7, <1>8, <1>9, <1>10, <1>11, <1>12, <1>13 DEF Next, Progress

(* The invariant holds of the driver transaction.                              *)
LEMMA Invariant == Spec => []IInv
<1>1. Init => IInv
  BY InitIInv
<1>2. IInv /\ [Next]_vars => IInv'
  BY StepIInv
<1> QED BY <1>1, <1>2, PTL DEF Spec

(* Type correctness: what is on the disk after any kill or power loss is a     *)
(* journal, generations and a marker that the next command can make sense of   *)
(* (transaction.py), and systemd's limit per interval is kept (watchdog.py).   *)
THEOREM TypeCorrect == Spec => []TypeOK
<1>1. IInv => TypeOK
  BY DEF IInv
<1> QED BY <1>1, Invariant, PTL

(* A rollback that removed files and has not put the old ones back is asked    *)
(* for again after any kill or power loss, unless the running kernel has been  *)
(* found healthy since (transaction.validate_pending, rollback.apply_snapshot).*)
THEOREM RecoveryAskedFor == Spec => []HalfRestoredIsMarked
<1>1. IInv => HalfRestoredIsMarked
  BY DEF IInv
<1> QED BY <1>1, Invariant, PTL

(* A transaction that was judged with a boot id that could be read stays       *)
(* judged (transaction.validate_pending): it is of an earlier boot, and what an *)
(* installation arms has not been judged.                                      *)
THEOREM VerdictsStand == Spec => VerdictStands
<1> DEFINE Stays(t) == journal[t].state \in Judged => journal'[t].state \in Judged
<1>1. ASSUME IInv, [Next]_vars, NEW t \in Transactions, t \notin blind, journal[t].state \in Judged
      PROVE  journal'[t].state \in Judged
  <2>1. journal \in Seq(Transaction)
    BY <1>1 DEF IInv, TypeOK
  <2>2. ASSUME NEW u \in Transactions, NEW s \in State, Mark(u, s), u = t => s \in Judged
        PROVE  journal'[t].state \in Judged
    BY <1>1, <2>1, <2>2, Marking
  <2>3. CASE UNCHANGED journal
    BY <1>1, <2>3
  <2>4. CASE Begin
    BY <1>1, <2>1, <2>4 DEF Begin, Transactions
  <2>5. CASE ArmRecord
    <3>1. command.at = "installed" /\ Mark(command.tx, "pending-reboot")
      BY <2>5 DEF ArmRecord, At
    <3>2. command.why = "install" /\ command.tx \in Transactions
      BY <1>1, <3>1 DEF IInv, CommandTyped, Idle, Commands, Validating, Applying, RollbackPlace
    <3>3. journal[command.tx].state = "prepared"
      BY <1>1, <3>1, <3>2 DEF IInv, Installing
    <3>4. command.tx # t
      BY <1>1, <3>3 DEF Judged
    <3> QED BY <2>2, <3>1, <3>2, <3>4 DEF State
  <2>6. ASSUME NEW auto \in BOOLEAN, Validate(auto) PROVE journal'[t].state \in Judged
    <3>1. CASE marker \notin Transactions
      BY <1>1, <2>6, <3>1 DEF Validate
    <3>2. CASE marker \in Transactions /\ Awaits(marker)
      <4>1. marker # t
        <5>1. journal[t].boot < boot /\ journal[t] \in Transaction /\ boot \in Nat
          BY <1>1 DEF IInv, JudgedAfterReboot, TypeOK, Transactions
        <5>2. journal[t].boot # boot
          BY <5>1 DEF Transaction
        <5> QED BY <3>2, <5>2 DEF Awaits
      <4> QED BY <2>2, <3>2, <4>1 DEF Awaits, State
    <3>3. CASE marker \in Transactions /\ (Passes(marker) \/ Fails(marker, auto))
      BY <2>2, <3>3 DEF Passes, Fails, State, Judged
    <3> QED BY <2>6, <3>1, <3>2, <3>3 DEF Validate
  <2>7. CASE Guard \/ ByHand
    BY <2>3, <2>6, <2>7 DEF Guard, Started, ByHand, disk
  <2>8. CASE RecordRollback
    <3>1. command.tx \in Transactions
      BY <1>1, <2>8, CommandHasRecord DEF RecordRollback, At, Idle
    <3> QED BY <2>2, <2>8, <3>1 DEF RecordRollback, State, Judged
  <2>9. CASE RollbackFails
    <3>1. command.tx \in Transactions
      BY <1>1, <2>9, CommandHasRecord DEF RollbackFails, Idle
    <3> QED BY <2>2, <2>3, <2>9, <3>1 DEF RollbackFails, State, Judged
  <2>10. CASE UNCHANGED vars \/ Kill \/ InstallFails \/ Applied \/ Boot
    BY <2>3, <2>10 DEF vars, disk, Kill, InstallFails, Applied, Boot
  <2>11. CASE InstallStarts \/ Installed \/ OpenMarker \/ WriteMarker
    BY <2>3, <2>11 DEF InstallStarts, Installed, OpenMarker, WriteMarker
  <2>12. CASE RestorePackages \/ RemoveModules \/ CopyModules \/ RemoveMarker
    BY <2>3, <2>12 DEF RestorePackages, RemoveModules, CopyModules, RemoveMarker
  <2>13. CASE (\E d \in Driver : UserUpgrades(d)) \/ (\E u \in Transactions : Apply(u))
    BY <2>3, <2>13 DEF UserUpgrades, Apply, disk
  <2> QED BY <1>1, <2>4, <2>5, <2>7, <2>8, <2>9, <2>10, <2>11, <2>12, <2>13 DEF Next, Progress
<1>2. IInv /\ [Next]_vars => [\A t \in Transactions \ blind : Stays(t)]_vars
  BY <1>1
<1> QED BY <1>2, Invariant, PTL DEF Spec, VerdictStands

(* The marker goes with a verdict only: a healthy driver, or a rollback that    *)
(* put back the modules and, unless the manager is NixOS's, the packages that   *)
(* were recorded; or a newer transaction takes its place                       *)
(* (transaction.validate_pending, transaction.arm_transaction).                *)
THEOREM SettledWhenGone == Spec => MarkerGoesWhenSettled
<1> DEFINE Settled(t) ==
      \/ marker' = NoMarker /\ journal[t].state = "validated"
      \/ marker' = NoMarker /\ journal[t].state = "rolled-back" /\ Restored(t)
      \/ At("arming") /\ command.tx > t
<1>1. ASSUME IInv, [Next]_vars, NEW t \in Transactions, marker = t, marker' # t
      PROVE  Settled(t)
  <2>1. OpenMarker \/ WriteMarker \/ RemoveMarker
    BY <1>1 DEF Next, Progress, vars, disk, files, Begin, UserUpgrades, Guard, Started, ByHand, Validate, InstallFails, Kill,
                Boot, Apply, InstallStarts, Installed, ArmRecord, RestorePackages, RemoveModules, CopyModules,
                RecordRollback, RollbackFails, MarkerRetained, Applied
  <2>2. command \in Commands /\ command # Idle
    BY <1>1, <2>1 DEF OpenMarker, WriteMarker, RemoveMarker, At, Idle, IInv, CommandTyped
  <2>3. command.why \in {"install", "validate", "apply"}
    BY <1>1, <2>2 DEF IInv, CommandTyped, Commands
  <2>4. CASE OpenMarker
    BY <1>1, <2>3, <2>4
       DEF OpenMarker, At, IInv, Installing, Validating, Applying, RollbackPlace, Transactions
  <2>5. CASE WriteMarker
    <3>1. command.at = "marking" /\ command.why = "install"
      BY <1>1, <2>3, <2>5 DEF WriteMarker, At, IInv, Validating, Applying, RollbackPlace
    <3>2. marker = Torn
      BY <1>1, <3>1 DEF IInv, Installing
    <3>3. Torn \notin Transactions
      BY <1>1, BudgetsAssumption DEF IInv, TypeOK, Transactions, Torn
    <3> QED BY <1>1, <3>2, <3>3
  <2>6. CASE RemoveMarker
    BY <1>1, <2>3, <2>6
       DEF RemoveMarker, At, IInv, Installing, Validating, Applying, InstallPlace
  <2> QED BY <2>1, <2>4, <2>5, <2>6
<1>2. IInv /\ [Next]_vars => [\A t \in Transactions : marker = t /\ marker' # t => Settled(t)]_vars
  BY <1>1
<1> QED BY <1>2, Invariant, PTL DEF Spec, MarkerGoesWhenSettled

=============================================================================
