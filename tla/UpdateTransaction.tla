-------------------------- MODULE UpdateTransaction --------------------------
(***************************************************************************)
(* The self-update of one installation directory: the application          *)
(* processes that run from it, the update helper, and the files they       *)
(* share (the live executable or bundle, backups, staged payloads, the     *)
(* operation journal and its lock).                                        *)
(*                                                                         *)
(* A process has two threads that touch those files: the recovery that     *)
(* follows readiness, and one apply at a time.  A helper has the first     *)
(* only.  Every step is one durable change; a process may die between any  *)
(* two, which frees its lock and forgets everything but the files.         *)
(*                                                                         *)
(* Left out: downloading and verifying (the payload is staged or the apply *)
(* fails), the cached status, the events, and the portal notice.           *)
(***************************************************************************)
EXTENDS Integers, FiniteSets

CONSTANTS
    Proc,         \* process slots
    Hosts,        \* installations to consider: platform, build, supervision, ...
    MaxVersion,   \* bound: releases that are ever published
    MaxApplies, MaxCrashes, MaxFaults   \* bounds on a behaviour

Version == 1 .. MaxVersion
OpId == 1 .. MaxApplies
Platforms == {"posix", "windows", "bundle"}

\* fixture: the build that dispatches to RunUpdateHelper and acknowledges
\* without the lock (the update fixture does, cmd/server does not).
\* supervised: SupervisionSystemd.  headless: cmd/server serve, not the GUI.
\* manual: somebody presses "update now".  faulty: a restore may fail.
\* bad: releases that never get ready.
Host == [platform : Platforms, fixture : BOOLEAN, supervised : BOOLEAN,
         headless : BOOLEAN, manual : BOOLEAN, faulty : BOOLEAN, bad : SUBSET Version]

ASSUME UpdateAssumption ==
    /\ MaxVersion \in Nat \ {0}
    /\ MaxApplies \in Nat /\ MaxCrashes \in Nat /\ MaxFaults \in Nat
    /\ Hosts \subseteq Host /\ 0 \notin Proc

VARIABLES
    host,       \* the installation, chosen once
    published,  \* the latest release
    live,       \* content of the live path
    backup,     \* [OpId -> content of the operation's backup path, 0 if absent]
    staged,     \* [OpId -> content of the staged payload, 0 if absent]
    journal,    \* the operation record, NoOp if there is none
    late,       \* operations whose health deadline has passed
    lock,       \* the thread that holds the operation lock, or Free
    proc,       \* [Proc -> the process in the slot]
    left,       \* applies, crashes and faults to come
    good        \* history: releases that were healthy once

files == <<live, backup, staged>>
vars == <<host, published, live, backup, staged, journal, late, lock, proc, left, good>>

-----------------------------------------------------------------------------
(* Records, and the shorthands of a step                                   *)

NoOp == [id |-> 0, version |-> 0, phase |-> "none", prior |-> 0, failed |-> FALSE]
NoProc == [role |-> "none", image |-> 0, rec |-> "end", app |-> "idle",
           op |-> NoOp, mine |-> NoOp, drained |-> FALSE, parent |-> 0, child |-> 0]
Free == <<0, "none">>

Bundle == host.platform = "bundle"
Alive(p) == proc[p].role # "none"
Rec(p, pc) == proc' = [proc EXCEPT ![p].rec = pc]
App(p, pc) == proc' = [proc EXCEPT ![p].app = pc]

\* A new process.  Copies of the executable outside the live path are of
\* another installation directory and only helpers among them come back here.
Started(role, image, parent) ==
    [NoProc EXCEPT !.role = role, !.image = image, !.parent = parent,
                   !.rec = IF role = "helper" THEN "open" ELSE "start"]

\* Process p ends: its lock is free, and those who wait for it see it gone.
Without(p) ==
    [q \in Proc |->
        IF q = p THEN NoProc
        ELSE [proc[q] EXCEPT !.parent = IF @ = p THEN 0 ELSE @,
                             !.child = IF @ = p THEN 0 ELSE @]]
Unlocked(p) == IF lock[1] = p THEN Free ELSE lock
Exit(p) == proc' = Without(p) /\ lock' = Unlocked(p)

Fault == left.faults > 0 /\ left' = [left EXCEPT !.faults = @ - 1]

-----------------------------------------------------------------------------
(* Startup and recovery                                                    *)

Init ==
    /\ host \in Hosts
    /\ published = 1 /\ live = 1 /\ good = {1}
    /\ backup = [o \in OpId |-> 0] /\ staged = [o \in OpId |-> 0]
    /\ journal = NoOp /\ late = {} /\ lock = Free
    /\ proc = [p \in Proc |-> NoProc]
    /\ left = [applies |-> MaxApplies, crashes |-> MaxCrashes, faults |-> MaxFaults]

Publish ==
    /\ published < MaxVersion /\ published' = published + 1
    /\ UNCHANGED <<host, files, journal, late, lock, proc, left, good>>

\* The user or the service manager starts the installation: the port and the
\* instance lock admit one.
Launch(p) ==
    /\ ~Alive(p) /\ \A q \in Proc : proc[q].role \notin {"server", "stray"}
    /\ proc' = [proc EXCEPT ![p] = Started("server", live, 0)]
    /\ UNCHANGED <<host, published, files, journal, late, lock, left, good>>

\* The listener accepts: StartupApply runs recoverPending.
Ready(p) ==
    /\ proc[p].role \in {"server", "stray"} /\ proc[p].rec = "start"
    /\ proc[p].image \notin host.bad
    /\ Rec(p, IF proc[p].role = "stray" THEN "end"
              ELSE IF host.fixture THEN "note"
              ELSE IF journal = NoOp THEN "auto" ELSE "open")
    /\ UNCHANGED <<host, published, files, journal, late, lock, left, good>>

DieEarly(p) ==
    /\ proc[p].rec = "start" /\ proc[p].image \in host.bad
    /\ Exit(p)
    /\ UNCHANGED <<host, published, files, journal, late, left, good>>

\* OpenJournal and Load.  A server that finds the lock taken goes on without
\* recovery; a helper ends, as it does when the phase is not its own.
Open(p) ==
    LET server == proc[p].role = "server" IN
    /\ proc[p].rec = "open"
    /\ \/ /\ lock = Free /\ journal # NoOp
          /\ server \/ journal.phase = "activated"
          /\ lock' = <<p, "rec">>
          /\ proc' = [proc EXCEPT ![p].rec = IF server THEN "evaluate" ELSE "wait",
                                  ![p].op = journal]
       \/ /\ lock # Free \/ journal = NoOp \/ (~server /\ journal.phase # "activated")
          /\ IF server THEN Rec(p, "auto") /\ UNCHANGED lock ELSE Exit(p)
    /\ UNCHANGED <<host, published, files, journal, late, left, good>>

\* liveState: what the files tell of an operation.
Activated(op) ==
    IF Bundle THEN live = op.version
    ELSE live # (IF backup[op.id] # 0 THEN backup[op.id] ELSE op.prior)
Pristine(op) == ~Bundle /\ ~Activated(op)

\* Seeded fault: past the deadline nothing is done.
DecisionInTime(op, image) ==
    IF op.failed THEN "auto" ELSE
    CASE op.phase = "staged" -> IF Activated(op) THEN "restore" ELSE "cleanup"
      [] op.phase = "activated" ->
            IF op.id \in late THEN "auto"
            ELSE IF Activated(op) /\ image = op.version THEN "acknowledge"
            ELSE IF Activated(op) \/ ~Pristine(op) THEN "restore" ELSE "cleanup"
      [] op.phase = "confirmed" -> "cleanup"
      [] op.phase = "rolled-back" -> "clear"

\* EvaluateRecovery, its RecoveryManual being "auto": nothing is done.
Decision(op, image) ==
    IF op.failed THEN "auto" ELSE
    CASE op.phase = "staged" -> IF Activated(op) THEN "restore" ELSE "cleanup"
      [] op.phase = "activated" ->
            IF Activated(op) /\ image = op.version /\ op.id \notin late THEN "acknowledge"
            ELSE IF Activated(op) \/ ~Pristine(op) THEN "restore" ELSE "cleanup"
      [] op.phase = "confirmed" -> "cleanup"
      [] op.phase = "rolled-back" -> "clear"

\* The lock goes with the last step of the recovery.
RecDone(p, pc) ==
    IF pc = "auto" THEN lock' = Unlocked(p) ELSE UNCHANGED lock

Evaluate(p) ==
    LET pc == Decision(proc[p].op, proc[p].image) IN
    /\ proc[p].rec = "evaluate" /\ Rec(p, pc) /\ RecDone(p, pc)
    /\ UNCHANGED <<host, published, files, journal, late, left, good>>

\* Seeded fault: the acknowledgement is not saved.
AcknowledgeUnsaved(p) ==
    /\ proc[p].rec = "acknowledge" /\ Rec(p, "cleanup")
    /\ good' = good \cup {proc[p].op.version}
    /\ UNCHANGED <<host, published, files, journal, late, lock, left>>

Acknowledge(p) ==
    /\ proc[p].rec = "acknowledge"
    /\ journal' = [journal EXCEPT !.phase = "confirmed"]
    /\ good' = good \cup {proc[p].op.version}
    /\ Rec(p, "cleanup")
    /\ UNCHANGED <<host, published, files, late, lock, left>>

\* The fixture acknowledges without the lock: LoadOperation, then
\* AcknowledgeOperation, which reads the record again and saves it.
Note(p) ==
    /\ proc[p].rec = "note"
    /\ proc' = [proc EXCEPT
           ![p].op = journal,
           ![p].rec = IF journal.phase = "activated" /\ journal.version = proc[p].image
                      THEN "confirm" ELSE "end"]
    /\ UNCHANGED <<host, published, files, journal, late, lock, left, good>>

Confirm(p) ==
    /\ proc[p].rec = "confirm"
    /\ journal' = [proc[p].op EXCEPT !.phase = "confirmed"]
    /\ good' = good \cup {proc[p].op.version}
    /\ Rec(p, "end")
    /\ UNCHANGED <<host, published, files, late, lock, left>>

\* Installer.Cleanup: the artefacts, then the record.
Cleanup(p) ==
    LET o == proc[p].op.id IN
    /\ proc[p].rec = "cleanup" /\ Rec(p, "clear")
    /\ backup' = [backup EXCEPT ![o] = 0] /\ staged' = [staged EXCEPT ![o] = 0]
    /\ UNCHANGED <<host, published, live, journal, late, lock, left, good>>

\* Clear, at the end of Cleanup and for ConsumeSuppression.
Clear(p) ==
    /\ proc[p].rec = "clear" /\ journal' = NoOp
    /\ IF proc[p].role = "server"
       THEN Rec(p, "auto") /\ lock' = Unlocked(p) ELSE Exit(p)
    /\ UNCHANGED <<host, published, files, late, left, good>>

\* Rollback: rename the backup over the live path, or exchange the bundles.
\* Windows' helper does it without a record where the launch failed.
Restore(p) ==
    LET o == proc[p].op.id
        after == IF proc[p].rec = "undo" THEN "relaunch" ELSE "record"
    IN
    /\ proc[p].rec \in {"restore", "undo"}
    /\ \/ /\ backup[o] # 0 /\ live' = backup[o]
          /\ backup' = [backup EXCEPT ![o] = IF Bundle THEN live ELSE 0]
          /\ Rec(p, after) /\ UNCHANGED <<left, lock>>
       \/ /\ IF backup[o] = 0 THEN UNCHANGED left ELSE host.faulty /\ Fault
          /\ IF after = "relaunch" THEN Exit(p)
             ELSE /\ proc' = [proc EXCEPT ![p].op.failed = TRUE, ![p].rec = "record"]
                  /\ UNCHANGED lock
          /\ UNCHANGED <<live, backup>>
    /\ UNCHANGED <<host, published, staged, journal, late, good>>

\* Seeded fault: a failed restore is recorded as a rollback that succeeded.
RecordSuccess(p) ==
    /\ proc[p].rec = "record"
    /\ journal' = [proc[p].op EXCEPT !.phase = "rolled-back", !.failed = FALSE]
    /\ Rec(p, "auto") /\ lock' = Unlocked(p)
    /\ UNCHANGED <<host, published, files, late, left, good>>

Record(p) ==
    LET op == proc[p].op IN
    /\ proc[p].rec = "record"
    /\ journal' = [op EXCEPT !.phase = "rolled-back"]
    /\ IF proc[p].role = "server" THEN Rec(p, "auto") /\ lock' = Unlocked(p)
       ELSE IF op.failed THEN Exit(p) ELSE Rec(p, "relaunch") /\ UNCHANGED lock
    /\ UNCHANGED <<host, published, files, late, left, good>>

-----------------------------------------------------------------------------
(* Applying a release: Manager.Apply, install, Prepare, Activate, Handoff  *)

\* beginOperation and check: one apply per process, of a newer release.
Accepted(p, rec) ==
    /\ proc[p].role = "server" /\ proc[p].app = "idle" /\ published > proc[p].image
    /\ left.applies > 0 /\ left' = [left EXCEPT !.applies = @ - 1]
    /\ proc' = [proc EXCEPT
           ![p].rec = rec, ![p].app = "drain",
           ![p].mine = [NoOp EXCEPT !.id = MaxApplies - left.applies + 1, !.version = published]]
    /\ UNCHANGED <<host, published, files, journal, late, lock, good>>

\* The automatic apply follows the recovery, whatever it decided.
StartupApply(p) ==
    proc[p].rec = "auto" /\ Accepted(p, "end")

\* A request reaches a process that serves.  The fixture applies once.
Apply(p) ==
    /\ host.manual /\ proc[p].rec # "start" /\ ~proc[p].drained
    /\ host.fixture => left.applies = MaxApplies
    /\ Accepted(p, proc[p].rec)

\* Already current, refused, or the check failed: the startup is over.
AutoEnds(p) ==
    /\ proc[p].rec = "auto" /\ Rec(p, "end")
    /\ UNCHANGED <<host, published, files, journal, late, lock, left, good>>

\* StopServing.  From here on runServe may return and end the process.
Drain(p) ==
    /\ proc[p].app = "drain"
    /\ proc' = [proc EXCEPT ![p].app = "stage", ![p].drained = TRUE]
    /\ UNCHANGED <<host, published, files, journal, late, lock, left, good>>

ServeReturns(p) ==
    /\ proc[p].drained /\ host.headless /\ Exit(p)
    /\ UNCHANGED <<host, published, files, journal, late, left, good>>

\* StageArchive and Extract.  The staged bundle is the future backup.
Stage(p) ==
    LET op == proc[p].mine IN
    /\ proc[p].app = "stage" /\ App(p, "open")
    /\ IF Bundle THEN backup' = [backup EXCEPT ![op.id] = op.version] /\ UNCHANGED staged
       ELSE staged' = [staged EXCEPT ![op.id] = op.version] /\ UNCHANGED backup
    /\ UNCHANGED <<host, published, live, journal, late, lock, left, good>>

OpenForApply(p) ==
    /\ proc[p].app = "open"
    /\ \/ lock = Free /\ lock' = <<p, "app">> /\ App(p, "prepare")
       \/ lock # Free /\ App(p, "idle") /\ UNCHANGED lock
    /\ UNCHANGED <<host, published, files, journal, late, left, good>>

\* The bundle exchange needs no backup; Windows leaves the swap to the helper.
FirstStep == CASE host.platform = "posix" -> "backup"
               [] host.platform = "windows" -> "save"
               [] host.platform = "bundle" -> "swap"

Prepared(p) ==
    LET op == [proc[p].mine EXCEPT !.phase = "staged", !.prior = IF Bundle THEN 0 ELSE live]
    IN /\ journal' = op
       /\ proc' = [proc EXCEPT ![p].app = FirstStep, ![p].mine = op]
       /\ UNCHANGED lock

\* Seeded fault: a pending operation is overwritten.
PrepareOverPending(p) ==
    /\ proc[p].app = "prepare" /\ Prepared(p)
    /\ UNCHANGED <<host, published, files, late, left, good>>

Prepare(p) ==
    /\ proc[p].app = "prepare"
    /\ \/ journal.phase \notin {"staged", "activated"} /\ Prepared(p)
       \/ /\ journal.phase \in {"staged", "activated"}
          /\ App(p, "idle") /\ lock' = Free /\ UNCHANGED journal
    /\ UNCHANGED <<host, published, files, late, left, good>>

Backup(p) ==
    /\ proc[p].app = "backup" /\ App(p, "swap")
    /\ backup' = [backup EXCEPT ![proc[p].mine.id] = live]
    /\ UNCHANGED <<host, published, live, staged, journal, late, lock, left, good>>

\* The staged payload becomes live, by rename or by exchange.
Swap(p) ==
    LET o == proc[p].mine.id IN
    /\ proc[p].app = "swap" /\ App(p, "save")
    /\ IF Bundle
       THEN live' = backup[o] /\ backup' = [backup EXCEPT ![o] = live] /\ UNCHANGED staged
       ELSE live' = staged[o] /\ staged' = [staged EXCEPT ![o] = 0] /\ UNCHANGED backup
    /\ UNCHANGED <<host, published, journal, late, lock, left, good>>

SaveActivated(p) ==
    LET op == [proc[p].mine EXCEPT !.phase = "activated"] IN
    /\ proc[p].app = "save" /\ journal' = op
    /\ proc' = [proc EXCEPT ![p].mine = op,
                            ![p].app = IF host.supervised THEN "exit" ELSE "handoff"]
    /\ UNCHANGED <<host, published, files, late, lock, left, good>>

\* Handoff starts the helper: the live executable, or a copy of the staged
\* one, or of the launcher at the staged bundle's path.  A build that does
\* not dispatch to RunUpdateHelper serves instead.
Handoff(p) ==
    LET o == proc[p].mine.id
        image == CASE host.platform = "posix" -> live
                   [] host.platform = "windows" -> staged[o]
                   [] host.platform = "bundle" -> backup[o]
        role == IF host.fixture THEN "helper"
                ELSE IF host.platform = "posix" THEN "server" ELSE "stray"
    IN
    /\ proc[p].app = "handoff"
    /\ \E q \in Proc : /\ ~Alive(q)
                       /\ proc' = [proc EXCEPT ![q] = Started(role, image, p), ![p].app = "exit"]
    /\ UNCHANGED <<host, published, files, journal, late, lock, left, good>>

\* Seeded fault: the operation lock outlives its process.
ExitLocked(p) ==
    /\ proc[p].app = "exit" /\ proc' = Without(p)
    /\ UNCHANGED <<host, published, files, journal, late, lock, left, good>>

ExitProcess(p) ==
    /\ proc[p].app = "exit" /\ Exit(p)
    /\ UNCHANGED <<host, published, files, journal, late, left, good>>

\* Any step of install may fail; the process lives on, the record stays.
ApplyFails(p) ==
    /\ proc[p].app \notin {"idle", "exit"} /\ App(p, "idle") /\ Fault
    /\ lock' = IF lock = <<p, "app">> THEN Free ELSE lock
    /\ UNCHANGED <<host, published, files, journal, late, good>>

-----------------------------------------------------------------------------
(* The helper: runHelper of the three platforms                            *)

WaitParent(p) ==
    /\ proc[p].rec = "wait" /\ proc[p].parent = 0
    /\ Rec(p, IF host.platform = "windows" THEN "backup" ELSE "launch")
    /\ UNCHANGED <<host, published, files, journal, late, lock, left, good>>

HelperBackup(p) ==
    /\ proc[p].rec = "backup" /\ Rec(p, "swap")
    /\ backup' = [backup EXCEPT ![proc[p].op.id] = live]
    /\ UNCHANGED <<host, published, live, staged, journal, late, lock, left, good>>

HelperSwap(p) ==
    /\ proc[p].rec = "swap" /\ staged[proc[p].op.id] # 0
    /\ live' = staged[proc[p].op.id] /\ staged' = [staged EXCEPT ![proc[p].op.id] = 0]
    /\ Rec(p, "launch")
    /\ UNCHANGED <<host, published, backup, journal, late, lock, left, good>>

LaunchNew(p) ==
    /\ proc[p].rec = "launch"
    /\ \/ /\ \E q \in Proc :
               /\ ~Alive(q)
               /\ proc' = [proc EXCEPT ![q] = Started("server", live, 0),
                                       ![p].rec = "watch", ![p].child = q]
          /\ UNCHANGED left
       \/ Fault /\ Rec(p, IF host.platform = "windows" THEN "undo" ELSE "restore")
    /\ UNCHANGED <<host, published, files, journal, late, lock, good>>

\* awaitHealth: acknowledged, or timed out, or the new process has died.
AwaitHealth(p) ==
    /\ proc[p].rec = "watch"
    /\ \/ journal.phase = "confirmed" /\ Rec(p, "cleanup")
       \/ /\ journal.phase # "confirmed"
          /\ proc[p].op.id \in late \/ proc[p].child = 0
          /\ Rec(p, "restore")
    /\ UNCHANGED <<host, published, files, journal, late, lock, left, good>>

Relaunch(p) ==
    /\ proc[p].rec = "relaunch"
    /\ \E q \in Proc :
         /\ ~Alive(q)
         /\ proc' = [Without(p) EXCEPT ![q] = Started("server", live, 0)]
    /\ lock' = Unlocked(p)
    /\ UNCHANGED <<host, published, files, journal, late, left, good>>

-----------------------------------------------------------------------------

DeadlinePasses ==
    /\ journal.phase = "activated" /\ journal.id \notin late
    /\ late' = late \cup {journal.id}
    /\ UNCHANGED <<host, published, files, journal, lock, proc, left, good>>

\* A process is killed, stopped by its user, or the machine restarts.
Crash(p) ==
    /\ Alive(p) /\ Exit(p)
    /\ left.crashes > 0 /\ left' = [left EXCEPT !.crashes = @ - 1]
    /\ UNCHANGED <<host, published, files, journal, late, good>>

RecoveryStep(p) ==
    \/ Ready(p) \/ DieEarly(p) \/ Open(p) \/ Evaluate(p) \/ Acknowledge(p) \/ Note(p)
    \/ Confirm(p) \/ Cleanup(p) \/ Clear(p) \/ Restore(p) \/ Record(p) \/ AutoEnds(p)
ApplyStep(p) ==
    \/ Drain(p) \/ ServeReturns(p) \/ Stage(p) \/ OpenForApply(p) \/ Prepare(p)
    \/ Backup(p) \/ Swap(p) \/ SaveActivated(p) \/ Handoff(p) \/ ExitProcess(p)
HelperStep(p) ==
    \/ WaitParent(p) \/ HelperBackup(p) \/ HelperSwap(p) \/ LaunchNew(p)
    \/ AwaitHealth(p) \/ Relaunch(p)

Next ==
    \/ Publish \/ DeadlinePasses
    \/ \E p \in Proc :
         \/ Launch(p) \/ RecoveryStep(p) \/ StartupApply(p) \/ Apply(p)
         \/ ApplyStep(p) \/ HelperStep(p) \/ ApplyFails(p) \/ Crash(p)

Spec == Init /\ [][Next]_vars

\* Threads run; Restart=always starts the service again whenever it is gone.
Supervisor == host.supervised /\ \E p \in Proc : Launch(p)
FairSpec ==
    /\ Spec /\ WF_vars(Supervisor)
    /\ \A p \in Proc : WF_vars(RecoveryStep(p)) /\ WF_vars(ApplyStep(p)) /\ WF_vars(HelperStep(p))

-----------------------------------------------------------------------------
(* Properties                                                              *)

RecPC == {"open", "start", "evaluate", "acknowledge", "note", "confirm", "cleanup", "clear",
          "restore", "undo", "record", "auto", "end", "wait", "backup", "swap", "launch",
          "watch", "relaunch"}
AppPC == {"idle", "drain", "stage", "open", "prepare", "backup", "swap", "save", "handoff", "exit"}
Operation == [id : 0 .. MaxApplies, version : 0 .. MaxVersion, prior : 0 .. MaxVersion,
              phase : {"none", "staged", "activated", "confirmed", "rolled-back"},
              failed : BOOLEAN]
Process == [role : {"none", "server", "helper", "stray"}, image : 0 .. MaxVersion,
            rec : RecPC, app : AppPC, op : Operation, mine : Operation, drained : BOOLEAN,
            parent : Proc \cup {0}, child : Proc \cup {0}]

\* The files hold releases and the live path always one, the record has a
\* phase recovery knows, and the lock is held only at the steps between
\* OpenJournal and Close.
TypeOK ==
    /\ host \in Hosts /\ published \in Version /\ live \in Version /\ good \subseteq Version
    /\ backup \in [OpId -> 0 .. MaxVersion] /\ staged \in [OpId -> 0 .. MaxVersion]
    /\ journal \in Operation /\ late \subseteq OpId
    /\ lock \in {Free} \cup (Proc \X {"rec", "app"})
    /\ proc \in [Proc -> Process]
    /\ left \in [applies : 0 .. MaxApplies, crashes : 0 .. MaxCrashes, faults : 0 .. MaxFaults]
    /\ lock # Free =>
         IF lock[2] = "app" THEN proc[lock[1]].app \notin {"idle", "drain", "stage", "open"}
         ELSE proc[lock[1]].rec \notin {"start", "open", "auto", "end", "note", "confirm"}

\* Whatever the point of a crash, the installation can come back: the live
\* path holds a release that was healthy once, or the operation on record
\* keeps one as its backup.  (Once a restore has failed, some backup does.)
Recoverable ==
    ~Bundle => \/ live \in good
               \/ \E o \in OpId : backup[o] \in good /\ (o = journal.id \/ host.faulty)

\* recovery.go: "PhaseRolledBack: the previous installation was restored".
RollbackRestores ==
    (~Bundle /\ journal.phase = "rolled-back" /\ ~journal.failed) => live = journal.prior

\* The same of a bundle installation.
BundleRestored ==
    (journal.phase = "rolled-back" /\ ~journal.failed) => live \in good

\* The files of a real build carry out InstalledVersion: a new release only
\* over a proven one, then a confirmation or the way back, never both.
Dependable == ~Bundle /\ ~host.fixture /\ ~host.faulty
Installed == INSTANCE InstalledVersion
                 WITH installed <- IF Dependable THEN live ELSE 1,
                      proven <- IF Dependable THEN good ELSE {1}
InstalledSpec == Installed!Spec

\* Under a service manager that always restarts, a healthy release that was
\* activated is confirmed or rolled back, wherever the update was cut off.
SupervisedSettles ==
    (host.supervised /\ host.bad = {} /\ ~host.manual /\ journal.phase = "activated")
        ~> (journal.phase # "activated")
=============================================================================
