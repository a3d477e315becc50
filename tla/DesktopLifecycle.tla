-------------------------- MODULE DesktopLifecycle --------------------------
(***************************************************************************)
(* The embedded server of the desktop application: the supervisor that     *)
(* starts, stops and restarts it, the goroutine that constructs and serves *)
(* each server, and the bindings of the settings page, which may complete  *)
(* the setup or move the data directory at any moment.                     *)
(*                                                                         *)
(* A directory is a value; disk says which exist and in which the settings *)
(* file is complete. A server that is gone and released frees its identity *)
(* for a later one, its directory forgotten. Left out: the window, the tray *)
(* and the contents of the settings file.                                  *)
(***************************************************************************)
EXTENDS Naturals, FiniteSets

CONSTANTS
    App,        \* bound: servers that exist at once, numbered from 1
    Caller,     \* goroutines of the binding calls
    Mover,      \* those of ChangeDataDir
    Dir, Home,  \* directories, and the one resolved at boot
    MaxLeaks    \* bound: closes that give up on the workers

VARIABLES
    sup,     \* the supervisor: its state and its app (0 is nil)
    apps,    \* per server: its goroutine, the directory it serves, open resources
    holder,  \* the bindings' current directory, its store, the relocation guard
    disk,    \* directories that exist, those whose settings file is complete
    task     \* per caller: the call it is in

desktopVars == <<sup, apps, holder, disk, task>>

State == {"stopped", "starting", "running", "stopping", "failed"}
AppPC == {"none", "construct", "create", "serving", "failing", "closing", "leaked"}
TaskPC == {"idle", "close", "stopped", "start", "save", "check", "look", "stop", "move",
           "resume", "resumed", "remap", "commit", "autostart", "return"}

NoTask == [pc |-> "idle", op |-> "none", was |-> FALSE, app |-> 0, to |-> Home]

DesktopInit ==
    /\ sup = [state |-> "stopped", app |-> 0]
    /\ apps = [a \in App |-> [pc |-> "none", dir |-> Home, open |-> FALSE]]
    /\ \E complete \in BOOLEAN :
          /\ holder = [dir |-> Home, complete |-> complete, moving |-> FALSE]
          /\ disk = [present |-> {Home}, complete |-> IF complete THEN {Home} ELSE {}]
    /\ task = [c \in Caller |-> NoTask]

---------------------------------------------------------------------------
(* Starting.                                                               *)

\* Mutant of CanStart: the relocation guard is not asked.
CanStartUnguarded == holder.complete

\* CanStart as the runner wires it: the relocation guard, then the settings.
CanStart == ~holder.moving /\ holder.complete

\* Start: the state check, CanStart and the transition under the mutex.
Accepts == sup.state \in {"stopped", "failed"} /\ CanStart

Free(a) == apps[a].pc = "none" /\ ~apps[a].open /\ a # sup.app
NextApp(a) == Free(a) /\ \A b \in App : Free(b) => a <= b

Launch ==
    \/ /\ Accepts
       /\ sup' = [sup EXCEPT !.state = "starting"]
       /\ \E a \in App : /\ NextApp(a)
                         /\ apps' = [apps EXCEPT ![a].pc = "construct"]
    \/ ~Accepts /\ UNCHANGED <<sup, apps>>

Start(c) ==
    /\ task[c].pc = "idle"
    /\ Accepts
    /\ Launch
    /\ UNCHANGED <<holder, disk, task>>

\* Mutant of FactoryDir: the directory resolved at boot.
FactoryDirOfBoot == Home

\* The directory the factory of the runner composes from: the holder's, on every call.
FactoryDir == holder.dir

\* run: the factory reads the holder and composes the application from it.
ReadStore(a) ==
    /\ apps[a].pc = "construct"
    /\ apps' = [apps EXCEPT ![a].pc = "create", ![a].dir = FactoryDir]
    /\ UNCHANGED <<sup, holder, disk, task>>

ConstructFails(a) ==
    /\ apps[a].pc = "create"
    /\ sup' = [sup EXCEPT !.state = "failed"]
    /\ apps' = [apps EXCEPT ![a].pc = "none", ![a].dir = Home]
    /\ UNCHANGED <<holder, disk, task>>

Construct(a) ==
    /\ apps[a].pc = "create"
    /\ sup' = [state |-> "running", app |-> a]
    /\ apps' = [apps EXCEPT ![a].pc = "serving", ![a].open = TRUE]
    /\ disk' = [disk EXCEPT !.present = @ \cup {apps[a].dir}]
    /\ UNCHANGED <<holder, task>>

\* ListenAndServe returns an error that is not the one of a shutdown.
ServeFails(a) ==
    /\ apps[a].pc = "serving"
    /\ apps' = [apps EXCEPT ![a].pc = "failing"]
    /\ UNCHANGED <<sup, holder, disk, task>>

\* Only the running state owns the failure; which server runs is not compared.
ReportFailure(a) ==
    /\ apps[a].pc = "failing"
    /\ IF sup.state = "running"
       THEN /\ sup' = [state |-> "failed", app |-> 0]
            /\ apps' = [apps EXCEPT ![a].pc = "closing"]
       ELSE /\ apps' = [apps EXCEPT ![a].pc = "none"]
            /\ UNCHANGED sup
    /\ UNCHANGED <<holder, disk, task>>

Leaked == {a \in App : apps[a].pc = "leaked"}

\* App.Close: everything is released, or the join times out and nothing is.
Closed(a) == [apps EXCEPT ![a].open = FALSE, ![a].dir = Home,
                          ![a].pc = IF @ \in {"serving", "closing"} THEN "none" ELSE @]
GivesUp(a) == /\ Cardinality(Leaked) < MaxLeaks
              /\ apps[a].open
              /\ apps' = [apps EXCEPT ![a].pc = "leaked"]

CloseFailed(a) ==
    /\ apps[a].pc = "closing"
    /\ apps' = Closed(a) \/ GivesUp(a)
    /\ UNCHANGED <<sup, holder, disk, task>>

---------------------------------------------------------------------------
(* Stopping.  A caller goes through close and stopped, then does what its  *)
(* operation does next.                                                    *)

Goto(c, pc) == task' = [task EXCEPT ![c].pc = pc]
Return(c) == task' = [task EXCEPT ![c] = NoTask]

Stopping(c) ==
    /\ sup.state = "running"
    /\ sup' = [sup EXCEPT !.state = "stopping"]
    /\ UNCHANGED <<apps, holder, disk>>

\* Stop and Restart; a Stop elsewhere than running is refused, and Restart then starts.
Stop(c) ==
    /\ task[c].pc = "idle"
    /\ Stopping(c)
    /\ \E op \in {"stop", "restart"} :
          task' = [task EXCEPT ![c].pc = "close", ![c].op = op, ![c].app = sup.app]

\* Shutdown and Close; a close that gives up is only logged.
StopCloses(c) ==
    /\ task[c].pc = "close"
    /\ apps' = Closed(task[c].app) \/ GivesUp(task[c].app)
    /\ task' = [task EXCEPT ![c].pc = "stopped", ![c].app = 0]
    /\ UNCHANGED <<sup, holder, disk>>

AfterStop(op) == CASE op = "restart" -> "start" [] op = "change" -> "move"
                   [] OTHER -> "return"

StopEnds(c) ==
    /\ task[c].pc = "stopped"
    /\ sup' = [state |-> "stopped", app |-> 0]
    /\ Goto(c, AfterStop(task[c].op))
    /\ UNCHANGED <<apps, holder, disk>>

\* The Start of Restart, of a completing save and of a finished relocation.
StartAfter(c) ==
    /\ task[c].pc = "start"
    /\ Launch
    /\ Goto(c, "return")
    /\ UNCHANGED <<holder, disk>>

\* The return of a call; ChangeDataDir's deferred function drops the guard.
Returns(c) ==
    /\ task[c].pc \in {"return", "resumed"}
    /\ holder' = [holder EXCEPT !.moving = IF task[c].op = "change" THEN FALSE ELSE @]
    /\ Return(c)
    /\ UNCHANGED <<sup, apps, disk>>

---------------------------------------------------------------------------
(* The bindings.                                                           *)

\* SaveSettings with every required key: it takes the store of the holder and asks
\* whether a key was missing in it.
SaveSettings(c) ==
    /\ task[c].pc = "idle"
    /\ task' = [task EXCEPT ![c] = [NoTask EXCEPT !.pc = "save", !.op = "save",
                                                  !.was = ~holder.complete, !.to = holder.dir]]
    /\ UNCHANGED <<sup, apps, holder, disk>>

\* The Save into that store, which makes its directory anew if it has moved away.
\* Bound: a store whose directory is the holder's again is taken for the holder's.
WriteSettings(c) ==
    LET dir == task[c].to IN
    /\ task[c].pc = "save"
    /\ holder' = [holder EXCEPT !.complete = @ \/ dir = holder.dir]
    /\ disk' = [disk EXCEPT !.present = @ \cup {dir}, !.complete = @ \cup {dir}]
    /\ Goto(c, "check")
    /\ UNCHANGED <<sup, apps>>

\* A save that completes the settings of a stopped server asks for a Start.
CheckState(c) ==
    /\ task[c].pc = "check"
    /\ IF task[c].was /\ sup.state = "stopped" /\ ~holder.moving
       THEN Goto(c, "start") ELSE Return(c)
    /\ UNCHANGED <<sup, apps, holder, disk>>

\* ChangeDataDir takes the guard before it looks at the supervisor.  The
\* current location as a target is one of the refusals of Relocate.
ChangeDataDir(c) ==
    /\ task[c].pc = "idle"
    /\ holder' = [holder EXCEPT !.moving = TRUE]
    /\ \E to \in Dir \ {holder.dir} :
          task' = [task EXCEPT ![c] = [NoTask EXCEPT !.pc = "look", !.op = "change", !.to = to]]
    /\ UNCHANGED <<sup, apps, disk>>

LookAtState(c) ==
    /\ task[c].pc = "look"
    /\ Goto(c, CASE sup.state = "running" -> "stop"
                 [] sup.state \in {"stopped", "failed"} -> "move"
                 [] OTHER -> "return")
    /\ UNCHANGED <<sup, apps, holder, disk>>

\* wasRunning, and the Stop that may find the server stopped by another call.
StopForMove(c) ==
    /\ task[c].pc = "stop"
    /\ \/ /\ Stopping(c)
          /\ task' = [task EXCEPT ![c].pc = "close", ![c].was = TRUE, ![c].app = sup.app]
       \/ /\ sup.state # "running"
          /\ Goto(c, "return")
          /\ UNCHANGED <<sup, apps, holder, disk>>

\* The data of from arrives at to with its settings file; from may partly remain.
Moved(from, to, left) ==
    disk' = [present |-> (disk.present \ ({from} \ left)) \cup {to},
             complete |-> (disk.complete \ {from, to})
                             \cup (IF from \in disk.complete THEN {to} ELSE {})]

\* A copy to another volume that fails on the way: the source stays, and what was
\* copied stays as well, with or without the settings file.
CopiedInPart(from, to) ==
    \E settings \in SUBSET {to} :
        /\ settings # {} => from \in disk.complete
        /\ disk' = [present |-> disk.present \cup {to}, complete |-> disk.complete \cup settings]

\* Relocate: refused or failed with the source intact, moved with or without
\* the pointer written, or copied with the source not fully removed.
Relocate(c) ==
    LET from == holder.dir  to == task[c].to IN
    /\ task[c].pc = "move"
    /\ \/ UNCHANGED disk /\ Goto(c, "resume")
       \/ /\ to \notin disk.present /\ from \in disk.present
          /\ \/ Moved(from, to, {}) /\ Goto(c, "remap")
             \/ Moved(from, to, {}) /\ Goto(c, "resume")
             \/ Moved(from, to, {from}) /\ Goto(c, "resume")
             \/ CopiedInPart(from, to) /\ Goto(c, "resume")
    /\ UNCHANGED <<sup, apps, holder>>

\* resume: the prior state comes back unless the source is gone.
Resume(c) ==
    /\ task[c].pc = "resume"
    /\ IF task[c].was /\ holder.dir \in disk.present
       THEN Launch /\ Goto(c, "resumed")
       ELSE Goto(c, "return") /\ UNCHANGED <<sup, apps>>
    /\ UNCHANGED <<holder, disk>>

\* The remap of the settings file and LoadAt, either of which may fail.
Remap(c) ==
    /\ task[c].pc = "remap"
    /\ Goto(c, "commit") \/ Goto(c, "return")
    /\ UNCHANGED <<sup, apps, holder, disk>>

Commit(c) ==
    /\ task[c].pc = "commit"
    /\ holder' = [holder EXCEPT !.dir = task[c].to, !.complete = task[c].to \in disk.complete]
    /\ Goto(c, "autostart")
    /\ UNCHANGED <<sup, apps, disk>>

\* The autostart entry, then the guard is dropped for the restart.
Autostart(c) ==
    /\ task[c].pc = "autostart"
    /\ \/ Goto(c, "return") /\ UNCHANGED holder
       \/ /\ holder' = [holder EXCEPT !.moving = FALSE]
          /\ Goto(c, IF task[c].was THEN "start" ELSE "return")
    /\ UNCHANGED <<sup, apps, disk>>

---------------------------------------------------------------------------
Goroutine(a) ==
    ReadStore(a) \/ ConstructFails(a) \/ Construct(a) \/ ReportFailure(a) \/ CloseFailed(a)

Continue(c) ==
    \/ StopCloses(c) \/ StopEnds(c) \/ StartAfter(c) \/ Returns(c)
    \/ WriteSettings(c) \/ CheckState(c)
    \/ LookAtState(c) \/ StopForMove(c) \/ Relocate(c) \/ Resume(c)
    \/ Remap(c) \/ Commit(c) \/ Autostart(c)

DesktopNext ==
    \/ \E a \in App : Goroutine(a) \/ ServeFails(a)
    \/ \E c \in Caller : Continue(c)
    \/ \E c \in Caller \ Mover : Start(c) \/ Stop(c) \/ SaveSettings(c)
    \/ \E c \in Mover : ChangeDataDir(c)

DesktopSpec == DesktopInit /\ [][DesktopNext]_desktopVars

---------------------------------------------------------------------------
DesktopTypeOK ==
    /\ sup \in [state : State, app : App \cup {0}]
    /\ apps \in [App -> [pc : AppPC, dir : Dir, open : BOOLEAN]]
    /\ holder \in [dir : Dir, complete : BOOLEAN, moving : BOOLEAN]
    /\ disk \in [present : SUBSET Dir, complete : SUBSET Dir]
    /\ task \in [Caller -> [pc : TaskPC, op : {"none", "stop", "restart", "save", "change"},
                            was : BOOLEAN, app : App \cup {0}, to : Dir]]

\* While a relocation is between its Stop and its swap, no Start has slipped
\* in: nothing is being constructed and the supervisor drives no server.
MoveAlone ==
    (\E c \in Caller : task[c].pc \in {"move", "remap", "commit"}) =>
        /\ sup.state \in {"stopped", "failed"}
        /\ \A a \in App : apps[a].pc \notin {"construct", "create"}

\* A supervised server serves the directory the bindings show and save to,
\* whatever was moved, restarted or saved since it was asked for.
ServesCurrentDir ==
    sup.state = "running" => apps[sup.app].dir = holder.dir

\* A relocation that fails before the move commits restores the running
\* server it stopped.
ResumeRestores ==
    [][\A c \in Caller : task[c].pc = "resume" /\ task[c].pc' = "resumed"
           => sup.state' # "stopped"]_desktopVars
=============================================================================
