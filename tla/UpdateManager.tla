---------------------------- MODULE UpdateManager ----------------------------
(***************************************************************************)
(* The self-update coordinator inside one process: the checks of the       *)
(* cadence and of the update page, the apply requests that compete for the *)
(* single operation token, the response barrier, and the install pipeline  *)
(* that drains HTTP, installs and exits.  What the installer does to the   *)
(* disk is UpdateTransaction; here it works or fails.                      *)
(*                                                                         *)
(* A status is whether an update is available and whether one is applied.  *)
(* The flush wait of 30 s always passes before the operation times out.    *)
(***************************************************************************)
EXTENDS Naturals, FiniteSets

CONSTANTS
    Page,      \* HTTP requests that only check, and event streams of open pages
    Cadence,   \* the hourly check of Run
    Applier,   \* HTTP requests that apply
    Startup,   \* the automatic apply after readiness
    MaxOps     \* bound: operations of one process

VARIABLES
    mgr,      \* the manager: cached status, token, whether barrier is set
    install,  \* the pipeline: position, owner, barrier released, flush wait over
    calls,    \* per goroutine: its position and the status it built
    serving,  \* the HTTP server and the process
    accepted  \* operations so far

managerVars == <<mgr, install, calls, serving, accepted>>

Checker == Page \cup {Cadence}

\* A goroutine checks, applies on request or is the one of the startup.
ASSUME RolesAssumption == Checker \cap Applier = {} /\ Startup \notin Checker \cup Applier

Thread == Checker \cup Applier \cup {Startup}
NoStatus == [available |-> FALSE, applying |-> FALSE]
NoInstall == [pc |-> "none", owner |-> Startup, released |-> FALSE, waited |-> FALSE]

ManagerInit ==
    /\ mgr = [status |-> NoStatus, token |-> FALSE, barrier |-> FALSE]
    /\ install = NoInstall
    /\ calls = [c \in Thread |-> [pc |-> "idle", status |-> NoStatus]]
    /\ serving = "up" /\ accepted = 0

CallGoes(c, pc) == calls' = [calls EXCEPT ![c] = [pc |-> pc, status |-> NoStatus]]

---------------------------------------------------------------------------
(* Checks.                                                                 *)

BeginCheck(c) ==
    /\ calls[c].pc = "idle"
    /\ c \in Page => serving = "up"
    /\ CallGoes(c, "check")
    /\ UNCHANGED <<mgr, install, serving, accepted>>

\* baseStatus after the fetch: the availability found, the in-flight flag of now.
Fetched(c) ==
    /\ calls[c].pc = "check"
    /\ \E found \in BOOLEAN :
          calls' = [calls EXCEPT ![c] = [pc |-> "commit",
                       status |-> [available |-> found, applying |-> mgr.status.applying]]]
    /\ UNCHANGED <<mgr, install, serving, accepted>>

\* commit; a check ends here, an apply installs what it found or finds nothing to do.
CommitStatus(c) ==
    /\ calls[c].pc = "commit"
    /\ mgr' = [mgr EXCEPT !.status = calls[c].status]
    /\ CallGoes(c, IF c \in Checker THEN "idle"
                   ELSE IF calls[c].status.available THEN "accept" ELSE "noop")
    /\ UNCHANGED <<install, serving, accepted>>

\* A fetch that fails commits nothing.
CheckFails(c) ==
    /\ c \in Checker
    /\ calls[c].pc = "check"
    /\ CallGoes(c, "idle")
    /\ UNCHANGED <<mgr, install, serving, accepted>>

\* An open page holds an event stream: it ends when the page goes away, or with the process.
OpenStream(c) ==
    /\ c \in Page
    /\ calls[c].pc = "idle"
    /\ serving = "up"
    /\ CallGoes(c, "stream")
    /\ UNCHANGED <<mgr, install, serving, accepted>>

CloseStream(c) ==
    /\ calls[c].pc = "stream"
    /\ CallGoes(c, "idle")
    /\ UNCHANGED <<mgr, install, serving, accepted>>

---------------------------------------------------------------------------
(* Applying.                                                               *)

\* beginOperation: one operation at a time.
TokenFree == ~mgr.token

BeginApply(c) ==
    /\ calls[c].pc = "idle"
    /\ c \in Applier => serving = "up"
    /\ accepted < MaxOps
    /\ TokenFree
    /\ mgr' = [mgr EXCEPT !.token = TRUE]
    /\ CallGoes(c, "check")
    /\ UNCHANGED <<install, serving, accepted>>

\* The startup sequence runs once and gives up when an operation is in flight.
StartupBusy ==
    /\ calls[Startup].pc = "idle"
    /\ ~TokenFree
    /\ CallGoes(Startup, "done")
    /\ UNCHANGED <<mgr, install, serving, accepted>>

Over(c) == IF c = Startup THEN "done" ELSE "idle"

\* Mutant of Finished: the token is not given back.
FinishedHolding == [mgr EXCEPT !.barrier = FALSE, !.status.applying = FALSE]

\* finishOperation.
Finished == [mgr EXCEPT !.token = FALSE, !.barrier = FALSE, !.status.applying = FALSE]

\* The check of an apply fails, its request is cancelled, or nothing is newer.
ApplyEndsUnaccepted(c) ==
    /\ c \notin Checker
    /\ calls[c].pc \in {"check", "noop"}
    /\ mgr' = Finished
    /\ CallGoes(c, Over(c))
    /\ UNCHANGED <<install, serving, accepted>>

\* Mutant of SetBarrier: the pipeline starts without a barrier.
SetNoBarrier == [mgr EXCEPT !.status.applying = TRUE]

\* The barrier, the applying status and the goroutine; an internal apply passes a closed barrier.
SetBarrier == [mgr EXCEPT !.barrier = TRUE, !.status.applying = TRUE]

Accept(c) ==
    /\ calls[c].pc = "accept"
    /\ mgr' = SetBarrier
    /\ install' = [NoInstall EXCEPT !.pc = "barrier", !.owner = c, !.released = (c = Startup)]
    /\ accepted' = accepted + 1
    /\ CallGoes(c, IF c = Startup THEN "done" ELSE "respond")
    /\ UNCHANGED serving

\* The 202 is written and flushed, also to a client that is gone.
Flush(c) ==
    /\ calls[c].pc = "respond"
    /\ CallGoes(c, "flushed")
    /\ UNCHANGED <<mgr, install, serving, accepted>>

ResponseFlushed(c) ==
    /\ calls[c].pc = "flushed"
    /\ mgr' = [mgr EXCEPT !.barrier = FALSE]
    /\ install' = [install EXCEPT !.released = @ \/ mgr.barrier]
    /\ CallGoes(c, "idle")
    /\ UNCHANGED <<serving, accepted>>

---------------------------------------------------------------------------
(* The pipeline.                                                           *)

InstallGoes(pc) == install' = [install EXCEPT !.pc = pc]

\* awaitBarrier: nil, released, or given up on.
AwaitBarrier ==
    /\ install.pc = "barrier"
    /\ \/ (~mgr.barrier \/ install.released) /\ InstallGoes("stop")
       \/ install' = [install EXCEPT !.pc = "stop", !.waited = TRUE]
    /\ UNCHANGED <<mgr, calls, serving, accepted>>

\* StopServing: the listener closes, and the handlers are waited for.
Shutdown ==
    /\ install.pc = "stop"
    /\ serving' = "draining"
    /\ InstallGoes("drain")
    /\ UNCHANGED <<mgr, calls, accepted>>

Requests == {c \in Page \cup Applier : calls[c].pc # "idle"}

Drained ==
    /\ install.pc = "drain"
    /\ Requests = {}
    /\ serving' = "down"
    /\ InstallGoes("install")
    /\ UNCHANGED <<mgr, calls, accepted>>

\* Download, staging, Prepare, Activate and the handoff, then the exit.
ExitProcess ==
    /\ install.pc = "install"
    /\ serving' = "exited"
    /\ InstallGoes("none")
    /\ UNCHANGED <<mgr, calls, accepted>>

\* Every step may fail, the drain by the operation timeout.
InstallFails ==
    /\ install.pc \in {"drain", "install"}
    /\ mgr' = Finished
    /\ install' = NoInstall
    /\ UNCHANGED <<calls, serving, accepted>>

Pipeline == AwaitBarrier \/ Shutdown \/ Drained \/ ExitProcess \/ InstallFails

CallStep(c) ==
    \/ Fetched(c) \/ CommitStatus(c) \/ ApplyEndsUnaccepted(c) \/ Accept(c)
    \/ Flush(c) \/ ResponseFlushed(c) \/ CheckFails(c)

Alive == serving # "exited"

ManagerNext ==
    /\ Alive
    /\ \/ Pipeline
       \/ \E c \in Thread : CallStep(c)
       \/ \E c \in Checker : BeginCheck(c) \/ OpenStream(c) \/ CloseStream(c)
       \/ \E c \in Thread \ Checker : BeginApply(c)
       \/ StartupBusy

\* Every step of the pipeline and of a request is bounded by a timeout; a page
\* need not go away.
ManagerSpec ==
    /\ ManagerInit /\ [][ManagerNext]_managerVars
    /\ WF_managerVars(Alive /\ Pipeline)
    /\ \A c \in Thread : WF_managerVars(Alive /\ CallStep(c))

---------------------------------------------------------------------------
ManagerTypeOK ==
    /\ mgr.status \in [available : BOOLEAN, applying : BOOLEAN]
    /\ mgr.token \in BOOLEAN /\ mgr.barrier \in BOOLEAN
    /\ install.pc \in {"none", "barrier", "stop", "drain", "install"}
    /\ install.owner \in Thread
    /\ \A c \in Thread : calls[c].pc \in {"idle", "check", "commit", "accept", "noop",
                                          "respond", "flushed", "done", "stream"}
    /\ serving \in {"up", "draining", "down", "exited"}

\* The client that asked for the update heard back before the server is torn
\* down under it, unless the flush wait is over; no other response counts.
BarrierHonoured ==
    install.pc \in {"stop", "drain", "install"} =>
        \/ install.waited
        \/ calls[install.owner].pc # "respond"

\* One operation at a time: what the pipeline or an unaccepted apply works on
\* is the operation that holds the token.
OneOperation ==
    /\ Cardinality({c \in Thread \ Checker :
                       calls[c].pc \in {"check", "commit", "accept", "noop"}}
                   \cup (IF install.pc = "none" THEN {} ELSE {"install"})) <= 1
    /\ install.pc # "none" => mgr.token

\* What competing applies rely on: one of them at a time, and its client answered.
ApplySafe == OneOperation /\ BarrierHonoured

\* A taken token comes back, or the process hands over.
OperationEnds == mgr.token ~> ~mgr.token \/ serving = "exited"
=============================================================================
