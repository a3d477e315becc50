------------------------ MODULE UpdateManagerProofs ------------------------
(***************************************************************************)
(* One operation at a time, and no server torn down under the client that  *)
(* asked for it, for any number of pages, requests and operations.         *)
(***************************************************************************)
EXTENDS UpdateManager, FiniteSetTheorems, TLAPS

Status == [available : BOOLEAN, applying : BOOLEAN]
Positions == {"idle", "check", "commit", "accept", "noop", "respond", "flushed", "done", "stream"}

\* An apply that holds the token and has no pipeline yet.
Unaccepted == {"check", "commit", "accept", "noop"}
Works(c) == c \in Thread \ Checker /\ calls[c].pc \in Unaccepted

ManagerTyped ==
    /\ mgr \in [status : Status, token : BOOLEAN, barrier : BOOLEAN]
    /\ install \in [pc : {"none", "barrier", "stop", "drain", "install"}, owner : Thread,
                    released : BOOLEAN, waited : BOOLEAN]
    /\ calls \in [Thread -> [pc : Positions, status : Status]]
    /\ serving \in {"up", "draining", "down", "exited"}

\* What is in flight holds the token, and is alone.
Single ==
    /\ install.pc # "none" => mgr.token
    /\ \A c \in Thread : Works(c) => mgr.token /\ install.pc = "none"
    /\ \A c, d \in Thread : Works(c) /\ Works(d) => c = d

\* A request that works was let in, so the server is up; one that answers is the
\* owner of the pipeline, or the server no longer lets anybody in.
Answers ==
    /\ \A c \in Applier : Works(c) => serving = "up"
    /\ \A c \in Applier : calls[c].pc \in {"respond", "flushed"} =>
           \/ install.pc # "none" /\ install.owner = c
           \/ serving # "up"
    /\ install.pc = "barrier" /\ install.owner \in Applier => serving = "up"
    /\ install.pc = "barrier" /\ calls[install.owner].pc = "respond" =>
           mgr.barrier /\ ~install.released
    /\ install.pc \in {"drain", "install"} => serving # "up"
    /\ calls[Startup].pc \notin {"respond", "flushed"}
    /\ \A c \in Checker : calls[c].pc \in {"idle", "check", "commit", "stream"}

ManagerInv == ManagerTyped /\ Single /\ Answers /\ BarrierHonoured

---------------------------------------------------------------------------
(* Steps.                                                                  *)

LEMMA CallMoves ==
    ASSUME ManagerTyped, NEW c \in Thread, NEW pc \in Positions, CallGoes(c, pc)
    PROVE  /\ calls' \in [Thread -> [pc : Positions, status : Status]]
           /\ calls'[c].pc = pc
           /\ \A d \in Thread : d # c => calls'[d] = calls[d]
<1>1. [pc |-> pc, status |-> NoStatus] \in [pc : Positions, status : Status]
  BY DEF NoStatus, Status
<1> QED BY <1>1 DEF ManagerTyped, CallGoes

LEMMA OneRole ==
    /\ Startup \in Thread /\ Applier \subseteq Thread /\ Page \subseteq Checker /\ Checker \subseteq Thread
    /\ \A c \in Thread : \/ c \in Checker /\ c \notin Applier /\ c # Startup
                         \/ c \in Applier /\ c \notin Checker /\ c # Startup
                         \/ c = Startup /\ c \notin Checker /\ c \notin Applier
  BY RolesAssumption DEF Thread, Checker

\* A step of a check or of a page, which touches no apply.
LEMMA CheckerStep ==
    ASSUME ManagerInv, NEW c \in Checker,
           BeginCheck(c) \/ CheckFails(c) \/ OpenStream(c) \/ CloseStream(c)
    PROVE  ManagerInv'
<1>1. PICK pc \in {"idle", "check", "stream"} : CallGoes(c, pc)
  BY DEF BeginCheck, CheckFails, OpenStream, CloseStream
<1>2. UNCHANGED <<mgr, install, serving>>
  BY DEF BeginCheck, CheckFails, OpenStream, CloseStream
<1>3. /\ calls' \in [Thread -> [pc : Positions, status : Status]]
      /\ calls'[c].pc = pc
      /\ \A d \in Thread : d # c => calls'[d] = calls[d]
  BY <1>1, CallMoves, OneRole DEF ManagerInv, Positions
<1> QED BY <1>2, <1>3, OneRole DEF ManagerInv, ManagerTyped, Single, Answers, BarrierHonoured, Works, Unaccepted

LEMMA FetchedStep == ASSUME ManagerInv, NEW c \in Thread, Fetched(c) PROVE ManagerInv'
<1>1. PICK status \in Status : calls' = [calls EXCEPT ![c] = [pc |-> "commit", status |-> status]]
  BY DEF Fetched, Status, ManagerInv, ManagerTyped
<1>2. /\ calls' \in [Thread -> [pc : Positions, status : Status]]
      /\ calls'[c].pc = "commit" /\ calls[c].pc = "check"
      /\ \A d \in Thread : d # c => calls'[d] = calls[d]
      /\ UNCHANGED <<mgr, install, serving>>
  BY <1>1 DEF ManagerInv, ManagerTyped, Positions, Fetched
<1> QED BY <1>2, OneRole DEF ManagerInv, ManagerTyped, Single, Answers, BarrierHonoured, Works, Unaccepted

LEMMA CommitStatusStep == ASSUME ManagerInv, NEW c \in Thread, CommitStatus(c) PROVE ManagerInv'
<1>1. PICK pc \in {"idle", "accept", "noop"} :
          CallGoes(c, pc) /\ (c \in Checker => pc = "idle") /\ (c \notin Checker => pc # "idle")
  BY DEF CommitStatus
<1>2. /\ calls' \in [Thread -> [pc : Positions, status : Status]]
      /\ calls'[c].pc = pc /\ calls[c].pc = "commit"
      /\ \A d \in Thread : d # c => calls'[d] = calls[d]
      /\ UNCHANGED <<install, serving>>
  BY <1>1, CallMoves DEF CommitStatus, ManagerInv, Positions
<1>3. /\ mgr' \in [status : Status, token : BOOLEAN, barrier : BOOLEAN]
      /\ mgr'.token = mgr.token /\ mgr'.barrier = mgr.barrier
  BY DEF CommitStatus, ManagerInv, ManagerTyped
<1> QED BY <1>1, <1>2, <1>3, OneRole DEF ManagerInv, ManagerTyped, Single, Answers, BarrierHonoured, Works, Unaccepted

\* Whoever takes the token finds nothing else in flight.
LEMMA BeginStep ==
    ASSUME ManagerInv, NEW c \in Thread \ Checker, BeginApply(c) PROVE ManagerInv'
<1>1. /\ calls' \in [Thread -> [pc : Positions, status : Status]]
      /\ calls'[c].pc = "check" /\ calls[c].pc = "idle"
      /\ \A d \in Thread : d # c => calls'[d] = calls[d]
      /\ UNCHANGED <<install, serving>>
  BY CallMoves DEF BeginApply, ManagerInv, Positions
<1>2. /\ mgr' \in [status : Status, token : BOOLEAN, barrier : BOOLEAN]
      /\ mgr'.token = TRUE /\ mgr'.barrier = mgr.barrier
  BY DEF BeginApply, ManagerInv, ManagerTyped
<1>3. ~mgr.token /\ (c \in Applier => serving = "up")
  BY DEF BeginApply, TokenFree
<1>4. install.pc = "none" /\ \A d \in Thread : ~Works(d)
  BY <1>3 DEF ManagerInv, Single
<1>5. ManagerTyped'
  BY <1>1, <1>2 DEF ManagerInv, ManagerTyped
<1>6. Single'
  BY <1>1, <1>2, <1>4 DEF Single, Works, Unaccepted
<1>7. Answers'
  BY <1>1, <1>2, <1>3, <1>4, OneRole DEF ManagerInv, Answers, Works, Unaccepted
<1>8. BarrierHonoured'
  BY <1>1, <1>4 DEF BarrierHonoured
<1> QED BY <1>5, <1>6, <1>7, <1>8 DEF ManagerInv

LEMMA BusyStep == ASSUME ManagerInv, StartupBusy PROVE ManagerInv'
<1>1. /\ calls' \in [Thread -> [pc : Positions, status : Status]]
      /\ calls'[Startup].pc = "done"
      /\ \A d \in Thread : d # Startup => calls'[d] = calls[d]
      /\ UNCHANGED <<mgr, install, serving>>
  BY CallMoves, OneRole DEF StartupBusy, ManagerInv, Positions
<1> QED BY <1>1, OneRole DEF ManagerInv, ManagerTyped, Single, Answers, BarrierHonoured, Works, Unaccepted

LEMMA FinishedTyped ==
    ASSUME ManagerTyped
    PROVE  Finished \in [status : Status, token : BOOLEAN, barrier : BOOLEAN]
  BY DEF ManagerTyped, Finished, Status

\* An apply that ends unaccepted was alone, so nothing needs the token any more.
LEMMA UnacceptedStep ==
    ASSUME ManagerInv, NEW c \in Thread, ApplyEndsUnaccepted(c) PROVE ManagerInv'
<1>1. PICK pc \in {"idle", "done"} : CallGoes(c, pc)
  BY DEF ApplyEndsUnaccepted, Over
<1>2. /\ calls' \in [Thread -> [pc : Positions, status : Status]]
      /\ calls'[c].pc = pc
      /\ \A d \in Thread : d # c => calls'[d] = calls[d]
      /\ UNCHANGED <<install, serving>>
  BY <1>1, CallMoves DEF ApplyEndsUnaccepted, ManagerInv, Positions
<1>3. Works(c) /\ mgr' \in [status : Status, token : BOOLEAN, barrier : BOOLEAN]
  BY FinishedTyped DEF ApplyEndsUnaccepted, ManagerInv, Works, Unaccepted
<1>4. install.pc = "none" /\ \A d \in Thread : Works(d) => d = c
  BY <1>3 DEF ManagerInv, Single
<1> QED BY <1>2, <1>3, <1>4, OneRole
        DEF ManagerInv, ManagerTyped, Single, Answers, BarrierHonoured, Works, Unaccepted

\* The barrier of an accepted request is up and its channel open.
LEMMA AcceptStep == ASSUME ManagerInv, NEW c \in Thread, Accept(c) PROVE ManagerInv'
<1> DEFINE pc == IF c = Startup THEN "done" ELSE "respond"
<1>1. c \notin Checker /\ Works(c) /\ pc \in Positions
  BY DEF Accept, ManagerInv, Answers, Works, Unaccepted, Positions
<1>2. /\ calls' \in [Thread -> [pc : Positions, status : Status]]
      /\ calls'[c].pc = pc
      /\ \A d \in Thread : d # c => calls'[d] = calls[d]
      /\ UNCHANGED serving
  BY <1>1, CallMoves DEF Accept, ManagerInv
<1>3. /\ mgr' \in [status : Status, token : BOOLEAN, barrier : BOOLEAN]
      /\ mgr'.token = mgr.token /\ mgr'.barrier = TRUE
  BY DEF Accept, SetBarrier, ManagerInv, ManagerTyped, Status
<1>4. /\ install' \in [pc : {"none", "barrier", "stop", "drain", "install"}, owner : Thread,
                       released : BOOLEAN, waited : BOOLEAN]
      /\ install'.pc = "barrier" /\ install'.owner = c /\ install'.released = (c = Startup)
  BY OneRole DEF Accept, NoInstall
<1>5. mgr.token /\ install.pc = "none" /\ \A d \in Thread : Works(d) => d = c
  BY <1>1 DEF ManagerInv, Single
<1>6. c \in Applier => serving = "up"
  BY <1>1 DEF ManagerInv, Answers
<1>7. \A d \in Thread : Works(d)' => FALSE
  BY <1>2, <1>5 DEF Works, Unaccepted
<1>8. ManagerTyped'
  BY <1>2, <1>3, <1>4 DEF ManagerInv, ManagerTyped
<1>9. Single'
  BY <1>3, <1>5, <1>7 DEF Single
<1>10. Answers'
  BY <1>1, <1>2, <1>3, <1>4, <1>5, <1>6, <1>7, OneRole DEF ManagerInv, Answers
<1>11. BarrierHonoured'
  BY <1>4 DEF BarrierHonoured
<1> QED BY <1>8, <1>9, <1>10, <1>11 DEF ManagerInv

LEMMA FlushStep == ASSUME ManagerInv, NEW c \in Thread, Flush(c) PROVE ManagerInv'
<1>1. /\ calls' \in [Thread -> [pc : Positions, status : Status]]
      /\ calls'[c].pc = "flushed" /\ calls[c].pc = "respond"
      /\ \A d \in Thread : d # c => calls'[d] = calls[d]
      /\ UNCHANGED <<mgr, install, serving>>
  BY CallMoves DEF Flush, ManagerInv, Positions
<1>2. c \in Applier
  BY <1>1, OneRole DEF ManagerInv, Answers
<1> QED BY <1>1, <1>2, OneRole DEF ManagerInv, ManagerTyped, Single, Answers, BarrierHonoured, Works, Unaccepted

\* The flush of another response comes only after the listener closed, so it releases
\* no barrier an answer still waits for.
LEMMA ResponseFlushedStep ==
    ASSUME ManagerInv, NEW c \in Thread, ResponseFlushed(c) PROVE ManagerInv'
<1>1. /\ calls' \in [Thread -> [pc : Positions, status : Status]]
      /\ calls'[c].pc = "idle" /\ calls[c].pc = "flushed"
      /\ \A d \in Thread : d # c => calls'[d] = calls[d]
      /\ UNCHANGED serving
  BY CallMoves DEF ResponseFlushed, ManagerInv, Positions
<1>2. /\ mgr' \in [status : Status, token : BOOLEAN, barrier : BOOLEAN]
      /\ mgr'.token = mgr.token
  BY DEF ResponseFlushed, ManagerInv, ManagerTyped
<1>3. /\ install' \in [pc : {"none", "barrier", "stop", "drain", "install"}, owner : Thread,
                       released : BOOLEAN, waited : BOOLEAN]
      /\ install'.pc = install.pc /\ install'.owner = install.owner /\ install'.waited = install.waited
  BY DEF ResponseFlushed, ManagerInv, ManagerTyped
<1>4. c \in Applier
  BY <1>1, OneRole DEF ManagerInv, Answers
<1>5. install.pc = "barrier" => calls[install.owner].pc # "respond"
  <2> SUFFICES ASSUME install.pc = "barrier", calls[install.owner].pc = "respond" PROVE FALSE
    OBVIOUS
  <2>1. install.owner # c /\ install.owner \in Thread
    BY <1>1 DEF ManagerInv, ManagerTyped
  <2>2. serving # "up"
    BY <1>1, <1>4, <2>1 DEF ManagerInv, Answers
  <2>3. install.owner \in Applier
    BY <2>1, OneRole DEF ManagerInv, Answers
  <2> QED BY <2>2, <2>3 DEF ManagerInv, Answers
<1>6. ManagerTyped'
  BY <1>1, <1>2, <1>3 DEF ManagerInv, ManagerTyped
<1>7. Single'
  BY <1>1, <1>2, <1>3, <1>4, OneRole DEF ManagerInv, Single, Works, Unaccepted
<1>8. /\ install.owner \in Thread
      /\ \/ calls'[install.owner].pc # "respond"
         \/ calls'[install.owner].pc = calls[install.owner].pc
  BY <1>1 DEF ManagerInv, ManagerTyped
<1>9. Answers'
  BY <1>1, <1>3, <1>4, <1>5, <1>8, OneRole DEF ManagerInv, Answers, Works, Unaccepted
<1>10. BarrierHonoured'
  BY <1>1, <1>3, <1>8 DEF ManagerInv, BarrierHonoured
<1> QED BY <1>6, <1>7, <1>9, <1>10 DEF ManagerInv

\* The pipeline goes on when its barrier is no more, so after the answer or the wait.
LEMMA AwaitStep == ASSUME ManagerInv, AwaitBarrier PROVE ManagerInv'
<1>1. /\ install' \in [pc : {"none", "barrier", "stop", "drain", "install"}, owner : Thread,
                       released : BOOLEAN, waited : BOOLEAN]
      /\ install.pc = "barrier" /\ install'.pc = "stop" /\ install'.owner = install.owner
      /\ install'.waited \/ calls[install.owner].pc # "respond"
      /\ UNCHANGED <<mgr, calls, serving>>
  BY DEF AwaitBarrier, InstallGoes, ManagerInv, ManagerTyped, Answers
<1> QED BY <1>1 DEF ManagerInv, ManagerTyped, Single, Answers, BarrierHonoured, Works, Unaccepted

\* The drain and the installation go on, or fail.
LEMMA PipelineStep ==
    ASSUME ManagerInv, Shutdown \/ Drained \/ ExitProcess \/ InstallFails
    PROVE  ManagerInv'
<1>1. UNCHANGED calls /\ serving' \in {"up", "draining", "down", "exited"} /\ (serving' = "up" => serving = "up")
  BY DEF Shutdown, Drained, ExitProcess, InstallFails, ManagerInv, ManagerTyped
<1>2. install.pc \in {"stop", "drain", "install"} /\ \A d \in Thread : ~Works(d)
  BY DEF Shutdown, Drained, ExitProcess, InstallFails, ManagerInv, Single
<1>3. mgr' \in [status : Status, token : BOOLEAN, barrier : BOOLEAN] /\ (mgr'.token = mgr.token \/ install'.pc = "none")
  BY FinishedTyped DEF Shutdown, Drained, ExitProcess, InstallFails, ManagerInv, ManagerTyped, InstallGoes, NoInstall
<1>4. /\ install' \in [pc : {"none", "barrier", "stop", "drain", "install"}, owner : Thread,
                       released : BOOLEAN, waited : BOOLEAN]
      /\ install'.pc \in {"none", "drain", "install"}
      /\ install'.pc # "none" => install'.owner = install.owner /\ install'.waited = install.waited
  <2>1. CASE InstallFails
    BY <2>1, OneRole DEF InstallFails, NoInstall
  <2>2. CASE Shutdown \/ Drained \/ ExitProcess
    <3>1. PICK pc \in {"none", "drain", "install"} : install' = [install EXCEPT !.pc = pc]
      BY <2>2 DEF Shutdown, Drained, ExitProcess, InstallGoes
    <3> QED BY <3>1 DEF ManagerInv, ManagerTyped
  <2> QED BY <2>1, <2>2
<1>5. serving' # "up"
  BY DEF Shutdown, Drained, ExitProcess, InstallFails, ManagerInv, Answers
<1>6. ManagerTyped'
  BY <1>1, <1>3, <1>4 DEF ManagerInv, ManagerTyped
<1>7. Single'
  BY <1>1, <1>2, <1>3, <1>4 DEF ManagerInv, Single, Works
<1>8. Answers'
  BY <1>1, <1>2, <1>4, <1>5, OneRole DEF ManagerInv, Answers, Works
<1>9. BarrierHonoured'
  BY <1>1, <1>2, <1>4 DEF ManagerInv, BarrierHonoured
<1> QED BY <1>6, <1>7, <1>8, <1>9 DEF ManagerInv

---------------------------------------------------------------------------
LEMMA ManagerInitially == ManagerInit => ManagerInv
  BY OneRole DEF ManagerInit, ManagerInv, ManagerTyped, Single, Answers, BarrierHonoured, Works, Unaccepted,
                 NoStatus, NoInstall, Status, Positions

LEMMA ManagerKept == ASSUME ManagerInv, [ManagerNext]_managerVars PROVE ManagerInv'
<1>1. CASE Pipeline
  BY <1>1, AwaitStep, PipelineStep DEF Pipeline
<1>2. ASSUME NEW c \in Thread, CallStep(c) PROVE ManagerInv'
  BY <1>2, FetchedStep, CommitStatusStep, UnacceptedStep, AcceptStep, FlushStep, ResponseFlushedStep,
     CheckerStep DEF CallStep, CheckFails
<1>3. ASSUME NEW c \in Checker, BeginCheck(c) \/ OpenStream(c) \/ CloseStream(c) PROVE ManagerInv'
  BY <1>3, CheckerStep
<1>4. ASSUME NEW c \in Thread \ Checker, BeginApply(c) PROVE ManagerInv'
  BY <1>4, BeginStep
<1>5. CASE StartupBusy
  BY <1>5, BusyStep
<1>6. CASE UNCHANGED managerVars
  BY <1>6 DEF managerVars, ManagerInv, ManagerTyped, Single, Answers, BarrierHonoured, Works
<1> QED BY <1>1, <1>2, <1>3, <1>4, <1>5, <1>6 DEF ManagerNext

LEMMA ManagerTypes == ManagerInv => ManagerTypeOK
  BY DEF ManagerInv, ManagerTyped, ManagerTypeOK, Status, Positions

\* At most one operation is in flight, and it holds the token.
LEMMA SingleIsOne == ASSUME ManagerInv PROVE OneOperation
<1> DEFINE working == {c \in Thread \ Checker : calls[c].pc \in {"check", "commit", "accept", "noop"}}
           flight == working \cup (IF install.pc = "none" THEN {} ELSE {"install"})
<1>1. \A c \in working : Works(c)
  BY DEF Works, Unaccepted
<1>2. \A x, y \in flight : x = y
  BY <1>1 DEF ManagerInv, Single, Works
<1>3. Cardinality(flight) <= 1
  <2>1. CASE flight = {}
    <3>1. Cardinality({}) = 0
      BY FS_EmptySet
    <3> QED BY <2>1, <3>1
  <2>2. CASE flight # {}
    <3>1. PICK x : x \in flight
      BY <2>2
    <3>2. flight = {x}
      BY <1>2, <3>1
    <3>3. Cardinality({x}) = 1
      BY FS_Singleton
    <3>4. Cardinality(flight) = Cardinality({x})
      BY <3>2
    <3> HIDE DEF flight
    <3> QED BY <3>3, <3>4
  <2> QED BY <2>1, <2>2
<1> QED BY <1>3 DEF OneOperation, ManagerInv, Single

\* One update operation at a time, and the server is not torn down before the client
\* that asked for it heard back or the wait for that is over.
THEOREM ApplyAnswered == ManagerSpec => []ApplySafe
<1>1. ManagerInv /\ [ManagerNext]_managerVars => ManagerInv'
  BY ManagerKept
<1>2. ManagerInv => ApplySafe
  BY SingleIsOne DEF ManagerInv, ApplySafe
<1> QED BY ManagerInitially, <1>1, <1>2, PTL DEF ManagerSpec

---------------------------------------------------------------------------
(* A taken token is never left behind: somebody works on the operation, or *)
(* the process handed over.                                                *)

TokenOwned ==
    mgr.token =>
        serving = "exited" \/ install.pc # "none" \/ \E c \in Thread : Works(c)

\* The steps of a check, of a page and of an answer, which leave the token and the pipeline.
LEMMA BesidesToken ==
    ASSUME ManagerInv, TokenOwned, NEW c \in Thread, NEW pc \in Positions,
           calls' \in [Thread -> [pc : Positions, status : Status]], calls'[c].pc = pc,
           \A d \in Thread : d # c => calls'[d] = calls[d],
           Works(c) => pc \in Unaccepted,
           mgr'.token = mgr.token, install'.pc = install.pc, UNCHANGED serving
    PROVE  TokenOwned'
  BY DEF TokenOwned, Works

LEMMA CallToken == ASSUME ManagerInv, TokenOwned, NEW c \in Thread, CallStep(c) PROVE TokenOwned'
<1>1. CASE Fetched(c)
  <2>1. PICK status \in Status : calls' = [calls EXCEPT ![c] = [pc |-> "commit", status |-> status]]
    BY <1>1 DEF Fetched, Status, ManagerInv, ManagerTyped
  <2>2. /\ calls' \in [Thread -> [pc : Positions, status : Status]]
        /\ calls'[c].pc = "commit" /\ "commit" \in Positions \cap Unaccepted
        /\ \A d \in Thread : d # c => calls'[d] = calls[d]
    BY <2>1 DEF ManagerInv, ManagerTyped, Positions, Unaccepted
  <2> QED BY <1>1, <2>2, BesidesToken DEF Fetched
<1>2. CASE CommitStatus(c)
  <2>1. PICK pc \in {"idle", "accept", "noop"} : CallGoes(c, pc) /\ (c \notin Checker => pc # "idle")
    BY <1>2 DEF CommitStatus
  <2>2. pc \in Positions /\ (Works(c) => pc \in Unaccepted)
    BY <2>1 DEF Positions, Works, Unaccepted
  <2>3. mgr'.token = mgr.token
    BY <1>2 DEF CommitStatus, ManagerInv, ManagerTyped
  <2> QED BY <1>2, <2>1, <2>2, <2>3, CallMoves, BesidesToken DEF CommitStatus, ManagerInv
<1>3. CASE ApplyEndsUnaccepted(c)
  BY <1>3 DEF ApplyEndsUnaccepted, Finished, ManagerInv, ManagerTyped, TokenOwned
<1>4. CASE Accept(c)
  BY <1>4 DEF Accept, NoInstall, TokenOwned
<1>5. CASE Flush(c) \/ ResponseFlushed(c)
  <2>1. PICK pc \in {"flushed", "idle"} : CallGoes(c, pc)
    BY <1>5 DEF Flush, ResponseFlushed
  <2>2. pc \in Positions /\ ~Works(c)
    BY <1>5 DEF Flush, ResponseFlushed, Positions, Works, Unaccepted
  <2>3. mgr'.token = mgr.token /\ install'.pc = install.pc /\ UNCHANGED serving
    BY <1>5 DEF Flush, ResponseFlushed, ManagerInv, ManagerTyped
  <2> QED BY <2>1, <2>2, <2>3, CallMoves, BesidesToken DEF ManagerInv
<1>6. CASE CheckFails(c)
  <2>1. "idle" \in Positions /\ ~Works(c)
    BY <1>6 DEF CheckFails, Positions, Works
  <2> QED BY <1>6, <2>1, CallMoves, BesidesToken DEF CheckFails, ManagerInv
<1> QED BY <1>1, <1>2, <1>3, <1>4, <1>5, <1>6 DEF CallStep

\* The pipeline owns the token until it gives it back, or the process exits.
LEMMA PipelineToken == ASSUME ManagerInv, TokenOwned, Pipeline PROVE TokenOwned'
<1>1. CASE InstallFails
  BY <1>1 DEF InstallFails, Finished, ManagerInv, ManagerTyped, TokenOwned
<1>2. CASE ExitProcess
  BY <1>2 DEF ExitProcess, TokenOwned
<1>3. CASE AwaitBarrier \/ Shutdown \/ Drained
  <2>1. install'.pc \in {"stop", "drain", "install"}
    BY <1>3 DEF AwaitBarrier, Shutdown, Drained, InstallGoes, ManagerInv, ManagerTyped
  <2> QED BY <2>1 DEF TokenOwned
<1> QED BY <1>1, <1>2, <1>3 DEF Pipeline

LEMMA TokenKept == ASSUME ManagerInv, TokenOwned, [ManagerNext]_managerVars PROVE TokenOwned'
<1>1. ASSUME NEW c \in Checker, BeginCheck(c) \/ OpenStream(c) \/ CloseStream(c) PROVE TokenOwned'
  <2>1. PICK pc \in {"check", "stream", "idle"} : CallGoes(c, pc) /\ UNCHANGED <<mgr, install, serving>>
    BY <1>1 DEF BeginCheck, OpenStream, CloseStream
  <2>2. c \in Thread /\ pc \in Positions /\ ~Works(c)
    BY OneRole DEF Positions, Works
  <2> QED BY <2>1, <2>2, CallMoves, BesidesToken DEF ManagerInv
<1>2. ASSUME NEW c \in Thread \ Checker, BeginApply(c) PROVE TokenOwned'
  <2>1. "check" \in Positions
    BY DEF Positions
  <2>2. Works(c)'
    BY <1>2, <2>1, CallMoves DEF BeginApply, Works, Unaccepted, ManagerInv
  <2> QED BY <2>2 DEF TokenOwned
<1>3. CASE StartupBusy
  <2>1. "done" \in Positions /\ ~Works(Startup) /\ Startup \in Thread
    BY <1>3, OneRole DEF StartupBusy, Positions, Works, Unaccepted
  <2> QED BY <1>3, <2>1, CallMoves, BesidesToken DEF StartupBusy, ManagerInv
<1>4. CASE UNCHANGED managerVars
  BY <1>4 DEF managerVars, TokenOwned, Works
<1> QED BY <1>1, <1>2, <1>3, <1>4, CallToken, PipelineToken DEF ManagerNext

\* The operation token is held only while an apply works on its operation, the pipeline
\* runs, or the process has handed over: finishOperation is reached on every way out, so
\* no early return leaves the updater busy for good.
THEOREM TokenNeverLeaks == ManagerSpec => []TokenOwned
<1>1. ManagerInit => TokenOwned
  BY DEF ManagerInit, TokenOwned
<1>2. ManagerInv /\ TokenOwned /\ [ManagerNext]_managerVars => ManagerInv' /\ TokenOwned'
  BY ManagerKept, TokenKept
<1> QED BY ManagerInitially, <1>1, <1>2, PTL DEF ManagerSpec
=============================================================================
