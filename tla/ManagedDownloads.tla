-------------------------- MODULE ManagedDownloads --------------------------
(***************************************************************************)
(* Managed downloads of the streaming service: the durable download rows,  *)
(* the torrents of the download engine they point at, and the calls that   *)
(* run over both at the same time.                                         *)
(*                                                                         *)
(* A Source is one playable file of a torrent and has at most one row; the *)
(* rows of one torrent share its Engine route.  Every HTTP handler and the *)
(* retention job runs in a goroutine of its own, so a call is a sequence   *)
(* of atomic steps (one repository statement, or one run of engine         *)
(* requests between two statements) and any two calls interleave.          *)
(*   internal/application/service.go    Prepare, PrepareSeason, Manage,    *)
(*                                      Downloads, Acquire, Release        *)
(*   internal/application/retention.go  survey, protection, eviction       *)
(***************************************************************************)
EXTENDS Naturals, FiniteSetsExt

CONSTANTS
    Source,             \* playable files, numbered in the order ListDownloads returns their rows
    Torrent,            \* torrents behind the Engine routes (one per Release)
    TorrentOf,          \* [Source -> Torrent]
    Size,               \* [Torrent -> Nat], bytes of a torrent, what the engine's Status reports
    Incoming,           \* [Torrent -> Nat], bytes the admission of a torrent reckons with
    Request,            \* goroutines that serve calls
    Workload,           \* the workloads a behavior may meet, see Load
    Reserve,            \* free bytes to keep, 0 disables
    Capacity,           \* bytes the download volume holds
    ProtectIncomplete,  \* eviction protection toggles
    ProtectLeased,
    Kept                \* torrents the favorites and never-watched toggles protect

Operation == {"stream", "poll", "prepare", "season", "pause", "resume",
              "retry", "remove", "retain"}

\* What each goroutine is asked to do and for which sources, the faults that may
\* strike, the sources the initial library is drawn from, and the Allocation in
\* bytes that is configured (0 disables it).
Load == [may: [Request -> SUBSET Operation], asks: [Request -> SUBSET Source],
         faults: SUBSET {"fail", "vanish", "crash"}, library: SUBSET Source,
         allocation: Nat]

ASSUME ConstantsAssumption ==
    /\ Source \subseteq Nat /\ Source # {} /\ IsFiniteSet(Source)
    /\ Torrent # {} /\ TorrentOf \in [Source -> Torrent]
    /\ Size \in [Torrent -> Nat] /\ Incoming \in [Torrent -> Nat]
    /\ Workload \subseteq Load
    /\ Reserve \in Nat /\ Capacity \in Nat
    /\ ProtectIncomplete \in BOOLEAN /\ ProtectLeased \in BOOLEAN
    /\ Kept \subseteq Torrent

VARIABLES
    managed,   \* sources with a downloads row
    leased,    \* rows whose leased column is set
    complete,  \* rows whose progress column is 1
    engine,    \* torrents the download engine knows
    paused,    \* torrents the engine holds paused
    selected,  \* files the engine is asked to download
    onDisk,    \* files whose data is complete at its final path
    call,      \* [Request -> Call], the call each goroutine is serving
    load       \* the workload of this behavior, which never changes

rowVars == <<managed, leased, complete>>
engineVars == <<engine, paused, selected, onDisk>>
vars == <<managed, leased, complete, engine, paused, selected, onDisk, call, load>>

-----------------------------------------------------------------------------
(* Calls.                                                                  *)

PC == {"idle",
       "inspect", "select", "save", "lease", "streaming",      \* prepareManagedDownload, Acquire
       "prepare", "adopt", "adopted", "season",                \* the entries of Prepare, PrepareSeason
       "survey", "sample",                                     \* retentionSurvey
       "evict", "forget", "delete",                            \* removeTorrent
       "add", "files", "apply", "record",                      \* a new torrent
       "refresh", "list", "rewrite"}                           \* loops that write rows back

\* rows, lease and done are the local copies of database rows a goroutine
\* holds: the rows it still has to visit, those it read as leased and those it
\* read or computed as complete.  plan and spared are the retention plan: the
\* routes the engine described so far, and those protected by what was read.
\* seen is history, no step depends on it: the rows somebody streamed when the
\* call read the list its removal or eviction is decided on.
Call == [op: Operation \cup {"none"}, pc: PC, source: Source, victim: Torrent,
         rows: SUBSET Source, lease: SUBSET Source, done: SUBSET Source,
         plan: SUBSET Torrent, spared: SUBSET Torrent, seen: SUBSET Source]

FirstSource == CHOOSE s \in Source : TRUE

NoCall == [op |-> "none", pc |-> "idle", source |-> FirstSource,
           victim |-> TorrentOf[FirstSource], rows |-> {}, lease |-> {}, done |-> {},
           plan |-> {}, spared |-> {}, seen |-> {}]

May(r) == load.may[r]
Asks(r) == load.asks[r]
Allocation == load.allocation

Begin(r, op, pc, s) ==
    /\ op \in May(r)
    /\ call[r].pc = "idle"
    /\ call' = [call EXCEPT ![r] = [NoCall EXCEPT !.op = op, !.pc = pc, !.source = s,
                                                  !.victim = TorrentOf[s]]]

At(r, pc) == call[r].pc = pc
Goto(r, pc) == call' = [call EXCEPT ![r].pc = pc]
Return(r) == call' = [call EXCEPT ![r] = NoCall]

FilesOf(t) == {s \in Source : TorrentOf[s] = t}
RowsOf(t) == managed \cap FilesOf(t)
Route(r) == TorrentOf[call[r].source]

\* Seeded fault: the mutex is taken a second time by its own holder.
StreamLockedTwice(t) ==
    \E q \in Request : call[q].pc \in {"inspect", "select", "save"} /\ Route(q) = t

\* A goroutine inside prepareManagedDownload holds the mutex "stream:" + hash.
StreamLocked(t) ==
    \E q \in Request : call[q].pc \in {"select", "save"} /\ Route(q) = t

\* Prepare holds the mutex release:fileIndex, PrepareSeason release:season.
PrepareLocked(s) ==
    \E q \in Request : /\ call[q].op = "prepare" /\ call[q].source = s
                       /\ call[q].pc \notin {"idle", "prepare"}
SeasonLocked(t) ==
    \E q \in Request : /\ call[q].op = "season" /\ Route(q) = t
                       /\ call[q].pc \notin {"idle", "season"}

\* completedLocalFile: the copied row says complete and the file is there.
CompletedLocal(s, done) == s \in done /\ s \in onDisk

With(S, s, b) == IF b THEN S \cup {s} ELSE S \ {s}

\* SaveDownload upserts the row, the leased column included.
SaveDownload(s, lease, done) ==
    /\ managed' = managed \cup {s}
    /\ leased' = With(leased, s, lease)
    /\ complete' = With(complete, s, done)

First(S, s) == s \in S /\ \A u \in S : s <= u

Bytes(T) == MapThenSumSet(LAMBDA t : Size[t], T)

-----------------------------------------------------------------------------
(* Acquire and Release: a stream, or a media probe of a source.            *)

Acquire(r, s) ==
    /\ s \in managed
    /\ "stream" \in May(r) /\ At(r, "idle")
    /\ call' = [call EXCEPT ![r] =
         [NoCall EXCEPT !.op = "stream", !.source = s, !.victim = TorrentOf[s],
                        !.lease = leased \cap {s}, !.done = complete \cap {s},
                        !.pc = IF CompletedLocal(s, complete) THEN "lease" ELSE "inspect"]]
    /\ UNCHANGED <<rowVars, engineVars, load>>

\* Seeded fault: the lease of a deleted row is inserted instead of refused.
SetLeaseAnyway(r) ==
    /\ At(r, "lease")
    /\ leased' = leased \cup {call[r].source} /\ Goto(r, "streaming")
    /\ UNCHANGED <<managed, complete, engineVars, load>>

\* SetLease true; a row deleted meanwhile fails the acquisition.
SetLease(r) ==
    /\ At(r, "lease")
    /\ IF call[r].source \in managed
       THEN leased' = leased \cup {call[r].source} /\ Goto(r, "streaming")
       ELSE UNCHANGED leased /\ Return(r)
    /\ UNCHANGED <<managed, complete, engineVars, load>>

\* SetLease false on every way out of the handler; a missing row is ignored.
Release(r) ==
    /\ At(r, "streaming")
    /\ leased' = leased \ {call[r].source}
    /\ Return(r)
    /\ UNCHANGED <<managed, complete, engineVars, load>>

-----------------------------------------------------------------------------
(* prepareManagedDownload, under the stream mutex of the torrent.          *)

\* Seeded fault: the selection leaves the sibling rows out.
InspectOneFile(r) ==
    /\ At(r, "inspect") /\ ~StreamLocked(Route(r))
    /\ Route(r) \in engine
    /\ paused' = paused \ {Route(r)}
    /\ call' = [call EXCEPT ![r].pc = "select", ![r].rows = {call[r].source}]
    /\ UNCHANGED <<rowVars, engine, selected, onDisk, load>>

\* Status, Resume when paused, Files and the row list behind the selection.  A
\* complete file stays playable when the engine cannot describe its torrent.
Inspect(r) ==
    /\ At(r, "inspect")
    /\ ~StreamLocked(Route(r))
    /\ IF Route(r) \in engine
       THEN /\ paused' = paused \ {Route(r)}
            /\ call' = [call EXCEPT ![r].pc = "select",
                                    ![r].rows = RowsOf(Route(r)) \cup {call[r].source},
                                    ![r].done = FilesOf(Route(r)) \cap onDisk]
       ELSE /\ UNCHANGED paused
            /\ IF call[r].op = "stream" /\ CompletedLocal(call[r].source, call[r].done)
               THEN Goto(r, "lease")
               ELSE Return(r)
    /\ UNCHANGED <<rowVars, engine, selected, onDisk, load>>

\* PrepareFiles replaces the selection of the torrent and Status re-reads it;
\* the same two requests serve a new torrent.  A season call then writes a row
\* for every playable file of the pack.
SelectFiles(r) ==
    /\ call[r].pc \in {"select", "apply"}
    /\ LET t == Route(r)
           next == IF At(r, "select") THEN "save"
                   ELSE IF call[r].op = "season" THEN "rewrite" ELSE "record"
       IN IF t \in engine
          THEN /\ selected' = (selected \ FilesOf(t)) \cup call[r].rows
               /\ call' = [call EXCEPT ![r].pc = next,
                                       ![r].rows = IF next = "rewrite" THEN FilesOf(t) ELSE {}]
          ELSE UNCHANGED selected /\ Return(r)
    /\ UNCHANGED <<rowVars, engine, paused, onDisk, load>>

\* The row is saved from the copy read before the engine requests, with the
\* progress its file had when the files were listed.
SaveManaged(r) ==
    /\ At(r, "save")
    /\ LET s == call[r].source
       IN SaveDownload(s, s \in call[r].lease, s \in call[r].done)
    /\ IF call[r].op = "stream" THEN Goto(r, "lease") ELSE Return(r)
    /\ UNCHANGED <<engineVars, load>>

-----------------------------------------------------------------------------
(* Prepare and PrepareSeason.                                              *)

StartPrepare(r, s) ==
    /\ Begin(r, "prepare", "prepare", s)
    /\ UNCHANGED <<rowVars, engineVars, load>>

\* With the mutex held: FindDownload, then prepareManagedDownload on a row
\* that exists.
FindDownload(r) ==
    /\ At(r, "prepare")
    /\ LET s == call[r].source
       IN /\ ~PrepareLocked(s)
          /\ CASE s \notin managed -> call' = [call EXCEPT ![r].op = "prepare", ![r].pc = "adopt"]
               [] s \in managed /\ CompletedLocal(s, complete) -> Return(r)
               [] OTHER -> call' = [call EXCEPT ![r].op = "prepare", ![r].pc = "inspect",
                                                ![r].lease = leased \cap {s},
                                                ![r].done = complete \cap {s}]
    /\ UNCHANGED <<rowVars, engineVars, load>>

\* Seeded fault: the call stops in a step nobody serves.
AdmissionLost == "open"

\* A miss: ensureAllocationRoom unless the Allocation is off, then OpenTorrent.
AdmissionPC == IF Allocation = 0 THEN "add" ELSE "survey"

\* Seeded fault: sibling rows are not looked up.
AdoptNothing(r) ==
    /\ At(r, "adopt") /\ Goto(r, AdmissionPC)
    /\ UNCHANGED <<rowVars, engineVars, load>>

\* prepareExistingTorrentFile: a sibling row lends its torrent.
AdoptSibling(r) ==
    /\ At(r, "adopt")
    /\ CASE RowsOf(Route(r)) = {} -> Goto(r, AdmissionPC)
         [] RowsOf(Route(r)) # {} /\ Route(r) \in engine ->
              call' = [call EXCEPT ![r].pc = "adopted", ![r].lease = {},
                                   ![r].done = FilesOf(Route(r)) \cap onDisk]
         [] OTHER -> Return(r)
    /\ UNCHANGED <<rowVars, engineVars, load>>

SaveAdopted(r) ==
    /\ At(r, "adopted")
    /\ LET s == call[r].source
       IN /\ SaveDownload(s, FALSE, s \in call[r].done)
          /\ IF CompletedLocal(s, call[r].done) THEN Return(r) ELSE Goto(r, "inspect")
    /\ UNCHANGED <<engineVars, load>>

StartSeason(r, s) ==
    /\ Begin(r, "season", "season", s)
    /\ UNCHANGED <<rowVars, engineVars, load>>

FindSeason(r) ==
    /\ At(r, "season")
    /\ ~SeasonLocked(Route(r))
    /\ Goto(r, IF RowsOf(Route(r)) # {} THEN "files" ELSE AdmissionPC)
    /\ UNCHANGED <<rowVars, engineVars, load>>

\* OpenTorrent and engine.Add, which is idempotent for a known torrent.
AddTorrent(r) ==
    /\ At(r, "add")
    /\ engine' = engine \cup {Route(r)}
    /\ Goto(r, "files")
    /\ UNCHANGED <<rowVars, paused, selected, onDisk, load>>

\* Files of the engine and the row list behind the selection.
ListFiles(r) ==
    /\ At(r, "files")
    /\ LET t == Route(r)
           extra == IF call[r].op = "season" THEN FilesOf(t) ELSE {call[r].source}
       IN IF t \in engine
          THEN call' = [call EXCEPT ![r].pc = "apply", ![r].rows = RowsOf(t) \cup extra,
                                    ![r].done = FilesOf(t) \cap onDisk]
          ELSE Return(r)
    /\ UNCHANGED <<rowVars, engineVars, load>>

\* The new row carries no lease, whatever the row it replaces had.
RecordDownload(r) ==
    /\ At(r, "record")
    /\ SaveDownload(call[r].source, FALSE, call[r].source \in call[r].done)
    /\ Return(r)
    /\ UNCHANGED <<engineVars, load>>

-----------------------------------------------------------------------------
(* Survey, protection and eviction (ADR-0004).                             *)

\* Seeded fault: all rows of the route must be leased.
RouteLeasedAll(t) == \A s \in RowsOf(t) : s \in leased

RouteLeased(t) == RowsOf(t) \cap leased # {}

\* routeIncomplete in two parts: what the listed rows say, and what the Status of
\* the route says later.
RowsIncomplete(t) == \E s \in RowsOf(t) : s \notin complete
StatusIncomplete(t) == \E s \in FilesOf(t) \cap selected : s \notin onDisk

\* retentionProtected, as far as the listed rows and the household facts decide.
RowsProtect(t) ==
    \/ ProtectIncomplete /\ RowsIncomplete(t)
    \/ ProtectLeased /\ RouteLeased(t)
    \/ t \in Kept

\* Rows that somebody streams now.
Watched == {s \in managed : \E q \in Request : At(q, "streaming") /\ call[q].source = s}

CapTripped(stored) == Allocation > 0 /\ stored > Allocation

\* Free space of the volume: a torrent takes its bytes when the engine knows it
\* and until its data is deleted.
Occupying == {t \in Torrent : t \in engine \/ FilesOf(t) \cap onDisk # {}}
ReserveTripped == Reserve > 0 /\ Reserve + Bytes(Occupying) > Capacity

\* Seeded fault: the Reserve alone never evicts.
DeficitOfBoth(stored) == CapTripped(stored) /\ ReserveTripped

Deficit(stored) == CapTripped(stored) \/ ReserveTripped

StartRetention(r) ==
    /\ Begin(r, "retain", "survey", FirstSource)
    /\ UNCHANGED <<rowVars, engineVars, load>>

\* retentionSurvey lists the rows; the lease and progress columns are as old as
\* this statement when the victim is chosen.
SurveyRows(r) ==
    /\ At(r, "survey")
    /\ call' = [call EXCEPT ![r].pc = "sample", ![r].rows = managed, ![r].plan = {},
                            ![r].spared = {t \in Torrent : RowsProtect(t)}, ![r].seen = Watched]
    /\ UNCHANGED <<rowVars, engineVars, load>>

\* Seeded fault: a torrent counts only when its first row is complete.
SampleCompleteRoute(r) ==
    /\ At(r, "sample")
    /\ \E s \in call[r].rows :
         /\ First(call[r].rows, s)
         /\ LET t == TorrentOf[s]
                known == {t} \cap {u \in engine : s \in complete}
                busy == {u \in known : ProtectIncomplete /\ StatusIncomplete(u)}
            IN call' = [call EXCEPT ![r].rows = @ \ FilesOf(t), ![r].plan = @ \cup known,
                                    ![r].spared = @ \cup busy]
    /\ UNCHANGED <<rowVars, engineVars, load>>

\* One Status request per listed route; a route the engine cannot describe is
\* neither counted nor evicted.
SampleRoute(r) ==
    /\ At(r, "sample")
    /\ \E s \in call[r].rows :
         /\ First(call[r].rows, s)
         /\ LET t == TorrentOf[s]
                known == {t} \cap engine
                busy == {u \in known : ProtectIncomplete /\ StatusIncomplete(u)}
            IN call' = [call EXCEPT ![r].rows = @ \ FilesOf(t), ![r].plan = @ \cup known,
                                    ![r].spared = @ \cup busy]
    /\ UNCHANGED <<rowVars, engineVars, load>>

\* The survey is complete: the free space is probed, and ensureAllocationRoom or
\* runRetention decides on the deficit and picks a victim of the plan, of which
\* nothing is read again.  The rule list that orders the candidates is open.
Choose(r) ==
    /\ At(r, "sample") /\ call[r].rows = {}
    /\ LET admitting == call[r].op # "retain"
           stored == Bytes(call[r].plan) + (IF admitting THEN Incoming[Route(r)] ELSE 0)
           candidates == call[r].plan \ call[r].spared
       IN \/ /\ ~Deficit(stored)
             /\ IF admitting THEN Goto(r, "add") ELSE Return(r)
          \/ /\ Deficit(stored)
             /\ \E t \in candidates :
                  call' = [call EXCEPT ![r].pc = "evict", ![r].victim = t]
          \/ /\ Deficit(stored) /\ candidates = {}
             /\ IF admitting /\ ~CapTripped(stored) THEN Goto(r, "add") ELSE Return(r)
    /\ UNCHANGED <<rowVars, engineVars, load>>

\* Manage "remove": refused while the row list shows a lease on the torrent.
Remove(r, s) ==
    /\ s \in managed
    /\ ~RouteLeased(TorrentOf[s])
    /\ "remove" \in May(r) /\ At(r, "idle")
    /\ call' = [call EXCEPT ![r] = [NoCall EXCEPT !.op = "remove", !.pc = "evict", !.source = s,
                                                  !.victim = TorrentOf[s], !.seen = Watched]]
    /\ UNCHANGED <<rowVars, engineVars, load>>

\* Seeded fault: any error of engine.Remove is tolerated.
EngineRemoveOrNot(r) ==
    /\ At(r, "evict")
    /\ engine' \in {engine, engine \ {call[r].victim}}
    /\ Goto(r, "forget")
    /\ UNCHANGED <<rowVars, paused, selected, onDisk, load>>

\* removeTorrent: engine.Remove with the files; a torrent the engine does not
\* hold is tolerated, and its data stays.
EngineRemove(r) ==
    /\ At(r, "evict")
    /\ LET t == call[r].victim
       IN /\ engine' = engine \ {t}
          /\ paused' = paused \ {t}
          /\ selected' = selected \ FilesOf(t)
          /\ onDisk' = IF t \in engine THEN onDisk \ FilesOf(t) ELSE onDisk
    /\ Goto(r, "forget")
    /\ UNCHANGED <<rowVars, load>>

\* forgetEngineRows: list once, then delete row by row in list order.
ListForget(r) ==
    /\ At(r, "forget")
    /\ call' = [call EXCEPT ![r].pc = "delete", ![r].rows = RowsOf(call[r].victim)]
    /\ UNCHANGED <<rowVars, engineVars, load>>

\* Seeded fault: the rows are deleted in any order.
DeleteAnyRow(r) ==
    /\ At(r, "delete")
    /\ \E s \in call[r].rows :
         /\ managed' = managed \ {s} /\ leased' = leased \ {s} /\ complete' = complete \ {s}
         /\ IF s \in managed THEN call' = [call EXCEPT ![r].rows = @ \ {s}] ELSE Return(r)
    /\ UNCHANGED <<engineVars, load>>

\* DeleteDownload of a row that is gone is an error and ends the call.
DeleteRow(r) ==
    /\ At(r, "delete")
    /\ \E s \in call[r].rows :
         /\ First(call[r].rows, s)
         /\ managed' = managed \ {s}
         /\ leased' = leased \ {s}
         /\ complete' = complete \ {s}
         /\ IF s \in managed
            THEN call' = [call EXCEPT ![r].rows = @ \ {s}]
            ELSE Return(r)
    /\ UNCHANGED <<engineVars, load>>

\* removeTorrent returned: an eviction surveys again, a retry prepares again.
Forgotten(r) ==
    /\ At(r, "delete") /\ call[r].rows = {}
    /\ CASE call[r].op = "remove" -> Return(r)
         [] call[r].op = "retry" -> Goto(r, "prepare")
         [] OTHER -> Goto(r, "survey")
    /\ UNCHANGED <<rowVars, engineVars, load>>

-----------------------------------------------------------------------------
(* Downloads (the polled list) and Manage "pause", "resume", "retry".      *)

ListDownloads(r) ==
    /\ "poll" \in May(r) /\ At(r, "idle")
    /\ call' = [call EXCEPT ![r] = [NoCall EXCEPT !.op = "poll", !.pc = "refresh",
                                     !.rows = managed, !.lease = leased, !.done = complete]]
    /\ UNCHANGED <<rowVars, engineVars, load>>

\* Every listed row is saved back with fresh telemetry, or the listed progress
\* when the engine cannot describe its torrent.
RefreshRow(r) ==
    /\ At(r, "refresh")
    /\ \E s \in call[r].rows :
         /\ First(call[r].rows, s)
         /\ SaveDownload(s, s \in call[r].lease,
                         IF TorrentOf[s] \in engine THEN s \in onDisk ELSE s \in call[r].done)
         /\ call' = [call EXCEPT ![r].rows = @ \ {s}]
    /\ UNCHANGED <<engineVars, load>>

\* The engine request of Manage; retry of a torrent the engine lost forgets
\* its rows and prepares the source again.
Toggle(r, op, s) ==
    /\ s \in managed
    /\ IF TorrentOf[s] \in engine
       THEN /\ paused' = IF op = "pause" THEN paused \cup {TorrentOf[s]} ELSE paused \ {TorrentOf[s]}
            /\ Begin(r, op, "list", s)
       ELSE /\ op = "retry" /\ Begin(r, op, "forget", s)
            /\ UNCHANGED paused
    /\ UNCHANGED <<rowVars, engine, selected, onDisk, load>>

ListRoute(r) ==
    /\ At(r, "list")
    /\ call' = [call EXCEPT ![r].pc = "rewrite", ![r].rows = RowsOf(Route(r)),
                            ![r].lease = leased, ![r].done = complete]
    /\ UNCHANGED <<rowVars, engineVars, load>>

\* A row saved from the copy taken when the loop began.
RewriteRow(r) ==
    /\ At(r, "rewrite")
    /\ \E s \in call[r].rows :
         /\ First(call[r].rows, s)
         /\ SaveDownload(s, s \in call[r].lease, s \in call[r].done)
         /\ call' = [call EXCEPT ![r].rows = @ \ {s}]
    /\ UNCHANGED <<engineVars, load>>

Written(r) ==
    /\ call[r].pc \in {"refresh", "rewrite"} /\ call[r].rows = {}
    /\ Return(r)
    /\ UNCHANGED <<rowVars, engineVars, load>>

-----------------------------------------------------------------------------
(* The environment.                                                        *)

\* The engine finishes a selected file.
FinishFile(s) ==
    /\ s \in selected \ onDisk
    /\ TorrentOf[s] \in engine \ paused
    /\ onDisk' = onDisk \cup {s}
    /\ UNCHANGED <<rowVars, engine, paused, selected, call, load>>

\* A client disconnects, a statement or an engine request fails: the call
\* returns an error where it stands.  A stream returns through Release.
Fail(r) ==
    /\ "fail" \in load.faults
    /\ call[r].pc \notin {"idle", "streaming"}
    /\ Return(r)
    /\ UNCHANGED <<rowVars, engineVars, load>>

\* The torrent leaves the engine behind the service's back, its data stays.
Vanish(t) ==
    /\ "vanish" \in load.faults /\ t \in engine
    /\ engine' = engine \ {t}
    /\ paused' = paused \ {t}
    /\ selected' = selected \ FilesOf(t)
    /\ UNCHANGED <<rowVars, onDisk, call, load>>

\* The process dies and restarts: calls are gone, rows and engine stay.
Crash ==
    /\ "crash" \in load.faults
    /\ \E r \in Request : ~At(r, "idle")
    /\ call' = [r \in Request |-> NoCall]
    /\ UNCHANGED <<rowVars, engineVars, load>>

-----------------------------------------------------------------------------
\* A settled library: what a service that starts finds in its database.
Init ==
    /\ load \in Workload
    /\ managed \in SUBSET load.library
    /\ complete \in SUBSET managed
    /\ leased = {}
    /\ engine = {TorrentOf[s] : s \in managed}
    /\ paused = {}
    /\ selected = managed
    /\ onDisk = complete
    /\ call = [r \in Request |-> NoCall]

Start(r) ==
    \/ StartRetention(r)
    \/ ListDownloads(r)
    \/ \E s \in Asks(r) : \/ Acquire(r, s) \/ StartPrepare(r, s) \/ StartSeason(r, s)
                          \/ Remove(r, s) \/ \E op \in {"pause", "resume", "retry"} : Toggle(r, op, s)

\* What the goroutine of a call does on its own, a stream aside: that ends
\* when its client leaves.
Step(r) ==
    \/ SetLease(r) \/ Inspect(r) \/ SelectFiles(r) \/ SaveManaged(r)
    \/ FindDownload(r) \/ AdoptSibling(r) \/ SaveAdopted(r) \/ FindSeason(r)
    \/ AddTorrent(r) \/ ListFiles(r) \/ RecordDownload(r)
    \/ SurveyRows(r) \/ SampleRoute(r) \/ Choose(r)
    \/ EngineRemove(r) \/ ListForget(r) \/ DeleteRow(r) \/ Forgotten(r)
    \/ RefreshRow(r) \/ ListRoute(r) \/ RewriteRow(r) \/ Written(r)

Next ==
    \/ \E r \in Request : Start(r) \/ Step(r) \/ Release(r) \/ Fail(r)
    \/ \E s \in Source : FinishFile(s)
    \/ \E t \in Torrent : Vanish(t)
    \/ Crash

Spec == Init /\ [][Next]_vars

TakeLock(r) == FindDownload(r) \/ FindSeason(r) \/ Inspect(r)

\* A call in flight is a running goroutine, so it keeps taking its steps; a Go
\* mutex in starvation mode hands over in arrival order, so a waiter gets it;
\* the scheduler starts the retention job every hour.
Fairness ==
    \A r \in Request : WF_vars(Step(r)) /\ SF_vars(TakeLock(r)) /\ WF_vars(StartRetention(r))
FairSpec == Spec /\ Fairness

-----------------------------------------------------------------------------
(* Properties.                                                             *)

\* Every variable stays in its domain: rows only for sources, engine state only
\* for torrents, one call record per goroutine.
TypeOK ==
    /\ managed \subseteq Source /\ leased \subseteq Source /\ complete \subseteq Source
    /\ engine \subseteq Torrent /\ paused \subseteq Torrent
    /\ selected \subseteq Source /\ onDisk \subseteq Source
    /\ call \in [Request -> Call]
    /\ load \in Workload

Streaming(r, s) == At(r, "streaming") /\ call[r].source = s
InFlight(r) == call[r].pc \notin {"idle", "streaming"}
Quiescent == \A r \in Request : ~InFlight(r)

\* Workloads the promises depend on; load never changes.  No goroutine writes a
\* row that another one streams: those that stream or prepare own disjoint
\* sources, the others only remove or retain; no restart forgets a stream.
Viewer(r) == May(r) \cap {"stream", "prepare"} # {}
Isolated ==
    /\ "crash" \notin load.faults
    /\ \A r \in Request : May(r) \subseteq {"stream", "prepare", "remove", "retain"}
    /\ \A r, q \in Request : r # q /\ Viewer(r) /\ Viewer(q) => Asks(r) \cap Asks(q) = {}

\* All goroutines but one only serve operations of ops, and nothing fails.
Alone(ops) ==
    /\ load.faults = {}
    /\ \E r \in Request : \A q \in Request \ {r} : May(q) \subseteq ops

OnlyRemovals == load.faults = {} /\ \A r \in Request : May(r) \subseteq {"remove", "retain"}

\* No torrent ever leaves the engine, one goroutine adds rows, and it does not
\* prepare a season while another streams: PrepareSeason takes no stream mutex,
\* so a stream that listed the rows before the season call saved its own
\* deselects the episodes again.
OnlyAdditions ==
    /\ load.faults = {} /\ Allocation = 0
    /\ \A r \in Request : May(r) \cap {"remove", "retain"} = {}
    /\ \E r \in Request : \A q \in Request \ {r} :
          /\ May(q) \subseteq {"stream", "pause", "resume"}
          /\ "season" \in May(r) => "stream" \notin May(q)

\* While no row writer races a stream, the leased column is exactly the set of
\* managed rows somebody streams: prepareManagedDownload may save a row it
\* copied earlier and removeTorrent may delete it in the middle of the stream,
\* yet no lease is lost and none is left behind (Acquire, Release, SaveDownload).
LeaseExact == Isolated => leased = {s \in managed : \E r \in Request : Streaming(r, s)}

\* The comment of routeLeased: it "reports whether any pinned row is being
\* actively streamed", so a streamed row shows on its route.
StreamingRouteLeased ==
    \A r \in Request, s \in managed : Streaming(r, s) => RouteLeased(TorrentOf[s])

\* Manage and evictNext never take down a torrent that was streamed when they
\* listed the rows, sibling episodes included: the leased column they read is
\* true of the streams of that moment, through every row saved from an older
\* copy.  A stream that starts after the list was read is not spared.
VictimWasUnstreamed ==
    Isolated =>
    \A r \in Request :
        /\ call[r].pc \in {"evict", "forget", "delete"}
        /\ call[r].op # "remove" => ProtectLeased
        => \A s \in call[r].seen : TorrentOf[s] # call[r].victim

\* removeTorrent "forgets every Managed download row pinned to that route":
\* once all calls returned, no row points at a torrent the engine removed.
RowsForgotten == Quiescent => \A s \in managed : TorrentOf[s] \in engine

\* Removals keep that promise among themselves: when several of them run into
\* each other on one season pack, the one ahead deletes the rows the others
\* give up on, because all of them delete in the order of the list.
NoDanglingRow == OnlyRemovals => RowsForgotten

\* A Managed download is "a download this server created and tracks": once all
\* calls returned, the engine holds no torrent without a row.
NoOrphanTorrent == Alone({"stream"}) /\ Quiescent => \A t \in engine : RowsOf(t) # {}

\* The Allocation is the "cap on total bytes of the service's stored torrent
\* content": "a new download that cannot fit [...] is rejected [...] rather than
\* overflowing the cap" (ADR-0004).
AdmissionFits == [][\A t \in Torrent \ engine : t \in engine' => ~CapTripped(Bytes(engine'))]_vars

\* The same promise as an abstract specification, kept when one goroutine at a
\* time adds and removes and no torrent is larger than incomingTorrentBytes
\* says: what the engine holds changes one torrent at a time and
\* ensureAllocationRoom admits a torrent only when it fits.
Cap == IF Alone({"stream"}) /\ \A t \in Torrent : Size[t] <= Incoming[t]
       THEN Allocation ELSE 0
Budget == INSTANCE StorageBudget
            WITH Item <- Torrent, Bulk <- Size, shelf <- engine, cap <- Cap
BudgetSpec == Budget!Spec

\* managedTorrentIndices: every PrepareFiles keeps the files of the sibling
\* rows selected, so at rest each managed file is wanted or already complete.
SelectionKeepsRows ==
    OnlyAdditions /\ Quiescent =>
        \A s \in managed : TorrentOf[s] \in engine => s \in selected \cup onDisk

\* A row that says complete has its data while the engine knows its torrent:
\* a removal cut short, a torrent that vanished or a retry never leaves a
\* finished row in front of a torrent that is downloading again.
CompleteHasData ==
    (\E r \in Request : \A q \in Request \ {r} : May(q) = {}) =>
    \A s \in complete : TorrentOf[s] \in engine => s \in onDisk

\* Every call returns: the nested mutexes of Prepare never deadlock, eviction
\* loops end and a deleted row or a lost torrent ends a call with an error.
CallsEnd == \A r \in Request : InFlight(r) ~> ~InFlight(r)

\* What a survey that takes no time would count, and find unprotected.
Stored == {t \in engine : RowsOf(t) # {}}
Evictable == {t \in Stored : ~RowsProtect(t) /\ ~(ProtectIncomplete /\ StatusIncomplete(t))}

\* Retention works off an excess: again and again the stored content is within
\* the Allocation and the Reserve, or every torrent left is protected.
LimitsRecur ==
    (\E r \in Request : May(r) = {"retain"}) =>
    []<>(\/ ~CapTripped(Bytes(Stored)) /\ ~ReserveTripped
         \/ Evictable = {})

=============================================================================
