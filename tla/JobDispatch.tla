----------------------------- MODULE JobDispatch -----------------------------
(***************************************************************************)
(* The background jobs of the application service: persisted job rows,     *)
(* three bounded in-memory queues with their workers, the goroutines of    *)
(* the catalog synchronisation, the retention run, the scheduler with its  *)
(* restart recovery and automatic retries, the two semaphores every job    *)
(* takes, and the shutdown that joins them.                                *)
(*                                                                         *)
(* A row survives a restart; the queues, the pending set, the semaphores   *)
(* and every goroutine do not.  Most of what can go wrong here is a row    *)
(* and the memory that should be working on it drifting apart.             *)
(*                                                                         *)
(* Left out: progress, labels, attempts, logs, and a request's loop over   *)
(* several titles (one title per call).  The repository is taken to answer *)
(* every call except where a context was cancelled or it was closed.       *)
(***************************************************************************)
EXTENDS Integers, FiniteSets, Sequences

CONSTANTS
    MetadataJob,   \* job keys "metadata:<title>"
    RefreshJob,    \* job keys "catalog-title-refresh:<title>"
    SearchJob,     \* job keys "tracker-search:<query>"
    CatalogJob,    \* a subset of {"latest", "rebuild"}
    RetentionJob,  \* a subset of {"retention"}
    MetadataOf,    \* the metadata job of the title a refresh is about
    Handler,       \* request goroutines of the HTTP server
    MetaWorker,    \* the metadata worker goroutines
    Syncer,        \* bound: catalog goroutines that exist at once
    Slots,         \* capacity of jobSlots
    Failure,       \* how an attempt may fail; a bound
    QueueCap,      \* capacity of each queue (256 in the code)
    CheckLimit,    \* rows SyncCatalog and RunRetention look at (200 in the code)
    RecoverLimit,  \* rows the recovery looks at (500 in the code)
    MaxEvents, MaxRestarts, MaxCloses   \* bounds on a behaviour

Job == MetadataJob \cup RefreshJob \cup SearchJob \cup CatalogJob \cup RetentionJob
Queue == {"metadata", "refresh", "search"}
Refresher == "refresher"
Searcher == "searcher"
Scheduler == "scheduler"
Worker == MetaWorker \cup {Refresher, Searcher}
Runner == Worker \cup Syncer
Caller == Handler \cup {Refresher, Searcher, Scheduler}

ASSUME JobDispatchAssumption ==
    /\ Slots \in Nat \ {0} /\ QueueCap \in Nat \ {0}
    /\ CheckLimit \in Nat \ {0} /\ RecoverLimit \in Nat \ {0}
    /\ Failure \subseteq {"retry_wait", "transient", "failed"}
    /\ MaxEvents \in Nat /\ MaxRestarts \in Nat /\ MaxCloses \in Nat
    /\ CatalogJob \subseteq {"latest", "rebuild"}
    /\ RetentionJob \subseteq {"retention"}
    /\ MetadataOf \in [RefreshJob -> MetadataJob]
    /\ MetadataJob \cap (RefreshJob \cup SearchJob \cup CatalogJob \cup RetentionJob) = {}
    /\ RefreshJob \cap (SearchJob \cup CatalogJob \cup RetentionJob) = {}
    /\ SearchJob \cap (CatalogJob \cup RetentionJob) = {}
    /\ MetaWorker \cap {Refresher, Searcher} = {}
    /\ Syncer \cap Worker = {}
    /\ Handler \cap {Refresher, Searcher, Scheduler} = {}
    /\ IsFiniteSet(MetaWorker) /\ IsFiniteSet(Syncer)

VARIABLES
    row,           \* [Job -> Rows], durable
    queue,         \* [Queue -> sequence of jobs]
    pending,       \* pendingMetadata: metadata jobs queued or running
    jobSlots,      \* elements in the jobSlots channel
    trackerSlots,  \* elements in the trackerSlots channel
    syncMu,        \* holders of syncMu
    sub,           \* [Caller -> the job submission it is executing]
    run,           \* [Runner -> the job it is executing]
    sched,         \* the scheduler goroutine
    phase,         \* "up", "stopping" (Close called) or "closed"
    left,          \* requests and ticks (events), restarts, closes to come
    stranded       \* history: jobs the code dropped while their row is active

vars == <<row, queue, pending, jobSlots, trackerSlots, syncMu, sub, run, sched,
          phase, left, stranded>>
memory == <<queue, pending>>
gates == <<jobSlots, trackerSlots, syncMu>>

-----------------------------------------------------------------------------
(* Rows, frames and what they mean                                         *)

\* A row's state, retryable flag and next_attempt_at, as far as anybody reads
\* them: "retry_wait" and "transient" (failed, retryable) have a next attempt,
\* "lapsed" is failed and retryable without one, "failed" is not retryable.
Rows == {"none", "queued", "running", "completed", "retry_wait", "transient", "lapsed", "failed"}
Active(j) == row[j] \in {"queued", "running"}

\* The active rows of ListJobs with a limit: the running before the queued,
\* and both before the ended.  Among equals the newest come first, which is
\* left open.
FirstRows(limit) ==
    LET active == {j \in Job : Active(j)} IN
    {rows \in SUBSET active :
       /\ Cardinality(rows) <= limit /\ (rows = active \/ Cardinality(rows) = limit)
       /\ \A i \in rows : \A j \in active \ rows : row[j] = "running" => row[i] = "running"}

\* How an attempt ends: failOrWait tells a rate limit ("retry_wait") from a
\* transient error and from any other.
Outcome == Failure \cup {"completed"}

QueueOf(j) == IF j \in MetadataJob THEN "metadata"
              ELSE IF j \in RefreshJob THEN "refresh" ELSE "search"
NoSub == [pc |-> "idle", job |-> "none"]
NoRun == [pc |-> "idle", job |-> "none", todo |-> {}]

Saved(j, r) == row' = [row EXCEPT ![j] = r]
Submit(p, j, pc) == sub' = [sub EXCEPT ![p] = [pc |-> pc, job |-> j]]
SubGoto(p, pc) == sub' = [sub EXCEPT ![p].pc = pc]
EndSub(p) == sub' = [sub EXCEPT ![p] = NoSub]
RunGoto(w, pc) == run' = [run EXCEPT ![w].pc = pc]
EndRun(w) == run' = [run EXCEPT ![w] = NoRun]

\* The goroutines that talk to FileList, and so take the tracker slot first.
UsesTracker(w) == w \notin MetaWorker

\* The scheduler's work at start, and on each of its three tickers.
Listing == {"recover", "waiting", "transient"}
Configured(job) == IF job \in CatalogJob \cup RetentionJob THEN <<job>> ELSE <<>>
Boot == <<"recover", "waiting", "transient">> \o Configured("latest") \o Configured("retention")
Tickers == {<<"waiting">>, <<"transient">> \o Configured("latest") \o Configured("retention"),
            Configured("rebuild")}

Init ==
    /\ row = [j \in Job |-> "none"]
    /\ queue = [k \in Queue |-> <<>>] /\ pending = {}
    /\ jobSlots = 0 /\ trackerSlots = 0 /\ syncMu = {}
    /\ sub = [p \in Caller |-> NoSub] /\ run = [w \in Runner |-> NoRun]
    /\ sched = [alive |-> TRUE, tasks |-> Boot, listed |-> FALSE, todo |-> {}]
    /\ phase = "up" /\ stranded = {}
    /\ left = [events |-> MaxEvents, restarts |-> MaxRestarts,
               closes |-> MaxCloses]

-----------------------------------------------------------------------------
(* Submitting a job: EnsureMetadata, QueueTitleRefresh, QueueTrackerSearch,*)
(* SyncCatalog, RunRetention and RetryJob.  Each reads the row, saves it   *)
(* and hands the job over in separate steps, under no common lock.         *)

\* A handler calls one of them; no request arrives once the server is down.
Request(h) ==
    /\ phase = "up" /\ sub[h].pc = "idle"
    /\ \/ \E j \in Job \ RetentionJob : Submit(h, j, "check")
       \/ \E j \in Job : Submit(h, j, "retry")
    /\ left.events > 0 /\ left' = [left EXCEPT !.events = @ - 1]
    /\ UNCHANGED <<row, memory, gates, run, sched, phase, stranded>>

RetryJob(p) ==
    /\ sub[p].pc = "retry"
    /\ IF row[sub[p].job] \in {"completed", "transient", "lapsed", "failed"}
       THEN SubGoto(p, "force") ELSE EndSub(p)
    /\ UNCHANGED <<row, memory, gates, run, sched, phase, left, stranded>>

\* Seeded fault: a forced call does not look at the pending set.
CheckMetadataUnlessForced(p) ==
    LET j == sub[p].job IN
    /\ sub[p].pc \in {"check", "force"} /\ j \in MetadataJob
    /\ \/ /\ sub[p].pc = "check"
          /\ EndSub(p) /\ UNCHANGED pending
       \/ /\ sub[p].pc = "force" \/ j \notin pending
          /\ pending' = pending \cup {j} /\ SubGoto(p, "save")
    /\ UNCHANGED <<row, queue, gates, run, sched, phase, left, stranded>>

\* Unforced calls may find a fresh cached answer and end.
CheckMetadata(p) ==
    LET j == sub[p].job IN
    /\ sub[p].pc \in {"check", "force"} /\ j \in MetadataJob
    /\ \/ /\ sub[p].pc = "check" \/ j \in pending
          /\ EndSub(p) /\ UNCHANGED pending
       \/ /\ j \notin pending
          /\ pending' = pending \cup {j} /\ SubGoto(p, "save")
    /\ UNCHANGED <<row, queue, gates, run, sched, phase, left, stranded>>

\* A refresh and a search read their own row, the others a limited list.
CheckRow(p) ==
    LET j == sub[p].job
        Busy(rows) == IF j \in CatalogJob \cup RetentionJob THEN j \in rows
                      ELSE Active(j) \/ (j \in SearchJob /\ row[j] = "retry_wait")
        fresh == j \in RefreshJob /\ sub[p].pc = "check"
    IN /\ sub[p].pc \in {"check", "force"} /\ j \notin MetadataJob
       /\ \E rows \in FirstRows(CheckLimit) :
            \/ ((Busy(rows) \/ fresh) /\ EndSub(p))
            \/ (~Busy(rows) /\ SubGoto(p, "save"))
       /\ UNCHANGED <<row, memory, gates, run, sched, phase, left, stranded>>

\* SaveJob fails on a closed repository, and where the request's own context
\* is passed and the client has gone.
SaveMayFail(p) ==
    phase = "closed" \/ (p \in Handler /\ sub[p].job \notin CatalogJob \cup RetentionJob)

\* Seeded fault: an error of SaveJob leaves the pending flag.
SaveQueuedKeepsFlag(p) ==
    LET j == sub[p].job IN
    /\ sub[p].pc = "save"
    /\ \/ /\ phase # "closed" /\ Saved(j, "queued")
          /\ SubGoto(p, "enqueue")
       \/ /\ SaveMayFail(p)
          /\ EndSub(p) /\ UNCHANGED row
    /\ UNCHANGED <<memory, gates, run, sched, phase, left, stranded>>

SaveQueued(p) ==
    LET j == sub[p].job IN
    /\ sub[p].pc = "save"
    /\ \/ /\ phase # "closed" /\ Saved(j, "queued")
          /\ SubGoto(p, "enqueue") /\ UNCHANGED pending
       \/ /\ SaveMayFail(p) /\ pending' = pending \ {j}
          /\ EndSub(p) /\ UNCHANGED row
    /\ UNCHANGED <<queue, gates, run, sched, phase, left, stranded>>

\* The select with a default: the caller never waits for room.
Enqueue(p) ==
    LET j == sub[p].job
        k == QueueOf(j)
    IN /\ sub[p].pc = "enqueue" /\ j \notin CatalogJob \cup RetentionJob
       /\ \/ /\ Len(queue[k]) < QueueCap
             /\ queue' = [queue EXCEPT ![k] = Append(@, j)]
             /\ EndSub(p) /\ UNCHANGED pending
          \/ /\ Len(queue[k]) >= QueueCap
             /\ pending' = pending \ {j}
             /\ SubGoto(p, "full") /\ UNCHANGED queue
       /\ UNCHANGED <<row, gates, run, sched, phase, left, stranded>>

\* The queue was full: the row becomes failed, if that write succeeds.
RejectFull(p) ==
    LET j == sub[p].job IN
    /\ sub[p].pc = "full"
    /\ \/ (phase # "closed" /\ Saved(j, "failed") /\ UNCHANGED stranded)
       \/ (SaveMayFail(p) /\ stranded' = stranded \cup {j} /\ UNCHANGED row)
    /\ EndSub(p)
    /\ UNCHANGED <<memory, gates, run, sched, phase, left>>

\* SyncCatalog starts a goroutine of its own.
Spawn(p) ==
    /\ sub[p].pc = "enqueue" /\ sub[p].job \in CatalogJob
    /\ \E g \in Syncer :
         /\ run[g].pc = "idle"
         /\ run' = [run EXCEPT ![g] = [NoRun EXCEPT !.pc = "mutex", !.job = sub[p].job]]
    /\ EndSub(p)
    /\ UNCHANGED <<row, memory, gates, sched, phase, left, stranded>>

\* RunRetention runs in its caller, outside the two semaphores.
Retain(p) ==
    /\ sub[p].pc = "enqueue" /\ sub[p].job \in RetentionJob
    /\ IF phase = "closed" THEN UNCHANGED row
       ELSE Saved(sub[p].job, "running")
    /\ SubGoto(p, "retain")
    /\ UNCHANGED <<memory, gates, run, sched, phase, left, stranded>>

\* Seeded fault: the run returns without its last SaveJob.
FinishRetentionUnsaved(p) ==
    /\ sub[p].pc = "retain" /\ EndSub(p)
    /\ UNCHANGED <<row, memory, gates, run, sched, phase, left, stranded>>

FinishRetention(p) ==
    /\ sub[p].pc = "retain"
    /\ \E out \in Outcome :
         IF phase = "closed" THEN UNCHANGED row ELSE Saved(sub[p].job, out)
    /\ EndSub(p)
    /\ UNCHANGED <<memory, gates, run, sched, phase, left, stranded>>

SubStep(p) ==
    \/ RetryJob(p) \/ CheckMetadata(p) \/ CheckRow(p) \/ SaveQueued(p) \/ Enqueue(p)
    \/ RejectFull(p) \/ Spawn(p) \/ Retain(p) \/ FinishRetention(p)

-----------------------------------------------------------------------------
(* Running a job: the workers and the catalog goroutines.                  *)

Take(w, k) ==
    /\ run[w].pc = "idle" /\ queue[k] # <<>>
    /\ k = (IF w = Refresher THEN "refresh" ELSE IF w = Searcher THEN "search" ELSE "metadata")
    /\ run' = [run EXCEPT ![w].pc = IF UsesTracker(w) THEN "tracker" ELSE "slot",
                          ![w].job = Head(queue[k])]
    /\ queue' = [queue EXCEPT ![k] = Tail(@)]
    /\ UNCHANGED <<row, pending, gates, sub, sched, phase, left, stranded>>

LockSync(g) ==
    /\ run[g].pc = "mutex" /\ syncMu = {}
    /\ syncMu' = {g} /\ RunGoto(g, "tracker")
    /\ UNCHANGED <<row, memory, jobSlots, trackerSlots, sub, sched, phase, left, stranded>>

AcquireTracker(w) ==
    /\ run[w].pc = "tracker" /\ trackerSlots = 0
    /\ trackerSlots' = 1 /\ RunGoto(w, "slot")
    /\ UNCHANGED <<row, memory, jobSlots, syncMu, sub, sched, phase, left, stranded>>

\* Seeded fault: off by one.
AcquireSlotBeyond(w) ==
    /\ run[w].pc = "slot" /\ jobSlots <= Slots
    /\ jobSlots' = jobSlots + 1 /\ RunGoto(w, "start")
    /\ UNCHANGED <<row, memory, trackerSlots, syncMu, sub, sched, phase, left, stranded>>

AcquireSlot(w) ==
    /\ run[w].pc = "slot" /\ jobSlots < Slots
    /\ jobSlots' = jobSlots + 1 /\ RunGoto(w, "start")
    /\ UNCHANGED <<row, memory, trackerSlots, syncMu, sub, sched, phase, left, stranded>>

\* Seeded fault: the tracker slot is not given back.
AbandonKeeping(w) ==
    /\ phase # "up" /\ run[w].pc \in {"tracker", "slot"}
    /\ syncMu' = syncMu \ {w}
    /\ EndRun(w)
    /\ UNCHANGED <<row, memory, jobSlots, trackerSlots, sub, sched, phase, left, stranded>>

\* Shutdown while waiting for a slot: what was already taken is given back.
Abandon(w) ==
    /\ phase # "up" /\ run[w].pc \in {"tracker", "slot"}
    /\ trackerSlots' = IF run[w].pc = "slot" /\ UsesTracker(w) THEN 0 ELSE trackerSlots
    /\ syncMu' = syncMu \ {w}
    /\ EndRun(w)
    /\ UNCHANGED <<row, memory, jobSlots, sub, sched, phase, left, stranded>>

\* A catalog goroutine writes with the service's context, which Close cancels;
\* the workers write with a fresh one.
RunSaves(w) == IF w \in Syncer THEN phase = "up" ELSE phase # "closed"

Start(w) ==
    /\ run[w].pc = "start"
    /\ IF RunSaves(w) THEN Saved(run[w].job, "running") ELSE UNCHANGED row
    /\ RunGoto(w, "work")
    /\ UNCHANGED <<memory, gates, sub, sched, phase, left, stranded>>

\* A search queues a refresh for each title it found, a refresh the metadata
\* of its title, before their results are saved.
Answer(w) ==
    /\ run[w].pc = "work" /\ w \in {Refresher, Searcher}
    /\ \E found \in (IF w = Searcher THEN SUBSET RefreshJob ELSE {{MetadataOf[run[w].job]}}) :
         run' = [run EXCEPT ![w].pc = "expand", ![w].todo = found]
    /\ UNCHANGED <<row, memory, gates, sub, sched, phase, left, stranded>>

Expand(w) ==
    /\ run[w].pc = "expand" /\ sub[w].pc = "idle"
    /\ \E j \in run[w].todo :
         /\ Submit(w, j, "check")
         /\ run' = [run EXCEPT ![w].todo = @ \ {j}]
    /\ UNCHANGED <<row, memory, gates, sched, phase, left, stranded>>

\* The provider answered or failed, and the attempt's result is saved.
Ended(w, out) ==
    IF w \in {Refresher, Searcher}
    THEN \/ run[w].pc = "work" /\ out # "completed"
         \/ /\ run[w].pc = "expand" /\ run[w].todo = {} /\ sub[w].pc = "idle"
            /\ out = "completed"
    ELSE run[w].pc = "work"

SaveResult(w) ==
    /\ \E out \in Outcome :
         /\ Ended(w, out)
         /\ IF RunSaves(w) THEN Saved(run[w].job, out) ELSE UNCHANGED row
    /\ RunGoto(w, IF w \in MetaWorker THEN "unpend" ELSE "release")
    /\ UNCHANGED <<memory, gates, sub, sched, phase, left, stranded>>

\* Seeded fault: the worker returns before release.
UnpendAndReturn(w) ==
    /\ run[w].pc = "unpend"
    /\ pending' = pending \ {run[w].job} /\ EndRun(w)
    /\ UNCHANGED <<row, queue, gates, sub, sched, phase, left, stranded>>

Unpend(w) ==
    /\ run[w].pc = "unpend"
    /\ pending' = pending \ {run[w].job} /\ RunGoto(w, "release")
    /\ UNCHANGED <<row, queue, gates, sub, sched, phase, left, stranded>>

\* Seeded fault: release is called for a job without the tracker.
ReleaseJobSlot(w) ==
    /\ run[w].pc = "release"
    /\ jobSlots' = jobSlots - 1 /\ syncMu' = syncMu \ {w}
    /\ EndRun(w)
    /\ UNCHANGED <<row, memory, trackerSlots, sub, sched, phase, left, stranded>>

\* The job slot, the tracker slot and syncMu, in this order in the code.
Release(w) ==
    /\ run[w].pc = "release"
    /\ jobSlots' = jobSlots - 1
    /\ trackerSlots' = IF UsesTracker(w) THEN 0 ELSE trackerSlots
    /\ syncMu' = syncMu \ {w}
    /\ EndRun(w)
    /\ UNCHANGED <<row, memory, sub, sched, phase, left, stranded>>

WorkerExit(w) ==
    /\ phase = "stopping" /\ run[w].pc = "idle"
    /\ run' = [run EXCEPT ![w].pc = "gone"]
    /\ UNCHANGED <<row, memory, gates, sub, sched, phase, left, stranded>>

RunStep(w) ==
    \/ AcquireTracker(w) \/ AcquireSlot(w) \/ Abandon(w) \/ Start(w)
    \/ SaveResult(w) \/ Unpend(w) \/ Release(w)
WorkerStep(w) == (\E k \in Queue : Take(w, k)) \/ RunStep(w)

-----------------------------------------------------------------------------
(* The scheduler goroutine.                                                *)

SchedFree == sched.alive /\ sched.tasks # <<>> /\ sub[Scheduler].pc = "idle"
Task == Head(sched.tasks)

\* Somebody works on the job: a queue entry, a goroutine that has not written
\* its result, or a call about to hand it over.
Entries(k, j) == {i \in DOMAIN queue[k] : queue[k][i] = j}
Holding(j, pcs) == {w \in Runner : run[w].job = j /\ run[w].pc \in pcs}
Submitting(j, pcs) == {p \in Caller : sub[p].job = j /\ sub[p].pc \in pcs}
InHand(j) ==
    \/ \E k \in Queue : Entries(k, j) # {}
    \/ Holding(j, {"mutex", "tracker", "slot", "start", "work", "expand"}) # {}
    \/ Submitting(j, {"enqueue", "full", "retain"}) # {}

\* The rows a pass may find; of those with a next attempt, some are due.
Listed(task) ==
    CASE task = "recover" -> FirstRows(RecoverLimit)
      [] task = "waiting" -> SUBSET {j \in Job : row[j] = "retry_wait"}
      [] task = "transient" -> SUBSET {j \in Job : row[j] = "transient"}

\* The rows are read once; the writes of the pass use these copies.  There is
\* one recovery: an active row past its limit is nobody's work any more.
SchedList ==
    /\ SchedFree /\ Task \in Listing /\ ~sched.listed
    /\ \E jobs \in Listed(Task) :
         /\ sched' = IF jobs = {} THEN [sched EXCEPT !.tasks = Tail(@)]
                     ELSE [sched EXCEPT !.listed = TRUE, !.todo = jobs]
         /\ stranded' = IF Task # "recover" THEN stranded
                        ELSE stranded \cup {j \in Job \ jobs : Active(j) /\ ~InHand(j)}
    /\ UNCHANGED <<row, memory, gates, sub, run, phase, left>>

\* Seeded fault: the row is queued again, the request is not.
SchedRecoverRowOnly ==
    /\ SchedFree /\ Task = "recover" /\ sched.listed
    /\ \E j \in sched.todo :
         /\ sched' = [sched EXCEPT !.todo = @ \ {j}]
         /\ Saved(j, IF j \in RefreshJob THEN "queued" ELSE "transient")
    /\ UNCHANGED <<memory, gates, sub, run, phase, left, stranded>>

\* A refresh is queued again while there is room, or failed when its title
\* became excluded; every other interrupted job waits an hour.
SchedRecover ==
    /\ SchedFree /\ Task = "recover" /\ sched.listed
    /\ \E j \in sched.todo :
         /\ sched' = [sched EXCEPT !.todo = @ \ {j}]
         /\ \/ /\ Saved(j, IF j \in RefreshJob THEN "failed" ELSE "transient")
               /\ UNCHANGED <<queue, stranded>>
            \/ /\ j \in RefreshJob /\ Saved(j, "queued")
               /\ IF Len(queue["refresh"]) < QueueCap
                  THEN queue' = [queue EXCEPT !["refresh"] = Append(@, j)] /\ UNCHANGED stranded
                  ELSE stranded' = stranded \cup {j} /\ UNCHANGED queue
    /\ UNCHANGED <<pending, gates, sub, run, phase, left>>

\* retryDueJobs: the due time is cleared before the retry is attempted.
SchedRetry ==
    /\ SchedFree /\ Task \in {"waiting", "transient"} /\ sched.listed
    /\ \E j \in sched.todo :
         /\ sched' = [sched EXCEPT !.todo = @ \ {j}]
         /\ Saved(j, "lapsed") /\ Submit(Scheduler, j, "retry")
    /\ UNCHANGED <<memory, gates, run, phase, left, stranded>>

SchedListed ==
    /\ SchedFree /\ sched.listed /\ sched.todo = {}
    /\ sched' = [sched EXCEPT !.tasks = Tail(@), !.listed = FALSE]
    /\ UNCHANGED <<row, memory, gates, sub, run, phase, left, stranded>>

SchedSubmit ==
    /\ SchedFree /\ Task \notin Listing
    /\ Submit(Scheduler, Task, "check")
    /\ sched' = [sched EXCEPT !.tasks = Tail(@)]
    /\ UNCHANGED <<row, memory, gates, run, phase, left, stranded>>

SchedStep == SchedList \/ SchedRecover \/ SchedRetry \/ SchedListed \/ SchedSubmit

Tick ==
    /\ sched.alive /\ sched.tasks = <<>> /\ sub[Scheduler].pc = "idle"
    /\ \E tasks \in Tickers : tasks # <<>> /\ sched' = [sched EXCEPT !.tasks = tasks]
    /\ left.events > 0 /\ left' = [left EXCEPT !.events = @ - 1]
    /\ UNCHANGED <<row, memory, gates, sub, run, phase, stranded>>

SchedExit ==
    /\ phase = "stopping" /\ sched.alive
    /\ sched.tasks = <<>> /\ sub[Scheduler].pc = "idle"
    /\ sched' = [sched EXCEPT !.alive = FALSE]
    /\ UNCHANGED <<row, memory, gates, sub, run, phase, left, stranded>>

-----------------------------------------------------------------------------
(* Shutdown and restart.                                             *)

Close ==
    /\ phase = "up" /\ phase' = "stopping"
    /\ left.closes > 0 /\ left' = [left EXCEPT !.closes = @ - 1]
    /\ UNCHANGED <<row, memory, gates, sub, run, sched, stranded>>

\* wg.Wait returned: the workers, the scheduler and the catalog goroutines are
\* gone, and the repository is closed.  Past the deadline Close gives up
\* instead, and the process exits as in Restart.
CloseRepository ==
    /\ phase = "stopping" /\ ~sched.alive
    /\ \A w \in Worker : run[w].pc = "gone"
    /\ \A g \in Syncer : run[g].pc = "idle"
    /\ phase' = "closed"
    /\ UNCHANGED <<row, memory, gates, sub, run, sched, left, stranded>>

\* The process ends, in order or by a crash, and a new one starts.
Restart ==
    /\ queue' = [k \in Queue |-> <<>>] /\ pending' = {}
    /\ jobSlots' = 0 /\ trackerSlots' = 0 /\ syncMu' = {}
    /\ sub' = [p \in Caller |-> NoSub] /\ run' = [w \in Runner |-> NoRun]
    /\ sched' = [alive |-> TRUE, tasks |-> Boot, listed |-> FALSE, todo |-> {}]
    /\ phase' = "up" /\ stranded' = {}
    /\ left.restarts > 0 /\ left' = [left EXCEPT !.restarts = @ - 1]
    /\ UNCHANGED row

\* What the goroutines do on their own, once started.
Progress ==
    \/ \E p \in Caller : SubStep(p)
    \/ \E w \in Worker : WorkerStep(w)
    \/ \E g \in Syncer : LockSync(g) \/ RunStep(g)
    \/ \E w \in {Refresher, Searcher} : Answer(w) \/ Expand(w)
    \/ SchedStep

Next ==
    \/ Progress
    \/ \E h \in Handler : Request(h)
    \/ \E w \in Worker : WorkerExit(w)
    \/ Tick \/ SchedExit
    \/ Close \/ CloseRepository \/ Restart

Spec == Init /\ [][Next]_vars
FairSpec == Spec /\ WF_vars(Progress)

-----------------------------------------------------------------------------
(* Properties                                                              *)

PC == [sub |-> {"idle", "retry", "check", "force", "save", "enqueue", "full", "retain"},
       run |-> {"idle", "mutex", "tracker", "slot", "start", "work", "expand",
                "unpend", "release", "gone"}]

\* Every variable keeps its shape: rows hold the states of the schema, a queue
\* never exceeds its channel's capacity, and the counters stay in range.
TypeOK ==
    /\ row \in [Job -> Rows]
    /\ queue \in [Queue -> Seq(Job)] /\ pending \subseteq MetadataJob
    /\ jobSlots \in 0 .. Slots /\ trackerSlots \in 0 .. 1 /\ syncMu \subseteq Syncer
    /\ sub \in [Caller -> [pc : PC.sub, job : Job \cup {"none"}]]
    /\ run \in [Runner -> [pc : PC.run, job : Job \cup {"none"}, todo : SUBSET Job]]
    /\ sched \in [alive : BOOLEAN, tasks : Seq(Listing \cup CatalogJob \cup RetentionJob),
                  listed : BOOLEAN, todo : SUBSET Job]
    /\ phase \in {"up", "stopping", "closed"} /\ stranded \subseteq Job
    /\ left \in [events : 0 .. MaxEvents, restarts : 0 .. MaxRestarts,
               closes : 0 .. MaxCloses]
    /\ \A k \in Queue : Len(queue[k]) <= QueueCap

\* The lookup of one title is on its way at most once: of all the callers past
\* the check of pendingMetadata, the queue entries and the workers that have
\* taken one, there is a single one for each metadata job, and the pending set
\* names it.  The flag is set under a lock but the row, the queue and the
\* workers are not touched under it.
InFlight(j) ==
    Cardinality(Entries("metadata", j))
      + Cardinality(Holding(j, {"slot", "start", "work", "unpend"}))
      + Cardinality(Submitting(j, {"save", "enqueue"}))
MetadataOnce ==
    \A j \in MetadataJob : InFlight(j) <= 1 /\ (InFlight(j) = 1 => j \in pending)

\* A pending flag never outlives its request: one left behind would make every
\* later EnsureMetadata and RetryJob of that title a no-op until a restart.
PendingIsInFlight ==
    phase = "up" => \A j \in pending : InFlight(j) = 1

\* The semaphores count exactly the goroutines between acquire and release,
\* at most one of them on the tracker side, and only the holder of syncMu
\* is past it: no path loses or returns a slot twice.
HoldsTracker(w) == UsesTracker(w) /\ run[w].pc \in {"slot", "start", "work", "expand", "release"}
HoldsSlot(w) == run[w].pc \in {"start", "work", "expand", "unpend", "release"}
GatesExact ==
    /\ jobSlots = Cardinality({w \in Runner : HoldsSlot(w)})
    /\ trackerSlots = Cardinality({w \in Runner : HoldsTracker(w)})
    /\ syncMu = {g \in Syncer : run[g].pc \notin {"idle", "mutex"}}

\* A row that says queued or running is somebody's work or in the hands of the
\* recovery of the last restart.  Otherwise the job shows as active for ever,
\* and RetryJob and the Queue functions refuse to touch it.  The three places
\* where the code drops a job are recorded in stranded: a full queue whose
\* rejection is not saved, a full queue in the recovery, and the limit of the
\* rows the recovery reads.
Owned(j) ==
    \/ InHand(j)
    \/ /\ "recover" \in {sched.tasks[i] : i \in DOMAIN sched.tasks}
       /\ ~sched.listed \/ j \in sched.todo
ActiveOwned ==
    phase = "up" => \A j \in Job : Active(j) => Owned(j) \/ j \in stranded

\* docs/ARCHITECTURE.md: "Other transient failures are marked retryable and
\* retried automatically every hour."  Unless somebody is at work on it, a
\* failed retryable row therefore has a next attempt.
RetryPromised ==
    \A j \in Job :
        row[j] = "lapsed" => Owned(j) \/ Submitting(j, PC.sub \ {"idle"}) # {}

-----------------------------------------------------------------------------
(* Liveness.  Requests, ticks, Close and Restart need not happen; as long   *)
(* as some goroutine can move, one does (Progress).  The bounds make every *)
(* behaviour finite, so no goroutine needs more than that.                 *)

\* Every active job ends while the service is up: no queue, semaphore, mutex
\* or worker waits, directly or through the others, for itself.
JobsEnd ==
    \A j \in Job :
        (phase = "up" /\ Active(j)) ~> (phase # "up" \/ ~Active(j) \/ j \in stranded)

\* The one tracker slot always comes back, also when the service is closing.
TrackerFreed == (trackerSlots = 1) ~> (trackerSlots = 0)
=============================================================================
