# FileList streaming service: verification project

TLA+ models of the Go server in `internal/`, the TLC runs that check them on small
instances and the theorems TLAPS proves about them for every instance. `PROJECT.json`
lists the components, the runs, the line map from definitions to code, the findings,
the hazards and the theorems; this file explains them.

## 1. The system

One process serves a household: it searches a tracker, adds torrents to a download
engine (an embedded client or qBittorrent), streams files while they download, keeps a
SQLite library, enforces a storage budget and updates itself. Everything below runs in
goroutines of that process: one per HTTP request, plus workers, a scheduler and the
desktop shell.

| component | state | operations | talks to |
| --- | --- | --- | --- |
| Managed downloads (`service.go`) | `downloads` rows (progress, leased, engine route), a map of mutexes | Prepare, PrepareSeason, Manage (pause, resume, retry, remove), Downloads (the polled list), Acquire, Release | repository, engine, tracker |
| Storage retention (`retention.go`) | none of its own: it surveys rows, engine and disk | RunRetention, ensureAllocationRoom, evictNext, removeTorrent | rows, engine, settings |
| Job dispatch (`service.go`) | `jobs` rows, three queues of 256, job and tracker slots, the pending set | SyncCatalog, QueueTitleRefresh, QueueTrackerSearch, ensureMetadata, RetryJob, retryDueJobs, recoverInterruptedJobs, the workers, the scheduler | tracker, TMDB, repository, event feed |
| Event feed and shutdown (`service.go`, `container.go`) | `event_journal`, subscriber channels of 32, the stopping flag, two wait groups | publish, SubscribeEvents, Events, App.Close, stopServing | every handler, worker and loop |
| Self-update transaction (`updates/recovery.go`, `install_*.go`) | a journal file under a lock, staged payload, backup, live executable | Prepare, Activate, Handoff, Acknowledge, Rollback, Recover | composition, a helper process |
| Self-update manager (`updates/manager.go`) | cached status, operation token, response barrier | Check, Apply, StartupApply, ResponseFlushed, the install pipeline | the pages, the transaction, the HTTP server |
| Release selection and staging (`updates/release.go`, `stage.go`) | the files of one apply | Resolve, StageArchive, Extract | release feed, the manager |
| Portal hub (`portal/hub.go`) | snapshot, expiry timer | Run and its cycle, the account operations | portal API, settings, event feed |
| Desktop supervisor and bindings (`gui`) | server state, the current directory, the relocation guard | Start, Stop, Restart, SaveSettings, ChangeDataDir | composition, the data directory |
| Single instance lock (`singleinstance`) | a lock file, a loopback listener | Acquire, Close | a second process |
| Settings stores (`platform/config`) | a file and, per store, the layers built from it | LoadAt, Save, PromptRequired, ResolveMediaTools | settings page, desktop bindings |
| Native engine (`nativetorrent`) | library, maps, session file, completion bits | Add, PrepareFiles, PrepareRange, Pause, Resume, Remove, the reload | swarm, disk |
| qBittorrent engine (`qbittorrent`) | the marks of prepared torrents, a mutex per torrent | the same calls as series of HTTP requests | qBittorrent |
| Streaming (`api.go`, `streaming.go`) | none | range parsing, waits for pieces, read-ahead, the media probe | engine |
| Subtitles (`subtitles.go`) | a cache directory and its rows | PrepareSubtitle, pruneSubtitleCache | providers, ffmpeg |
| Playback, favorites, catalog | rows | read-modify-write handlers, grouping of releases | repository |

What is hard about it: handlers hold copies of rows across engine requests and write
them back; an upsert rewrites columns the writer never meant to change; checks (lease,
budget, duplicate job) and the acts they guard are separate statements; removals touch
the engine first and the rows one by one later; a request may be cancelled between any
two of those; the process may die and start again on whatever the database then holds;
torrents disappear from qBittorrent behind the server's back; the update runs across
three processes that only share files.

What makes each part correct:

* Managed downloads: leases mean streams; removals and evictions spare what was streamed
  when they listed the rows;
  rows and torrents come and go together; the files of managed rows stay selected; a
  finished row has its data; every call returns.
* Retention: the Allocation is not exceeded by admissions; every excess is worked off.
* Jobs: no lookup runs twice at once; a job is forgotten only where the code drops it, in
  three places.
* Update transaction: whatever the crash point, the live path holds a bootable version, and an
  update is confirmed or rolled back, never both.
* Event feed: a live stream misses nothing from its subscription on; what the shutdown
  joins never meets a closed database.
* Update manager: one operation at a time, a server is not torn down under the client that
  asked for it, and the token comes back.
* Staging: a verified payload is one release, whole, for one installation.
* Hub: no change without an event, no promotions for a donor, no donor past the expiry.
* Desktop: the data directory moves alone, the server serves the directory the page shows,
  and a move that fails gives the server back.
* Settings: nothing the environment manages and no blanked secret reaches the file, and what
  is in effect is what the next start would load, as long as no other store saves past one.
* Native engine: a restart brings back what runs, and no completion bit outlives its data but
  that of a piece completed in the middle of a removal.
* qBittorrent: a preparation that reports success left the selection and both schedulers on.
* Streaming: every byte sent comes from a complete piece.
* Subtitles: the cache keeps to its limit and a prepared subtitle is whole.

## 2. Plan

| step | modules | composes / implements | question |
| --- | --- | --- | --- |
| 1 (done) | `ManagedDownloads`, `ManagedDownloadsProofs`, `Sums`, `MCManagedDownloads` | implements `StorageBudget` | section 3 |
| 2 (done) | `JobDispatch`, `JobDispatchProofs`, `MCJobDispatch` | | section 4: queues, duplicate checks, retries, restart, shutdown |
| 3 (done) | `UpdateTransaction`, `UpdateTransactionProofs`, `MCUpdateTransaction` | implements `InstalledVersion` | section 5: crash points, helper against acknowledgement, composition with the server loop |
| 4 (done) | `EventFeed`, `PortalHub`, `DesktopLifecycle`, `SettingsStore`, `UpdateManager`, `NativeEngine`, `QBittorrentEngine`, `StreamRange`, `ReleaseStaging`, `SubtitleCache`, `MCParts`, `EventFeedProofs`, `PortalHubProofs`, `UpdateManagerProofs`, `PartsProofs` | | section 6: the components that stand alone |
| 5 | `SingleInstance`, playback positions | | hand-over of the lock; read-modify-write of one row |
| 6 | `EvictionOrder`, `VersionOrder`, release-name grouping | operators against reference definitions | rule order is total, update order |
| 7 | proofs | | section 8: every safety property of a passing run, and the safety core of three of the liveness properties |

Every module declares its parameters as CONSTANTS, has one action per operation or step,
writes recursion as functions or folds, and keeps its invariants as conjunctions of named
parts, so that it can be proved about.

## 3. Managed downloads

`ManagedDownloads.tla` models the calls of `service.go` over the download rows and the
engine, with the survey and eviction of `retention.go`.

State. `managed`, `leased` and `complete` are the `downloads` table: which sources have
a row, and two of its columns. `engine`, `paused`, `selected` and `onDisk` are the
download engine and the download root. `call[r]` is the stack frame of goroutine `r`: the
operation, the statement it stands at and the local copies of rows (`rows`, `lease`,
`done`) it read earlier; those copies are where stale data lives. `plan` and `spared` are the
retention plan as it grows, and `seen` is history: who streamed what when the call listed the
rows it removes or evicts by. `load` is chosen in
`Init` and never changes: which operations each goroutine serves on which sources, which
faults may strike, the initial library and the Allocation. It lets one run check several
workloads and lets a property name the workload it is about.

Steps. A step is one repository statement, or one run of engine requests between two
statements. The calls map to the steps

* `Acquire`, `Inspect`, `SelectFiles`, `SaveManaged`, `SetLease`, `Release`: a stream or
  a media probe (`prepareManagedDownload` under the mutex `stream:<hash>`);
* `StartPrepare`, `FindDownload`, `AdoptSibling`, `SaveAdopted`, `SurveyRows`, `SampleRoute`,
  `Choose`, `AddTorrent`, `ListFiles`, `SelectFiles`, `RecordDownload`: `Prepare`;
* `StartSeason`, `FindSeason`, then the same steps and `RewriteRow`: `PrepareSeason`;
* `SurveyRows`, `SampleRoute` (one engine request per listed route), `Choose`: the survey of
  `retentionSurvey` and the decision of `evictNext`, whose lease and progress columns are as
  old as the list; `Remove`: the check of `Manage "remove"`; then `EngineRemove`,
  `ListForget`, `DeleteRow`, `Forgotten`: what both go on with, in the retention job, in
  `ensureAllocationRoom` and in a removal;
* `ListDownloads`, `RefreshRow`: the polled list;
* `Toggle`, `ListRoute`, `RewriteRow`: pause, resume and retry, which for a torrent the
  engine lost goes on as `ListForget` and then as `Prepare`;
* `FinishFile`, `Vanish`, `Fail`, `Crash`: the engine completes a file, a torrent
  disappears, a request is cancelled or fails at any statement, the process restarts.

Abstractions. The rule list that orders the eviction candidates is left open (any
candidate may be the victim), so everything holds for every rule list. `Kept` stands for
the torrents the favorites and never-watched toggles protect, a fixed set. A row is
refreshed in one step, with the engine answer it is saved with. A torrent claims its
bytes from the moment the engine knows it. `Incoming` is what `incomingTorrentBytes` reckons
with, `Size` what the engine reports later: two constants, as the code has two sources for
them. The free space is read with the choice, not between the requests. `engine.Remove`
always deletes the data, as every caller asks for, of a torrent the engine holds. A pack has one season, whose playable files are all the files of
the torrent; the automatic choice of a file (`fileIndex = -1`) is not modelled. A release
the tracker no longer hosts (`removeDeadRelease`) ends the call as any failure does. The
duplicate check of `RunRetention` belongs to job dispatch: here a goroutine is asked to
retain and does so.

`StorageBudget.tla` is what ADR-0004 promises of the stored content: items come and go
one at a time and one that does not fit is refused.

### Runs

The instance: a season pack `t1` of three episodes (two in the smaller runs) and a film
`t2`, sizes 2 and 1 (in `managed_safety` the admission reckons with 2 for each) and an
Allocation of 2 or 1, so each fits alone and both together do not; up to three goroutines, enough for two actors and the third that disturbs both.
Each goroutine serves one call after the other without limit. There is no bound but
these sets: rows, engine and calls are finite for them. Deadlock checking is off because
a workload ends where no goroutine has anything left that it is asked to do.

| run | checks | shows |
| --- | --- | --- |
| `managed_safety` | `TypeOK`, `LeaseExact`, `NoDanglingRow`, `NoOrphanTorrent`, `SelectionKeepsRows`, `CompleteHasData`, `VictimWasUnstreamed`, `BudgetSpec` | nine workloads: viewers next to removals, viewers next to an eviction, three removals at once, admission of files, of seasons and of both next to a viewer, selection, siblings of one torrent, and every operation with every fault |
| `managed_liveness` | `CallsEnd`, `LimitsRecur` | every call returns, the retention job works off every excess |
| `lease_lost` | `StreamingRouteLeased` (violated) | two requests for one source: the first to end clears the lease of the other |
| `cap_overflow` | `AdmissionFits` (violated) | two admissions at once overflow the Allocation |
| `rows_return` | `RowsForgotten` (violated) | a poll brings back the rows of a removed torrent |

Several promises hold only for the workloads their properties name, and the violated runs
show why. Leases are exact while no goroutine writes a row that another one streams: a
second request of the same source, a poll, a pause or a season call over a streamed pack
each write the leased column back from an older copy. The selection of a pack keeps what its
rows stream as long as no season call runs next to a stream of the pack (finding 18). Removals forget all rows as long as
only removals run. The budget holds when one goroutine adds at a time and no torrent is
larger than the admission reckoned with. `VictimWasUnstreamed` compares a removal or an
eviction with the streams of the moment its rows were listed: a stream that takes its lease
between that list and the removal is not spared (finding 19), and the property does not
claim it.

### Fairness

`FairSpec` assumes weak fairness of the steps of each goroutine (a call in flight is a
running goroutine; its statements and engine requests return, with a result or an error),
strong fairness of the steps that take a mutex (a Go mutex in starvation mode hands over
in arrival order) and weak fairness of the start of a retention run (the scheduler starts
one every hour). Nothing is assumed of clients: a stream may last for ever, a request may
never come.

## 4. Job dispatch

`JobDispatch.tla` models the background jobs of `service.go` from the call that submits
one to the row that records its end, with the scheduler, the restart recovery and the
shutdown that joins the workers.

State. `row` is the `jobs` table, the only part that survives a restart. The code reads
three columns of it (state, retryable flag, next attempt) in a few combinations only, and
`row` names these: `retry_wait` (rate limited), `transient` (failed, retryable, with a
next attempt), `lapsed` (the same without one), `failed` (not retryable). The flag of a
queued or running row is left out: `retryDueJobs` and `RetryJob` look at it on other rows
only. `queue` is the three buffered channels, `pending` the set `pendingMetadata`,
`jobSlots` and `trackerSlots` the elements in the two semaphore channels, `syncMu` the
mutex of the catalog. `sub[p]` is the submission that goroutine `p` executes (a request
handler, a worker that queues follow-up jobs, the scheduler), `run[w]` the job that worker
or catalog goroutine `w` executes, `sched` the scheduler's list of things to do. `left`
bounds a behaviour. `stranded` is history: the jobs that the code drops knowingly while
their row stays active (below).

Steps, in the order a job takes them:

* `Request`, `RetryJob`, `CheckMetadata` or `CheckRow`, `SaveQueued`, `Enqueue`,
  `RejectFull`: `EnsureMetadata`, `QueueTitleRefresh`, `QueueTrackerSearch`, `SyncCatalog`
  and `RetryJob`. The duplicate check, the row and the channel are separate steps, as no
  lock spans them; the metadata check and its flag are one step, as `metadataMu` does.
* `Spawn`, `LockSync`: the goroutine of `SyncCatalog` and its mutex. `Retain`,
  `FinishRetention`: `RunRetention`, which runs in its caller (what it removes is the
  subject of section 3).
* `Take`, `AcquireTracker`, `AcquireSlot`, `Abandon`, `Start`, `Answer`, `Expand`,
  `SaveResult`, `Unpend`, `Release`: a worker. `Answer` and `Expand` are the follow-up
  jobs of a search (a refresh of each title it found) and of a refresh (its metadata).
* `SchedList`, `SchedRecover`, `SchedRetry`, `SchedListed`, `SchedSubmit`, `Tick`: the
  recovery at start, the retries and the periodic jobs. A pass lists rows once and then
  writes from its copies.
* `Close`, `WorkerExit`, `SchedExit`, `CloseRepository`, `Restart`: the shutdown and the
  next process. A restart is possible in every state, which covers crashes.

Abstractions. Time is not modelled: any subset of the rows with a next attempt may be due
when they are listed, and a cached answer may be fresh or not. A row is written in the
order in which a pass lists it, which the model leaves open. The recovery saves a refresh
and queues it in one step, and the two semaphores and the mutex are released in one step:
the code has nothing between those statements that another goroutine could tell apart.
`EnsureMetadata` is called with one title. The repository fails where a context was
cancelled (the client of a handler has gone, or the service has stopped for a catalog
goroutine) and after it was closed; other database errors are not modelled. `SyncCatalog`
may still start a goroutine after the join, as nothing in the code prevents it.

Three places drop a job with an active row. A full queue whose caller has gone: the write of
the failed row uses the cancelled context. The recovery, when the refresh queue is full. And
the recovery again, which reads 500 rows (`RecoverLimit`), fewer than three queues of 256 and
the workers may leave behind: the rows past the limit keep the state of the dead process
(finding 21). `stranded` records those, so that `ActiveOwned` and `JobsEnd` state that there
is no fourth. `CheckLimit` is the 200 rows by which `SyncCatalog` and `RunRetention` decide
that none of theirs is active.

### Runs

| run | checks | shows |
| --- | --- | --- |
| `job_safety` | `TypeOK`, `MetadataOnce`, `PendingIsInFlight`, `GatesExact`, `ActiveOwned` | two handlers over one title, its refresh and a search, with a restart and a retry at any point |
| `job_liveness` | `GatesExact`, `JobsEnd`, `TrackerFreed` | refresh, metadata, catalog and retention jobs under fairness, with a shutdown at any point |
| `retry_lapses` | `RetryPromised` (violated) | a restart between clearing the due time and queueing the job ends the promised retries |

The bounds. One title and one search make every pair of kinds of job meet: duplicates are
duplicates of the same key, and different keys interact only through the queue, the slots
and the tracker, where a refresh, its metadata, a search and a catalog job already compete.
A check of one row and a recovery of two are limits that the three or four jobs of an
instance exceed.
A queue of capacity one is full with a single entry, and one job slot makes the worker and
the tracker goroutines wait for each other; larger values only make waiting rarer. Two
handlers are enough for a duplicate check to race another; the scheduler and the two
tracker workers are callers too. `MaxEvents` counts requests and ticks, `MaxRestarts` and
`MaxCloses` what their names say; `Failure` names the ways an attempt may fail in a run.
`JobDispatchAssumption` asks for finitely many workers and catalog goroutines, as a process
has, and for keys and goroutines of different kinds to differ. Handlers are interchangeable
in `job_safety`, so it uses their symmetry. Deadlock checking is off: a service without requests waits, and a closed one has stopped.

### Fairness

`FairSpec` assumes that the goroutines together make progress: while a submission, a
worker, a catalog goroutine or the scheduler has a step to take, one of them eventually
takes one. That is the least a scheduler gives (provider calls end, by their timeouts).
Requests, ticks, the shutdown and restarts need not happen. As the bounds allow only
finitely many of those, every behaviour is finite but for stuttering, and stronger
fairness of single goroutines would change nothing.

## 5. Self-update

`UpdateTransaction.tla` models one installation directory and everything that changes it:
the application processes that run from it, the update helper, and the files they share.

State. `live`, `backup` and `staged` are contents of paths, a content being the release it
belongs to (the code compares digests of files and the version of a bundle). `journal` is
the operation record of `.filelist-update.json`, `lock` the thread that holds the operation
lock, `proc[p]` a process with the image it was started from and two program counters:
`rec` for the recovery that follows readiness (or the transaction of a helper) and `app`
for the apply pipeline of `manager.go`. `op` and `mine` are the records these two threads
carry in memory. A process that ends frees its lock and leaves only the files. `late` says
which health deadlines have passed, `good` is history: the releases that served once.

`host` is chosen in `Init` and says what kind of installation this is: a POSIX or Windows
executable or a macOS bundle; `headless` (`serve`, whose main returns when the pipeline
shuts the server down) or the desktop application; `supervised` by systemd; `manual`
applies; `faulty`, where a restore may fail; the set `bad` of releases that never get
ready; and `fixture`, the build of the update fixture, the only one in the repository whose
main dispatches to `RunUpdateHelper` and acknowledges without the lock. The entry point of
the server does not, so the process a handoff starts is there a server like any other (POSIX)
or one that runs from a copy outside the installation (`stray`).

Steps.

* `Publish`, `Launch`, `Ready`, `DieEarly`: the release feed and the start of a process.
* `Open`, `Evaluate`, `Acknowledge`, `Restore`, `Record`, `Cleanup`, `Clear`, `AutoEnds`:
  `recoverPending` with `Recover`, `Rollback` and `Cleanup`, each durable change apart.
* `StartupApply`, `Apply`, `Drain`, `Stage`, `OpenForApply`, `Prepare`, `Backup`, `Swap`,
  `SaveActivated`, `Handoff`, `ExitProcess`: the apply pipeline; the platforms take these
  in different orders (`FirstStep`): Windows saves the activation first and leaves backup
  and swap to the helper, a bundle is exchanged and needs no backup. `ApplyFails`: any of
  them fails, the process lives on. `ServeReturns`: the main of a headless server ends the
  process once the pipeline has drained it, wherever the pipeline is.
* `WaitParent`, `HelperBackup`, `HelperSwap`, `LaunchNew`, `AwaitHealth`, `Relaunch`: the
  helper, which rolls back and cleans up with the steps of the recovery.
* `Note`, `Confirm`: the acknowledgement without the lock, two steps as it reads and saves.
* `DeadlinePasses`, `Crash`: time, and the end of a process at any point.

Abstractions. Choosing, downloading and verifying a release is one step that stages a
payload or fails: `ReleaseStaging` is that step in detail. The cached status, the response
barrier and the check cadence are in `UpdateManager` (section 6); the `--update` command is
left out. Journal saves are atomic, as the rename of a flushed file
is. A second server of one installation that finds the port or the instance lock taken is
not distinguished from one that is stopped. The helper's limits on waiting for its parent
are left out: the parent ends.

`InstalledVersion.tla` is what an update promises: releases replace each other in one
step, only over a proven one, and an unproven one is confirmed or gives way to the latest
proven one.

### Runs

| run | checks | shows |
| --- | --- | --- |
| `update_safety` | `TypeOK`, `Recoverable`, `RollbackRestores`, `InstalledSpec`, `SupervisedSettles` | two updates in a row with two crashes and one failed step on ten kinds of host |
| `bundle_rollback` | `BundleRestored` (violated) | a crash inside a bundle rollback brings the new release back |

`Recoverable` and `RollbackRestores` exclude bundles, for the reason `bundle_rollback`
shows. `InstalledSpec` maps the hosts outside its claim to an installation that never
changes: bundles, hosts whose restores fail, and the fixture build, in which a late
acknowledgement of the new release can overwrite the record of a rollback. Such a host
still has to satisfy the other properties.

The bounds. Three process slots hold an application, its helper and the application the
helper starts; a fourth could only wait for the lock or the port. Three releases and two
applies are the smallest instance in which an operation meets the leftovers of an earlier
one. Two crashes strike the operation and the recovery from it; one fault of a step or of a
restore is added to those. Deadlock checking is off: a desktop application that nobody
starts again stays stopped.

### Fairness

`FairSpec` assumes weak fairness of each process's recovery, apply and helper threads (a
running goroutine; its file operations return) and of starting a supervised service that is
not running (`Restart=always` in `deploy/systemd/filelist-streaming.service`). The passing
of a deadline, crashes, requests and unsupervised starts need not happen.

## 6. The components that stand alone

Ten components share so little state with the rest that each has a module of its own and
no composition. Each takes from the others what it is handed: an engine call that works or
fails, a server that starts or does not, a handler that calls whenever it likes.

### The event feed: `EventFeed.tla`

State: the rows of `event_journal` (`journal`), each publisher's place in `publish`
(`pubs`), each client's connection with its channel (`streams`), and how far the shutdown
is. `fanned`, the order of the fan-outs, is history. Steps: `Publish`, `AppendEvent`,
`FanOut` (the journal id is given before `eventMu` is taken, so fan-outs overtake each
other; a full subscriber is dropped and its channel closed), `Connect`, `Replay`,
`SubscribeEvents`, `Receive`, `Disconnect`, and both ways to stop: `AppClose` and
`JoinAndClose` join loops and workers, `StopServing` before an update handoff joins the
workers only. Handlers are joined by neither.

What the feed does not promise: ids in order, and events between the replay and the
subscription. `FeedDelivery` states what it does: a channel is closed once and never sent
on after, and a live stream delivers what was fanned out since its subscription without a
gap. `JoinedBeforeClose` says whom the closing of the database waits for.

### The portal hub: `PortalHub.tla`

State: the snapshot's fields (`hub`), the loop with the candidate of its cycle and the
expiry timer, the account operations of handlers, the supporter key. Steps: the cycle
statement by statement (`Begin`, `SettingsAndLinks`, `Account`, `Promote`, `Commit`, `Emit`,
`CycleNotice` under `Cycle`), `Hourly`, `Poll`, `ExpireDonor`, `Stop`, the handlers (`CallAccount`, `Observe`,
`EmitOutcome`) and time (`Tick`). The candidate is copied before several upstream calls and
committed over whatever a handler recorded meanwhile. Only the loop moves the settings
generation, so the generation check never fails and is left out.

`NoSilentChange`: whatever changed the snapshot, an event was made from it or a later one.
`DonorSeesNoAds`, `DonorExpires`. Fairness: weak of the cycle, whose calls have deadlines,
strong of the hourly timer, which nothing stops.

### The desktop: `DesktopLifecycle.tla`

State: the supervisor, the goroutine of each server it made, the directory and the guard
the bindings hold, the directories on disk, and the binding call each caller is in. Steps:
`Start`, `Stop`, `Restart`, the binding that saves the settings in its three steps
(`SaveSettings` takes the store, `WriteSettings` saves into it, `CheckState` may start the
server), `ChangeDataDir` from its guard
over the move to the commit or the resume, and the goroutine of a server from its
construction to its release, with a serve error at any time. A server that is gone frees
its identity, so `App` bounds those that exist at once. A server may leak when its close
gives up on the workers (`MaxLeaks`). A relocation that fails may leave a copy, whole or in
part, at its target (`CopiedInPart`); a save into a store whose directory has moved away makes
that directory anew.

`MoveAlone`, `ServesCurrentDir`, and the violated `ResumeRestores`.

### The settings: `SettingsStore.tla`

State: the file, its temporary sibling, and per store the environment of its process and its
layers; the document each page was served. There are several stores on one file: the desktop
process has one for the window and its bindings and one for each server it supervises, and a
headless server takes no lock. A required secret, a path and a plain field stand for the
keys. Steps, per store: `Load` (LoadAt, in an environment that may differ),
`PromptRequired`, `ResolveMediaTools`, `GetSettings` (redacted), `PutSettings` (with the
secret restored) and the end of a save, `FinishSave`, or `FailSave` when another store has
renamed the temporary file they share. `current` is history: the stores that were loaded or
saved since any other one saved.

`SaveKeeps` and `ReloadSame` relate the file, the layers and the document that travelled to
the page and back, of the stores in `current`. Of the others neither holds: a store that was
saved past keeps serving and writing back what it had loaded (finding 22).

### The update manager: `UpdateManager.tla`

State: the cached status, the token and the barrier (`mgr`), the pipeline (`install`), the
requests (`calls`), the HTTP server (`serving`). Steps: `BeginCheck`, `Fetched`,
`CheckFails`, `CommitStatus`, `BeginApply`, `Accept` or `ApplyEndsUnaccepted`,
`ResponseFlushed`, `OpenStream` and `CloseStream`, `StartupBusy`, and the pipeline:
`AwaitBarrier` (the flush or 30 s), `Shutdown` of the listener, `Drained` or timed out,
`ExitProcess` or `InstallFails`. The manager has one barrier field and a flush
names no operation, so `ApplySafe` (`OneOperation` and `BarrierHonoured`) is about requests crossing:
the server is not torn down before the client that asked heard back or the wait is over.
`OperationEnds`: the token returns or the process exits, although an open page may hold the
drain up to the timeout. Fairness: weak of the pipeline and of each request, all of whose
steps have timeouts; pages need not go away.

### The native engine: `NativeEngine.tla`

State: the library's torrent, the maps of the client, the session entries in memory, what
is on disk, and the call each goroutine is in, which looked the torrent up before it took
the lock. Steps: each call in its two or more sections, `Complete` and `Report` of the
library, `Restart`. `RestartRestores` (with `BitsHaveData` and `WindowExact`) compares disk,
memory and library between calls. A behaviour is followed until a save or an add fails, or
two changes overlap (`torn`): after either, the code itself keeps entries that agree with
nothing, and no document promises otherwise.

A removal clears the completion bits piece by piece (`ClearBits`) while the library still has
the torrent, and drops it afterwards (`Drop`). A piece that completes in between, after its
own bit was cleared, is marked again, and its bit outlives the data the removal deletes.
`late` names these pieces; `BitsHaveData` says that no other bit outlives its data, wherever
the removal stands or is cut off. The comment of `Remove` promises it of every bit
(finding 23).

### qBittorrent: `QBittorrentEngine.tla`

State: what qBittorrent holds of one torrent, the mark `ready`, the mutex, and the call of
each goroutine. Every request is a step that works, fails, or works and loses its answer
(`Command`). Flags can only be toggled, and a flag that is on is no proof that the edge
pieces are scheduled (`set`). `PreparedWhole` holds of a preparation not `disturbed` by an
add or a removal of its torrent meanwhile; `tainted` records that an earlier call of this
process failed or that a mark outlived its torrent, and then it promises the selection and
both flags but not the edge pieces (findings).

### Ranges: `StreamRange.tla`

State: the complete pieces, where the content lies (temp or final), and each reader's
range, position, chunk and path. Steps: `Request`, `Probe`, and `ReadStep`: path, wait,
open, copy; `CompletePiece` in any order and `MoveContent` at any moment.
`SentIsComplete` is arithmetic over file offset, piece size and growing chunks.

### Staging: `ReleaseStaging.tla`

State: the announcement and the release it is matched with, the selection, the files of
the apply, the archive rules, the extracted tree, the payload. Steps: `Resolve`,
`CreatePart`, `FinishPart`, `CreateDir`, `ExtractMember` (any member next), `EndOfArchive`,
`VerifyPayload`. `PayloadWhole` says what a verified payload is, that a failed apply removes
the extraction directory, and where members may lie.

Links are judged by their text (`CheckLinkTarget`), while members are written through the
links unpacked before. `Way` says where a member really lies (in its bundle, beside it, or
beyond the extraction directory) and over how many links it got there, `Leads` where a link
leads: where its text says, unless an earlier link is on the way. So a member can lie outside
its bundle, and be left behind by a failed apply, behind a link that passes through another
one, and `PayloadWhole` says in no other case (finding 24). The staged archive itself stays
after a failed extraction (`Discard`), and the next apply stages another.

### Subtitles: `SubtitleCache.tla`

State: the directory in order of modification time, with the content of each file (whole,
cut off, or prepared before cues were positioned), the rows, and each call. Steps:
`LookUp`, `ReadStamp`, `Restamp`, `FetchFails`, `WriteAsset`, `ListFiles`, `PruneOne`,
`SaveAsset`, `Return`, `Die`. A file being written counts no bytes, an unlinked file is gone
from the directory at once. `SubtitlesKept`: when the last call returns the cache is within
its limit or holds one file, unless a file was left or rewritten that no later prune saw
(`due`); a returned asset is whole, unless its file was written or pruned by another call
(`disturbed`) or an earlier write was cut off (`cut`).

### Runs

| run | checks | shows |
| --- | --- | --- |
| `parts` | `TypeOK` and the 16 properties above | the ten components, each in behaviours of its own |
| `resume_restores` | `ResumeRestores` (violated) | a relocation that fails does not give the server back |

In `MCParts`, `part` is chosen in `Init`, and a step is one of that
component while the variables of the others keep their initial value (`Only`): the state
space is the union of the ten, not their product, and nothing is said there of two of them
at once. It extends the modules that have theorems and instantiates the others, whose
properties it restates as `part = ... => ...`.

The bounds, and what each lets happen:

* desktop: two servers at once (an old one that is still closing under a new one), one
  goroutine that moves and one that does everything else, two directories (there and back);
* settings: two stores and two saves, of one store after the other or of both at once, of
  which one may be the page's and one the server's own; two environments, of which each
  manages what the other leaves alone;
* feed: one loop, one worker, one handler; a buffer and a replay of one are full with one
  event, three events overflow them, two connections of one client resume after a drop;
* portal: one account operation and one expiry that passes, next to the loop;
* manager: one page, the cadence, the startup apply and two competing requests, two
  operations, so the leftovers of one meet the next;
* engine and qBittorrent: two goroutines, two files;
* ranges: a file of 5 bytes at offset 1 over pieces of 2, first chunk 1 and read-ahead 3:
  it begins and ends inside pieces, chunks end inside and on the edge of pieces. One reader:
  readers share nothing but the pieces and the path;
* staging: six kinds of build, two versions (one a prerelease), three members, two bytes. A
  link, a link through it and a member behind both reach beyond the extraction directory. A
  payload that passes its verification and has such a member takes four members: that much
  of `PayloadWhole` rests on the proof alone;
* subtitles: two calls over two files of which one alone exceeds the cache. (With three
  files, 3.4 million states, checked once outside the listed runs, it holds too.)

What the proofs assume of these constants is stated in `MCParts`, with its reason:
`StoreAssumption`, environments set keys and the saves are counted; `DesktopAssumption`, one goroutine that moves the data directory, because the
page disables its button while a move runs (`ServerPage.tsx:179`, `:279`); the bindings do not
enforce it: their guard is a boolean (`bindings.go:424`), and of two moves at once the first to
return clears it under the second; `RangeAssumption`, a positive piece size and chunks of at
least one byte, as `api.go:1258` and the validation of the settings (`config.go:315`) ensure;
`StagingAssumption`, the limits of an archive are numbers; `SubtitleAssumption`, there are
finitely many assets, with sizes; `EngineAssumption` and `QBAssumption`, what the values of
two constants may be. The three components that `MCParts` extends state theirs themselves:
`FeedAssumption` and `TicksAssumption`, the sizes and bounds are numbers; `RolesAssumption`,
a goroutine checks, serves an apply request or is the startup sequence, each of which the
code starts as a goroutine of its own.

`resume_restores` runs the desktop alone. Deadlock checking is off: these services may stop
or be idle.

## 7. Findings

Shown by a run:

1. `lease_lost`: the lease is a boolean, not a count, so `routeLeased` can say a streamed
   torrent is idle, and the torrent can then be removed or evicted.
2. `cap_overflow`: `ensureAllocationRoom` and the `Add` it guards are not atomic and no
   mutex spans two releases.
3. `rows_return`: the polled list upserts what it listed, so rows deleted meanwhile come
   back without a torrent.
4. `retry_lapses`: `retryDueJobs` saves the row without its next attempt before it calls
   `RetryJob`; a restart in between, or an error of the second call, leaves a failed
   retryable row that no pass will list again.
5. `bundle_rollback`: the rollback of a bundle exchanges two directories and saves its phase
   afterwards. A crash in between leaves a restored bundle under an `activated` record; as
   no bundle is ever judged pristine, the next recovery exchanges once more, and the release
   that was being rolled back is live again under a record that says `rolled-back`.
6. `resume_restores`: a relocation that fails starts the server it stopped while its own
   guard, reset by a deferred statement only, still refuses every start.

Met while modelling, each with its place in a model and the line it contradicts in
`PROJECT.json`; the properties leave them out as they say:

7. `publish` checks the stopping flag before the write, so a handler in between writes to a
   closed repository (`service.go:521` says never).
8. `stopServing` closes the repository while the hub and the cadence still publish
   (`container.go:205`).
9. A check that built its status before an apply was accepted stores `applying: false` over
   it (`manager.go:344`).
10. A failed notice or resolution keeps the availability of the last check
    (`manager.go:307`).
11. An account call that succeeds does not bring back the surface an outage hid
    (`hub.go:492`).
12. An expiry that passes during a refresh arms no timer (`hub.go:316`).
13. A relative path saved while running is resolved against the working directory until the
    next start (`config.go:105`).
14. An archive member longer than it declares is cut off and accepted (`stage.go:534`).
15. A torrent steered before keeps its raised window over files that were deselected
    (`nativetorrent/client.go:464`).
16. A qBittorrent preparation that fails after it changed priorities leaves the mark of an
    earlier one, and the next does not reapply the schedulers (`qbittorrent/client.go:342`).
17. A preparation still running while its torrent is added again marks the new one as
    prepared (`qbittorrent/client.go:158`).
18. `PrepareSeason` takes no stream mutex (`service.go:1215`). It lists the rows of the pack,
    adds its season and steers the engine to what it listed (`service.go:1314`): an episode
    whose stream saved its row meanwhile is deselected while it is streamed.
    `SelectionKeepsRows` therefore speaks of workloads without such a pair. (No line of the
    repository says otherwise, so it is listed here only.)
19. A survey lists the rows with their leases (`retention.go:172`), then asks the engine about
    every route, and evicts by the old list: a stream that takes its lease in between is
    evicted under its viewer (`ARCHITECTURE.md:86`). `Manage "remove"` has the same window.
20. With qBittorrent the stored size of a torrent is that of its selected files, and another
    file of it is adopted without an admission check (`qbittorrent/client.go:231`,
    ADR-0004).
21. The recovery reads 500 rows (`service.go:591`), fewer than the queues and workers hold;
    those past the limit stay queued (`KNOWN_ISSUES.md:31`).
22. The desktop process holds two settings stores on one file (`runner.go:59`,
    `container.go:78`), each saved from what it loaded itself: a save of the stale one brings
    back old values (`container.go:75` says there is one store per process).
23. A piece that completes between the clearing of its bit and the drop of its torrent keeps
    a bit without data (`nativetorrent/client.go:620`; its line 600 says none is trusted).
24. A link is judged by its text while members are written through earlier links, so one may
    land outside the extraction directory (`stage.go:348`; its line 216 says never).

## 8. Proofs

Eight modules hold theorems about every value of the constants, under the assumptions that
the modules name beside their constants. One of them, `Sums`, is about sums over finite sets
and takes the weight as a constant operator, so each module that adds something up
instantiates it with its own weight. In the others, an inductive invariant (`...Inv`) is the
conjunction of the types with what the property silently depends on; one lemma per action
shows that the action keeps it, and the theorem combines them.

### Managed downloads (`ManagedDownloadsProofs.tla`)

* `TypeCorrect`: `TypeOK`, one lemma per action over lemmas on the operators the actions
  share.
* `LeasesExact`: `LeaseExact`. That a save writes no stale lease depends on what the saving
  call copied and on nobody else streaming the source. `LeaseInv` adds, for isolated
  workloads, that a call stands only at steps of its own operation, owns one of its
  goroutine's sources and carries an empty lease from the moment it may still save its row
  (`Served`). `Exclusive` turns ownership into "nobody else streams this source".
* `VictimsWereUnstreamed`: `VictimWasUnstreamed`. A survey records with its list who streamed
  what (`seen`); by `LeaseInv` the leases it read are those of these streams, and `SpareInv`
  carries them to the choice: the torrents of `seen` are among the spared ones, so no victim
  is one of them.
* `RemovalsForgetRows`: `NoDanglingRow`. A removal that finds a row gone gives up and leaves
  the rest to whoever deleted it. `RemovalInv` says that somebody has them: of the calls that
  remove a torrent one leads (`Leads`), with exactly the rows that are left on its list, and
  every other call is behind it in list order (`Removing`).
* `TorrentsHaveRows`: `NoOrphanTorrent`, for a goroutine that does anything next to others
  that stream (`Guest`). `Tending` says, at each of its steps, which torrent without a row it
  is about to finish (`Finishing`).
* `CompleteRowsBacked`: `CompleteHasData`. Rows that say complete may outlive a torrent that
  was lost; a torrent added again would then put a finished row in front of nothing. `DataInv`
  says that a call that adds a torrent has looked for its rows and found none (`Missed`) and
  carries no stale progress (`Fresh`).
* `RowsStaySelected`: `SelectionKeepsRows`. A stream replaces the selection by the rows it
  listed earlier. `KeepInv`: what it leaves out is only the row of the one goroutine that
  adds, and that one still waits for the stream mutex to select it itself (`Awaits`,
  `Beside`). A season call takes no such mutex; trying to prove its case is how finding 18
  came up.
* `AdmissionImplementsBudget`: the refinement of `StorageBudget`. `BudgetInv` says that a
  survey under way has counted or has still to ask about everything the engine holds
  (`Covers`), so that what it found fits is room until the torrent is added (`Room`). The engine's bytes are a fold over a
  set; `Sums` shows that they change by the size of one torrent, from the definition of the
  fold and a minimal element among the counterexamples, so no induction theorem with an
  operator parameter is needed.
* `MutexesNeverDeadlock`: `MutexSafe`, the safety core of `CallsEnd`. Every mutex has one
  holder (`HeldOnce`), and among the calls that wait some call in flight waits for none
  (`NoWaitCycle`). The holder of an outer mutex waits at most for a stream mutex and the
  holder of that for nothing, once it is known where a call of `Prepare` and of
  `PrepareSeason` can stand (`Nested`).

### Jobs (`JobDispatchProofs.tla`)

* `GatesAreExact`: `GatesExact`. That the semaphores equal cardinalities is nearly inductive;
  `GatesInv` adds where the kinds of goroutine can stand (`Placed`). Every move of a goroutine
  keeps what it holds, enters a set of holders or leaves one; the library's facts about
  cardinalities do the rest.
* `LookupOnce`, `PendingLives`: `MetadataOnce`, `PendingIsInFlight`. Counts are awkward to
  carry over a step, so `PendingInv` says where a lookup is: in the queue, with a worker or
  with a call, in one of the three at most and there once (`Alone`), and `pending` names the
  lookups that are somewhere (`Flights`). It needs that the jobs of the metadata queue are
  the metadata jobs; otherwise the end of a search could take a title out of the set.
  `InFlightCount` turns places back into the count.
* `JobTypes`: `TypeOK`, with what its clauses rest on: a goroutine at work has a job, the
  refresh queue and its worker hold refreshes, by which the title to look up is known, and
  the recovery is the first task of a process (`FirstOnly`).
* `RowsOwned`: `ActiveOwned`. `JobInv` restates "somebody works on it" without cardinalities
  (`Cared`: in a queue, held by a goroutine, in the hands of a call, or the recovery has it
  to come), and each action either moves a job from one of these places to the next, ends its
  row, or strands it.
* `JobsNeverStandStill`: `NoStandstill`, the safety core of `JobsEnd`. `syncMu`, the tracker
  slot and a job slot are taken in this order; by `GatesInv` a gate that nobody holds is open,
  so the last gate at which somebody stands has a holder past it or lets one in.

### Self-update (`UpdateTransactionProofs.tla`)

`UpdateInv` describes every state of an installation, whatever was cut off where: the lock
has one holder, and the steps between its opening and its release are those of the holder
(`Locked`); operation numbers are used once, so an artefact belongs to one operation
(`Numbered`); which threads of which build can stand where (`Placed`); the fixture build
updates once (`Once`); what the record says of the files (`Recorded`); and what each step of
the apply and of the recovery may rely on (`Applying`, `Recovering`). `Swapped`, the new release
live and the prior one under the backup of the same operation, and `Safe`, a release that
served or one whose stand-in is kept, are what the crash points have in common.

* `UpdateTypes`, `WayBack`, `RolledBack`: `TypeOK`, `Recoverable` and `RollbackRestores`.
* `UpdateImplementsInstalled`: the refinement of `InstalledVersion`. Besides `UpdateInv` it
  needs `Proven`: one process serves, the prior release of a pending operation is the latest
  proven one, and a process applies only what is later than its own image. A swap maps to
  `Install`, an acknowledgement to `Confirm`, a restored release to `Restore`, every other
  step to a stutter.

### The components of section 6

* `EventFeedProofs.tla`: `FeedDelivers` and `ClosesAfterJoin`. `StreamFaithful` speaks of
  subsequences, which the provers handle badly; `FeedInv` says the same by index (`Within`,
  `UpToDate`), with one lemma back to `SubSeq`. `Unclosed` is the bookkeeping of closes.
  `BoundsInv` types it: ids grow with the journal, a buffer keeps to its size.
* `PortalHubProofs.tla`: `NoAdsForDonors`; `HubInv` adds that the candidate is clean when the
  cycle reaches its commit, which follows from what every helper makes of a state.
  `ChangesPublished` (`NoSilentChange`): whoever changes the snapshot stands at its emission
  until an event was made of it (`EventInv`). `PortalInv` types it and bounds its counters.
* `UpdateManagerProofs.tla`: `ApplyAnswered`. `ManagerInv` adds that whatever works on an apply
  holds the token and is alone (`Single`) and that a request which still answers is the owner
  of the pipeline or the listener is closed already (`Answers`), so a flush that releases the
  barrier is that of the owner. `TokenNeverLeaks` (`TokenOwned`), the safety core of
  `OperationEnds`: while the token is taken an apply works, a pipeline runs or the process
  has handed over, so every way out of an apply reaches `finishOperation`.
* `PartsProofs.tla`, which extends the three modules above, about `MCParts` and the components
  it instantiates:
  * settings, `ReloadsSame` and `SavesKeepSecrets` (an action property): the layers of a
    current store are those a start would build from the file (`InStep`), and a save under
    way, of any store, has already put back what it must (`LayersFit`);
  * desktop, `RelocationsAlone` and `ServersFollow`: a call that moves holds the guard, one
    that closes is why the supervisor is stopping, at most one closes, at most one server is
    under construction and only while the supervisor is starting (`TasksFit`, `OneCloses`,
    `AppsFit`);
  * native engine, `RestartsRestore`: while nothing is torn, changes do not overlap (`Apart`),
    a call has the torrent it looked up (`Holding`), and library, maps, memory and disk differ
    only by what the call in progress has changed so far (`Agree`); the bits that are set have
    their data, are late, or belong to pieces a removal has still to clear (`Marks`);
  * ranges, `RangesComplete`: from monotonicity of integer division (`DivMonotonic`) to "the
    pieces between the first and the last of a chunk are complete, so each of its bytes is"
    (`ReadyBytes`), and that a chunk never passes the end of the range;
  * qBittorrent, `PreparationsWhole`: the mutex has one preparation (`Held`), which knows what
    it has done (`Progress`); the mark vouches for the edge pieces unless a preparation is
    about to set them again (`Vouched`, `Owes`); a torrent replaced meanwhile has no mark
    (`Replaced`);
  * staging, `PayloadsWhole`: the selection is what the manifest has for this build
    (`SelFits`), the members extracted so far were counted against the limits before they
    were written, each name once and inside its bundle by its text (`Counted`), a place elsewhere took
    more than one link (`Fair`), and a payload is set only from a tree that was verified
    (`Verified`). `PayloadWhole` sums the members of the tree;
    the code keeps a running count, and `Sums` relates the two;
  * subtitles, `SubtitlesAreKept`: a prune works from a listing that others have made stale.
    `SubtitleInv` says who answers for the size of the directory at any moment (`Accounted`):
    nobody has to, or a call that is still to list, or one whose prune sees every file but
    its own and weighs at least what is there (`Covers`, `Planned`), or `due` is set. It also
    says which files may be old or cut off (`Explained`) and what a call that nobody
    disturbed knows of its own file (`Sure`);
  * all of them, `PartsTyped`: `TypeOK` of the instance, from the invariants above, for the
    component that runs and for those that keep their initial state. Added to them: the mutex
    of a qBittorrent torrent is free or has a goroutine (`LockTyped`), and the subtitle
    directory lists each file once (`NamesCount`).

### What the proofs changed in the models

Nothing they showed broke a property, but they showed where a model said less than meant or
something else. Guards of `CASE` arms overlapped and are `IF`s now. `SUBSET X \ S` means
different things to the two tools, so it is parenthesised. Filters of literal task lists are
written as concatenations, and folds are extended rather than instantiated locally, so that
their definitions can be expanded. `Without` takes a file out of the subtitle directory by
its position: the recursive filter it used would have needed an induction. That no goroutine
is called like the free mutex is an assumption. `SelectionKeepsRows` states the workloads it
holds for.

### Only model-checked

Liveness: `CallsEnd`, `LimitsRecur`, `JobsEnd`, `TrackerFreed`, `OperationEnds`,
`DonorExpires`, `SupervisedSettles`. Temporal properties under fairness need ENABLED, which
is outside what the prover can do. Of the first, third and fifth the safety core is proved
for every value of the constants, stated in the proof modules: `MutexesNeverDeadlock`,
`JobsNeverStandStill` and `TokenNeverLeaks` say that what the waiting goroutines wait for is
always in the hands of one that can go on. That it does go on is what fairness adds and TLC
checks.

## 9. Not modelled

* Single instance lock (planned). `Acquire` probes, removes and listens in separate steps,
  and `Close` removes whatever lock file it finds, so a hand-over can lose the file of the
  successor; two processes and one file, next in the plan.
* Household playback and favorites (planned): last writer wins on one row, with no document
  that says which report should.
* Catalog and metadata: grouping of releases and parsing of their names, which is string
  processing. Its jobs are in `JobDispatch`, its refreshes are outcomes there.
* Outbound HTTP and the tracker client: a bounded retry loop, an outcome of a job.
* Media probe and anchors: external processes and byte formats.
* Desktop shell, tray, autostart; web, TV and desktop clients: user interfaces. The calls
  they make are actions of the models above.
* Left out of modelled components: SQL, HTTP encoding, the compatibility transcoder, the
  subtitle search, the cached portal notice, the `--update` command, and the BitTorrent
  protocol itself.
