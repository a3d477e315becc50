-------------------------- MODULE JobDispatchProofs --------------------------
(***************************************************************************)
(* For any jobs, handlers and queue lengths and any finite number of       *)
(* workers and catalog goroutines: the semaphores are exact (no path of a  *)
(* worker, a shutdown or a restart loses a slot or returns it twice), the  *)
(* lookup of a title is on its way at most once and pendingMetadata names  *)
(* exactly the lookups on their way, and every active row is the work of   *)
(* somebody.                                                               *)
(***************************************************************************)
EXTENDS JobDispatch, FiniteSetTheorems, SequenceTheorems, TLAPS

---------------------------------------------------------------------------
(* The semaphores.                                                         *)

SlotHolders == {w \in Runner : HoldsSlot(w)}
TrackerHolders == {w \in Runner : HoldsTracker(w)}

\* What a worker holds of its job is of no interest here.
Shaped == \E jobs, todos : run \in [Runner -> [pc : PC.run, job : jobs, todo : todos]]

\* Where the kinds of goroutines can be.
Placed ==
    \A w \in Runner :
        /\ run[w].pc = "tracker" => UsesTracker(w)
        /\ run[w].pc = "unpend" => ~UsesTracker(w)
        /\ run[w].pc = "mutex" => w \in Syncer
        /\ run[w].pc = "gone" => w \in Worker

GatesInv ==
    /\ Shaped /\ Placed
    /\ jobSlots \in Nat /\ trackerSlots \in {0, 1}
    /\ GatesExact

---------------------------------------------------------------------------
(* Goroutines and what they hold.                                          *)

LEMMA RunnerKinds ==
    /\ Worker \subseteq Runner /\ Syncer \subseteq Runner /\ Syncer \cap Worker = {}
    /\ MetaWorker \subseteq Worker /\ Refresher \in Worker /\ Searcher \in Worker
    /\ \A g \in Syncer : UsesTracker(g)
    /\ UsesTracker(Refresher) /\ UsesTracker(Searcher)
  BY JobDispatchAssumption DEF Runner, Worker, UsesTracker

LEMMA HoldersFinite ==
    IsFiniteSet(SlotHolders) /\ IsFiniteSet(TrackerHolders)
<1>1. IsFiniteSet({Refresher, Searcher})
  <2>1. IsFiniteSet({Refresher}) /\ IsFiniteSet({Searcher})
    BY FS_Singleton
  <2>2. {Refresher, Searcher} = {Refresher} \cup {Searcher}
    OBVIOUS
  <2> QED BY <2>1, <2>2, FS_Union
<1>2. IsFiniteSet(Worker)
  BY <1>1, FS_Union, JobDispatchAssumption DEF Worker
<1>3. IsFiniteSet(Runner)
  BY <1>2, FS_Union, JobDispatchAssumption DEF Runner
<1>4. SlotHolders \subseteq Runner /\ TrackerHolders \subseteq Runner
  BY DEF SlotHolders, TrackerHolders
<1> QED BY <1>3, <1>4, FS_Subset

\* One goroutine moves.
Moves(w, pc) ==
    /\ Shaped'
    /\ run'[w].pc = pc
    /\ \A v \in Runner : v # w => run'[v].pc = run[v].pc

LEMMA MovesTo ==
    ASSUME Shaped, NEW w \in Runner, NEW pc \in PC.run, NEW job, NEW todo,
           run' = [run EXCEPT ![w] = [pc |-> pc, job |-> job, todo |-> todo]]
    PROVE  Moves(w, pc)
<1>1. PICK jobs, todos : run \in [Runner -> [pc : PC.run, job : jobs, todo : todos]]
  BY DEF Shaped
<1>2. run \in [Runner -> [pc : PC.run, job : jobs \cup {job}, todo : todos \cup {todo}]]
  BY <1>1
<1>3. run' \in [Runner -> [pc : PC.run, job : jobs \cup {job}, todo : todos \cup {todo}]]
  BY <1>2
<1> QED BY <1>1, <1>3 DEF Moves, Shaped

LEMMA GotoMoves ==
    ASSUME Shaped, NEW w \in Runner, NEW pc \in PC.run, RunGoto(w, pc)
    PROVE  Moves(w, pc)
<1>1. PICK jobs, todos : run \in [Runner -> [pc : PC.run, job : jobs, todo : todos]]
  BY DEF Shaped
<1>2. run' \in [Runner -> [pc : PC.run, job : jobs, todo : todos]]
  BY <1>1 DEF RunGoto
<1>3. run'[w].pc = pc /\ \A v \in Runner : v # w => run'[v].pc = run[v].pc
  BY <1>1 DEF RunGoto
<1> QED BY <1>2, <1>3 DEF Moves, Shaped

LEMMA EndMoves ==
    ASSUME Shaped, NEW w \in Runner, EndRun(w)
    PROVE  Moves(w, "idle")
<1>1. run' = [run EXCEPT ![w] = [pc |-> "idle", job |-> "none", todo |-> {}]]
  BY DEF EndRun, NoRun
<1>2. "idle" \in PC.run
  BY DEF PC
<1> QED BY <1>1, <1>2, MovesTo

---------------------------------------------------------------------------
(* Holders.                                                                *)

\* A move between positions that hold the same leaves the gates exact.
LEMMA SameHolders ==
    ASSUME GatesInv, NEW w \in Runner, NEW pc \in PC.run, Moves(w, pc),
           (pc \in {"start", "work", "expand", "unpend", "release"}) = HoldsSlot(w),
           (UsesTracker(w) /\ pc \in {"slot", "start", "work", "expand", "release"}) = HoldsTracker(w),
           w \in Syncer => (pc \in {"idle", "mutex"} <=> run[w].pc \in {"idle", "mutex"}),
           pc = "tracker" => UsesTracker(w), pc = "unpend" => ~UsesTracker(w),
           pc = "mutex" => w \in Syncer, pc = "gone" => w \in Worker,
           UNCHANGED gates
    PROVE  GatesInv'
<1>1. SlotHolders' = SlotHolders /\ TrackerHolders' = TrackerHolders
  BY DEF Moves, SlotHolders, TrackerHolders, HoldsSlot, HoldsTracker
<1>2. {g \in Syncer : run[g].pc \notin {"idle", "mutex"}}' = {g \in Syncer : run[g].pc \notin {"idle", "mutex"}}
  BY RunnerKinds DEF Moves
<1>3. Placed'
  BY DEF GatesInv, Placed, Moves
<1> QED BY <1>1, <1>2, <1>3 DEF GatesInv, GatesExact, SlotHolders, TrackerHolders, gates, Moves

\* A step that moves no goroutine of a job.
LEMMA OtherStep ==
    ASSUME GatesInv, UNCHANGED <<gates, run>> PROVE GatesInv'
  BY DEF GatesInv, Shaped, Placed, GatesExact, gates, HoldsSlot, HoldsTracker

---------------------------------------------------------------------------
(* Steps.                                                                  *)

LEMMA SubmissionStep == ASSUME GatesInv, NEW p \in Caller, SubStep(p) PROVE GatesInv'
<1>1. CASE Spawn(p)
  <2>1. PICK g \in Syncer : run[g].pc = "idle" /\ run' = [run EXCEPT ![g] = [NoRun EXCEPT !.pc = "mutex", !.job = sub[p].job]]
    BY <1>1 DEF Spawn
  <2>3. g \in Runner /\ "mutex" \in PC.run
    BY RunnerKinds DEF PC
  <2>4. Moves(g, "mutex")
    <3> DEFINE new == [NoRun EXCEPT !.pc = "mutex", !.job = sub[p].job]
    <3>1. PICK jobs, todos : run \in [Runner -> [pc : PC.run, job : jobs, todo : todos]]
      BY DEF GatesInv, Shaped
    <3>2. new \in [pc : PC.run, job : {sub[p].job}, todo : {{}}] /\ new.pc = "mutex"
      BY <2>3 DEF NoRun
    <3>3. run' = [run EXCEPT ![g] = new]
      BY <2>1
    <3> HIDE DEF new
    <3>4. run' \in [Runner -> [pc : PC.run, job : jobs \cup {sub[p].job}, todo : todos \cup {{}}]]
      BY <3>1, <3>2, <3>3
    <3>5. run'[g].pc = "mutex" /\ \A v \in Runner : v # g => run'[v].pc = run[v].pc
      BY <2>3, <3>1, <3>2, <3>3
    <3> QED BY <3>4, <3>5 DEF Moves, Shaped
  <2>5. UNCHANGED gates
    BY <1>1 DEF Spawn
  <2> QED BY <2>1, <2>3, <2>4, <2>5, SameHolders, RunnerKinds DEF HoldsSlot, HoldsTracker
<1>2. CASE ~Spawn(p)
  <2>1. UNCHANGED <<gates, run>>
    BY <1>2 DEF SubStep, RetryJob, CheckMetadata, CheckRow, SaveQueued, Enqueue, RejectFull, Retain,
                FinishRetention, gates
  <2> QED BY <2>1, OtherStep
<1> QED BY <1>1, <1>2

LEMMA TakeStep == ASSUME GatesInv, NEW w \in Worker, NEW k \in Queue, Take(w, k) PROVE GatesInv'
<1> DEFINE pc == IF UsesTracker(w) THEN "tracker" ELSE "slot"
<1>1. w \in Runner /\ w \notin Syncer /\ pc \in PC.run /\ run[w].pc = "idle"
  BY RunnerKinds DEF PC, Take
<1>2. PICK jobs, todos : run \in [Runner -> [pc : PC.run, job : jobs, todo : todos]]
  BY DEF GatesInv, Shaped
<1> DEFINE job == Head(queue[k])
<1>4. run' = [run EXCEPT ![w].pc = pc, ![w].job = job]
  BY DEF Take
<1> HIDE DEF pc, job
<1>5. run' \in [Runner -> [pc : PC.run, job : jobs \cup {job}, todo : todos]]
  BY <1>1, <1>2, <1>4
<1>6. run'[w].pc = pc /\ \A v \in Runner : v # w => run'[v].pc = run[v].pc
  BY <1>1, <1>2, <1>4
<1> USE DEF pc
<1>3. Moves(w, pc) /\ UNCHANGED gates
  BY <1>5, <1>6 DEF Moves, Shaped, Take, gates
<1> QED BY <1>1, <1>3, SameHolders DEF HoldsSlot, HoldsTracker

LEMMA LockStep == ASSUME GatesInv, NEW g \in Syncer, LockSync(g) PROVE GatesInv'
<1>1. g \in Runner /\ "tracker" \in PC.run /\ run[g].pc = "mutex" /\ UsesTracker(g)
  BY RunnerKinds DEF PC, LockSync
<1>2. Moves(g, "tracker")
  BY <1>1, GotoMoves DEF LockSync, GatesInv
<1>3. SlotHolders' = SlotHolders /\ TrackerHolders' = TrackerHolders
  BY <1>1, <1>2 DEF Moves, SlotHolders, TrackerHolders, HoldsSlot, HoldsTracker
<1>4. {h \in Syncer : run[h].pc \notin {"idle", "mutex"}} = {}
  BY DEF LockSync, GatesInv, GatesExact
<1>5. {h \in Syncer : run'[h].pc \notin {"idle", "mutex"}} = {g}
  BY <1>1, <1>2, <1>4, RunnerKinds DEF Moves
<1>6. Placed'
  BY <1>1, <1>2 DEF GatesInv, Placed, Moves
<1> QED BY <1>2, <1>3, <1>5, <1>6
        DEF GatesInv, GatesExact, SlotHolders, TrackerHolders, LockSync, Moves

LEMMA TrackerStep ==
    ASSUME GatesInv, NEW w \in Runner, AcquireTracker(w) PROVE GatesInv'
<1>1. "slot" \in PC.run /\ run[w].pc = "tracker" /\ UsesTracker(w)
  BY DEF PC, AcquireTracker, GatesInv, Placed
<1>2. Moves(w, "slot")
  BY <1>1, GotoMoves DEF AcquireTracker, GatesInv
<1>3. SlotHolders' = SlotHolders
  BY <1>1, <1>2 DEF Moves, SlotHolders, HoldsSlot
<1>4. TrackerHolders' = TrackerHolders \cup {w} /\ w \notin TrackerHolders
  BY <1>1, <1>2 DEF Moves, TrackerHolders, HoldsTracker
<1>5. Cardinality(TrackerHolders) = 0
  BY DEF AcquireTracker, GatesInv, GatesExact, TrackerHolders
<1>6. Cardinality(TrackerHolders') = 0 + 1
  BY <1>4, <1>5, HoldersFinite, FS_AddElement
<1>7. {g \in Syncer : run[g].pc \notin {"idle", "mutex"}}' = {g \in Syncer : run[g].pc \notin {"idle", "mutex"}}
  BY <1>1, <1>2, RunnerKinds DEF Moves
<1>8. Placed'
  BY <1>1, <1>2 DEF GatesInv, Placed, Moves
<1>9. trackerSlots' = Cardinality(TrackerHolders') /\ trackerSlots' \in {0, 1}
  BY <1>6 DEF AcquireTracker
<1>10. jobSlots' = Cardinality(SlotHolders') /\ jobSlots' \in Nat
  BY <1>3 DEF AcquireTracker, GatesInv, GatesExact, SlotHolders
<1>11. syncMu' = {g \in Syncer : run'[g].pc \notin {"idle", "mutex"}}
  BY <1>7 DEF AcquireTracker, GatesInv, GatesExact
<1> QED BY <1>2, <1>8, <1>9, <1>10, <1>11 DEF GatesInv, GatesExact, SlotHolders, TrackerHolders, Moves

LEMMA SlotStep ==
    ASSUME GatesInv, NEW w \in Runner, AcquireSlot(w) PROVE GatesInv'
<1>1. "start" \in PC.run /\ run[w].pc = "slot"
  BY DEF PC, AcquireSlot
<1>2. Moves(w, "start")
  BY <1>1, GotoMoves DEF AcquireSlot, GatesInv
<1>3. TrackerHolders' = TrackerHolders
  BY <1>1, <1>2 DEF Moves, TrackerHolders, HoldsTracker
<1>4. SlotHolders' = SlotHolders \cup {w} /\ w \notin SlotHolders
  BY <1>1, <1>2 DEF Moves, SlotHolders, HoldsSlot
<1>5. Cardinality(SlotHolders') = jobSlots + 1
  BY <1>4, HoldersFinite, FS_AddElement DEF GatesInv, GatesExact, SlotHolders
<1>6. {g \in Syncer : run[g].pc \notin {"idle", "mutex"}}' = {g \in Syncer : run[g].pc \notin {"idle", "mutex"}}
  BY <1>1, <1>2, RunnerKinds DEF Moves
<1>7. Placed'
  BY <1>1, <1>2 DEF GatesInv, Placed, Moves
<1>8. jobSlots' = Cardinality(SlotHolders') /\ jobSlots' \in Nat
  BY <1>5 DEF AcquireSlot, GatesInv
<1>9. trackerSlots' = Cardinality(TrackerHolders') /\ trackerSlots' \in {0, 1}
  BY <1>3 DEF AcquireSlot, GatesInv, GatesExact, TrackerHolders
<1>10. syncMu' = {g \in Syncer : run'[g].pc \notin {"idle", "mutex"}}
  BY <1>6 DEF AcquireSlot, GatesInv, GatesExact
<1> QED BY <1>2, <1>7, <1>8, <1>9, <1>10 DEF GatesInv, GatesExact, SlotHolders, TrackerHolders, Moves

\* What a goroutine that goes idle gives back.
LEMMA LeaveStep ==
    ASSUME GatesInv, NEW w \in Runner, Moves(w, "idle"), run[w].pc \notin {"idle", "mutex", "gone"},
           jobSlots' = IF HoldsSlot(w) THEN jobSlots - 1 ELSE jobSlots,
           trackerSlots' = IF HoldsTracker(w) THEN 0 ELSE trackerSlots,
           syncMu' = syncMu \ {w}
    PROVE  GatesInv'
<1>1. SlotHolders' = SlotHolders \ {w} /\ TrackerHolders' = TrackerHolders \ {w}
  BY DEF Moves, SlotHolders, TrackerHolders, HoldsSlot, HoldsTracker
<1>2. IsFiniteSet(SlotHolders) /\ IsFiniteSet(TrackerHolders)
  BY HoldersFinite
<1>3. jobSlots = Cardinality(SlotHolders) /\ trackerSlots = Cardinality(TrackerHolders)
  BY DEF GatesInv, GatesExact, SlotHolders, TrackerHolders
<1>4. jobSlots' = Cardinality(SlotHolders') /\ jobSlots' \in Nat
  <2>1. CASE HoldsSlot(w)
    <3>1. w \in SlotHolders
      BY <2>1 DEF SlotHolders
    <3>2. Cardinality(SlotHolders \ {w}) = Cardinality(SlotHolders) - 1
      BY <3>1, <1>2, FS_RemoveElement
    <3>3. Cardinality(SlotHolders \ {w}) \in Nat
      BY <1>2, FS_RemoveElement, FS_CardinalityType
    <3> QED BY <2>1, <3>2, <3>3, <1>1, <1>3
  <2>2. CASE ~HoldsSlot(w)
    <3>1. SlotHolders \ {w} = SlotHolders
      BY <2>2 DEF SlotHolders
    <3> QED BY <2>2, <3>1, <1>1, <1>3 DEF GatesInv
  <2> QED BY <2>1, <2>2
<1>5. trackerSlots' = Cardinality(TrackerHolders') /\ trackerSlots' \in {0, 1}
  <2>1. CASE HoldsTracker(w)
    <3>1. w \in TrackerHolders
      BY <2>1 DEF TrackerHolders
    <3>2. Cardinality(TrackerHolders \ {w}) = Cardinality(TrackerHolders) - 1
      BY <3>1, <1>2, FS_RemoveElement
    <3>3. Cardinality(TrackerHolders \ {w}) \in Nat
      BY <1>2, FS_RemoveElement, FS_CardinalityType
    <3>4. Cardinality(TrackerHolders) = 1
      BY <3>2, <3>3, <1>3 DEF GatesInv
    <3> QED BY <2>1, <3>2, <3>4, <1>1
  <2>2. CASE ~HoldsTracker(w)
    <3>1. TrackerHolders \ {w} = TrackerHolders
      BY <2>2 DEF TrackerHolders
    <3> QED BY <2>2, <3>1, <1>1, <1>3 DEF GatesInv
  <2> QED BY <2>1, <2>2
<1>6. syncMu' = {g \in Syncer : run'[g].pc \notin {"idle", "mutex"}}
  BY RunnerKinds DEF GatesInv, GatesExact, Moves
<1>7. Placed'
  BY DEF GatesInv, Placed, Moves
<1> QED BY <1>4, <1>5, <1>6, <1>7 DEF GatesInv, GatesExact, SlotHolders, TrackerHolders, Moves

LEMMA AbandonStep ==
    ASSUME GatesInv, NEW w \in Runner, Abandon(w) PROVE GatesInv'
<1>1. run[w].pc \in {"tracker", "slot"} /\ ~HoldsSlot(w)
  BY DEF Abandon, HoldsSlot
<1>2. Moves(w, "idle")
  BY EndMoves DEF Abandon, GatesInv
<1>3. trackerSlots' = IF HoldsTracker(w) THEN 0 ELSE trackerSlots
  BY <1>1 DEF Abandon, HoldsTracker
<1> QED BY <1>1, <1>2, <1>3, LeaveStep DEF Abandon

LEMMA ReleaseStep ==
    ASSUME GatesInv, NEW w \in Runner, Release(w) PROVE GatesInv'
<1>1. run[w].pc = "release" /\ HoldsSlot(w) /\ (HoldsTracker(w) <=> UsesTracker(w))
  BY DEF Release, HoldsSlot, HoldsTracker
<1>2. Moves(w, "idle")
  BY EndMoves DEF Release, GatesInv
<1> QED BY <1>1, <1>2, LeaveStep DEF Release

\* The work between the acquisition and the release.
LEMMA WorkStep ==
    ASSUME GatesInv, NEW w \in Runner, Start(w) \/ SaveResult(w) \/ Unpend(w)
    PROVE  GatesInv'
<1>1. PICK pc \in {"work", "unpend", "release"} :
          /\ RunGoto(w, pc)
          /\ pc = "unpend" => w \in MetaWorker
          /\ pc = "release" /\ w \in MetaWorker => run[w].pc = "unpend"
          /\ pc = "release" /\ w \notin MetaWorker => run[w].pc \in {"work", "expand", "unpend"}
          /\ pc = "work" => run[w].pc = "start"
          /\ pc = "unpend" => run[w].pc \in {"work", "expand"}
  <2>1. CASE Start(w)
    BY <2>1 DEF Start
  <2>2. CASE SaveResult(w)
    <3>1. run[w].pc \in {"work", "expand"}
      BY <2>2 DEF SaveResult, Ended
    <3> QED BY <2>2, <3>1 DEF SaveResult
  <2>3. CASE Unpend(w)
    BY <2>3 DEF Unpend
  <2> QED BY <2>1, <2>2, <2>3
<1>2. UNCHANGED gates
  BY DEF Start, SaveResult, Unpend
<1>3. pc \in PC.run
  BY DEF PC
<1>4. Moves(w, pc)
  BY <1>1, <1>3, GotoMoves DEF GatesInv
<1>5. run[w].pc = "unpend" => w \in MetaWorker
  BY DEF GatesInv, Placed, UsesTracker
<1> QED BY <1>1, <1>2, <1>3, <1>4, <1>5, SameHolders, RunnerKinds DEF HoldsSlot, HoldsTracker, UsesTracker

LEMMA AnswerStep ==
    ASSUME GatesInv, NEW w \in {Refresher, Searcher}, Answer(w) \/ Expand(w)
    PROVE  GatesInv'
<1>1. w \in Runner /\ w \notin Syncer /\ UsesTracker(w) /\ run[w].pc \in {"work", "expand"} /\ "expand" \in PC.run
  BY RunnerKinds DEF Answer, Expand, PC
<1>2. PICK todo : run' = [run EXCEPT ![w] = [pc |-> "expand", job |-> run[w].job, todo |-> todo]]
  BY <1>1 DEF Answer, Expand, GatesInv, Shaped
<1>3. Moves(w, "expand") /\ UNCHANGED gates
  BY <1>1, <1>2, MovesTo DEF GatesInv, Answer, Expand, gates
<1> QED BY <1>1, <1>3, SameHolders DEF HoldsSlot, HoldsTracker

LEMMA WorkerExitStep == ASSUME GatesInv, NEW w \in Worker, WorkerExit(w) PROVE GatesInv'
<1>1. w \in Runner /\ w \notin Syncer /\ "gone" \in PC.run /\ run[w].pc = "idle"
  BY RunnerKinds DEF PC, WorkerExit
<1>2. Moves(w, "gone") /\ UNCHANGED gates
  BY <1>1, GotoMoves DEF GatesInv, WorkerExit, RunGoto, gates
<1> QED BY <1>1, <1>2, SameHolders DEF HoldsSlot, HoldsTracker

\* A process that starts holds nothing.
LEMMA Afresh ==
    ASSUME run' = [w \in Runner |-> NoRun], jobSlots' = 0, trackerSlots' = 0, syncMu' = {}
    PROVE  GatesInv'
<1>1. \A w \in Runner : run'[w].pc = "idle"
  BY DEF NoRun
<1>2. Shaped'
  <2>1. NoRun \in [pc : PC.run, job : {"none"}, todo : {{}}]
    BY DEF NoRun, PC
  <2> QED BY <2>1 DEF Shaped
<1>3. SlotHolders' = {} /\ TrackerHolders' = {} /\ Placed'
  BY <1>1 DEF SlotHolders, TrackerHolders, HoldsSlot, HoldsTracker, Placed
<1>4. {g \in Syncer : run'[g].pc \notin {"idle", "mutex"}} = {}
  BY <1>1, RunnerKinds
<1>5. Cardinality({}) = 0
  BY FS_EmptySet
<1> QED BY <1>2, <1>3, <1>4, <1>5 DEF GatesInv, GatesExact, SlotHolders, TrackerHolders

LEMMA InitInv == Init => GatesInv
<1> SUFFICES ASSUME Init PROVE GatesInv
  OBVIOUS
<1>1. \A w \in Runner : run[w].pc = "idle"
  BY DEF Init, NoRun
<1>2. Shaped
  <2>1. NoRun \in [pc : PC.run, job : {"none"}, todo : {{}}]
    BY DEF NoRun, PC
  <2> QED BY <2>1 DEF Shaped, Init
<1>3. SlotHolders = {} /\ TrackerHolders = {} /\ Placed
  BY <1>1 DEF SlotHolders, TrackerHolders, HoldsSlot, HoldsTracker, Placed
<1>4. {g \in Syncer : run[g].pc \notin {"idle", "mutex"}} = {}
  BY <1>1, RunnerKinds
<1>5. Cardinality({}) = 0
  BY FS_EmptySet
<1> QED BY <1>2, <1>3, <1>4, <1>5 DEF GatesInv, GatesExact, SlotHolders, TrackerHolders, Init

LEMMA RunStepInv == ASSUME GatesInv, NEW w \in Runner, RunStep(w) PROVE GatesInv'
  BY TrackerStep, SlotStep, AbandonStep, WorkStep, ReleaseStep DEF RunStep

LEMMA NextInv == ASSUME GatesInv, [Next]_vars PROVE GatesInv'
<1>1. ASSUME NEW p \in Caller, SubStep(p) PROVE GatesInv'
  BY <1>1, SubmissionStep
<1>2. ASSUME NEW w \in Worker, WorkerStep(w) PROVE GatesInv'
  BY <1>2, TakeStep, RunStepInv, RunnerKinds DEF WorkerStep
<1>3. ASSUME NEW g \in Syncer, LockSync(g) \/ RunStep(g) PROVE GatesInv'
  BY <1>3, LockStep, RunStepInv, RunnerKinds
<1>4. ASSUME NEW w \in {Refresher, Searcher}, Answer(w) \/ Expand(w) PROVE GatesInv'
  BY <1>4, AnswerStep
<1>5. CASE SchedStep
  <2>1. UNCHANGED <<gates, run>>
    BY <1>5 DEF SchedStep, SchedList, SchedRecover, SchedRetry, SchedListed, SchedSubmit, gates
  <2> QED BY <2>1, OtherStep
<1>6. ASSUME NEW h \in Handler, Request(h) PROVE GatesInv'
  BY <1>6, OtherStep DEF Request
<1>7. ASSUME NEW w \in Worker, WorkerExit(w) PROVE GatesInv'
  BY <1>7, WorkerExitStep
<1>8. CASE Tick \/ SchedExit \/ Close \/ CloseRepository
  BY <1>8, OtherStep DEF Tick, SchedExit, Close, CloseRepository
<1>9. CASE Restart
  BY <1>9, Afresh DEF Restart
<1>10. CASE UNCHANGED vars
  BY <1>10, OtherStep DEF vars, gates
<1> QED BY <1>1, <1>2, <1>3, <1>4, <1>5, <1>6, <1>7, <1>8, <1>9, <1>10 DEF Next, Progress

\* No path of a worker, a catalog goroutine, the shutdown or a restart loses a slot
\* of jobSlots or trackerSlots or gives one back twice.
THEOREM GatesAreExact == Spec => []GatesExact
<1>1. GatesInv /\ [Next]_vars => GatesInv'
  BY NextInv
<1>2. GatesInv => GatesExact
  BY DEF GatesInv
<1> QED BY InitInv, <1>1, <1>2, PTL DEF Spec

---------------------------------------------------------------------------
(* The lookups on their way.                                               *)

\* Contents of a queue: whether a job is in it, and that it is there once.
InQ(q, j) == \E i \in 1..Len(q) : q[i] = j
OnceQ(q, j) == \A i, k \in 1..Len(q) : q[i] = j /\ q[k] = j => i = k

\* The three places of a lookup on its way.
Queued(j) == InQ(queue["metadata"], j)
Runs(w, j) == run[w].job = j /\ run[w].pc \in {"slot", "start", "work", "unpend"}
Submits(p, j) == sub[p].job = j /\ sub[p].pc \in {"save", "enqueue"}

Flying(j) == \/ Queued(j)
             \/ \E w \in Runner : Runs(w, j)
             \/ \E p \in Caller : Submits(p, j)

Alone(j) ==
    /\ OnceQ(queue["metadata"], j)
    /\ \A v, w \in Runner : Runs(v, j) /\ Runs(w, j) => v = w
    /\ \A p, r \in Caller : Submits(p, j) /\ Submits(r, j) => p = r
    /\ \A w \in Runner : ~(Queued(j) /\ Runs(w, j))
    /\ \A p \in Caller : ~(Queued(j) /\ Submits(p, j))
    /\ \A w \in Runner, p \in Caller : ~(Runs(w, j) /\ Submits(p, j))

Flights ==
    /\ pending \subseteq MetadataJob
    /\ \A j \in MetadataJob : /\ Alone(j)
                              /\ Flying(j) => j \in pending
                              /\ (phase = "up" /\ j \in pending) => Flying(j)

\* What a call and a queue hold is of no interest but for the metadata jobs,
\* which are in their own queue and with their own workers only.
SubShaped == \E jobs : sub \in [Caller -> [pc : PC.sub, job : jobs]]
QueueShaped == \E jobs : queue \in [Queue -> Seq(jobs)]
RunsSeparate ==
    /\ \A w \in MetaWorker : run[w].pc \notin {"tracker", "mutex", "expand"}
    /\ \A w \in Runner \ MetaWorker :
          run[w].pc \notin {"idle", "gone"} => run[w].job \notin MetadataJob
QueuesSeparate ==
    \A k \in Queue : \A j : InQ(queue[k], j) => (k = "metadata" <=> j \in MetadataJob)

PendingInv == SubShaped /\ QueueShaped /\ RunsSeparate /\ QueuesSeparate /\ Flights

---------------------------------------------------------------------------
(* Queues.                                                                 *)

LEMMA AppendQ ==
    ASSUME NEW S, NEW q \in Seq(S), NEW x, NEW j
    PROVE  /\ Append(q, x) \in Seq(S \cup {x})
           /\ InQ(Append(q, x), j) <=> InQ(q, j) \/ j = x
           /\ OnceQ(q, j) /\ (j = x => ~InQ(q, j)) => OnceQ(Append(q, x), j)
<1> DEFINE q2 == Append(q, x)
<1>1. q \in Seq(S \cup {x})
  OBVIOUS
<1>2. q2 \in Seq(S \cup {x}) /\ Len(q) \in Nat
  BY <1>1
<1>3. Len(q2) = Len(q) + 1 /\ q2[Len(q) + 1] = x /\ \A i \in 1..Len(q) : q2[i] = q[i]
  BY <1>1, AppendProperties
<1> HIDE DEF q2
<1>4. \A i \in 1..Len(q2) : i \in 1..Len(q) \/ i = Len(q) + 1
  BY <1>2, <1>3
<1>5. 1..Len(q) \subseteq 1..Len(q2) /\ Len(q) + 1 \in 1..Len(q2)
  BY <1>2, <1>3
<1>6. InQ(q2, j) <=> InQ(q, j) \/ j = x
  BY <1>3, <1>4, <1>5 DEF InQ
<1>7. ASSUME OnceQ(q, j), j = x => ~InQ(q, j) PROVE OnceQ(q2, j)
  BY <1>3, <1>4, <1>7 DEF InQ, OnceQ
<1> QED BY <1>2, <1>6, <1>7 DEF q2

LEMMA TailQ ==
    ASSUME NEW S, NEW q \in Seq(S), q # <<>>, NEW j
    PROVE  /\ Tail(q) \in Seq(S)
           /\ InQ(q, j) <=> InQ(Tail(q), j) \/ j = Head(q)
           /\ OnceQ(q, j) => OnceQ(Tail(q), j) /\ (j = Head(q) => ~InQ(Tail(q), j))
<1> DEFINE q2 == Tail(q)
<1>1. q2 \in Seq(S) /\ Len(q) \in Nat /\ Len(q) > 0 /\ Head(q) = q[1]
  OBVIOUS
<1>2. Len(q2) = Len(q) - 1 /\ \A i \in 1..Len(q2) : q2[i] = q[i + 1]
  OBVIOUS
<1> HIDE DEF q2
<1>3. \A i \in 1..Len(q2) : i + 1 \in 1..Len(q) /\ i + 1 # 1
  BY <1>1, <1>2
<1>4. \A i \in 1..Len(q) : i = 1 \/ i - 1 \in 1..Len(q2)
  BY <1>1, <1>2
<1>5. InQ(q2, j) => InQ(q, j)
  BY <1>2, <1>3 DEF InQ
<1>6. j = Head(q) => InQ(q, j)
  <2>1. 1 \in 1..Len(q)
    BY <1>1
  <2> QED BY <1>1, <2>1 DEF InQ
<1>7. ASSUME InQ(q, j), j # Head(q) PROVE InQ(q2, j)
  <2>1. PICK i \in 1..Len(q) : q[i] = j
    BY <1>7 DEF InQ
  <2>2. i - 1 \in 1..Len(q2) /\ i = (i - 1) + 1
    BY <1>1, <1>4, <1>7, <2>1
  <2>3. q2[i - 1] = j
    BY <1>2, <2>1, <2>2
  <2> QED BY <2>2, <2>3 DEF InQ
<1>8. ASSUME OnceQ(q, j) PROVE OnceQ(q2, j)
  <2> SUFFICES ASSUME NEW i \in 1..Len(q2), NEW k \in 1..Len(q2), q2[i] = j, q2[k] = j PROVE i = k
    BY DEF OnceQ
  <2>1. q[i + 1] = j /\ q[k + 1] = j
    BY <1>2
  <2>2. i + 1 = k + 1
    BY <2>1, <1>3, <1>8 DEF OnceQ
  <2> QED BY <2>2
<1>9. ASSUME OnceQ(q, j), j = Head(q) PROVE ~InQ(q2, j)
  <2> SUFFICES ASSUME NEW i \in 1..Len(q2), q2[i] = j PROVE FALSE
    BY DEF InQ
  <2>1. q[i + 1] = j /\ q[1] = j /\ 1 \in 1..Len(q)
    BY <1>1, <1>2, <1>9
  <2> QED BY <2>1, <1>3, <1>9 DEF OnceQ
<1> QED BY <1>1, <1>5, <1>6, <1>7, <1>8, <1>9 DEF q2

---------------------------------------------------------------------------
(* One call or one goroutine moves.                                        *)

SubMoves(p, pc, job) ==
    /\ SubShaped'
    /\ sub'[p].pc = pc /\ sub'[p].job = job
    /\ \A r \in Caller : r # p => sub'[r] = sub[r]

RunMoves(w, pc, job) ==
    /\ run'[w].pc = pc /\ run'[w].job = job
    /\ \A v \in Runner : v # w => run'[v] = run[v]

LEMMA SubmitMoves ==
    ASSUME SubShaped, NEW p \in Caller, NEW pc \in PC.sub, NEW job, Submit(p, job, pc)
    PROVE  SubMoves(p, pc, job)
<1>1. PICK jobs : sub \in [Caller -> [pc : PC.sub, job : jobs]]
  BY DEF SubShaped
<1>2. sub' \in [Caller -> [pc : PC.sub, job : jobs \cup {job}]]
  BY <1>1 DEF Submit
<1>3. sub'[p].pc = pc /\ sub'[p].job = job /\ \A r \in Caller : r # p => sub'[r] = sub[r]
  BY <1>1 DEF Submit
<1> QED BY <1>2, <1>3 DEF SubMoves, SubShaped

LEMMA SubGoes ==
    ASSUME SubShaped, NEW p \in Caller, NEW pc \in PC.sub, SubGoto(p, pc)
    PROVE  SubMoves(p, pc, sub[p].job)
<1>1. PICK jobs : sub \in [Caller -> [pc : PC.sub, job : jobs]]
  BY DEF SubShaped
<1>2. sub' \in [Caller -> [pc : PC.sub, job : jobs]]
  BY <1>1 DEF SubGoto
<1>3. sub'[p].pc = pc /\ sub'[p].job = sub[p].job /\ \A r \in Caller : r # p => sub'[r] = sub[r]
  BY <1>1 DEF SubGoto
<1> QED BY <1>2, <1>3 DEF SubMoves, SubShaped

LEMMA SubEnds ==
    ASSUME SubShaped, NEW p \in Caller, EndSub(p) PROVE SubMoves(p, "idle", "none")
<1>1. Submit(p, "none", "idle") /\ "idle" \in PC.sub
  BY DEF EndSub, NoSub, Submit, PC
<1> QED BY <1>1, SubmitMoves

LEMMA RunGoes ==
    ASSUME Shaped, NEW w \in Runner, NEW pc \in PC.run, RunGoto(w, pc)
    PROVE  RunMoves(w, pc, run[w].job)
<1>1. PICK jobs, todos : run \in [Runner -> [pc : PC.run, job : jobs, todo : todos]]
  BY DEF Shaped
<1> QED BY <1>1 DEF RunGoto, RunMoves

LEMMA RunEnds ==
    ASSUME Shaped, NEW w \in Runner, EndRun(w) PROVE RunMoves(w, "idle", "none")
<1>1. PICK jobs, todos : run \in [Runner -> [pc : PC.run, job : jobs, todo : todos]]
  BY DEF Shaped
<1> QED BY <1>1 DEF EndRun, NoRun, RunMoves

---------------------------------------------------------------------------
(* Lookups on their way.                                                   *)

\* Nothing on its way moves.
LEMMA FlightsKept ==
    ASSUME Flights, UNCHANGED <<queue["metadata"], pending>>, phase' = "up" => phase = "up",
           \A w \in Runner, j \in MetadataJob : Runs(w, j)' <=> Runs(w, j),
           \A p \in Caller, j \in MetadataJob : Submits(p, j)' <=> Submits(p, j)
    PROVE  Flights'
<1>1. \A j \in MetadataJob : Alone(j)' <=> Alone(j)
  BY DEF Alone, Queued
<1>2. \A j \in MetadataJob : Flying(j)' <=> Flying(j)
  BY DEF Flying, Queued
<1> QED BY <1>1, <1>2 DEF Flights

\* Only the lookup x moves.
LEMMA FlightMoves ==
    ASSUME Flights, NEW x \in MetadataJob, phase' = "up" => phase = "up",
           \A j \in MetadataJob \ {x} :
               /\ Queued(j)' <=> Queued(j)
               /\ OnceQ(queue["metadata"], j) => OnceQ(queue["metadata"], j)'
               /\ \A w \in Runner : Runs(w, j)' <=> Runs(w, j)
               /\ \A p \in Caller : Submits(p, j)' <=> Submits(p, j)
               /\ j \in pending' <=> j \in pending,
           pending' \subseteq MetadataJob,
           Alone(x)', Flying(x)' => x \in pending',
           (phase' = "up" /\ x \in pending') => Flying(x)'
    PROVE  Flights'
<1>1. \A j \in MetadataJob \ {x} : Alone(j) => Alone(j)'
  BY DEF Alone
<1>2. \A j \in MetadataJob \ {x} : Flying(j)' <=> Flying(j)
  BY DEF Flying
<1> QED BY <1>1, <1>2 DEF Flights

\* What a call or a goroutine has is nowhere else.
LEMMA SubmittedAlone ==
    ASSUME Flights, NEW x \in MetadataJob, NEW p \in Caller, Submits(p, x)
    PROVE  /\ x \in pending /\ ~Queued(x) /\ OnceQ(queue["metadata"], x)
           /\ \A w \in Runner : ~Runs(w, x)
           /\ \A r \in Caller : Submits(r, x) => r = p
  BY DEF Flights, Alone, Flying

LEMMA RunAlone ==
    ASSUME Flights, NEW x \in MetadataJob, NEW w \in Runner, Runs(w, x)
    PROVE  /\ x \in pending /\ ~Queued(x) /\ OnceQ(queue["metadata"], x)
           /\ \A p \in Caller : ~Submits(p, x)
           /\ \A v \in Runner : Runs(v, x) => v = w
  BY DEF Flights, Alone, Flying

\* A call marks the title and goes on.
LEMMA Enters ==
    ASSUME Flights, NEW x \in MetadataJob, x \notin pending, NEW p \in Caller,
           SubMoves(p, "save", x), sub[p].pc \notin {"save", "enqueue"},
           pending' = pending \cup {x}, UNCHANGED <<run, queue["metadata"], phase>>
    PROVE  Flights'
<1>1. ~Queued(x) /\ (\A w \in Runner : ~Runs(w, x)) /\ (\A r \in Caller : ~Submits(r, x)) /\ OnceQ(queue["metadata"], x)
  BY DEF Flights, Flying, Alone
<1>2. \A r \in Caller, j \in MetadataJob : Submits(r, j)' <=> Submits(r, j) \/ (r = p /\ j = x)
  BY DEF Submits, SubMoves
<1>3. \A w \in Runner, j \in MetadataJob : Runs(w, j)' <=> Runs(w, j)
  BY DEF Runs
<1>4. \A j \in MetadataJob : (Queued(j)' <=> Queued(j)) /\ (OnceQ(queue["metadata"], j)' <=> OnceQ(queue["metadata"], j))
  BY DEF Queued
<1>5. Alone(x)' /\ Flying(x)'
  BY <1>1, <1>2, <1>3, <1>4 DEF Alone, Flying
<1>6. pending' \subseteq MetadataJob
  BY DEF Flights
<1> QED BY <1>2, <1>3, <1>4, <1>5, <1>6, FlightMoves

\* A call that fails to hand over gives the mark back.
LEMMA SubmissionEnds ==
    ASSUME Flights, NEW x \in MetadataJob, NEW p \in Caller, Submits(p, x), NEW pc, NEW job,
           SubMoves(p, pc, job), pc \notin {"save", "enqueue"},
           pending' = pending \ {x}, UNCHANGED <<run, queue["metadata"], phase>>
    PROVE  Flights'
<1>1. \A r \in Caller, j \in MetadataJob : Submits(r, j)' <=> Submits(r, j) /\ r # p
  BY DEF Submits, SubMoves
<1>2. \A j \in MetadataJob \ {x} : ~Submits(p, j)
  BY DEF Submits
<1>3. \A w \in Runner, j \in MetadataJob : Runs(w, j)' <=> Runs(w, j)
  BY DEF Runs
<1>4. \A j \in MetadataJob : (Queued(j)' <=> Queued(j)) /\ (OnceQ(queue["metadata"], j)' <=> OnceQ(queue["metadata"], j))
  BY DEF Queued
<1>5. Alone(x)' /\ ~Flying(x)'
  BY <1>1, <1>3, <1>4, SubmittedAlone DEF Alone, Flying
<1>6. pending' \subseteq MetadataJob /\ x \notin pending'
  BY DEF Flights
<1> QED BY <1>1, <1>2, <1>3, <1>4, <1>5, <1>6, FlightMoves

\* A call hands over.
LEMMA HandsOver ==
    ASSUME Flights, QueueShaped, NEW x \in MetadataJob, NEW p \in Caller, Submits(p, x),
           SubMoves(p, "idle", "none"), queue'["metadata"] = Append(queue["metadata"], x),
           UNCHANGED <<run, pending, phase>>
    PROVE  Flights'
<1>1. \A r \in Caller, j \in MetadataJob : Submits(r, j)' <=> Submits(r, j) /\ r # p
  BY DEF Submits, SubMoves
<1>2. \A j \in MetadataJob \ {x} : ~Submits(p, j)
  BY DEF Submits
<1>3. \A w \in Runner, j \in MetadataJob : Runs(w, j)' <=> Runs(w, j)
  BY DEF Runs
<1>4. PICK jobs : queue["metadata"] \in Seq(jobs)
  BY DEF QueueShaped, Queue
<1>5. \A j \in MetadataJob :
          /\ Queued(j)' <=> Queued(j) \/ j = x
          /\ OnceQ(queue["metadata"], j) /\ (j = x => ~Queued(j)) => OnceQ(queue["metadata"], j)'
  <2> SUFFICES ASSUME NEW j \in MetadataJob
               PROVE  /\ InQ(queue'["metadata"], j) <=> InQ(queue["metadata"], j) \/ j = x
                      /\ OnceQ(queue["metadata"], j) /\ (j = x => ~InQ(queue["metadata"], j))
                             => OnceQ(queue'["metadata"], j)
    BY DEF Queued
  <2>1. /\ InQ(Append(queue["metadata"], x), j) <=> InQ(queue["metadata"], j) \/ j = x
        /\ OnceQ(queue["metadata"], j) /\ (j = x => ~InQ(queue["metadata"], j))
               => OnceQ(Append(queue["metadata"], x), j)
    BY <1>4, AppendQ
  <2> QED BY <2>1
<1>6. Alone(x)' /\ Flying(x)' /\ x \in pending'
  BY <1>1, <1>3, <1>5, SubmittedAlone DEF Alone, Flying
<1>7. pending' \subseteq MetadataJob
  BY DEF Flights
<1> QED BY <1>1, <1>2, <1>3, <1>5, <1>6, <1>7, FlightMoves

\* A worker takes what is queued.
LEMMA TakesOver ==
    ASSUME Flights, QueueShaped, NEW w \in Runner, queue["metadata"] # <<>>,
           NEW x \in MetadataJob, x = Head(queue["metadata"]), run[w].pc = "idle",
           RunMoves(w, "slot", x), queue'["metadata"] = Tail(queue["metadata"]),
           UNCHANGED <<sub, pending, phase>>
    PROVE  Flights'
<1>1. \A p \in Caller, j \in MetadataJob : Submits(p, j)' <=> Submits(p, j)
  BY DEF Submits
<1>2. \A v \in Runner, j \in MetadataJob : Runs(v, j)' <=> Runs(v, j) \/ (v = w /\ j = x)
  BY DEF Runs, RunMoves
<1>3. PICK jobs : queue["metadata"] \in Seq(jobs)
  BY DEF QueueShaped, Queue
<1>4. \A j \in MetadataJob :
          /\ Queued(j) <=> Queued(j)' \/ j = x
          /\ OnceQ(queue["metadata"], j) => OnceQ(queue["metadata"], j)' /\ (j = x => ~Queued(j)')
  BY <1>3, TailQ DEF Queued
<1>5. /\ Queued(x) /\ x \in pending /\ OnceQ(queue["metadata"], x)
      /\ \A v \in Runner : ~Runs(v, x)
      /\ \A p \in Caller : ~Submits(p, x)
  BY <1>4 DEF Flights, Alone, Flying
<1>6. Alone(x)' /\ Flying(x)' /\ x \in pending'
  BY <1>1, <1>2, <1>4, <1>5 DEF Alone, Flying
<1>7. pending' \subseteq MetadataJob
  BY DEF Flights
<1> QED BY <1>1, <1>2, <1>4, <1>6, <1>7, FlightMoves

\* A worker is done, or gives up because the service stops.
LEMMA RunOver ==
    ASSUME Flights, NEW x \in MetadataJob, NEW w \in Runner, Runs(w, x), NEW pc, NEW job,
           RunMoves(w, pc, job), pc \notin {"slot", "start", "work", "unpend"},
           \/ pending' = pending \ {x}
           \/ pending' = pending /\ phase # "up",
           UNCHANGED <<sub, queue["metadata"], phase>>
    PROVE  Flights'
<1>1. \A p \in Caller, j \in MetadataJob : Submits(p, j)' <=> Submits(p, j)
  BY DEF Submits
<1>2. \A v \in Runner, j \in MetadataJob : Runs(v, j)' <=> Runs(v, j) /\ v # w
  BY DEF Runs, RunMoves
<1>3. \A j \in MetadataJob \ {x} : ~Runs(w, j)
  BY DEF Runs
<1>4. \A j \in MetadataJob : (Queued(j)' <=> Queued(j)) /\ (OnceQ(queue["metadata"], j)' <=> OnceQ(queue["metadata"], j))
  BY DEF Queued
<1>5. Alone(x)' /\ ~Flying(x)'
  BY <1>1, <1>2, <1>4, RunAlone DEF Alone, Flying
<1>6. pending' \subseteq MetadataJob /\ (x \notin pending' \/ phase' # "up")
  BY DEF Flights
<1> QED BY <1>1, <1>2, <1>3, <1>4, <1>5, <1>6, FlightMoves

---------------------------------------------------------------------------
(* Steps.                                                                  *)

\* A queue gets a job.
LEMMA QueueGrows ==
    ASSUME QueueShaped, NEW k \in Queue, NEW x, queue' = [queue EXCEPT ![k] = Append(@, x)]
    PROVE  /\ QueueShaped'
           /\ queue'[k] = Append(queue[k], x)
           /\ \A l \in Queue : l # k => queue'[l] = queue[l]
           /\ \A j : InQ(queue'[k], j) <=> InQ(queue[k], j) \/ j = x
<1>1. PICK jobs : queue \in [Queue -> Seq(jobs)]
  BY DEF QueueShaped
<1>2. /\ queue'[k] = Append(queue[k], x)
      /\ \A l \in Queue : l # k => queue'[l] = queue[l]
      /\ \A l \in Queue : queue[l] \in Seq(jobs)
  BY <1>1
<1>3. \A j : InQ(Append(queue[k], x), j) <=> InQ(queue[k], j) \/ j = x
  BY <1>2, AppendQ
<1>4. Append(queue[k], x) \in Seq(jobs \cup {x})
  BY <1>2, AppendQ
<1>5. \A l \in Queue : queue[l] \in Seq(jobs \cup {x})
  BY <1>2
<1>6. queue' \in [Queue -> Seq(jobs \cup {x})]
  BY <1>1, <1>4, <1>5
<1> QED BY <1>2, <1>3, <1>6 DEF QueueShaped

\* A queue gives up its first job.
LEMMA QueueShrinks ==
    ASSUME QueueShaped, NEW k \in Queue, queue[k] # <<>>, queue' = [queue EXCEPT ![k] = Tail(@)]
    PROVE  /\ QueueShaped'
           /\ queue'[k] = Tail(queue[k])
           /\ \A l \in Queue : l # k => queue'[l] = queue[l]
           /\ \A j : InQ(queue[k], j) <=> InQ(queue'[k], j) \/ j = Head(queue[k])
<1>1. PICK jobs : queue \in [Queue -> Seq(jobs)]
  BY DEF QueueShaped
<1>2. /\ queue'[k] = Tail(queue[k])
      /\ \A l \in Queue : l # k => queue'[l] = queue[l]
      /\ \A l \in Queue : queue[l] \in Seq(jobs)
  BY <1>1
<1>3. /\ \A j : InQ(queue[k], j) <=> InQ(Tail(queue[k]), j) \/ j = Head(queue[k])
      /\ Tail(queue[k]) \in Seq(jobs)
  BY <1>2, TailQ
<1>4. queue' \in [Queue -> Seq(jobs)]
  BY <1>1, <1>3
<1> QED BY <1>2, <1>3, <1>4 DEF QueueShaped

\* A call moves outside the lookups on their way, or keeps its own.
LEMMA CallGoesOn ==
    ASSUME PendingInv, NEW p \in Caller, NEW pc, NEW job, SubMoves(p, pc, job),
           \A j \in MetadataJob : (job = j /\ pc \in {"save", "enqueue"}) <=> Submits(p, j),
           UNCHANGED <<queue, pending, run>>, phase' = "up" => phase = "up"
    PROVE  PendingInv'
<1>1. \A r \in Caller, j \in MetadataJob : Submits(r, j)' <=> Submits(r, j)
  BY DEF Submits, SubMoves
<1>2. \A w \in Runner, j \in MetadataJob : Runs(w, j)' <=> Runs(w, j)
  BY DEF Runs
<1>3. Flights'
  BY <1>1, <1>2, FlightsKept DEF PendingInv
<1>4. SubShaped'
  BY DEF SubMoves
<1> QED BY <1>3, <1>4 DEF PendingInv, QueueShaped, RunsSeparate, QueuesSeparate

\* A goroutine moves so.
LEMMA RunGoesOn ==
    ASSUME PendingInv, NEW w \in Runner, NEW pc, NEW job, RunMoves(w, pc, job),
           \A j \in MetadataJob : (job = j /\ pc \in {"slot", "start", "work", "unpend"}) <=> Runs(w, j),
           w \in MetaWorker => pc \notin {"tracker", "mutex", "expand"},
           w \notin MetaWorker /\ pc \notin {"idle", "gone"} => job \notin MetadataJob,
           UNCHANGED <<queue, pending, sub>>, phase' = "up" => phase = "up"
    PROVE  PendingInv'
<1>1. \A r \in Caller, j \in MetadataJob : Submits(r, j)' <=> Submits(r, j)
  BY DEF Submits
<1>2. \A v \in Runner, j \in MetadataJob : Runs(v, j)' <=> Runs(v, j)
  BY DEF Runs, RunMoves
<1>3. Flights'
  BY <1>1, <1>2, FlightsKept DEF PendingInv
<1>4. RunsSeparate'
  BY RunnerKinds DEF PendingInv, RunsSeparate, RunMoves
<1> QED BY <1>3, <1>4 DEF PendingInv, QueueShaped, SubShaped, QueuesSeparate

LEMMA KindsOfJobs ==
    /\ \A j \in CatalogJob \cup RetentionJob \cup RefreshJob \cup SearchJob : j \notin MetadataJob
    /\ MetaWorker \cap {Refresher, Searcher} = {} /\ MetaWorker \cap Syncer = {}
  BY JobDispatchAssumption DEF Worker

\* The submission of a job but for the hand-over.
LEMMA SubmitPending ==
    ASSUME PendingInv, NEW p \in Caller,
           \/ RetryJob(p) \/ CheckMetadata(p) \/ CheckRow(p) \/ SaveQueued(p)
           \/ RejectFull(p) \/ Retain(p) \/ FinishRetention(p)
    PROVE  PendingInv'
<1> USE DEF PendingInv
<1>0. UNCHANGED <<queue, run, phase>> /\ {"idle", "force", "save", "enqueue", "full", "retain"} \subseteq PC.sub
  BY DEF RetryJob, CheckMetadata, CheckRow, SaveQueued, RejectFull, Retain, FinishRetention, memory, PC
<1>1. CASE RetryJob(p)
  <2>1. \E pc \in {"force", "idle"} : \E job : SubMoves(p, pc, job)
    BY <1>0, <1>1, SubGoes, SubEnds DEF RetryJob
  <2>2. \A j \in MetadataJob : ~Submits(p, j)
    BY <1>1 DEF RetryJob, Submits
  <2> QED BY <1>0, <1>1, <2>1, <2>2, CallGoesOn DEF RetryJob, memory
<1>2. CASE CheckMetadata(p)
  <2>1. \A j \in MetadataJob : ~Submits(p, j)
    BY <1>2 DEF CheckMetadata, Submits
  <2>2. CASE EndSub(p) /\ UNCHANGED pending
    <3>1. SubMoves(p, "idle", "none")
      BY <2>2, SubEnds
    <3> QED BY <1>0, <2>1, <2>2, <3>1, CallGoesOn
  <2>3. CASE ~(EndSub(p) /\ UNCHANGED pending)
    <3>1. /\ sub[p].job \in MetadataJob /\ sub[p].job \notin pending
          /\ pending' = pending \cup {sub[p].job} /\ SubGoto(p, "save")
          /\ sub[p].pc \notin {"save", "enqueue"}
      BY <1>2, <2>3 DEF CheckMetadata
    <3>2. SubMoves(p, "save", sub[p].job)
      BY <1>0, <3>1, SubGoes
    <3>3. Flights'
      BY <1>0, <3>1, <3>2, Enters
    <3> QED BY <1>0, <3>2, <3>3 DEF SubMoves, QueueShaped, RunsSeparate, QueuesSeparate
  <2> QED BY <2>2, <2>3
<1>3. CASE CheckRow(p)
  <2>1. \E pc \in {"save", "idle"} : \E job : SubMoves(p, pc, job) /\ (pc = "save" => job = sub[p].job)
    BY <1>0, <1>3, SubGoes, SubEnds DEF CheckRow
  <2>2. sub[p].job \notin MetadataJob /\ sub[p].pc \notin {"save", "enqueue"}
    BY <1>3 DEF CheckRow
  <2> QED BY <1>0, <1>3, <2>1, <2>2, CallGoesOn DEF CheckRow, memory, Submits
<1>4. CASE SaveQueued(p)
  <2>1. CASE SubGoto(p, "enqueue") /\ UNCHANGED pending
    <3>1. SubMoves(p, "enqueue", sub[p].job) /\ sub[p].pc = "save"
      BY <1>0, <1>4, <2>1, SubGoes DEF SaveQueued
    <3> QED BY <1>0, <2>1, <3>1, CallGoesOn DEF Submits
  <2>2. CASE ~(SubGoto(p, "enqueue") /\ UNCHANGED pending)
    <3>1. SubMoves(p, "idle", "none") /\ pending' = pending \ {sub[p].job} /\ sub[p].pc = "save"
      BY <1>4, <2>2, SubEnds DEF SaveQueued
    <3>2. CASE sub[p].job \in MetadataJob
      <4>1. Submits(p, sub[p].job)
        BY <3>1 DEF Submits
      <4>2. Flights'
        BY <1>0, <3>1, <3>2, <4>1, SubmissionEnds
      <4> QED BY <1>0, <3>1, <4>2 DEF SubMoves, QueueShaped, RunsSeparate, QueuesSeparate
    <3>3. CASE sub[p].job \notin MetadataJob
      <4>1. pending' = pending
        BY <3>1, <3>3 DEF Flights
      <4> QED BY <1>0, <3>1, <3>3, <4>1, CallGoesOn DEF Submits
    <3> QED BY <3>2, <3>3
  <2> QED BY <2>1, <2>2
<1>5. CASE RejectFull(p) \/ FinishRetention(p)
  <2>1. SubMoves(p, "idle", "none") /\ sub[p].pc \in {"full", "retain"}
    BY <1>5, SubEnds DEF RejectFull, FinishRetention
  <2> QED BY <1>0, <1>5, <2>1, CallGoesOn DEF Submits, RejectFull, FinishRetention, memory
<1>6. CASE Retain(p)
  <2>1. SubMoves(p, "retain", sub[p].job) /\ sub[p].job \notin MetadataJob
    BY <1>0, <1>6, SubGoes, KindsOfJobs DEF Retain
  <2> QED BY <1>0, <1>6, <2>1, CallGoesOn DEF Submits, Retain, memory
<1> QED BY <1>1, <1>2, <1>3, <1>4, <1>5, <1>6

\* The hand-over to a queue.
LEMMA EnqueuePending == ASSUME PendingInv, NEW p \in Caller, Enqueue(p) PROVE PendingInv'
<1> USE DEF PendingInv
<1> DEFINE x == sub[p].job
           k == QueueOf(x)
<1>0. /\ UNCHANGED <<run, phase>> /\ {"idle", "full"} \subseteq PC.sub /\ sub[p].pc = "enqueue"
      /\ k \in Queue /\ (k = "metadata" <=> x \in MetadataJob)
  BY DEF Enqueue, PC, QueueOf, Queue
<1>1. CASE queue' = [queue EXCEPT ![k] = Append(@, x)] /\ EndSub(p) /\ UNCHANGED pending
  <2>1. SubMoves(p, "idle", "none")
    BY <1>1, SubEnds
  <2>2. /\ QueueShaped' /\ queue'[k] = Append(queue[k], x)
        /\ \A l \in Queue : l # k => queue'[l] = queue[l]
        /\ \A j : InQ(queue'[k], j) <=> InQ(queue[k], j) \/ j = x
    <3> HIDE DEF k, x
    <3> QED BY <1>0, <1>1, QueueGrows
  <2>3. QueuesSeparate'
    <3> HIDE DEF k, x
    <3> SUFFICES ASSUME NEW l \in Queue, NEW j, InQ(queue'[l], j) PROVE l = "metadata" <=> j \in MetadataJob
      BY DEF QueuesSeparate
    <3>1. CASE l = k
      BY <1>0, <2>2, <3>1 DEF QueuesSeparate
    <3>2. CASE l # k
      BY <2>2, <3>2 DEF QueuesSeparate
    <3> QED BY <3>1, <3>2
  <2>4. Flights'
    <3>1. CASE x \in MetadataJob
      <4>1. Submits(p, x) /\ queue'["metadata"] = Append(queue["metadata"], x)
        BY <1>0, <2>2, <3>1 DEF Submits
      <4> QED BY <1>0, <1>1, <2>1, <3>1, <4>1, HandsOver
    <3>2. CASE x \notin MetadataJob
      <4>1. queue'["metadata"] = queue["metadata"]
        BY <1>0, <2>2, <3>2 DEF Queue
      <4>2. \A r \in Caller, j \in MetadataJob : Submits(r, j)' <=> Submits(r, j)
        BY <2>1, <3>2 DEF Submits, SubMoves
      <4>3. \A w \in Runner, j \in MetadataJob : Runs(w, j)' <=> Runs(w, j)
        BY <1>0 DEF Runs
      <4> QED BY <1>0, <1>1, <4>1, <4>2, <4>3, FlightsKept
    <3> QED BY <3>1, <3>2
  <2> QED BY <1>0, <2>1, <2>2, <2>3, <2>4 DEF SubMoves, RunsSeparate
<1>2. CASE pending' = pending \ {x} /\ SubGoto(p, "full") /\ UNCHANGED queue
  <2>1. SubMoves(p, "full", x)
    BY <1>0, <1>2, SubGoes
  <2>2. CASE x \in MetadataJob
    <3>1. Submits(p, x)
      BY <1>0 DEF Submits
    <3>2. Flights'
      BY <1>0, <1>2, <2>1, <2>2, <3>1, SubmissionEnds
    <3> QED BY <1>0, <1>2, <2>1, <3>2 DEF SubMoves, QueueShaped, RunsSeparate, QueuesSeparate
  <2>3. CASE x \notin MetadataJob
    <3>1. pending' = pending
      BY <1>2, <2>3 DEF Flights
    <3> QED BY <1>0, <1>2, <2>1, <2>3, <3>1, CallGoesOn DEF Submits
  <2> QED BY <2>2, <2>3
<1> QED BY <1>1, <1>2 DEF Enqueue

\* The start of a catalog goroutine.
LEMMA SpawnPending == ASSUME GatesInv, PendingInv, NEW p \in Caller, Spawn(p) PROVE PendingInv'
<1> USE DEF PendingInv
<1>1. PICK g \in Syncer : run[g].pc = "idle" /\ run' = [run EXCEPT ![g] = [NoRun EXCEPT !.pc = "mutex", !.job = sub[p].job]]
  BY DEF Spawn
<1> DEFINE new == [NoRun EXCEPT !.pc = "mutex", !.job = sub[p].job]
<1>2. new.pc = "mutex" /\ new.job = sub[p].job
  BY DEF NoRun
<1>3. g \in Runner /\ g \notin MetaWorker /\ sub[p].job \notin MetadataJob
  BY RunnerKinds, KindsOfJobs DEF Spawn
<1>4. PICK jobs, todos : run \in [Runner -> [pc : PC.run, job : jobs, todo : todos]]
  BY DEF GatesInv, Shaped
<1>5. RunMoves(g, "mutex", sub[p].job)
  <2>1. run' = [run EXCEPT ![g] = new]
    BY <1>1
  <2> HIDE DEF new
  <2> QED BY <1>2, <1>3, <1>4, <2>1 DEF RunMoves
<1>6. SubMoves(p, "idle", "none") /\ sub[p].job \notin MetadataJob /\ UNCHANGED <<queue, pending, phase>>
  BY <1>3, SubEnds DEF Spawn, memory
<1>7. \A r \in Caller, j \in MetadataJob : Submits(r, j)' <=> Submits(r, j)
  BY <1>6 DEF Submits, SubMoves
<1>8. \A w \in Runner, j \in MetadataJob : Runs(w, j)' <=> Runs(w, j)
  BY <1>1, <1>5 DEF Runs, RunMoves
<1>9. Flights'
  BY <1>6, <1>7, <1>8, FlightsKept
<1>10. RunsSeparate'
  BY <1>3, <1>5, RunnerKinds DEF RunsSeparate, RunMoves
<1> QED BY <1>6, <1>9, <1>10 DEF SubMoves, QueueShaped, QueuesSeparate

LEMMA TakePending ==
    ASSUME GatesInv, PendingInv, NEW w \in Worker, NEW k \in Queue, Take(w, k) PROVE PendingInv'
<1> USE DEF PendingInv
<1> DEFINE x == Head(queue[k])
           pc == IF UsesTracker(w) THEN "tracker" ELSE "slot"
<1>1. /\ w \in Runner /\ run[w].pc = "idle" /\ UNCHANGED <<pending, sub, phase>>
      /\ queue[k] # <<>> /\ queue' = [queue EXCEPT ![k] = Tail(@)]
      /\ run' = [run EXCEPT ![w].pc = pc, ![w].job = x]
  BY RunnerKinds DEF Take
<1>2. (k = "metadata" <=> w \in MetaWorker) /\ (pc = "slot" <=> w \in MetaWorker) /\ pc \in {"slot", "tracker"}
  BY KindsOfJobs DEF Take, Worker, UsesTracker, Refresher, Searcher
<1>3. PICK jobs, todos : run \in [Runner -> [pc : PC.run, job : jobs, todo : todos]]
  BY DEF GatesInv, Shaped
<1> HIDE DEF x, pc
<1>4. RunMoves(w, pc, x)
  BY <1>1, <1>3 DEF RunMoves
<1>5. /\ QueueShaped' /\ queue'[k] = Tail(queue[k])
      /\ \A l \in Queue : l # k => queue'[l] = queue[l]
      /\ \A j : InQ(queue[k], j) <=> InQ(queue'[k], j) \/ j = x
  BY <1>1, QueueShrinks DEF x
<1>6. x \in MetadataJob <=> w \in MetaWorker
  BY <1>2, <1>5 DEF QueuesSeparate
<1>7. QueuesSeparate'
  <2> SUFFICES ASSUME NEW l \in Queue, NEW j, InQ(queue'[l], j) PROVE l = "metadata" <=> j \in MetadataJob
    BY DEF QueuesSeparate
  <2>1. InQ(queue[l], j)
    BY <1>5
  <2> QED BY <2>1 DEF QueuesSeparate
<1>8. RunsSeparate'
  BY <1>2, <1>4, <1>6, RunnerKinds DEF RunsSeparate, RunMoves
<1>9. Flights'
  <2>1. CASE w \in MetaWorker
    <3>1. queue["metadata"] # <<>> /\ x = Head(queue["metadata"]) /\ queue'["metadata"] = Tail(queue["metadata"])
      BY <1>1, <1>2, <1>5, <2>1 DEF x
    <3>2. x \in MetadataJob /\ RunMoves(w, "slot", x)
      BY <1>2, <1>4, <1>6, <2>1
    <3> QED BY <1>1, <3>1, <3>2, TakesOver
  <2>2. CASE w \notin MetaWorker
    <3>1. queue'["metadata"] = queue["metadata"]
      BY <1>2, <1>5, <2>2 DEF Queue
    <3>2. \A v \in Runner, j \in MetadataJob : Runs(v, j)' <=> Runs(v, j)
      BY <1>1, <1>4, <1>6, <2>2 DEF Runs, RunMoves
    <3>3. \A r \in Caller, j \in MetadataJob : Submits(r, j)' <=> Submits(r, j)
      BY <1>1 DEF Submits
    <3> QED BY <1>1, <3>1, <3>2, <3>3, FlightsKept
  <2> QED BY <2>1, <2>2
<1> QED BY <1>1, <1>5, <1>7, <1>8, <1>9 DEF SubShaped

\* The moves of a goroutine that keep its job.
LEMMA GotoPending ==
    ASSUME GatesInv, PendingInv, NEW w \in Runner, NEW pc \in PC.run, RunGoto(w, pc),
           pc \in {"slot", "start", "work", "unpend"} /\ w \in MetaWorker <=>
               run[w].pc \in {"slot", "start", "work", "unpend"} /\ w \in MetaWorker,
           w \in MetaWorker => pc \notin {"tracker", "mutex", "expand"},
           w \notin MetaWorker => run[w].pc \notin {"idle", "gone"} \/ pc \in {"idle", "gone"},
           UNCHANGED <<queue, pending, sub, phase>>
    PROVE  PendingInv'
<1>1. RunMoves(w, pc, run[w].job)
  BY RunGoes DEF GatesInv
<1>2. w \notin MetaWorker /\ run[w].pc \notin {"idle", "gone"} => run[w].job \notin MetadataJob
  BY DEF PendingInv, RunsSeparate
<1>3. ASSUME NEW j \in MetadataJob
      PROVE  (run[w].job = j /\ pc \in {"slot", "start", "work", "unpend"}) <=> Runs(w, j)
  <2>1. CASE w \in MetaWorker
    BY <2>1 DEF Runs
  <2>2. CASE w \notin MetaWorker
    BY <2>2, <1>2 DEF Runs
  <2> QED BY <2>1, <2>2
<1> QED BY <1>1, <1>2, <1>3, RunGoesOn

LEMMA WorkPending ==
    ASSUME GatesInv, PendingInv, NEW w \in Runner,
           \/ LockSync(w) /\ w \in Syncer
           \/ AcquireTracker(w) \/ AcquireSlot(w) \/ Start(w) \/ SaveResult(w)
           \/ WorkerExit(w)
    PROVE  PendingInv'
<1>0. UNCHANGED <<queue, pending, sub>> /\ {"tracker", "slot", "start", "work", "unpend", "release", "gone"} \subseteq PC.run
  BY DEF LockSync, AcquireTracker, AcquireSlot, Start, SaveResult, WorkerExit, memory, PC
<1>1. CASE LockSync(w) /\ w \in Syncer
  <2>1. RunGoto(w, "tracker") /\ w \notin MetaWorker /\ run[w].pc = "mutex" /\ UNCHANGED phase
    BY <1>1, KindsOfJobs DEF LockSync
  <2> QED BY <1>0, <2>1, GotoPending
<1>2. CASE AcquireTracker(w)
  <2>1. RunGoto(w, "slot") /\ w \notin MetaWorker /\ run[w].pc = "tracker" /\ UNCHANGED phase
    BY <1>2 DEF AcquireTracker, GatesInv, Placed, UsesTracker
  <2> QED BY <1>0, <2>1, GotoPending
<1>3. CASE AcquireSlot(w) \/ Start(w)
  <2>1. PICK pc \in {"start", "work"} : RunGoto(w, pc) /\ run[w].pc \in {"slot", "start"} /\ UNCHANGED phase
    BY <1>3 DEF AcquireSlot, Start
  <2> QED BY <1>0, <2>1, GotoPending
<1>4. CASE SaveResult(w)
  <2>1. /\ RunGoto(w, IF w \in MetaWorker THEN "unpend" ELSE "release")
        /\ run[w].pc \in {"work", "expand"} /\ UNCHANGED phase
        /\ w \in MetaWorker => run[w].pc = "work"
    BY <1>4, KindsOfJobs DEF SaveResult, Ended
  <2> QED BY <1>0, <2>1, GotoPending
<1>5. CASE WorkerExit(w)
  <2>1. RunGoto(w, "gone") /\ run[w].pc = "idle" /\ UNCHANGED phase
    BY <1>5 DEF WorkerExit, RunGoto
  <2> QED BY <1>0, <2>1, GotoPending
<1> QED BY <1>1, <1>2, <1>3, <1>4, <1>5

\* The ends of a run.
LEMMA EndPending ==
    ASSUME GatesInv, PendingInv, NEW w \in Runner, Abandon(w) \/ Unpend(w) \/ Release(w)
    PROVE  PendingInv'
<1> USE DEF PendingInv
<1>0. UNCHANGED <<queue, sub, phase>> /\ "release" \in PC.run
  BY DEF Abandon, Unpend, Release, memory, PC
<1>1. CASE Release(w)
  <2>1. RunMoves(w, "idle", "none") /\ run[w].pc = "release" /\ UNCHANGED pending
    BY <1>1, RunEnds DEF Release, GatesInv, memory
  <2> QED BY <1>0, <2>1, RunGoesOn DEF Runs
<1>2. CASE Abandon(w)
  <2>1. RunMoves(w, "idle", "none") /\ UNCHANGED pending /\ phase # "up"
    BY <1>2, RunEnds DEF Abandon, GatesInv, memory
  <2>2. CASE \E x \in MetadataJob : Runs(w, x)
    <3>1. Flights'
      BY <1>0, <2>1, <2>2, RunOver
    <3>2. RunsSeparate'
      BY <2>1, RunnerKinds DEF RunsSeparate, RunMoves
    <3> QED BY <1>0, <3>1, <3>2 DEF SubShaped, QueueShaped, QueuesSeparate
  <2>3. CASE \A x \in MetadataJob : ~Runs(w, x)
    BY <1>0, <2>1, <2>3, RunGoesOn
  <2> QED BY <2>2, <2>3
<1>3. CASE Unpend(w)
  <2>1. /\ RunMoves(w, "release", run[w].job) /\ run[w].pc = "unpend"
        /\ pending' = pending \ {run[w].job}
    BY <1>0, <1>3, RunGoes DEF Unpend, GatesInv
  <2>2. RunsSeparate'
    BY <2>1, RunnerKinds DEF RunsSeparate, RunMoves
  <2>3. CASE run[w].job \in MetadataJob
    <3>1. Runs(w, run[w].job)
      BY <2>1 DEF Runs
    <3>2. Flights'
      BY <1>0, <2>1, <2>3, <3>1, RunOver
    <3> QED BY <1>0, <2>2, <3>2 DEF SubShaped, QueueShaped, QueuesSeparate
  <2>4. CASE run[w].job \notin MetadataJob
    <3>1. pending' = pending
      BY <2>1, <2>4 DEF Flights
    <3> QED BY <1>0, <2>1, <2>4, <3>1, RunGoesOn DEF Runs, RunsSeparate
  <2> QED BY <2>3, <2>4
<1> QED BY <1>1, <1>2, <1>3

LEMMA AnswerMoves ==
    ASSUME GatesInv, NEW w \in Runner, Answer(w)
    PROVE  RunMoves(w, "expand", run[w].job) /\ UNCHANGED sub
<1>1. \E found : run' = [run EXCEPT ![w].pc = "expand", ![w].todo = found]
  BY Zenon DEF Answer
<1>2. PICK found : run' = [run EXCEPT ![w].pc = "expand", ![w].todo = found]
  BY <1>1
<1>3. PICK jobs, todos : run \in [Runner -> [pc : PC.run, job : jobs, todo : todos]]
  BY DEF GatesInv, Shaped
<1>4. RunMoves(w, "expand", run[w].job)
  BY <1>2, <1>3 DEF RunMoves
<1> QED BY <1>4 DEF Answer

\* The follow-up jobs of a search or a refresh.
LEMMA FollowPending ==
    ASSUME GatesInv, PendingInv, NEW w \in {Refresher, Searcher}, Answer(w) \/ Expand(w)
    PROVE  PendingInv'
<1> USE DEF PendingInv
<1>0. /\ w \in Runner /\ w \in Caller /\ w \notin MetaWorker /\ run[w].pc \in {"work", "expand"}
      /\ "expand" \in PC.run /\ "check" \in PC.sub /\ UNCHANGED <<queue, pending, phase>>
  BY RunnerKinds, KindsOfJobs DEF Answer, Expand, PC, Caller, memory
<1>1. PICK jobs, todos : run \in [Runner -> [pc : PC.run, job : jobs, todo : todos]]
  BY DEF GatesInv, Shaped
<1>2. CASE Answer(w)
  <2>1. RunMoves(w, "expand", run[w].job) /\ UNCHANGED sub
    BY <1>0, <1>2, AnswerMoves
  <2>2. run[w].job \notin MetadataJob
    BY <1>0 DEF RunsSeparate
  <2> QED BY <1>0, <2>1, <2>2, RunGoesOn DEF Runs
<1>3. CASE Expand(w)
  <2>1. PICK x : SubMoves(w, "check", x) /\ sub[w].pc = "idle"
    BY <1>0, <1>3, SubmitMoves DEF Expand
  <2>2. \A v \in Runner : run'[v].pc = run[v].pc /\ run'[v].job = run[v].job
    BY <1>0, <1>1, <1>3 DEF Expand
  <2>3. \A r \in Caller, j \in MetadataJob : Submits(r, j)' <=> Submits(r, j)
    BY <2>1 DEF Submits, SubMoves
  <2>4. \A v \in Runner, j \in MetadataJob : Runs(v, j)' <=> Runs(v, j)
    BY <2>2 DEF Runs
  <2>5. Flights'
    BY <1>0, <2>3, <2>4, FlightsKept
  <2>6. RunsSeparate'
    BY <2>2, RunnerKinds DEF RunsSeparate
  <2> QED BY <1>0, <2>1, <2>5, <2>6 DEF SubMoves, QueueShaped, QueuesSeparate
<1> QED BY <1>2, <1>3

\* Nobody moves.
LEMMA IdlePending ==
    ASSUME PendingInv, UNCHANGED <<queue, pending, sub, run>>, phase' = "up" => phase = "up"
    PROVE  PendingInv'
<1>1. Flights'
  BY FlightsKept DEF PendingInv, Runs, Submits
<1> QED BY <1>1 DEF PendingInv, SubShaped, QueueShaped, RunsSeparate, QueuesSeparate

LEMMA SchedPending == ASSUME PendingInv, SchedStep PROVE PendingInv'
<1> USE DEF PendingInv
<1>0. UNCHANGED <<run, pending, phase>> /\ Scheduler \in Caller /\ {"retry", "check"} \subseteq PC.sub
  BY DEF SchedStep, SchedList, SchedRecover, SchedRetry, SchedListed, SchedSubmit, memory, Caller, PC
<1>1. CASE SchedList \/ SchedListed
  BY <1>0, <1>1, IdlePending DEF SchedList, SchedListed, memory
<1>2. CASE SchedRetry \/ SchedSubmit
  <2>1. \E pc \in {"retry", "check"} : \E x : SubMoves(Scheduler, pc, x) /\ sub[Scheduler].pc = "idle"
    BY <1>0, <1>2, SubmitMoves DEF SchedRetry, SchedSubmit, SchedFree
  <2> QED BY <1>0, <1>2, <2>1, CallGoesOn DEF SchedRetry, SchedSubmit, memory, Submits
<1>3. CASE SchedRecover
  <2>1. CASE UNCHANGED queue
    BY <1>0, <1>3, <2>1, IdlePending DEF SchedRecover
  <2>2. CASE queue' # queue
    <3>1. PICK x \in RefreshJob : queue' = [queue EXCEPT !["refresh"] = Append(@, x)]
      BY <1>3, <2>2 DEF SchedRecover
    <3>2. /\ QueueShaped'
          /\ \A l \in Queue : l # "refresh" => queue'[l] = queue[l]
          /\ \A j : InQ(queue'["refresh"], j) <=> InQ(queue["refresh"], j) \/ j = x
      BY <3>1, QueueGrows DEF Queue
    <3>3. x \notin MetadataJob
      BY KindsOfJobs
    <3>4. QueuesSeparate'
      <4> SUFFICES ASSUME NEW l \in Queue, NEW j, InQ(queue'[l], j) PROVE l = "metadata" <=> j \in MetadataJob
        BY DEF QueuesSeparate
      <4>1. CASE l = "refresh"
        BY <3>2, <3>3, <4>1 DEF QueuesSeparate
      <4>2. CASE l # "refresh"
        BY <3>2, <4>2 DEF QueuesSeparate
      <4> QED BY <4>1, <4>2
    <3>5. UNCHANGED sub /\ queue'["metadata"] = queue["metadata"]
      BY <1>3, <3>2 DEF SchedRecover, Queue
    <3>6. Flights'
      BY <1>0, <3>5, FlightsKept DEF Runs, Submits
    <3> QED BY <1>0, <3>2, <3>4, <3>5, <3>6 DEF SubShaped, RunsSeparate
  <2> QED BY <2>1, <2>2
<1> QED BY <1>1, <1>2, <1>3 DEF SchedStep

\* A process that starts has nothing on its way.
LEMMA PendingAfresh ==
    ASSUME queue' = [k \in Queue |-> <<>>], pending' = {},
           sub' = [p \in Caller |-> NoSub], run' = [w \in Runner |-> NoRun]
    PROVE  PendingInv'
<1>1. /\ \A w \in Runner : run'[w].pc = "idle"
      /\ \A p \in Caller : sub'[p].pc = "idle"
      /\ \A k \in Queue : queue'[k] = <<>>
  BY DEF NoRun, NoSub
<1>2. SubShaped'
  <2>1. NoSub \in [pc : PC.sub, job : {"none"}]
    BY DEF NoSub, PC
  <2> QED BY <2>1 DEF SubShaped
<1>3. QueueShaped'
  <2>1. queue' \in [Queue -> Seq({})]
    OBVIOUS
  <2> QED BY <2>1 DEF QueueShaped
<1>4. \A j : ~InQ(<<>>, j) /\ OnceQ(<<>>, j)
  BY DEF InQ, OnceQ
<1>5. QueuesSeparate'
  BY <1>1, <1>4 DEF QueuesSeparate
<1>6. RunsSeparate'
  BY <1>1, RunnerKinds DEF RunsSeparate
<1>7. queue'["metadata"] = <<>>
  BY <1>1 DEF Queue
<1>8. Flights'
  BY <1>1, <1>4, <1>7 DEF Flights, Alone, Flying, Queued, Runs, Submits
<1> QED BY <1>2, <1>3, <1>5, <1>6, <1>8 DEF PendingInv

LEMMA InitPending == Init => PendingInv
<1> SUFFICES ASSUME Init PROVE PendingInv
  OBVIOUS
<1>1. /\ \A w \in Runner : run[w].pc = "idle"
      /\ \A p \in Caller : sub[p].pc = "idle"
      /\ \A k \in Queue : queue[k] = <<>>
      /\ pending = {}
  BY DEF Init, NoRun, NoSub
<1>2. SubShaped
  <2>1. NoSub \in [pc : PC.sub, job : {"none"}]
    BY DEF NoSub, PC
  <2> QED BY <2>1 DEF SubShaped, Init
<1>3. QueueShaped
  <2>1. queue \in [Queue -> Seq({})]
    BY DEF Init
  <2> QED BY <2>1 DEF QueueShaped
<1>4. \A j : ~InQ(<<>>, j) /\ OnceQ(<<>>, j)
  BY DEF InQ, OnceQ
<1>5. QueuesSeparate
  BY <1>1, <1>4 DEF QueuesSeparate
<1>6. RunsSeparate
  BY <1>1, RunnerKinds DEF RunsSeparate
<1>7. queue["metadata"] = <<>>
  BY <1>1 DEF Queue
<1>8. Flights
  BY <1>1, <1>4, <1>7 DEF Flights, Alone, Flying, Queued, Runs, Submits
<1> QED BY <1>2, <1>3, <1>5, <1>6, <1>8 DEF PendingInv

LEMMA RequestPending == ASSUME PendingInv, NEW h \in Handler, Request(h) PROVE PendingInv'
<1>1. /\ h \in Caller /\ {"retry", "check"} \subseteq PC.sub /\ sub[h].pc = "idle" /\ SubShaped
      /\ UNCHANGED <<queue, pending, run, phase>>
  BY DEF Request, memory, Caller, PC, PendingInv
<1>2. PICK pc \in {"retry", "check"} : \E x : Submit(h, x, pc)
  BY DEF Request
<1>3. PICK x : SubMoves(h, pc, x)
  BY <1>1, <1>2, SubmitMoves
<1> QED BY <1>1, <1>3, CallGoesOn DEF Submits

LEMMA PendingNext == ASSUME GatesInv, PendingInv, [Next]_vars PROVE PendingInv'
<1>1. ASSUME NEW p \in Caller, SubStep(p) PROVE PendingInv'
  BY <1>1, SubmitPending, EnqueuePending, SpawnPending DEF SubStep
<1>2. ASSUME NEW w \in Runner, RunStep(w) PROVE PendingInv'
  BY <1>2, WorkPending, EndPending DEF RunStep
<1>3. ASSUME NEW w \in Worker, WorkerStep(w) PROVE PendingInv'
  BY <1>2, <1>3, TakePending, RunnerKinds DEF WorkerStep
<1>4. ASSUME NEW g \in Syncer, LockSync(g) \/ RunStep(g) PROVE PendingInv'
  BY <1>2, <1>4, WorkPending, RunnerKinds
<1>5. ASSUME NEW w \in {Refresher, Searcher}, Answer(w) \/ Expand(w) PROVE PendingInv'
  BY <1>5, FollowPending
<1>6. ASSUME NEW h \in Handler, Request(h) PROVE PendingInv'
  BY <1>6, RequestPending
<1>7. ASSUME NEW w \in Worker, WorkerExit(w) PROVE PendingInv'
  BY <1>7, WorkPending, RunnerKinds
<1>8. CASE Tick \/ SchedExit \/ Close \/ CloseRepository \/ UNCHANGED vars
  BY <1>8, IdlePending DEF Tick, SchedExit, Close, CloseRepository, memory, vars
<1>9. CASE Restart
  BY <1>9, PendingAfresh DEF Restart
<1> QED BY <1>1, <1>3, <1>4, <1>5, <1>6, <1>7, <1>8, <1>9, SchedPending DEF Next, Progress

---------------------------------------------------------------------------
(* Counting.                                                               *)

LEMMA AtMostOne ==
    ASSUME NEW A, \A x, y \in A : x = y
    PROVE  Cardinality(A) = IF A = {} THEN 0 ELSE 1
<1>1. CASE A = {}
  BY <1>1, FS_EmptySet
<1>2. CASE A # {}
  <2>1. PICK x : A = {x}
    BY <1>2
  <2> QED BY <1>2, <2>1, FS_Singleton
<1> QED BY <1>1, <1>2

\* A lookup on its way counts one, in the one place where it is.
LEMMA InFlightCount ==
    ASSUME PendingInv, NEW j \in MetadataJob
    PROVE  InFlight(j) = IF Flying(j) THEN 1 ELSE 0
<1> DEFINE E == Entries("metadata", j)
           H == Holding(j, {"slot", "start", "work", "unpend"})
           S == Submitting(j, {"save", "enqueue"})
<1>1. PICK jobs : queue["metadata"] \in Seq(jobs)
  BY DEF PendingInv, QueueShaped, Queue
<1>2. DOMAIN queue["metadata"] = 1..Len(queue["metadata"])
  BY <1>1
<1>3. Alone(j)
  BY DEF PendingInv, Flights
<1>4. (\A x, y \in E : x = y) /\ (E # {} <=> Queued(j))
  BY <1>2, <1>3 DEF Alone, Entries, OnceQ, Queued, InQ
<1>5. (\A x, y \in H : x = y) /\ (H # {} <=> \E w \in Runner : Runs(w, j))
  BY <1>3 DEF Alone, Holding, Runs
<1>6. (\A x, y \in S : x = y) /\ (S # {} <=> \E p \in Caller : Submits(p, j))
  BY <1>3 DEF Alone, Submitting, Submits
<1>7. /\ Cardinality(E) = IF Queued(j) THEN 1 ELSE 0
      /\ Cardinality(H) = IF \E w \in Runner : Runs(w, j) THEN 1 ELSE 0
      /\ Cardinality(S) = IF \E p \in Caller : Submits(p, j) THEN 1 ELSE 0
  <2> HIDE DEF E, H, S
  <2> QED BY <1>4, <1>5, <1>6, AtMostOne
<1>8. InFlight(j) = Cardinality(E) + Cardinality(H) + Cardinality(S)
  BY DEF InFlight
<1> HIDE DEF E, H, S
<1> QED BY <1>3, <1>7, <1>8 DEF Alone, Flying

\* Of all the callers past the check of pendingMetadata, the entries of the
\* metadata queue and the workers that have taken one, there is at most one for
\* each title, and pendingMetadata names it.
THEOREM LookupOnce == Spec => []MetadataOnce
<1>1. Init => GatesInv /\ PendingInv
  BY InitInv, InitPending
<1>2. (GatesInv /\ PendingInv) /\ [Next]_vars => (GatesInv /\ PendingInv)'
  BY NextInv, PendingNext
<1>3. GatesInv /\ PendingInv => MetadataOnce
  BY InFlightCount DEF MetadataOnce, PendingInv, Flights
<1> QED BY <1>1, <1>2, <1>3, PTL DEF Spec

\* While the service is up, every title in pendingMetadata has a caller, a queue
\* entry or a worker that will take it out: EnsureMetadata and RetryJob are never
\* refused because of a lookup that is gone.
THEOREM PendingLives == Spec => []PendingIsInFlight
<1>1. Init => GatesInv /\ PendingInv
  BY InitInv, InitPending
<1>2. (GatesInv /\ PendingInv) /\ [Next]_vars => (GatesInv /\ PendingInv)'
  BY NextInv, PendingNext
<1>3. GatesInv /\ PendingInv => PendingIsInFlight
  BY InFlightCount DEF PendingIsInFlight, PendingInv, Flights
<1> QED BY <1>1, <1>2, <1>3, PTL DEF Spec

---------------------------------------------------------------------------
(* The shape of every variable, and the part the scheduler's recovery has. *)

Tasks == Listing \cup CatalogJob \cup RetentionJob
SubType == [Caller -> [pc : PC.sub, job : Job \cup {"none"}]]
RunType == [Runner -> [pc : PC.run, job : Job \cup {"none"}, todo : SUBSET Job]]
SchedType == [alive : BOOLEAN, tasks : Seq(Tasks), listed : BOOLEAN, todo : SUBSET Job]

\* A call and a goroutine at work have a job; the refresh worker has a refresh,
\* by which the title it asks for is known.
SubTyped == sub \in SubType /\ \A p \in Caller : sub[p].pc # "idle" => sub[p].job \in Job
RunTyped ==
    /\ run \in RunType
    /\ \A w \in Runner : run[w].pc \notin {"idle", "gone"} =>
          run[w].job \in Job /\ (w = Refresher => run[w].job \in RefreshJob)
QueueTyped ==
    /\ queue \in [Queue -> Seq(Job)] /\ \A k \in Queue : Len(queue[k]) <= QueueCap
    /\ \A j : InQ(queue["refresh"], j) => j \in RefreshJob

\* The recovery of the interrupted jobs is the first task of a process.
FirstOnly(tasks) == \A i \in 1..Len(tasks) : tasks[i] = "recover" => i = 1
SchedTyped == sched \in SchedType /\ FirstOnly(sched.tasks)

RestTyped ==
    /\ row \in [Job -> Rows] /\ jobSlots \in 0 .. Slots
    /\ phase \in {"up", "stopping", "closed"} /\ stranded \subseteq Job
    /\ left \in [events : 0 .. MaxEvents, restarts : 0 .. MaxRestarts, closes : 0 .. MaxCloses]

JobTyped == RestTyped /\ QueueTyped /\ SubTyped /\ RunTyped /\ SchedTyped

LEMMA SubmitTyped ==
    ASSUME SubTyped, NEW p \in Caller, NEW j \in Job, NEW pc \in PC.sub, Submit(p, j, pc) PROVE SubTyped'
  BY DEF SubTyped, SubType, Submit

LEMMA SubGotoTyped ==
    ASSUME SubTyped, NEW p \in Caller, sub[p].pc # "idle", NEW pc \in PC.sub, SubGoto(p, pc) PROVE SubTyped'
  BY DEF SubTyped, SubType, SubGoto

LEMMA EndSubTyped == ASSUME SubTyped, NEW p \in Caller, EndSub(p) PROVE SubTyped'
<1>1. NoSub \in [pc : PC.sub, job : Job \cup {"none"}] /\ NoSub.pc = "idle"
  BY DEF NoSub, PC
<1> QED BY <1>1 DEF SubTyped, SubType, EndSub

LEMMA RunGotoTyped ==
    ASSUME RunTyped, NEW w \in Runner, NEW pc \in PC.run, RunGoto(w, pc),
           run[w].pc \notin {"idle", "gone"} \/ pc \in {"idle", "gone"}
    PROVE  RunTyped'
<1>1. run' \in RunType
  BY DEF RunTyped, RunType, RunGoto
<1>2. \A v \in Runner : run'[v].job = run[v].job /\ run'[v].pc = IF v = w THEN pc ELSE run[v].pc
  BY DEF RunTyped, RunType, RunGoto
<1> QED BY <1>1, <1>2 DEF RunTyped

LEMMA EndRunTyped == ASSUME RunTyped, NEW w \in Runner, EndRun(w) PROVE RunTyped'
<1>1. NoRun \in [pc : PC.run, job : Job \cup {"none"}, todo : SUBSET Job] /\ NoRun.pc = "idle"
  BY DEF NoRun, PC
<1> QED BY <1>1 DEF RunTyped, RunType, EndRun

LEMMA SavedTyped ==
    ASSUME RestTyped, NEW j, NEW r \in Rows, Saved(j, r) PROVE row' \in [Job -> Rows]
  BY DEF RestTyped, Saved

LEMMA QueueGrowsTyped ==
    ASSUME QueueTyped, NEW k \in Queue, NEW x \in Job, Len(queue[k]) < QueueCap,
           k = "refresh" => x \in RefreshJob, queue' = [queue EXCEPT ![k] = Append(@, x)]
    PROVE  QueueTyped'
<1>1. queue' \in [Queue -> Seq(Job)]
  BY DEF QueueTyped
<1>2. \A l \in Queue : Len(queue'[l]) <= QueueCap
  <2>1. queue'[k] = Append(queue[k], x) /\ \A l \in Queue : l # k => queue'[l] = queue[l]
    BY DEF QueueTyped
  <2>2. Len(Append(queue[k], x)) = Len(queue[k]) + 1 /\ Len(queue[k]) \in Nat
    BY DEF QueueTyped
  <2> QED BY <2>1, <2>2, JobDispatchAssumption DEF QueueTyped
<1>3. QueueShaped
  BY DEF QueueShaped, QueueTyped
<1>4. \A j : InQ(queue'["refresh"], j) => j \in RefreshJob
  BY <1>3, QueueGrows DEF QueueTyped, Queue
<1> QED BY <1>1, <1>2, <1>4 DEF QueueTyped

LEMMA QueueShrinksTyped ==
    ASSUME QueueTyped, NEW k \in Queue, queue[k] # <<>>, queue' = [queue EXCEPT ![k] = Tail(@)]
    PROVE  QueueTyped' /\ Head(queue[k]) \in Job /\ (k = "refresh" => Head(queue[k]) \in RefreshJob)
<1>1. queue' \in [Queue -> Seq(Job)] /\ queue[k] \in Seq(Job)
  BY DEF QueueTyped
<1>2. \A l \in Queue : Len(queue'[l]) <= QueueCap
  <2>1. queue'[k] = Tail(queue[k]) /\ \A l \in Queue : l # k => queue'[l] = queue[l]
    BY DEF QueueTyped
  <2>2. Len(Tail(queue[k])) = Len(queue[k]) - 1 /\ Len(queue[k]) \in Nat
    BY <1>1
  <2> QED BY <2>1, <2>2, JobDispatchAssumption DEF QueueTyped
<1>3. QueueShaped
  BY DEF QueueShaped, QueueTyped
<1>4. \A j : InQ(queue'["refresh"], j) => InQ(queue["refresh"], j)
  BY <1>3, QueueShrinks DEF Queue
<1>5. InQ(queue[k], Head(queue[k])) /\ Head(queue[k]) \in Job
  <2>1. InQ(queue[k], Head(queue[k]))
    BY <1>1, TailQ
  <2>2. Head(queue[k]) \in Job
    BY <1>1
  <2> QED BY <2>1, <2>2
<1> QED BY <1>1, <1>2, <1>4, <1>5 DEF QueueTyped

---------------------------------------------------------------------------
(* Who works on a job.                                                     *)

Holds(w, j) == run[w].job = j /\ run[w].pc \in {"mutex", "tracker", "slot", "start", "work", "expand"}
Hands(p, j) == sub[p].job = j /\ sub[p].pc \in {"enqueue", "full", "retain"}
Recovers(j) == (\E i \in 1..Len(sched.tasks) : sched.tasks[i] = "recover") /\ (~sched.listed \/ j \in sched.todo)

Cared(j) == \/ \E k \in Queue : InQ(queue[k], j)
            \/ \E w \in Runner : Holds(w, j)
            \/ \E p \in Caller : Hands(p, j)
            \/ Recovers(j)

ActiveCared == phase = "up" => \A j \in Job : Active(j) => Cared(j) \/ j \in stranded

LEMMA OwnedMeans == ASSUME JobTyped PROVE \A j \in Job : Owned(j) <=> Cared(j)
<1> SUFFICES ASSUME NEW j \in Job PROVE Owned(j) <=> Cared(j)
  OBVIOUS
<1>1. \A k \in Queue : DOMAIN queue[k] = 1..Len(queue[k])
  BY DEF JobTyped, QueueTyped
<1>2. (\E k \in Queue : Entries(k, j) # {}) <=> \E k \in Queue : InQ(queue[k], j)
  BY <1>1 DEF Entries, InQ
<1>3. DOMAIN sched.tasks = 1..Len(sched.tasks)
  BY DEF JobTyped, SchedTyped, SchedType
<1>4. (/\ "recover" \in {sched.tasks[i] : i \in DOMAIN sched.tasks}
       /\ ~sched.listed \/ j \in sched.todo) <=> Recovers(j)
  BY <1>3 DEF Recovers
<1>5. Holding(j, {"mutex", "tracker", "slot", "start", "work", "expand"}) # {} <=> \E w \in Runner : Holds(w, j)
  BY DEF Holding, Holds
<1>6. Submitting(j, {"enqueue", "full", "retain"}) # {} <=> \E p \in Caller : Hands(p, j)
  BY DEF Submitting, Hands
<1> QED BY <1>2, <1>4, <1>5, <1>6 DEF Owned, InHand, Cared

\* What InHand leaves to the recovery.
LEMMA InHandMeans ==
    ASSUME JobTyped
    PROVE  \A j \in Job : InHand(j) <=> \/ \E k \in Queue : InQ(queue[k], j)
                                        \/ \E w \in Runner : Holds(w, j)
                                        \/ \E p \in Caller : Hands(p, j)
<1>1. \A k \in Queue : DOMAIN queue[k] = 1..Len(queue[k])
  BY DEF JobTyped, QueueTyped
<1>2. \A j : (\E k \in Queue : Entries(k, j) # {}) <=> \E k \in Queue : InQ(queue[k], j)
  BY <1>1 DEF Entries, InQ
<1>3. \A j : Holding(j, {"mutex", "tracker", "slot", "start", "work", "expand"}) # {} <=> \E w \in Runner : Holds(w, j)
  BY DEF Holding, Holds
<1>4. \A j : Submitting(j, {"enqueue", "full", "retain"}) # {} <=> \E p \in Caller : Hands(p, j)
  BY DEF Submitting, Hands
<1> QED BY <1>2, <1>3, <1>4 DEF InHand

\* A step of one job, or of none, keeps those who work on the others.
LEMMA OneJobMoves ==
    ASSUME ActiveCared, phase' = "up" => phase = "up", NEW x, stranded \subseteq stranded',
           \A j \in Job : j # x => /\ Active(j)' => Active(j)
                                   /\ Cared(j) => Cared(j)',
           phase' = "up" /\ Active(x)' => \/ Cared(x)' \/ x \in stranded'
                                          \/ Active(x) /\ (Cared(x) => Cared(x)')
    PROVE  ActiveCared'
  BY DEF ActiveCared

\* The others are untouched by a move of the call p, and of the goroutine w.
LEMMA CallKeeps ==
    ASSUME NEW p \in Caller, NEW pc, NEW job, SubMoves(p, pc, job), NEW j,
           sub[p].job = j /\ sub[p].pc \in {"enqueue", "full", "retain"} =>
               job = j /\ pc \in {"enqueue", "full", "retain"}
    PROVE  (\E r \in Caller : Hands(r, j)) => \E r \in Caller : Hands(r, j)'
  BY DEF Hands, SubMoves

LEMMA RunKeeps ==
    ASSUME NEW w \in Runner, NEW pc, NEW job, RunMoves(w, pc, job), NEW j,
           Holds(w, j) => job = j /\ pc \in {"mutex", "tracker", "slot", "start", "work", "expand"}
    PROVE  (\E v \in Runner : Holds(v, j)) => \E v \in Runner : Holds(v, j)'
  BY DEF Holds, RunMoves

\* A row that is saved is the only one that changes.
LEMMA SavedOnly ==
    ASSUME RestTyped, NEW x, NEW r \in Rows, Saved(x, r)
    PROVE  /\ \A j \in Job : j # x => (Active(j)' <=> Active(j))
           /\ x \in Job => (Active(x)' <=> r \in {"queued", "running"})
  BY DEF RestTyped, Saved, Active

LEMMA QueueCares ==
    ASSUME QueueTyped, NEW k \in Queue, NEW x, queue' = [queue EXCEPT ![k] = Append(@, x)]
    PROVE  \A j : (\E l \in Queue : InQ(queue'[l], j)) <=> (\E l \in Queue : InQ(queue[l], j)) \/ j = x
<1>1. QueueShaped
  BY DEF QueueShaped, QueueTyped
<1>2. /\ \A l \in Queue : l # k => queue'[l] = queue[l]
      /\ \A j : InQ(queue'[k], j) <=> InQ(queue[k], j) \/ j = x
  BY <1>1, QueueGrows
<1> QED BY <1>2

---------------------------------------------------------------------------
(* Steps.                                                                  *)

JobInv == JobTyped /\ ActiveCared

LEMMA CallCares ==
    ASSUME NEW p \in Caller, NEW pc, NEW job, SubMoves(p, pc, job), UNCHANGED <<queue, run, sched>>
    PROVE  \A j : sub[p].job # j \/ sub[p].pc \notin {"enqueue", "full", "retain"} => (Cared(j) => Cared(j)')
<1>1. \A j : sub[p].job # j \/ sub[p].pc \notin {"enqueue", "full", "retain"} =>
                 ((\E r \in Caller : Hands(r, j)) => \E r \in Caller : Hands(r, j)')
  BY CallKeeps
<1> QED BY <1>1 DEF Cared, Holds, Recovers

LEMMA HandsCares == ASSUME NEW p \in Caller, NEW pc \in {"enqueue", "full", "retain"}, NEW job, SubMoves(p, pc, job) PROVE Cared(job)'
  BY DEF SubMoves, Cared, Hands

\* Each call is its own; but for the hand-over nothing else of the memory changes.
LEMMA CallStep ==
    ASSUME JobInv, NEW p \in Caller,
           \/ RetryJob(p) \/ CheckMetadata(p) \/ CheckRow(p) \/ SaveQueued(p)
           \/ RejectFull(p) \/ Retain(p) \/ FinishRetention(p)
    PROVE  JobInv'
<1>x. PICK x : x = sub[p].job
  OBVIOUS
<1>0. /\ UNCHANGED <<queue, run, sched, phase, left, jobSlots>> /\ sub[p].pc # "idle" /\ x \in Job /\ SubTyped /\ SubShaped
      /\ {"idle", "force", "save", "enqueue", "full", "retain"} \subseteq PC.sub /\ RestTyped
      /\ {"queued", "failed", "running"} \subseteq Rows /\ Outcome \subseteq Rows
  BY <1>x, JobDispatchAssumption
  DEF RetryJob, CheckMetadata, CheckRow, SaveQueued, RejectFull, Retain, FinishRetention, memory, gates, PC, JobInv, JobTyped,
      SubTyped, SubType, SubShaped, Rows, Outcome
<1>1. SubTyped' /\ \E pc, job : /\ SubMoves(p, pc, job)
                                /\ \/ SubGoto(p, pc) /\ job = x
                                   \/ EndSub(p) /\ pc = "idle"
  <2>1. CASE EndSub(p)
    BY <1>0, <2>1, EndSubTyped, SubEnds
  <2>2. CASE \E pc \in PC.sub : SubGoto(p, pc)
    BY <1>0, <1>x, <2>2, SubGotoTyped, SubGoes
  <2>3. EndSub(p) \/ \E pc \in PC.sub : SubGoto(p, pc)
    BY <1>0 DEF RetryJob, CheckMetadata, CheckRow, SaveQueued, RejectFull, Retain, FinishRetention
  <2> QED BY <2>1, <2>2, <2>3
<1>2. PICK pc, job : /\ SubMoves(p, pc, job)
                     /\ \/ SubGoto(p, pc) /\ job = x
                        \/ EndSub(p) /\ pc = "idle"
  BY <1>1
<1>3. \A j : j # x => (Cared(j) => Cared(j)')
  BY <1>x, <1>0, <1>2, CallCares
<1>4. stranded \subseteq stranded' /\ stranded' \subseteq Job /\ stranded' \subseteq stranded \cup {x}
  BY <1>x, <1>0 DEF RetryJob, CheckMetadata, CheckRow, SaveQueued, RejectFull, Retain, FinishRetention, RestTyped
<1>5. UNCHANGED row \/ \E r \in Rows : Saved(x, r)
  BY <1>x, <1>0 DEF RetryJob, CheckMetadata, CheckRow, SaveQueued, RejectFull, Retain, FinishRetention
<1>6. \A j \in Job : j # x => (Active(j)' <=> Active(j))
  BY <1>0, <1>5, SavedOnly DEF Active
<1>7. phase' = "up" /\ Active(x)' => \/ \E new \in {"enqueue", "full", "retain"} : SubGoto(p, new)
                                     \/ x \in stranded'
                                     \/ UNCHANGED row /\ sub[p].pc \notin {"enqueue", "full", "retain"}
  <2>1. CASE RetryJob(p) \/ CheckMetadata(p) \/ CheckRow(p)
    BY <2>1 DEF RetryJob, CheckMetadata, CheckRow
  <2>2. CASE SaveQueued(p)
    BY <2>2 DEF SaveQueued
  <2>3. CASE Retain(p)
    BY <2>3 DEF Retain
  <2>4. CASE RejectFull(p)
    <3>1. Saved(x, "failed") => ~Active(x)'
      BY <1>0, SavedOnly
    <3> QED BY <1>x, <2>4, <3>1 DEF RejectFull
  <2>5. CASE FinishRetention(p)
    <3>1. PICK out \in Outcome : IF phase = "closed" THEN UNCHANGED row ELSE Saved(x, out)
      BY <1>x, <2>5 DEF FinishRetention
    <3>2. Saved(x, out) => ~Active(x)'
      BY <1>0, SavedOnly, JobDispatchAssumption DEF Outcome
    <3> QED BY <1>0, <3>1, <3>2
  <2> QED BY <2>1, <2>2, <2>3, <2>4, <2>5
<1>8. ActiveCared'
  <2>1. (\E new \in {"enqueue", "full", "retain"} : SubGoto(p, new)) => Cared(x)'
    <3> SUFFICES ASSUME NEW new \in {"enqueue", "full", "retain"}, SubGoto(p, new) PROVE Cared(x)'
      OBVIOUS
    <3>1. SubMoves(p, new, x)
      BY <1>x, <1>0, SubGoes
    <3> QED BY <3>1, HandsCares
  <2>2. sub[p].pc \notin {"enqueue", "full", "retain"} => (Cared(x) => Cared(x)')
    BY <1>0, <1>2, CallCares
  <2>3. UNCHANGED row => (Active(x)' <=> Active(x))
    BY DEF Active
  <2>4. phase' = "up" /\ Active(x)' => Cared(x)' \/ x \in stranded' \/ (Active(x) /\ (Cared(x) => Cared(x)'))
    BY <1>7, <2>1, <2>2, <2>3
  <2>5. phase' = "up" => phase = "up"
    BY <1>0
  <2> QED BY <1>3, <1>4, <1>6, <2>4, <2>5, OneJobMoves DEF JobInv
<1>9. RestTyped'
  <2>1. row' \in [Job -> Rows]
    BY <1>0, <1>5, SavedTyped DEF RestTyped
  <2> QED BY <1>0, <1>4, <2>1 DEF RestTyped
<1> QED BY <1>0, <1>1, <1>8, <1>9 DEF JobInv, JobTyped, QueueTyped, RunTyped, SchedTyped

\* The hand-over: to a queue with room, or to the write that rejects the job.
LEMMA EnqueueStep == ASSUME JobInv, NEW p \in Caller, Enqueue(p) PROVE JobInv'
<1>x. PICK x : x = sub[p].job
  OBVIOUS
<1>k. PICK k : k = QueueOf(x)
  OBVIOUS
<1>0. /\ UNCHANGED <<row, run, sched, phase, left, jobSlots, stranded>> /\ sub[p].pc = "enqueue"
      /\ x \in Job /\ k \in Queue /\ (k = "refresh" => x \in RefreshJob)
      /\ {"idle", "full"} \subseteq PC.sub /\ SubTyped /\ SubShaped /\ QueueTyped
  BY <1>x, <1>k DEF Enqueue, gates, PC, JobInv, JobTyped, SubTyped, SubType, SubShaped, QueueOf, Queue
<1>1. \A j \in Job : Active(j)' <=> Active(j)
  BY <1>0 DEF Active
<1>2. CASE Len(queue[k]) < QueueCap /\ queue' = [queue EXCEPT ![k] = Append(@, x)] /\ EndSub(p)
  <2>1. QueueTyped'
    BY <1>0, <1>2, QueueGrowsTyped
  <2>2. SubTyped' /\ SubMoves(p, "idle", "none")
    BY <1>0, <1>2, EndSubTyped, SubEnds
  <2>3. \A j : (\E l \in Queue : InQ(queue'[l], j)) <=> (\E l \in Queue : InQ(queue[l], j)) \/ j = x
    BY <1>0, <1>2, QueueCares
  <2>4. \A j : j # x => ((\E r \in Caller : Hands(r, j)) => \E r \in Caller : Hands(r, j)')
    BY <1>x, <2>2, CallKeeps
  <2>5. Cared(x)' /\ \A j : j # x => (Cared(j) => Cared(j)')
    BY <1>0, <2>3, <2>4 DEF Cared, Holds, Recovers
  <2>6. ActiveCared'
    BY <1>0, <1>1, <2>5, OneJobMoves DEF JobInv
  <2> QED BY <1>0, <2>1, <2>2, <2>6 DEF JobInv, JobTyped, RestTyped, RunTyped, SchedTyped
<1>3. CASE SubGoto(p, "full") /\ UNCHANGED queue
  <2>1. SubTyped' /\ SubMoves(p, "full", x)
    BY <1>x, <1>0, <1>3, SubGotoTyped, SubGoes
  <2>2. Cared(x)' /\ \A j : j # x => (Cared(j) => Cared(j)')
    BY <1>x, <1>0, <1>3, <2>1, CallCares, HandsCares
  <2>3. ActiveCared'
    BY <1>0, <1>1, <2>2, OneJobMoves DEF JobInv
  <2> QED BY <1>0, <1>3, <2>1, <2>3 DEF JobInv, JobTyped, RestTyped, QueueTyped, RunTyped, SchedTyped
<1> QED BY <1>x, <1>k, <1>2, <1>3 DEF Enqueue

\* SyncCatalog's goroutine has the job as soon as the call is over.
LEMMA SpawnStep == ASSUME JobInv, NEW p \in Caller, Spawn(p) PROVE JobInv'
<1>x. PICK x : x = sub[p].job
  OBVIOUS
<1> DEFINE new == [NoRun EXCEPT !.pc = "mutex", !.job = x]
<1>1. PICK g \in Syncer : run[g].pc = "idle" /\ run' = [run EXCEPT ![g] = new]
  BY <1>x DEF Spawn
<1>2. /\ UNCHANGED <<row, queue, sched, phase, left, jobSlots, stranded>> /\ sub[p].pc = "enqueue" /\ EndSub(p)
      /\ x \in Job /\ g \in Runner /\ g # Refresher /\ SubTyped /\ SubShaped
  BY <1>x, RunnerKinds DEF Spawn, memory, gates, JobInv, JobTyped, SubTyped, SubType, SubShaped
<1>3. new \in [pc : PC.run, job : Job \cup {"none"}, todo : SUBSET Job] /\ new.pc = "mutex" /\ new.job = x
  BY <1>2 DEF NoRun, PC
<1> HIDE DEF new
<1>4. RunTyped' /\ RunMoves(g, "mutex", x)
  BY <1>1, <1>2, <1>3 DEF JobInv, JobTyped, RunTyped, RunType, RunMoves
<1>5. SubTyped' /\ SubMoves(p, "idle", "none")
  BY <1>2, EndSubTyped, SubEnds
<1>6. Cared(x)'
  BY <1>2, <1>4 DEF Cared, Holds, RunMoves
<1>7. \A j : (\E w \in Runner : Holds(w, j)) => \E w \in Runner : Holds(w, j)'
  BY <1>1, <1>2, <1>4, RunKeeps DEF Holds
<1>8. \A j : j # x => ((\E r \in Caller : Hands(r, j)) => \E r \in Caller : Hands(r, j)')
  BY <1>x, <1>5, CallKeeps
<1>9. \A j : j # x => (Cared(j) => Cared(j)')
  BY <1>2, <1>7, <1>8 DEF Cared, Recovers
<1>10. ActiveCared'
  <2>1. \A j \in Job : Active(j)' <=> Active(j)
    BY <1>2 DEF Active
  <2> QED BY <1>2, <1>6, <1>9, <2>1, OneJobMoves DEF JobInv
<1> QED BY <1>2, <1>4, <1>5, <1>10 DEF JobInv, JobTyped, RestTyped, QueueTyped, SchedTyped

---------------------------------------------------------------------------
(* The goroutines.                                                         *)

\* A goroutine moves while it has the job, or has no active one.
LEMMA RunCares ==
    ASSUME ActiveCared, NEW w \in Runner, NEW pc, NEW job, RunMoves(w, pc, job),
           UNCHANGED <<queue, sub, sched, phase, stranded>>,
           NEW x, x = run[w].job,
           \A j \in Job : j # x => (Active(j)' <=> Active(j)),
           phase' = "up" /\ Active(x)' =>
               \/ job = x /\ pc \in {"mutex", "tracker", "slot", "start", "work", "expand"}
               \/ Active(x) /\ ~Holds(w, x)
    PROVE  ActiveCared'
<1>1. \A j : j # x \/ ~Holds(w, x) => (Cared(j) => Cared(j)')
  <2>1. \A j : j # x \/ ~Holds(w, x) => ((\E v \in Runner : Holds(v, j)) => \E v \in Runner : Holds(v, j)')
    BY RunKeeps DEF Holds
  <2> QED BY <2>1 DEF Cared, Hands, Recovers
<1>2. job = x /\ pc \in {"mutex", "tracker", "slot", "start", "work", "expand"} => Cared(x)'
  BY DEF Cared, Holds, RunMoves
<1> QED BY <1>1, <1>2, OneJobMoves

LEMMA TakeJobStep == ASSUME JobInv, NEW w \in Worker, NEW k \in Queue, Take(w, k) PROVE JobInv'
<1>x. PICK x : x = Head(queue[k])
  OBVIOUS
<1>p. PICK pc : pc = IF UsesTracker(w) THEN "tracker" ELSE "slot"
  OBVIOUS
<1>1. /\ w \in Runner /\ run[w].pc = "idle" /\ UNCHANGED <<row, sub, sched, phase, left, jobSlots, stranded>>
      /\ queue[k] # <<>> /\ queue' = [queue EXCEPT ![k] = Tail(@)]
      /\ run' = [run EXCEPT ![w].pc = pc, ![w].job = x]
      /\ pc \in {"tracker", "slot"} /\ (w = Refresher => k = "refresh")
      /\ QueueTyped /\ QueueShaped /\ RunTyped
  BY <1>x, <1>p, RunnerKinds DEF Take, gates, JobInv, JobTyped, QueueTyped, QueueShaped
<1>2. QueueTyped' /\ x \in Job /\ (w = Refresher => x \in RefreshJob)
  BY <1>x, <1>1, QueueShrinksTyped
<1>3. pc \in PC.run
  BY <1>1 DEF PC
<1>4. RunTyped' /\ RunMoves(w, pc, x)
  BY <1>1, <1>2, <1>3 DEF RunTyped, RunType, RunMoves
<1>5. \A j : (\E l \in Queue : InQ(queue[l], j)) => (\E l \in Queue : InQ(queue'[l], j)) \/ j = x
  <2>1. /\ \A l \in Queue : l # k => queue'[l] = queue[l]
        /\ \A j : InQ(queue[k], j) <=> InQ(queue'[k], j) \/ j = x
    BY <1>x, <1>1, QueueShrinks
  <2> QED BY <2>1
<1>6. \A j : (\E v \in Runner : Holds(v, j)) => \E v \in Runner : Holds(v, j)'
  <2>1. w \in Runner /\ \A j : ~Holds(w, j)
    BY <1>1 DEF Holds
  <2> QED BY <1>4, <2>1, RunKeeps
<1>7. Cared(x)' /\ \A j : Cared(j) => Cared(j)'
  <2>1. Cared(x)'
    BY <1>1, <1>4 DEF Cared, Holds, RunMoves
  <2> QED BY <1>1, <1>5, <1>6, <2>1 DEF Cared, Hands, Recovers
<1>8. ActiveCared'
  BY <1>1, <1>7 DEF JobInv, ActiveCared, Active
<1> QED BY <1>1, <1>2, <1>4, <1>8 DEF JobInv, JobTyped, RestTyped, SubTyped, SchedTyped

\* The slots come and go, the row is saved, and the result ends the work.
LEMMA GotoStep ==
    ASSUME JobInv, NEW w \in Runner, jobSlots' \in Nat,
           \/ LockSync(w) \/ AcquireTracker(w) \/ AcquireSlot(w) \/ Start(w) \/ SaveResult(w) \/ Unpend(w)
           \/ WorkerExit(w)
    PROVE  JobInv'
<1>x. PICK x : x = run[w].job
  OBVIOUS
<1>0. /\ UNCHANGED <<queue, sub, sched, phase, left, stranded>> /\ RunTyped /\ RestTyped
      /\ {"tracker", "slot", "start", "work", "unpend", "release", "gone"} \subseteq PC.run
      /\ "running" \in Rows /\ Outcome \subseteq Rows \ {"queued", "running"}
  BY JobDispatchAssumption
  DEF LockSync, AcquireTracker, AcquireSlot, Start, SaveResult, Unpend, WorkerExit, memory, JobInv, JobTyped, PC, Rows, Outcome
<1>1. run[w].pc = "work" \/ run[w].pc = "expand" \/ ~SaveResult(w)
  BY DEF SaveResult, Ended
<1>2. PICK pc \in {"tracker", "slot", "start", "work", "unpend", "release", "gone"} :
          /\ RunGoto(w, pc)
          /\ run[w].pc \notin {"idle", "gone"} \/ pc = "gone"
          /\ \/ pc \in {"tracker", "slot", "start", "work"} /\ (UNCHANGED row \/ Saved(x, "running"))
             \/ pc \in {"unpend", "release"} /\ run[w].pc \in {"work", "expand"}
                  /\ \E out \in Outcome : Saved(x, out) \/ (phase # "up" /\ UNCHANGED row)
             \/ UNCHANGED row /\ run[w].pc \in {"unpend", "idle"}
  <2>1. CASE LockSync(w) \/ AcquireTracker(w) \/ AcquireSlot(w)
    BY <2>1 DEF LockSync, AcquireTracker, AcquireSlot
  <2>2. CASE Start(w)
    BY <1>x, <2>2 DEF Start
  <2>3. CASE SaveResult(w)
    <3>1. PICK out \in Outcome : IF RunSaves(w) THEN Saved(x, out) ELSE UNCHANGED row
      BY <1>x, <2>3 DEF SaveResult
    <3>2. RunGoto(w, IF w \in MetaWorker THEN "unpend" ELSE "release")
      BY <2>3 DEF SaveResult
    <3>3. phase = "up" => RunSaves(w)
      BY DEF RunSaves
    <3> QED BY <1>1, <2>3, <3>1, <3>2, <3>3
  <2>4. CASE Unpend(w)
    BY <2>4 DEF Unpend
  <2>5. CASE WorkerExit(w)
    BY <2>5 DEF WorkerExit, RunGoto
  <2> QED BY <2>1, <2>2, <2>3, <2>4, <2>5
<1>3. RunTyped' /\ RunMoves(w, pc, x)
  <2>1. Shaped
    BY <1>0 DEF Shaped, RunTyped, RunType
  <2> QED BY <1>x, <1>0, <1>2, <2>1, RunGotoTyped, RunGoes
<1>4. RestTyped'
  <2>1. row' \in [Job -> Rows]
    BY <1>0, <1>2, SavedTyped DEF RestTyped
  <2>2. jobSlots' \in 0 .. Slots
    BY <1>0, JobDispatchAssumption DEF RestTyped, LockSync, AcquireTracker, AcquireSlot, Start, SaveResult, Unpend, WorkerExit, gates
  <2> QED BY <1>0, <2>1, <2>2 DEF RestTyped
<1>5. \A j \in Job : j # x => (Active(j)' <=> Active(j))
  BY <1>0, <1>2, SavedOnly DEF Active
<1>6. x \in Job => (phase' = "up" /\ Active(x)' =>
          \/ pc \in {"mutex", "tracker", "slot", "start", "work", "expand"}
          \/ Active(x) /\ ~Holds(w, x))
  <2>1. CASE pc \in {"tracker", "slot", "start", "work"}
    BY <2>1
  <2>2. CASE \E out \in Outcome : Saved(x, out) \/ (phase # "up" /\ UNCHANGED row)
    BY <1>0, <2>2, SavedOnly
  <2>3. CASE UNCHANGED row /\ run[w].pc \in {"unpend", "idle"}
    BY <2>3 DEF Active, Holds
  <2> QED BY <1>2, <2>1, <2>2, <2>3
<1>7. ActiveCared'
  <2>1. CASE x \in Job
    BY <1>x, <1>0, <1>3, <1>5, <1>6, <2>1, RunCares DEF JobInv
  <2>2. CASE x \notin Job
    <3>1. \A j \in Job : (\E v \in Runner : Holds(v, j)) => \E v \in Runner : Holds(v, j)'
      BY <1>x, <1>3, <2>2, RunKeeps DEF Holds
    <3>2. \A j \in Job : Cared(j) => Cared(j)'
      BY <1>0, <3>1 DEF Cared, Hands, Recovers
    <3> QED BY <1>0, <1>5, <2>2, <3>2 DEF JobInv, ActiveCared
  <2> QED BY <2>1, <2>2
<1> QED BY <1>0, <1>3, <1>4, <1>7 DEF JobInv, JobTyped, QueueTyped, SubTyped, SchedTyped

\* A goroutine that ends has written its result, or the service is stopping.
LEMMA EndStep ==
    ASSUME JobInv, NEW w \in Runner, jobSlots' \in Nat, Abandon(w) \/ Release(w) PROVE JobInv'
<1>x. PICK x : x = run[w].job
  OBVIOUS
<1>0. /\ UNCHANGED <<row, queue, sub, sched, phase, left, stranded>> /\ RunTyped /\ RestTyped /\ EndRun(w)
      /\ phase = "up" => run[w].pc = "release"
  BY DEF Abandon, Release, memory, JobInv, JobTyped
<1>1. RunTyped' /\ RunMoves(w, "idle", "none")
  <2>1. Shaped
    BY <1>0 DEF Shaped, RunTyped, RunType
  <2> QED BY <1>0, <2>1, EndRunTyped, RunEnds
<1>2. RestTyped'
  <2>1. jobSlots' \in 0 .. Slots
    BY <1>0, JobDispatchAssumption DEF RestTyped, Abandon, Release
  <2> QED BY <1>0, <2>1 DEF RestTyped
<1>3. ActiveCared'
  <2>1. CASE phase = "up"
    <3>1. \A j : (\E v \in Runner : Holds(v, j)) => \E v \in Runner : Holds(v, j)'
      <4>1. \A j : ~Holds(w, j)
        BY <1>0, <2>1 DEF Holds
      <4> QED BY <1>1, <4>1, RunKeeps
    <3> QED BY <1>0, <3>1 DEF JobInv, ActiveCared, Active, Cared, Hands, Recovers
  <2>2. CASE phase # "up"
    BY <1>0, <2>2 DEF ActiveCared
  <2> QED BY <2>1, <2>2
<1> QED BY <1>0, <1>1, <1>2, <1>3 DEF JobInv, JobTyped, QueueTyped, SubTyped, SchedTyped

\* The follow-up jobs are submitted by the worker that found them, one by one.
LEMMA FollowStep ==
    ASSUME JobInv, NEW w \in {Refresher, Searcher}, Answer(w) \/ Expand(w) PROVE JobInv'
<1>0. /\ w \in Runner /\ w \in Caller /\ {"expand"} \subseteq PC.run /\ "check" \in PC.sub
      /\ UNCHANGED <<row, queue, sched, phase, left, jobSlots, stranded>> /\ RunTyped /\ SubTyped /\ SubShaped
      /\ run[w].pc \in {"work", "expand"}
  BY RunnerKinds DEF Answer, Expand, PC, Caller, memory, gates, JobInv, JobTyped, SubTyped, SubType, SubShaped
<1>1. CASE Answer(w)
  <2>1. PICK found \in (IF w = Searcher THEN SUBSET RefreshJob ELSE {{MetadataOf[run[w].job]}}) :
            run' = [run EXCEPT ![w].pc = "expand", ![w].todo = found]
    BY <1>1 DEF Answer
  <2>2. found \subseteq Job
    <3>1. w = Refresher => run[w].job \in RefreshJob
      BY <1>0 DEF RunTyped
    <3> QED BY <2>1, <3>1, JobDispatchAssumption DEF Job
  <2>3. RunTyped'
    BY <1>0, <2>1, <2>2 DEF RunTyped, RunType
  <2>4. \A v \in Runner : /\ run'[v].job = run[v].job
                          /\ v # w => run'[v].pc = run[v].pc
    BY <1>0, <2>1 DEF RunTyped, RunType
  <2>5. run'[w].pc = "expand"
    BY <1>0, <2>1 DEF RunTyped, RunType
  <2>6. \A j : (\E v \in Runner : Holds(v, j)) => \E v \in Runner : Holds(v, j)'
    BY <2>4, <2>5 DEF Holds
  <2>7. UNCHANGED sub
    BY <1>1 DEF Answer
  <2>8. ActiveCared'
    BY <1>0, <2>6, <2>7 DEF JobInv, ActiveCared, Active, Cared, Hands, Recovers
  <2> QED BY <1>0, <2>3, <2>7, <2>8 DEF JobInv, JobTyped, RestTyped, QueueTyped, SubTyped, SchedTyped
<1>2. CASE Expand(w)
  <2>1. PICK x \in run[w].todo : Submit(w, x, "check") /\ run' = [run EXCEPT ![w].todo = @ \ {x}]
    BY <1>2 DEF Expand
  <2>2. x \in Job
    BY <1>0, <2>1 DEF RunTyped, RunType
  <2>3. SubTyped' /\ SubMoves(w, "check", x) /\ sub[w].pc = "idle"
    BY <1>0, <1>2, <2>1, <2>2, SubmitTyped, SubmitMoves DEF Expand
  <2>4. RunTyped'
    BY <1>0, <2>1 DEF RunTyped, RunType
  <2>5. \A v \in Runner : run'[v].pc = run[v].pc /\ run'[v].job = run[v].job
    BY <1>0, <2>1 DEF RunTyped, RunType
  <2>6. \A j : (\E v \in Runner : Holds(v, j)) => \E v \in Runner : Holds(v, j)'
    BY <2>5 DEF Holds
  <2>7. \A j : (\E r \in Caller : Hands(r, j)) => \E r \in Caller : Hands(r, j)'
    BY <1>0, <2>3, CallKeeps
  <2>8. ActiveCared'
    BY <1>0, <2>6, <2>7 DEF JobInv, ActiveCared, Active, Cared, Recovers
  <2> QED BY <1>0, <2>3, <2>4, <2>8 DEF JobInv, JobTyped, RestTyped, QueueTyped, SchedTyped
<1> QED BY <1>1, <1>2

---------------------------------------------------------------------------
(* The scheduler.                                                          *)

NoRecover(tasks) == \A i \in 1..Len(tasks) : tasks[i] # "recover"

LEMMA TailNoRecover ==
    ASSUME NEW s \in Seq(Tasks), s # <<>>, FirstOnly(s)
    PROVE  /\ Tail(s) \in Seq(Tasks) /\ NoRecover(Tail(s)) /\ FirstOnly(Tail(s)) /\ Head(s) \in Tasks
           /\ (\E i \in 1..Len(s) : s[i] = "recover") <=> Head(s) = "recover"
<1>1. Tail(s) \in Seq(Tasks) /\ Len(s) \in Nat \ {0} /\ Head(s) = s[1] /\ Head(s) \in Tasks
  OBVIOUS
<1>2. Len(Tail(s)) = Len(s) - 1 /\ \A i \in 1..Len(Tail(s)) : Tail(s)[i] = s[i + 1]
  OBVIOUS
<1>3. \A i \in 1..Len(s) - 1 : i + 1 \in 1..Len(s) /\ i + 1 # 1
  BY <1>1
<1>4. NoRecover(Tail(s))
  BY <1>2, <1>3 DEF FirstOnly, NoRecover
<1>5. 1 \in 1..Len(s)
  BY <1>1
<1> QED BY <1>1, <1>4, <1>5 DEF NoRecover, FirstOnly

LEMMA ConcatNoRecover ==
    ASSUME NEW a \in Seq(Tasks), NEW b \in Seq(Tasks), FirstOnly(a), NoRecover(b)
    PROVE  /\ a \o b \in Seq(Tasks) /\ FirstOnly(a \o b)
           /\ NoRecover(a) => NoRecover(a \o b)
<1> DEFINE c == a \o b
<1>1. /\ c \in Seq(Tasks) /\ Len(c) = Len(a) + Len(b) /\ Len(a) \in Nat /\ Len(b) \in Nat
      /\ \A i \in 1 .. Len(a) + Len(b) : c[i] = IF i <= Len(a) THEN a[i] ELSE b[i - Len(a)]
  BY ConcatProperties
<1> HIDE DEF c
<1>2. \A i \in 1..Len(c) : i \in 1..Len(a) \/ (~(i <= Len(a)) /\ i - Len(a) \in 1..Len(b))
  BY <1>1
<1>3. ASSUME NEW i \in 1..Len(c), c[i] = "recover" PROVE i \in 1..Len(a) /\ a[i] = "recover"
  <2>1. CASE i \in 1..Len(a)
    BY <1>1, <1>3, <2>1
  <2>2. CASE ~(i <= Len(a)) /\ i - Len(a) \in 1..Len(b)
    <3>1. i \in 1 .. Len(a) + Len(b)
      BY <1>1
    <3>2. c[i] = b[i - Len(a)]
      BY <1>1, <2>2, <3>1
    <3> QED BY <1>3, <2>2, <3>2 DEF NoRecover
  <2> QED BY <1>2, <2>1, <2>2
<1> QED BY <1>1, <1>3 DEF FirstOnly, NoRecover, c

LEMMA ConfiguredTasks ==
    /\ \A job : Configured(job) \in Seq(Tasks) /\ (job # "recover" => NoRecover(Configured(job)))
    /\ Boot \in Seq(Tasks) /\ FirstOnly(Boot) /\ Boot[1] = "recover" /\ 1 \in 1..Len(Boot)
    /\ \A tasks \in Tickers : tasks \in Seq(Tasks) /\ NoRecover(tasks) /\ FirstOnly(tasks)
<1>1. ASSUME NEW job PROVE Configured(job) \in Seq(Tasks) /\ (job # "recover" => NoRecover(Configured(job)))
  <2>1. CASE job \in CatalogJob \cup RetentionJob
    BY <2>1 DEF Configured, NoRecover, Tasks
  <2>2. CASE job \notin CatalogJob \cup RetentionJob
    BY <2>2 DEF Configured, NoRecover
  <2> QED BY <2>1, <2>2
<1>2. \A job : NoRecover(Configured(job)) => FirstOnly(Configured(job))
  BY DEF NoRecover, FirstOnly
<1>3. <<"recover", "waiting", "transient">> \in Seq(Tasks) /\ FirstOnly(<<"recover", "waiting", "transient">>)
  BY DEF Tasks, Listing, FirstOnly
<1>4. <<"transient">> \in Seq(Tasks) /\ NoRecover(<<"transient">>) /\ FirstOnly(<<"transient">>)
  BY DEF Tasks, Listing, NoRecover, FirstOnly
<1>5. <<"waiting">> \in Seq(Tasks) /\ NoRecover(<<"waiting">>) /\ FirstOnly(<<"waiting">>)
  BY DEF Tasks, Listing, NoRecover, FirstOnly
<1>6. /\ <<"recover", "waiting", "transient">> \o Configured("latest") \in Seq(Tasks)
      /\ FirstOnly(<<"recover", "waiting", "transient">> \o Configured("latest"))
  BY <1>1, <1>3, ConcatNoRecover
<1>7. Boot \in Seq(Tasks) /\ FirstOnly(Boot)
  BY <1>1, <1>6, ConcatNoRecover DEF Boot
<1>8. Boot[1] = "recover" /\ 1 \in 1..Len(Boot)
  <2> DEFINE a == <<"recover", "waiting", "transient">>
             b == a \o Configured("latest")
  <2>1. a \in Seq(Tasks) /\ Len(a) = 3 /\ a[1] = "recover"
    BY <1>3
  <2> HIDE DEF a
  <2>2. Len(Configured("latest")) \in Nat /\ Len(Configured("retention")) \in Nat
    BY <1>1, LenProperties
  <2>3. b \in Seq(Tasks) /\ Len(b) = 3 + Len(Configured("latest")) /\ b[1] = "recover"
    <3>1. /\ b \in Seq(Tasks) /\ Len(b) = Len(a) + Len(Configured("latest"))
          /\ \A i \in 1 .. Len(a) + Len(Configured("latest")) :
                b[i] = IF i <= Len(a) THEN a[i] ELSE Configured("latest")[i - Len(a)]
      <4>1. Configured("latest") \in Seq(Tasks)
        BY <1>1
      <4> QED BY <2>1, <4>1, ConcatProperties
    <3>2. 1 \in 1 .. Len(a) + Len(Configured("latest")) /\ 1 <= Len(a)
      BY <2>1, <2>2
    <3> HIDE DEF b
    <3> QED BY <2>1, <3>1, <3>2
  <2> HIDE DEF b
  <2>4. Boot = b \o Configured("retention")
    BY DEF Boot, a, b
  <2> QED BY <1>1, <2>2, <2>3, <2>4, ConcatProperties
<1>9. /\ <<"transient">> \o Configured("latest") \in Seq(Tasks)
      /\ NoRecover(<<"transient">> \o Configured("latest")) /\ FirstOnly(<<"transient">> \o Configured("latest"))
  BY <1>1, <1>4, ConcatNoRecover
<1>10. /\ (<<"transient">> \o Configured("latest")) \o Configured("retention") \in Seq(Tasks)
       /\ NoRecover((<<"transient">> \o Configured("latest")) \o Configured("retention"))
       /\ FirstOnly((<<"transient">> \o Configured("latest")) \o Configured("retention"))
  BY <1>1, <1>9, ConcatNoRecover
<1>11. \A tasks \in Tickers : tasks \in Seq(Tasks) /\ NoRecover(tasks) /\ FirstOnly(tasks)
  BY <1>1, <1>2, <1>5, <1>10 DEF Tickers
<1> QED BY <1>1, <1>7, <1>8, <1>11

LEMMA RecoverFirst ==
    ASSUME SchedTyped, sched.tasks # <<>>
    PROVE  /\ (\E i \in 1..Len(sched.tasks) : sched.tasks[i] = "recover") <=> Task = "recover"
           /\ \A j : Recovers(j) <=> Task = "recover" /\ (~sched.listed \/ j \in sched.todo)
           /\ Task \in Tasks /\ Tail(sched.tasks) \in Seq(Tasks)
           /\ FirstOnly(Tail(sched.tasks)) /\ NoRecover(Tail(sched.tasks))
  BY TailNoRecover DEF SchedTyped, SchedType, Recovers, Task

\* The scheduler works on the job x, or on none.
LEMMA SchedCares ==
    ASSUME ActiveCared, UNCHANGED <<run, phase>>, stranded \subseteq stranded', NEW x,
           \A j : (\E k \in Queue : InQ(queue[k], j)) => \E k \in Queue : InQ(queue'[k], j),
           \A j : (\E r \in Caller : Hands(r, j)) => \E r \in Caller : Hands(r, j)',
           \A j \in Job : j # x => (Active(j)' => Active(j)) /\ (Recovers(j) => Recovers(j)'),
           Active(x)' => Cared(x)' \/ x \in stranded' \/ (Active(x) /\ (Recovers(x) => Recovers(x)'))
    PROVE  ActiveCared'
<1>1. \A j : (\E w \in Runner : Holds(w, j)) => \E w \in Runner : Holds(w, j)'
  BY DEF Holds
<1> QED BY <1>1, OneJobMoves DEF Cared

LEMMA ListStep == ASSUME JobInv, SchedList \/ SchedListed PROVE JobInv'
<1>1. /\ UNCHANGED <<row, queue, sub, run, phase, left, jobSlots>> /\ SchedTyped /\ RestTyped
      /\ sched.tasks # <<>> /\ sched \in SchedType
  BY DEF SchedList, SchedListed, SchedFree, memory, gates, JobInv, JobTyped, SchedTyped
<1>2. /\ \A j : Recovers(j) <=> Task = "recover" /\ (~sched.listed \/ j \in sched.todo)
      /\ Tail(sched.tasks) \in Seq(Tasks) /\ FirstOnly(Tail(sched.tasks)) /\ NoRecover(Tail(sched.tasks))
  BY <1>1, RecoverFirst
<1>3. /\ SchedTyped' /\ stranded \subseteq stranded' /\ stranded' \subseteq Job
      /\ \A j \in Job : Active(j) /\ Recovers(j) => Recovers(j)' \/ InHand(j) \/ j \in stranded'
  <2>1. CASE SchedListed
    <3>1. /\ sched' = [sched EXCEPT !.tasks = Tail(@), !.listed = FALSE] /\ sched.listed /\ sched.todo = {}
          /\ UNCHANGED stranded
      BY <2>1 DEF SchedListed
    <3>2. SchedTyped'
      BY <1>1, <1>2, <3>1 DEF SchedTyped, SchedType
    <3> QED BY <1>1, <1>2, <3>1, <3>2 DEF RestTyped
  <2>2. CASE SchedList
    <3>1. PICK jobs \in Listed(Task) :
              /\ sched' = IF jobs = {} THEN [sched EXCEPT !.tasks = Tail(@)]
                          ELSE [sched EXCEPT !.listed = TRUE, !.todo = jobs]
              /\ stranded' = IF Task # "recover" THEN stranded
                             ELSE stranded \cup {j \in Job \ jobs : Active(j) /\ ~InHand(j)}
      BY <2>2 DEF SchedList
    <3>2. jobs \subseteq Job
      <4>1. CASE Task = "recover"
        BY <3>1, <4>1 DEF Listed, FirstRows
      <4>2. CASE Task = "waiting"
        BY <3>1, <4>2 DEF Listed
      <4>3. CASE Task = "transient"
        BY <3>1, <4>3 DEF Listed
      <4> QED BY <2>2, <4>1, <4>2, <4>3 DEF SchedList, Listing
    <3>5. stranded \subseteq stranded' /\ stranded' \subseteq Job
      BY <1>1, <3>1 DEF RestTyped
    <3>6. \A j \in Job : Task = "recover" /\ Active(j) => j \in jobs \/ InHand(j) \/ j \in stranded'
      BY <3>1
    <3>3. CASE jobs = {}
      <4>1. sched' = [sched EXCEPT !.tasks = Tail(@)]
        BY <3>1, <3>3
      <4>2. SchedTyped'
        BY <1>1, <1>2, <4>1 DEF SchedTyped, SchedType
      <4> QED BY <1>2, <3>3, <3>5, <3>6, <4>2
    <3>4. CASE jobs # {}
      <4>1. sched' = [sched EXCEPT !.listed = TRUE, !.todo = jobs]
        BY <3>1, <3>4
      <4>2. SchedTyped' /\ sched'.tasks = sched.tasks /\ sched'.todo = jobs
        BY <1>1, <3>2, <4>1 DEF SchedTyped, SchedType
      <4>3. \A j : Recovers(j)' <=> Task = "recover" /\ (~sched'.listed \/ j \in jobs)
        BY <1>1, <4>2, RecoverFirst DEF Recovers
      <4> QED BY <1>2, <3>5, <3>6, <4>2, <4>3
    <3> QED BY <3>3, <3>4
  <2> QED BY <2>1, <2>2
<1>4. ActiveCared'
  <2>1. /\ \A j : (\E k \in Queue : InQ(queue[k], j)) => \E k \in Queue : InQ(queue'[k], j)
        /\ \A j : (\E w \in Runner : Holds(w, j)) => \E w \in Runner : Holds(w, j)'
        /\ \A j : (\E p \in Caller : Hands(p, j)) => \E p \in Caller : Hands(p, j)'
        /\ \A j \in Job : Active(j)' <=> Active(j)
    BY <1>1 DEF Holds, Hands, Active
  <2>2. \A j \in Job : InHand(j) => Cared(j)'
    BY <2>1, InHandMeans DEF JobInv, Cared
  <2>3. \A j \in Job : Cared(j) /\ ~Recovers(j) => Cared(j)'
    BY <2>1 DEF Cared
  <2>4. \A j \in Job : Recovers(j)' => Cared(j)'
    BY DEF Cared
  <2> QED BY <1>1, <1>3, <2>1, <2>2, <2>3, <2>4 DEF JobInv, ActiveCared
<1> QED BY <1>1, <1>3, <1>4 DEF JobInv, JobTyped, RestTyped, QueueTyped, SubTyped, RunTyped

LEMMA RecoverStep == ASSUME JobInv, SchedRecover PROVE JobInv'
<1>1. /\ UNCHANGED <<sub, run, phase, left, jobSlots>> /\ SchedTyped /\ QueueTyped /\ RestTyped
      /\ sched.tasks # <<>> /\ sched.listed /\ Task = "recover"
  BY DEF SchedRecover, SchedFree, memory, gates, JobInv, JobTyped
<1>2. PICK x \in sched.todo :
          /\ sched' = [sched EXCEPT !.todo = @ \ {x}]
          /\ \/ /\ Saved(x, IF x \in RefreshJob THEN "failed" ELSE "transient")
                /\ UNCHANGED <<queue, stranded>>
             \/ /\ x \in RefreshJob /\ Saved(x, "queued")
                /\ IF Len(queue["refresh"]) < QueueCap
                   THEN queue' = [queue EXCEPT !["refresh"] = Append(@, x)] /\ UNCHANGED stranded
                   ELSE stranded' = stranded \cup {x} /\ UNCHANGED queue
  BY <1>1 DEF SchedRecover
<1>3. SchedTyped' /\ x \in Job /\ sched'.todo = sched.todo \ {x} /\ sched'.tasks = sched.tasks /\ sched'.listed
  BY <1>1, <1>2 DEF SchedTyped, SchedType
<1>4. \A j : j # x => (Recovers(j) => Recovers(j)')
  BY <1>1, <1>3 DEF Recovers
<1>5. \A j : (\E r \in Caller : Hands(r, j)) => \E r \in Caller : Hands(r, j)'
  BY <1>1 DEF Hands
<1>6. PICK r \in {"failed", "transient", "queued"} :
          /\ Saved(x, r)
          /\ \/ UNCHANGED <<queue, stranded>> /\ r # "queued"
             \/ x \in RefreshJob /\ Len(queue["refresh"]) < QueueCap
                  /\ queue' = [queue EXCEPT !["refresh"] = Append(@, x)] /\ UNCHANGED stranded
             \/ x \in RefreshJob /\ stranded' = stranded \cup {x} /\ UNCHANGED queue
  BY <1>2
<1>7. /\ \A j \in Job : j # x => (Active(j)' <=> Active(j))
      /\ Active(x)' <=> r = "queued"
      /\ row' \in [Job -> Rows]
  BY <1>1, <1>3, <1>6, SavedOnly, SavedTyped DEF Rows
<1>8. CASE UNCHANGED <<queue, stranded>> /\ r # "queued"
  <2>1. ActiveCared'
    BY <1>1, <1>4, <1>5, <1>7, <1>8, SchedCares DEF JobInv
  <2> QED BY <1>1, <1>3, <1>7, <1>8, <2>1 DEF JobInv, JobTyped, RestTyped, QueueTyped, SubTyped, RunTyped
<1>9. CASE x \in RefreshJob /\ Len(queue["refresh"]) < QueueCap
           /\ queue' = [queue EXCEPT !["refresh"] = Append(@, x)] /\ UNCHANGED stranded
  <2>1. "refresh" \in Queue
    BY DEF Queue
  <2>2. QueueTyped'
    BY <1>1, <1>3, <1>9, <2>1, QueueGrowsTyped
  <2>3. \A j : (\E l \in Queue : InQ(queue'[l], j)) <=> (\E l \in Queue : InQ(queue[l], j)) \/ j = x
    BY <1>1, <1>9, <2>1, QueueCares
  <2>4. Cared(x)'
    BY <2>3 DEF Cared
  <2>5. ActiveCared'
    BY <1>1, <1>4, <1>5, <1>7, <1>9, <2>3, <2>4, SchedCares DEF JobInv
  <2> QED BY <1>1, <1>3, <1>7, <1>9, <2>2, <2>5 DEF JobInv, JobTyped, RestTyped, SubTyped, RunTyped
<1>10. CASE x \in RefreshJob /\ stranded' = stranded \cup {x} /\ UNCHANGED queue
  <2>1. ActiveCared'
    BY <1>1, <1>4, <1>5, <1>7, <1>10, SchedCares DEF JobInv
  <2> QED BY <1>1, <1>3, <1>7, <1>10, <2>1 DEF JobInv, JobTyped, RestTyped, QueueTyped, SubTyped, RunTyped
<1> QED BY <1>6, <1>8, <1>9, <1>10

\* The passes over the waiting rows, and the jobs of the tickers.
LEMMA PassStep == ASSUME JobInv, SchedRetry \/ SchedSubmit PROVE JobInv'
<1>1. /\ UNCHANGED <<queue, run, phase, left, jobSlots, stranded>> /\ SchedTyped /\ RestTyped /\ SubTyped /\ SubShaped
      /\ sched.tasks # <<>> /\ sched \in SchedType /\ Task # "recover" /\ sub[Scheduler].pc = "idle"
      /\ Scheduler \in Caller /\ {"retry", "check"} \subseteq PC.sub
  <2>1. SchedTyped /\ sched \in SchedType /\ RestTyped /\ SubTyped /\ SubShaped
    BY DEF JobInv, JobTyped, SchedTyped, SubTyped, SubType, SubShaped
  <2>2. UNCHANGED <<queue, run, phase, left, jobSlots, stranded>>
    BY DEF SchedRetry, SchedSubmit, memory, gates
  <2>3. sched.tasks # <<>> /\ sub[Scheduler].pc = "idle" /\ Task # "recover"
    BY DEF SchedRetry, SchedSubmit, SchedFree, Listing
  <2> QED BY <2>1, <2>2, <2>3 DEF Caller, PC
<1>2. /\ \A j : ~Recovers(j)
      /\ Task \in Tasks /\ Tail(sched.tasks) \in Seq(Tasks) /\ FirstOnly(Tail(sched.tasks))
  BY <1>1, RecoverFirst
<1>3. SchedTyped' /\ \E x \in Job : /\ \E pc \in {"retry", "check"} : Submit(Scheduler, x, pc)
                                    /\ UNCHANGED row \/ Saved(x, "lapsed")
  <2>1. CASE SchedRetry
    <3>1. PICK x \in sched.todo :
              sched' = [sched EXCEPT !.todo = @ \ {x}] /\ Saved(x, "lapsed") /\ Submit(Scheduler, x, "retry")
      BY <2>1 DEF SchedRetry
    <3> QED BY <1>1, <3>1 DEF SchedTyped, SchedType
  <2>2. CASE SchedSubmit
    <3>1. Task \in Job
      BY <1>2, <2>2 DEF SchedSubmit, Tasks, Job
    <3>2. sched' = [sched EXCEPT !.tasks = Tail(@)]
      BY <2>2 DEF SchedSubmit
    <3>3. SchedTyped'
      BY <1>1, <1>2, <3>2 DEF SchedTyped, SchedType
    <3> QED BY <2>2, <3>1, <3>3 DEF SchedSubmit
  <2> QED BY <2>1, <2>2
<1>4. PICK x \in Job : /\ \E pc \in {"retry", "check"} : Submit(Scheduler, x, pc)
                       /\ UNCHANGED row \/ Saved(x, "lapsed")
  BY <1>3
<1>5. SubTyped' /\ \E pc : SubMoves(Scheduler, pc, x)
  BY <1>1, <1>4, SubmitTyped, SubmitMoves
<1>6. \A j : (\E r \in Caller : Hands(r, j)) => \E r \in Caller : Hands(r, j)'
  BY <1>1, <1>5, CallKeeps
<1>7. /\ row' \in [Job -> Rows]
      /\ \A j \in Job : Active(j)' => Active(j)
  <2>1. "lapsed" \in Rows
    BY DEF Rows
  <2> QED BY <1>1, <1>4, <2>1, SavedOnly, SavedTyped DEF RestTyped, Active
<1>8. ActiveCared'
  BY <1>1, <1>2, <1>6, <1>7, SchedCares DEF JobInv
<1> QED BY <1>1, <1>3, <1>5, <1>7, <1>8 DEF JobInv, JobTyped, RestTyped, QueueTyped, RunTyped

---------------------------------------------------------------------------
(* Requests, the shutdown, and the process that starts.                    *)

LEMMA RequestStep == ASSUME JobInv, NEW h \in Handler, Request(h) PROVE JobInv'
<1>1. /\ UNCHANGED <<row, queue, run, sched, phase, jobSlots, stranded>> /\ SubTyped /\ SubShaped /\ RestTyped
      /\ h \in Caller /\ {"retry", "check"} \subseteq PC.sub /\ sub[h].pc = "idle"
  BY DEF Request, memory, gates, JobInv, JobTyped, Caller, PC, SubTyped, SubType, SubShaped
<1>2. PICK x \in Job, pc \in {"retry", "check"} : Submit(h, x, pc)
  BY DEF Request
<1>3. SubTyped' /\ SubMoves(h, pc, x)
  BY <1>1, <1>2, SubmitTyped, SubmitMoves
<1>4. RestTyped'
  <2>1. left.events > 0 /\ left' = [left EXCEPT !.events = @ - 1]
    BY DEF Request
  <2> QED BY <1>1, <2>1, JobDispatchAssumption DEF RestTyped
<1>5. ActiveCared'
  BY <1>1, <1>3, CallCares DEF JobInv, ActiveCared, Active
<1> QED BY <1>1, <1>3, <1>4, <1>5 DEF JobInv, JobTyped, QueueTyped, RunTyped, SchedTyped

LEMMA TickStep == ASSUME JobInv, Tick PROVE JobInv'
<1>1. /\ UNCHANGED <<row, queue, run, sub, phase, jobSlots, stranded>> /\ SchedTyped /\ RestTyped
      /\ sched.tasks = <<>>
  BY DEF Tick, memory, gates, JobInv, JobTyped
<1>2. PICK tasks \in Tickers : sched' = [sched EXCEPT !.tasks = tasks]
  BY DEF Tick
<1>3. SchedTyped'
  BY <1>1, <1>2, ConfiguredTasks DEF SchedTyped, SchedType
<1>4. \A j : ~Recovers(j)
  BY <1>1 DEF Recovers
<1>5. RestTyped'
  <2>1. left.events > 0 /\ left' = [left EXCEPT !.events = @ - 1]
    BY DEF Tick
  <2> QED BY <1>1, <2>1, JobDispatchAssumption DEF RestTyped
<1>6. ActiveCared'
  BY <1>1, <1>4 DEF JobInv, ActiveCared, Active, Cared, Holds, Hands
<1> QED BY <1>1, <1>3, <1>5, <1>6 DEF JobInv, JobTyped, QueueTyped, SubTyped, RunTyped

LEMMA ShutdownStep == ASSUME JobInv, SchedExit \/ Close \/ CloseRepository PROVE JobInv'
<1>1. UNCHANGED <<row, queue, run, sub, jobSlots, stranded>> /\ SchedTyped /\ RestTyped /\ phase' # "up"
  BY DEF SchedExit, Close, CloseRepository, memory, gates, JobInv, JobTyped
<1>2. SchedTyped'
  BY <1>1 DEF SchedExit, Close, CloseRepository, SchedTyped, SchedType
<1>3. RestTyped'
  <2>1. left' \in [events : 0 .. MaxEvents, restarts : 0 .. MaxRestarts, closes : 0 .. MaxCloses]
    BY <1>1, JobDispatchAssumption DEF RestTyped, SchedExit, Close, CloseRepository
  <2>2. phase' \in {"stopping", "closed"}
    BY DEF SchedExit, Close, CloseRepository
  <2> QED BY <1>1, <2>1, <2>2 DEF RestTyped
<1>4. ActiveCared'
  BY <1>1 DEF ActiveCared
<1> QED BY <1>1, <1>2, <1>3, <1>4 DEF JobInv, JobTyped, QueueTyped, SubTyped, RunTyped

LEMMA NothingTyped ==
    /\ [k \in Queue |-> <<>>] \in [Queue -> Seq(Job)] /\ (\A j : ~InQ(<<>>, j)) /\ Len(<<>>) = 0
    /\ [p \in Caller |-> NoSub] \in SubType /\ NoSub.pc = "idle"
    /\ [w \in Runner |-> NoRun] \in RunType /\ NoRun.pc = "idle"
    /\ [alive |-> TRUE, tasks |-> Boot, listed |-> FALSE, todo |-> {}] \in SchedType
<1>1. NoSub \in [pc : PC.sub, job : Job \cup {"none"}] /\ NoSub.pc = "idle"
  BY DEF NoSub, PC
<1>2. NoRun \in [pc : PC.run, job : Job \cup {"none"}, todo : SUBSET Job] /\ NoRun.pc = "idle"
  BY DEF NoRun, PC
<1>3. <<>> \in Seq(Job) /\ Len(<<>>) = 0 /\ \A j : ~InQ(<<>>, j)
  BY DEF InQ
<1>4. [alive |-> TRUE, tasks |-> Boot, listed |-> FALSE, todo |-> {}] \in SchedType
  BY ConfiguredTasks DEF SchedType
<1> QED BY <1>1, <1>2, <1>3, <1>4 DEF SubType, RunType

\* The first task of a process is the recovery of every row that is active.
LEMMA RestartStep == ASSUME JobInv, Restart PROVE JobInv'
<1>1. /\ queue' = [k \in Queue |-> <<>>] /\ sub' = [p \in Caller |-> NoSub] /\ run' = [w \in Runner |-> NoRun]
      /\ sched' = [alive |-> TRUE, tasks |-> Boot, listed |-> FALSE, todo |-> {}]
      /\ phase' = "up" /\ stranded' = {} /\ jobSlots' = 0 /\ UNCHANGED row
      /\ left.restarts > 0 /\ left' = [left EXCEPT !.restarts = @ - 1]
  BY DEF Restart
<1>2. QueueTyped'
  <2>1. \A k \in Queue : queue'[k] = <<>>
    BY <1>1
  <2>2. 0 <= QueueCap /\ "refresh" \in Queue
    BY JobDispatchAssumption DEF Queue
  <2> QED BY <1>1, <2>1, <2>2, NothingTyped DEF QueueTyped
<1>3. SubTyped' /\ RunTyped'
  BY <1>1, NothingTyped DEF SubTyped, RunTyped
<1>4. SchedTyped' /\ \A j : Recovers(j)'
  BY <1>1, NothingTyped, ConfiguredTasks DEF SchedTyped, Recovers
<1>5. RestTyped'
  BY <1>1, JobDispatchAssumption DEF JobInv, JobTyped, RestTyped
<1>6. ActiveCared'
  BY <1>4 DEF ActiveCared, Cared
<1> QED BY <1>2, <1>3, <1>4, <1>5, <1>6 DEF JobInv, JobTyped

LEMMA InitJob == Init => JobInv
<1> SUFFICES ASSUME Init PROVE JobInv
  OBVIOUS
<1>1. QueueTyped
  <2>1. \A k \in Queue : queue[k] = <<>>
    BY DEF Init
  <2>2. 0 <= QueueCap /\ "refresh" \in Queue
    BY JobDispatchAssumption DEF Queue
  <2> QED BY <2>1, <2>2, NothingTyped DEF QueueTyped, Init
<1>2. SubTyped /\ RunTyped
  BY NothingTyped DEF SubTyped, RunTyped, Init
<1>3. SchedTyped
  BY NothingTyped, ConfiguredTasks DEF SchedTyped, Init
<1>4. RestTyped
  BY JobDispatchAssumption DEF RestTyped, Init, Rows
<1>5. ActiveCared
  BY DEF ActiveCared, Active, Init
<1> QED BY <1>1, <1>2, <1>3, <1>4, <1>5 DEF JobInv, JobTyped

LEMMA NextJob == ASSUME GatesInv', JobInv, [Next]_vars PROVE JobInv'
<1>0. jobSlots' \in Nat
  BY DEF GatesInv
<1>1. ASSUME NEW p \in Caller, SubStep(p) PROVE JobInv'
  BY <1>1, CallStep, EnqueueStep, SpawnStep DEF SubStep
<1>2. ASSUME NEW w \in Runner, RunStep(w) PROVE JobInv'
  BY <1>0, <1>2, GotoStep, EndStep DEF RunStep
<1>3. ASSUME NEW w \in Worker, WorkerStep(w) PROVE JobInv'
  BY <1>2, <1>3, TakeJobStep, RunnerKinds DEF WorkerStep
<1>4. ASSUME NEW g \in Syncer, LockSync(g) \/ RunStep(g) PROVE JobInv'
  BY <1>0, <1>2, <1>4, GotoStep, RunnerKinds
<1>5. ASSUME NEW w \in {Refresher, Searcher}, Answer(w) \/ Expand(w) PROVE JobInv'
  BY <1>5, FollowStep
<1>6. ASSUME NEW h \in Handler, Request(h) PROVE JobInv'
  BY <1>6, RequestStep
<1>7. ASSUME NEW w \in Worker, WorkerExit(w) PROVE JobInv'
  BY <1>0, <1>7, GotoStep, RunnerKinds
<1>8. CASE UNCHANGED vars
  BY <1>8 DEF vars, memory, gates, JobInv, JobTyped, RestTyped, QueueTyped, SubTyped, RunTyped, SchedTyped,
              ActiveCared, Active, Cared, Holds, Hands, Recovers
<1>9. CASE SchedStep
  BY <1>9, ListStep, RecoverStep, PassStep DEF SchedStep
<1> QED BY <1>1, <1>3, <1>4, <1>5, <1>6, <1>7, <1>8, <1>9, TickStep, ShutdownStep, RestartStep DEF Next, Progress

\* Rows hold the states of the schema, no queue outgrows its channel, jobSlots
\* never exceeds its capacity, and the jobs that calls, workers and the
\* scheduler hand around are jobs.
THEOREM JobTypes == Spec => []TypeOK
<1>1. Init => GatesInv /\ PendingInv /\ JobInv
  BY InitInv, InitPending, InitJob
<1>2. (GatesInv /\ PendingInv /\ JobInv) /\ [Next]_vars => (GatesInv /\ PendingInv /\ JobInv)'
  BY NextInv, PendingNext, NextJob
<1>3. GatesInv /\ PendingInv /\ JobInv => TypeOK
  <2> SUFFICES ASSUME GatesInv, PendingInv, JobInv PROVE TypeOK
    OBVIOUS
  <2>1. trackerSlots \in 0 .. 1 /\ syncMu \subseteq Syncer
    BY DEF GatesInv, GatesExact
  <2>2. pending \subseteq MetadataJob
    BY DEF PendingInv, Flights
  <2> QED BY <2>1, <2>2 DEF TypeOK, JobInv, JobTyped, RestTyped, QueueTyped, SubTyped, RunTyped, SchedTyped,
                            SubType, RunType, SchedType, Tasks
<1> QED BY <1>1, <1>2, <1>3, PTL DEF Spec

\* While the service is up, a row that says queued or running is somebody's work:
\* of a queue entry, a goroutine, a call about to hand it over or the recovery of
\* the last restart, but for the three places where the code drops a job.
THEOREM RowsOwned == Spec => []ActiveOwned
<1>1. Init => GatesInv /\ JobInv
  BY InitInv, InitJob
<1>2. (GatesInv /\ JobInv) /\ [Next]_vars => (GatesInv /\ JobInv)'
  BY NextInv, NextJob
<1>3. GatesInv /\ JobInv => ActiveOwned
  BY OwnedMeans DEF ActiveOwned, JobInv, ActiveCared
<1> QED BY <1>1, <1>2, <1>3, PTL DEF Spec

---------------------------------------------------------------------------
(* No wait cycle.  A job takes syncMu, the tracker slot and a job slot one *)
(* after the other, each from holders that may themselves wait.            *)

\* A goroutine at one of the three waits, and one whose wait is over.
AtGate(w) == run[w].pc \in {"mutex", "tracker", "slot"}
Open(w) ==
    \/ run[w].pc = "mutex" /\ syncMu = {}
    \/ run[w].pc = "tracker" /\ trackerSlots = 0
    \/ run[w].pc = "slot" /\ jobSlots < Slots

\* When goroutines wait, one is past all its waits or can go on.
NoStandstill ==
    (\E w \in Runner : AtGate(w)) =>
        \E v \in Runner : HoldsSlot(v) \/ (AtGate(v) /\ Open(v))

\* The gates are taken in one order, and an exact gate without a holder is open.
LEMMA GatesOrdered == ASSUME GatesInv PROVE NoStandstill
<1> SUFFICES ASSUME NEW w \in Runner, AtGate(w),
                    \A v \in Runner : ~HoldsSlot(v) /\ (AtGate(v) => ~Open(v))
             PROVE  FALSE
  BY DEF NoStandstill
<1>1. Cardinality({}) = 0
  BY FS_EmptySet
<1>2. jobSlots = 0
  <2>1. {v \in Runner : HoldsSlot(v)} = {}
    OBVIOUS
  <2> QED BY <1>1, <2>1 DEF GatesInv, GatesExact
<1>3. \A v \in Runner : run[v].pc # "slot"
  BY <1>2, JobDispatchAssumption DEF AtGate, Open
<1>4. trackerSlots = 0
  <2>1. {v \in Runner : HoldsTracker(v)} = {}
    BY <1>3 DEF HoldsTracker, HoldsSlot
  <2> QED BY <1>1, <2>1 DEF GatesInv, GatesExact
<1>5. \A v \in Runner : run[v].pc # "tracker"
  BY <1>4 DEF AtGate, Open
<1>6. syncMu = {}
  <2>1. \A g \in Syncer : run[g].pc \in PC.run /\ run[g].pc \notin {"unpend", "gone"}
    BY RunnerKinds DEF GatesInv, Shaped, Placed
  <2>2. \A g \in Syncer : run[g].pc \in {"idle", "mutex"}
    BY <2>1, <1>3, <1>5, RunnerKinds DEF PC, HoldsSlot
  <2> QED BY <2>2 DEF GatesInv, GatesExact
<1> QED BY <1>3, <1>5, <1>6 DEF AtGate, Open

\* The background jobs never stand still at their semaphores: while a goroutine waits
\* for syncMu, the tracker slot or a job slot, another one works with all it needs,
\* or a wait is over.  acquire takes the tracker before the slot on every path.
THEOREM JobsNeverStandStill == Spec => []NoStandstill
<1>1. GatesInv /\ [Next]_vars => GatesInv'
  BY NextInv
<1>2. GatesInv => NoStandstill
  BY GatesOrdered
<1> QED BY InitInv, <1>1, <1>2, PTL DEF Spec
=============================================================================
