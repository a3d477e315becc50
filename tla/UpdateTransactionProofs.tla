----------------------- MODULE UpdateTransactionProofs -----------------------
(***************************************************************************)
(* The transaction of a self-update, for any installation, any number of   *)
(* processes, releases, applies, crashes and faults: every variable keeps  *)
(* its type, a crash at any point leaves a way back, a recorded rollback   *)
(* is one, and what the files go through is InstalledVersion.              *)
(***************************************************************************)
EXTENDS UpdateTransaction, TLAPS

(* Who holds the lock, and what a step of a process looks like.            *)

Applied == MaxApplies - left.applies

RecHolds(p) == proc[p].rec \notin {"start", "open", "auto", "end", "note", "confirm"}
AppHolds(p) == proc[p].app \notin {"idle", "drain", "stage", "open"}
Asks(p) == proc[p].app \in {"drain", "stage", "open", "prepare"}

\* Two copies of the record of one operation, in whatever phase.
Same(a, b) == a.id = b.id /\ a.version = b.version /\ a.prior = b.prior
Pending == journal.phase \in {"staged", "activated"}

Typed ==
    /\ host \in Hosts /\ host \in Host /\ published \in Version /\ live \in Version /\ good \subseteq Version
    /\ backup \in [OpId -> 0 .. MaxVersion] /\ staged \in [OpId -> 0 .. MaxVersion]
    /\ journal \in Operation /\ late \subseteq OpId
    /\ proc \in [Proc -> Process]
    /\ left \in [applies : 0 .. MaxApplies, crashes : 0 .. MaxCrashes, faults : 0 .. MaxFaults]

\* The steps between OpenJournal and Close are those of the holder of the lock.
Locked ==
    /\ lock \in {Free} \cup (Proc \X {"rec", "app"})
    /\ \A p \in Proc : /\ RecHolds(p) <=> lock = <<p, "rec">>
                       /\ AppHolds(p) <=> lock = <<p, "app">>

\* An operation number is used once, and its artefacts are its own.
Numbered ==
    /\ journal = NoOp \/ (journal.id \in 1 .. Applied /\ journal.phase # "none" /\ journal.version # 0)
    /\ \A o \in OpId : o > Applied => backup[o] = 0
    /\ \A p \in Proc : /\ proc[p].app # "idle" => proc[p].mine.id \in 1 .. Applied
                       /\ Asks(p) => journal.id # proc[p].mine.id
                       /\ RecHolds(p) => journal # NoOp /\ Same(proc[p].op, journal)
    /\ \A p, q \in Proc : p # q /\ proc[p].app # "idle" /\ proc[q].app # "idle" =>
                              proc[p].mine.id # proc[q].mine.id

\* Which threads run what.
Placed ==
    \A p \in Proc :
      /\ proc[p].rec \in {"backup", "swap", "undo"} => host.platform = "windows"
      /\ proc[p].app = "backup" => host.platform = "posix"
      /\ proc[p].app = "swap" => host.platform # "windows"
      /\ proc[p].app # "idle" => proc[p].role = "server"
      /\ proc[p].role = "helper" =>
            host.fixture /\ proc[p].rec \notin {"start", "note", "confirm", "evaluate", "acknowledge", "auto", "end"}
      /\ proc[p].role = "server" =>
            IF host.fixture THEN proc[p].rec \in {"start", "note", "confirm", "end"}
            ELSE proc[p].rec \notin {"note", "confirm", "wait", "backup", "swap", "launch", "watch", "undo", "relaunch"}
      /\ proc[p].role \in {"none", "stray"} => proc[p].rec \in {"start", "end"}

\* The build with the helper updates once; its helper is alone, and nobody
\* acknowledges before the activation is on record.
Once ==
    host.fixture =>
      /\ Applied <= 1
      /\ \A p \in Proc : proc[p].role = "helper" =>
            /\ Applied = 1 /\ journal # NoOp
            /\ \A q \in Proc : /\ proc[q].app \in {"idle", "exit"}
                               /\ proc[q].role = "helper" => q = p
      /\ \A p \in Proc : proc[p].rec = "confirm" =>
            /\ Applied = 1 /\ proc[p].op.id = 1 /\ proc[p].op.version # 0
            /\ proc[p].op.phase = "activated" /\ ~proc[p].op.failed
            /\ journal # NoOp => Same(proc[p].op, journal)
            /\ \A q \in Proc : /\ proc[q].app \in {"idle", "handoff", "exit"}
                               /\ proc[q].rec = "confirm" => Same(proc[p].op, proc[q].op)

\* A release that was healthy, or one for which the backup of a given-up
\* operation stands in.
Safe(v) ==
    \/ v \in good
    \/ host.faulty /\ ~host.fixture /\ \E o \in OpId : o # journal.id /\ backup[o] \in good

Swapped == live = journal.version /\ backup[journal.id] = journal.prior

\* What the record says of the files of an executable.
Recorded ==
    /\ journal.failed => journal.phase = "rolled-back"
    /\ ~Bundle =>
         /\ journal.failed => host.faulty
         /\ journal.phase = "none" => Safe(live)
         /\ Pending => /\ Safe(journal.prior) /\ backup[journal.id] \in {0, journal.prior}
                       /\ live = journal.prior \/ Swapped
         /\ journal.phase = "confirmed" => live \in good /\ journal.version \in good
         /\ journal.phase = "rolled-back" =>
               /\ Safe(journal.prior)
               /\ IF journal.failed THEN Swapped ELSE live = journal.prior

\* The apply thread of p, at each of its steps.
Applying(p) ==
    LET pc == proc[p].app
        op == proc[p].mine
    IN
    /\ pc \in {"drain", "stage", "open", "prepare", "backup", "swap", "save"} =>
          ~op.failed /\ op.version # 0
    /\ pc \in {"backup", "swap", "save"} => journal = op /\ op.phase = "staged"
    /\ pc = "handoff" => journal # NoOp /\ Same(op, journal)
    /\ Bundle => (pc \in {"open", "prepare", "swap"} => backup[op.id] = op.version)
    /\ ~Bundle =>
         /\ pc \in {"drain", "stage", "open", "prepare", "backup"} => backup[op.id] = 0
         /\ pc \in {"open", "prepare", "backup", "swap"} => staged[op.id] = op.version
         /\ pc \in {"backup", "swap"} => live = op.prior
         /\ pc = "swap" => backup[op.id] = op.prior
         /\ pc \in {"save", "handoff"} =>
               IF host.platform = "posix" THEN Swapped
               ELSE live = op.prior /\ staged[op.id] = op.version

\* The recovery, or the helper, of p.
Recovering(p) ==
    LET pc == proc[p].rec
        op == proc[p].op
    IN
    /\ pc \in {"evaluate", "acknowledge"} => op = journal
    /\ RecHolds(p) /\ pc \notin {"evaluate", "record"} => ~op.failed
    /\ pc \in {"acknowledge", "wait", "backup", "swap", "launch", "watch"} => op.phase = "activated"
    /\ pc \in {"restore", "undo", "record"} => op.phase \in {"staged", "activated"}
    /\ RecHolds(p) /\ pc \notin {"cleanup", "clear", "relaunch"} =>
          journal.phase = op.phase \/ (host.fixture /\ journal.phase = "confirmed")
    /\ pc = "cleanup" => journal.phase # "rolled-back"
    /\ ~Bundle =>
         /\ pc = "acknowledge" => live = op.version /\ proc[p].image = op.version
         /\ pc \in {"cleanup", "clear"} => Safe(live) /\ (Pending => live = journal.prior)
         /\ pc \in {"wait", "backup", "swap", "launch", "watch", "restore", "undo", "record"} => Safe(op.prior)
         /\ pc \in {"restore", "undo", "launch", "watch"} => Swapped
         /\ pc = "record" => IF op.failed THEN Swapped /\ host.faulty ELSE live = op.prior
         /\ proc[p].role = "helper" /\ pc \in {"open", "wait"} =>
               IF host.platform = "posix" THEN Swapped ELSE live = journal.prior
         /\ pc \in {"backup", "swap"} => live = journal.prior
         /\ pc = "swap" => backup[journal.id] = journal.prior
         /\ proc[p].role = "helper" /\ pc \in {"open", "wait", "backup", "swap"} /\ host.platform = "windows" =>
               staged[journal.id] = journal.version

UpdateInv ==
    /\ Typed /\ Locked /\ Numbered /\ Placed /\ Once /\ Recorded
    /\ \A p \in Proc : Applying(p) /\ Recovering(p)

---------------------------------------------------------------------------
(* The steps of a process.                                                 *)

Stays(q) ==
    /\ proc'[q].role = proc[q].role /\ proc'[q].image = proc[q].image
    /\ proc'[q].rec = proc[q].rec /\ proc'[q].app = proc[q].app
    /\ proc'[q].op = proc[q].op /\ proc'[q].mine = proc[q].mine

Others(p) == proc' \in [Proc -> Process] /\ \A q \in Proc : q # p => Stays(q)

\* The recovery thread goes to pc, the apply thread stays.
RecTo(p, pc) ==
    /\ Others(p) /\ proc'[p].rec = pc
    /\ proc'[p].role = proc[p].role /\ proc'[p].image = proc[p].image
    /\ proc'[p].app = proc[p].app /\ proc'[p].mine = proc[p].mine
AppTo(p, pc) ==
    /\ Others(p) /\ proc'[p].app = pc
    /\ proc'[p].role = proc[p].role /\ proc'[p].image = proc[p].image
    /\ proc'[p].rec = proc[p].rec /\ proc'[p].op = proc[p].op
Gone(p) ==
    /\ Others(p) /\ proc'[p].role = "none" /\ proc'[p].rec = "end" /\ proc'[p].app = "idle"
    /\ lock' = IF lock[1] = p THEN Free ELSE lock

LEMMA Records ==
    NoOp \in Operation /\ NoProc \in Process
<1>1. NoOp \in Operation
  BY UpdateAssumption DEF NoOp, Operation
<1> QED BY <1>1, UpdateAssumption DEF NoProc, Process, RecPC, AppPC, Version

\* The numbers given so far are numbers of operations.
LEMMA NumbersGiven == ASSUME Typed PROVE Applied \in Nat /\ Applied <= MaxApplies /\ 1 .. Applied \subseteq OpId
<1>1. left.applies \in 0 .. MaxApplies
  BY DEF Typed
<1> QED BY <1>1, UpdateAssumption DEF Applied, OpId

LEMMA RecMoves ==
    ASSUME Typed, NEW p \in Proc, NEW pc \in RecPC, Rec(p, pc)
    PROVE  RecTo(p, pc) /\ proc'[p].op = proc[p].op
  BY DEF Typed, Rec, RecTo, Others, Stays, Process

LEMMA AppMoves ==
    ASSUME Typed, NEW p \in Proc, NEW pc \in AppPC, App(p, pc)
    PROVE  AppTo(p, pc) /\ proc'[p].mine = proc[p].mine
  BY DEF Typed, App, AppTo, Others, Stays, Process

\* A recovery thread that loads a record, an apply thread that changes its own.
LEMMA LoadMoves ==
    ASSUME Typed, NEW p \in Proc, NEW pc \in RecPC, NEW op \in Operation,
           proc' = [proc EXCEPT ![p].rec = pc, ![p].op = op]
    PROVE  RecTo(p, pc) /\ proc'[p].op = op
<1>1. PICK r \in Process : r = proc[p]
  BY DEF Typed
<1>2. [r EXCEPT !.rec = pc, !.op = op] \in Process
  BY DEF Process
<1>3. proc' = [proc EXCEPT ![p] = [r EXCEPT !.rec = pc, !.op = op]]
  BY <1>1
<1> QED BY <1>1, <1>2, <1>3 DEF Typed, RecTo, Others, Stays, Process

LEMMA SaveMoves ==
    ASSUME Typed, NEW p \in Proc, NEW pc \in AppPC, NEW op \in Operation,
           proc' = [proc EXCEPT ![p].mine = op, ![p].app = pc]
    PROVE  AppTo(p, pc) /\ proc'[p].mine = op
<1>1. PICK r \in Process : r = proc[p]
  BY DEF Typed
<1>2. [r EXCEPT !.mine = op, !.app = pc] \in Process
  BY DEF Process
<1>3. proc' = [proc EXCEPT ![p] = [r EXCEPT !.mine = op, !.app = pc]]
  BY <1>1
<1> QED BY <1>1, <1>2, <1>3 DEF Typed, AppTo, Others, Stays, Process

\* Everybody but p, as p leaves it.
LEMMA WithoutKeeps ==
    ASSUME Typed, NEW p \in Proc
    PROVE  /\ \A q \in Proc : Without(p)[q] \in Process
           /\ \A q \in Proc : q # p => /\ Without(p)[q].role = proc[q].role /\ Without(p)[q].image = proc[q].image
                                       /\ Without(p)[q].rec = proc[q].rec /\ Without(p)[q].app = proc[q].app
                                       /\ Without(p)[q].op = proc[q].op /\ Without(p)[q].mine = proc[q].mine
           /\ Without(p)[p] = NoProc /\ Without(p) = [q \in Proc |-> Without(p)[q]]
<1>1. Without(p)[p] = NoProc /\ Without(p) = [q \in Proc |-> Without(p)[q]]
  BY DEF Without
<1>2. ASSUME NEW q \in Proc, q # p
      PROVE  /\ Without(p)[q] \in Process
             /\ Without(p)[q].role = proc[q].role /\ Without(p)[q].image = proc[q].image
             /\ Without(p)[q].rec = proc[q].rec /\ Without(p)[q].app = proc[q].app
             /\ Without(p)[q].op = proc[q].op /\ Without(p)[q].mine = proc[q].mine
  <2>1. PICK r \in Process : r = proc[q]
    BY DEF Typed
  <2> DEFINE a == IF r.parent = p THEN 0 ELSE r.parent
             b == IF r.child = p THEN 0 ELSE r.child
  <2>2. Without(p)[q] = [r EXCEPT !.parent = a, !.child = b]
    BY <1>2, <2>1 DEF Without
  <2>3. a \in Proc \cup {0} /\ b \in Proc \cup {0}
    BY DEF Process
  <2> HIDE DEF a, b
  <2> QED BY <2>1, <2>2, <2>3 DEF Process
<1> QED BY <1>1, <1>2, Records

LEMMA ExitMoves ==
    ASSUME Typed, NEW p \in Proc, Exit(p) PROVE Gone(p)
<1>1. proc' = Without(p)
  BY DEF Exit
<1>2. proc' \in [Proc -> Process] /\ \A q \in Proc : q # p => Stays(q)
  BY <1>1, WithoutKeeps DEF Stays
<1> QED BY <1>1, <1>2, WithoutKeeps DEF Exit, Unlocked, Gone, Others, NoProc


---------------------------------------------------------------------------
(* The lock.                                                               *)

\* What the recovery thread of p, or its apply thread, does with the lock.
RecLock(p) ==
    \/ lock' = lock /\ (RecHolds(p)' <=> RecHolds(p))
    \/ lock = Free /\ lock' = <<p, "rec">> /\ RecHolds(p)'
    \/ lock = <<p, "rec">> /\ lock' = Free /\ ~RecHolds(p)'
AppLock(p) ==
    \/ lock' = lock /\ (AppHolds(p)' <=> AppHolds(p))
    \/ lock = Free /\ lock' = <<p, "app">> /\ AppHolds(p)'
    \/ lock = <<p, "app">> /\ lock' = Free /\ ~AppHolds(p)'

\* One thread is past OpenJournal at most.
LEMMA Alone ==
    ASSUME Locked, NEW p \in Proc
    PROVE  /\ RecHolds(p) => /\ lock = <<p, "rec">> /\ ~AppHolds(p)
                             /\ \A q \in Proc : q # p => ~RecHolds(q) /\ ~AppHolds(q)
           /\ AppHolds(p) => /\ lock = <<p, "app">> /\ ~RecHolds(p)
                             /\ \A q \in Proc : q # p => ~RecHolds(q) /\ ~AppHolds(q)
           /\ lock = Free => ~RecHolds(p) /\ ~AppHolds(p)
  BY UpdateAssumption DEF Locked, Free

LEMMA RecLocked ==
    ASSUME Locked, NEW p \in Proc, NEW pc, RecTo(p, pc), RecLock(p) PROVE Locked'
<1>1. \A q \in Proc : q # p => (RecHolds(q)' <=> RecHolds(q))
  BY DEF RecTo, Others, Stays, RecHolds
<1>2. \A q \in Proc : AppHolds(q)' <=> AppHolds(q)
  BY DEF RecTo, Others, Stays, AppHolds
<1> QED BY <1>1, <1>2, UpdateAssumption DEF Locked, RecLock, Free

LEMMA AppLocked ==
    ASSUME Locked, NEW p \in Proc, NEW pc, AppTo(p, pc), AppLock(p) PROVE Locked'
<1>1. \A q \in Proc : q # p => (AppHolds(q)' <=> AppHolds(q))
  BY DEF AppTo, Others, Stays, AppHolds
<1>2. \A q \in Proc : RecHolds(q)' <=> RecHolds(q)
  BY DEF AppTo, Others, Stays, RecHolds
<1> QED BY <1>1, <1>2, UpdateAssumption DEF Locked, AppLock, Free

LEMMA GoneLocked ==
    ASSUME Locked, NEW p \in Proc, Gone(p) PROVE Locked'
<1>1. ~RecHolds(p)' /\ ~AppHolds(p)'
  BY DEF Gone, RecHolds, AppHolds
<1>2. \A q \in Proc : q # p => (RecHolds(q)' <=> RecHolds(q)) /\ (AppHolds(q)' <=> AppHolds(q))
  BY DEF Gone, Others, Stays, RecHolds, AppHolds
<1>3. \A q \in Proc : q # p => (lock' = <<q, "rec">> <=> lock = <<q, "rec">>) /\ (lock' = <<q, "app">> <=> lock = <<q, "app">>)
  BY UpdateAssumption DEF Gone, Locked, Free
<1>4. lock' \in {Free} \cup (Proc \X {"rec", "app"}) /\ lock' # <<p, "rec">> /\ lock' # <<p, "app">>
  BY UpdateAssumption DEF Gone, Locked, Free
<1> QED BY <1>1, <1>2, <1>3, <1>4 DEF Locked

---------------------------------------------------------------------------
(* Steps that leave the files and the record alone.                        *)

Still ==
    /\ UNCHANGED <<host, live, backup, staged, journal, good>>
    /\ left'.applies = left.applies
    /\ Typed'

Kept == UNCHANGED <<host, live, backup, staged, journal, good>>

\* Who does not move keeps what is said of it.
LEMMA KeptStays ==
    ASSUME UpdateInv, Kept, NEW q \in Proc, Stays(q)
    PROVE  (Applying(q) /\ Recovering(q))'
<1>1. Safe(live)' = Safe(live) /\ (Safe(proc[q].op.prior))' = Safe(proc[q].op.prior) /\ Swapped' = Swapped /\ Pending' = Pending /\ RecHolds(q)' = RecHolds(q) /\ Bundle' = Bundle
  BY DEF Kept, Stays, Safe, Swapped, Pending, RecHolds, Bundle
<1>2. Applying(q) /\ Recovering(q)
  BY DEF UpdateInv
<1>3. Applying(q)'
  BY <1>1, <1>2 DEF Applying, Kept, Stays
<1>4. Recovering(q)'
  BY <1>1, <1>2 DEF Recovering, Kept, Stays
<1> QED BY <1>3, <1>4

LEMMA RecordedKept == ASSUME UpdateInv, Kept PROVE Recorded'
<1>1. Swapped' = Swapped /\ Pending' = Pending /\ Bundle' = Bundle /\ Safe(live)' = Safe(live) /\ Safe(journal.prior)' = Safe(journal.prior)
  BY DEF Kept, Safe, Swapped, Pending, Bundle
<1> QED BY <1>1 DEF UpdateInv, Kept, Recorded

LEMMA StaysKeeps ==
    ASSUME UpdateInv, Still, NEW q \in Proc, Stays(q)
    PROVE  (Applying(q) /\ Recovering(q))'
  BY KeptStays DEF Still, Kept

LEMMA Bystanders ==
    ASSUME UpdateInv, Still, NEW p \in Proc, Others(p), NEW q \in Proc, q # p
    PROVE  (Applying(q) /\ Recovering(q))'
  BY StaysKeeps DEF Others

LEMMA RecordedStill == ASSUME UpdateInv, Still PROVE Recorded'
  BY RecordedKept DEF Still, Kept

\* The recovery thread of p goes to pc.
RecFits(p, pc) ==
    /\ pc \in {"backup", "swap", "undo"} => host.platform = "windows"
    /\ proc[p].role = "helper" => pc \notin {"start", "note", "confirm", "evaluate", "acknowledge", "auto", "end"}
    /\ proc[p].role = "server" =>
          IF host.fixture THEN pc \in {"start", "note", "confirm", "end"}
          ELSE pc \notin {"note", "confirm", "wait", "backup", "swap", "launch", "watch", "undo", "relaunch"}
    /\ proc[p].role \in {"none", "stray"} => pc \in {"start", "end"}

LEMMA RecPlaced ==
    ASSUME Placed, NEW p \in Proc, NEW pc, RecTo(p, pc), RecFits(p, pc), UNCHANGED host PROVE Placed'
  BY DEF Placed, RecTo, Others, Stays, RecFits

LEMMA RecQuiet ==
    ASSUME UpdateInv, Still, NEW p \in Proc, NEW pc \in RecPC, RecTo(p, pc), RecLock(p),
           RecFits(p, pc), pc # "confirm",
           RecHolds(p)' => journal # NoOp /\ Same(proc'[p].op, journal),
           Recovering(p)'
    PROVE  UpdateInv'
<1>1. Locked'
  BY RecLocked DEF UpdateInv
<1>2. Placed'
  BY RecPlaced DEF UpdateInv, Still
<1>3. Applied' = Applied
  BY DEF Still, Applied
<1>4. Numbered'
  <2>1. \A q \in Proc : q # p => (RecHolds(q)' <=> RecHolds(q)) /\ proc'[q].op = proc[q].op
    BY DEF RecTo, Others, Stays, RecHolds
  <2>2. \A q \in Proc : proc'[q].app = proc[q].app /\ proc'[q].mine = proc[q].mine /\ (Asks(q)' <=> Asks(q))
    BY DEF RecTo, Others, Stays, Asks
  <2>3. \A q \in Proc : RecHolds(q)' => journal # NoOp /\ Same(proc'[q].op, journal)
    BY <2>1 DEF UpdateInv, Numbered
  <2> QED BY <1>3, <2>2, <2>3 DEF UpdateInv, Numbered, Still
<1>5. Once'
  BY <1>3 DEF UpdateInv, Once, Still, RecTo, Others, Stays
<1>6. \A q \in Proc : (Applying(q) /\ Recovering(q))'
  <2>1. Applying(p)'
    BY DEF UpdateInv, Applying, Still, RecTo, Swapped, Bundle
  <2> QED BY <2>1, Bystanders DEF RecTo
<1> QED BY <1>1, <1>2, <1>4, <1>5, <1>6, RecordedStill DEF UpdateInv, Still

LEMMA AppQuiet ==
    ASSUME UpdateInv, Still, NEW p \in Proc, NEW pc \in AppPC, AppTo(p, pc), AppLock(p),
           proc'[p].mine = proc[p].mine,
           pc = "idle" \/ (Asks(p) /\ pc \in {"stage", "prepare"}),
           Applying(p)'
    PROVE  UpdateInv'
<1>1. Locked'
  BY AppLocked DEF UpdateInv
<1>2. Applied' = Applied
  BY DEF Still, Applied
<1>3. \A q \in Proc : /\ proc'[q].mine = proc[q].mine /\ (Asks(q)' => Asks(q))
                      /\ proc'[q].app # "idle" => proc[q].app # "idle"
  BY DEF AppTo, Others, Stays, Asks
<1>4. \A q \in Proc : proc'[q].rec = proc[q].rec /\ proc'[q].op = proc[q].op /\ proc'[q].role = proc[q].role
  BY DEF AppTo, Others, Stays
<1>5. Placed'
  BY <1>3, <1>4 DEF UpdateInv, Placed, Still, AppTo, Others, Stays
<1>6. Numbered'
  BY <1>2, <1>3, <1>4 DEF UpdateInv, Numbered, Still, RecHolds
<1>7. Once'
  BY <1>2, <1>4 DEF UpdateInv, Once, Still, AppTo, Others, Stays, Asks
<1>8. \A q \in Proc : (Applying(q) /\ Recovering(q))'
  <2>1. Recovering(p)'
    BY <1>4 DEF UpdateInv, Recovering, Still, AppTo, Swapped, Bundle, RecHolds, Safe, Pending
  <2> QED BY <2>1, Bystanders DEF AppTo
<1> QED BY <1>1, <1>5, <1>6, <1>7, <1>8, RecordedStill DEF UpdateInv, Still

LEMMA GoneQuiet ==
    ASSUME UpdateInv, Still, NEW p \in Proc, Gone(p) PROVE UpdateInv'
<1>1. Locked'
  BY GoneLocked DEF UpdateInv
<1>2. Applied' = Applied
  BY DEF Still, Applied
<1>3. \A q \in Proc : q # p => Stays(q)
  BY DEF Gone, Others
<1>4. Placed'
  BY <1>3 DEF UpdateInv, Placed, Still, Gone, Stays
<1>5. Numbered'
  <2>1. \A q \in Proc : proc'[q].app # "idle" => proc[q].app # "idle" /\ proc'[q].mine = proc[q].mine
    BY <1>3 DEF Gone, Stays
  <2>2. \A q \in Proc : Asks(q)' => Asks(q) /\ proc'[q].mine = proc[q].mine
    BY <1>3 DEF Gone, Stays, Asks
  <2>3. \A q \in Proc : RecHolds(q)' => RecHolds(q) /\ proc'[q].op = proc[q].op
    BY <1>3 DEF Gone, Stays, RecHolds
  <2> QED BY <1>2, <2>1, <2>2, <2>3 DEF UpdateInv, Numbered, Still
<1>6. Once'
  BY <1>2, <1>3 DEF UpdateInv, Once, Still, Gone, Stays
<1>7. \A q \in Proc : (Applying(q) /\ Recovering(q))'
  <2>1. Applying(p)' /\ Recovering(p)'
    BY DEF Applying, Recovering, Gone, RecHolds
  <2> QED BY <2>1, Bystanders DEF Gone
<1> QED BY <1>1, <1>4, <1>5, <1>6, <1>7, RecordedStill DEF UpdateInv, Still

\* Nobody moves: a release is published, a deadline passes, a stutter.
LEMMA WorldQuiet ==
    ASSUME UpdateInv, Still, UNCHANGED <<proc, lock>> PROVE UpdateInv'
<1>1. \A q \in Proc : (RecHolds(q)' <=> RecHolds(q)) /\ (AppHolds(q)' <=> AppHolds(q)) /\ (Asks(q)' <=> Asks(q))
  BY DEF RecHolds, AppHolds, Asks
<1>2. Locked'
  BY <1>1 DEF UpdateInv, Locked
<1>3. Applied' = Applied
  BY DEF Still, Applied
<1>4. Placed' /\ Once'
  BY <1>3 DEF UpdateInv, Placed, Once, Still
<1>5. Numbered'
  BY <1>1, <1>3 DEF UpdateInv, Numbered, Still
<1>6. \A q \in Proc : (Applying(q) /\ Recovering(q))'
  <2>1. Safe(live)' = Safe(live) /\ Swapped' = Swapped /\ Pending' = Pending /\ Bundle' = Bundle
    BY DEF Still, Safe, Swapped, Pending, Bundle
  <2> SUFFICES ASSUME NEW q \in Proc PROVE (Applying(q) /\ Recovering(q))'
    OBVIOUS
  <2>2. Safe(proc[q].op.prior)' = Safe(proc[q].op.prior)
    BY DEF Still, Safe
  <2>3. Applying(q) /\ Recovering(q)
    BY DEF UpdateInv
  <2>4. Applying(q)'
    BY <2>1, <2>3 DEF Applying, Still
  <2> QED BY <1>1, <2>1, <2>2, <2>3, <2>4 DEF Recovering, Still
<1> QED BY <1>2, <1>4, <1>5, <1>6, RecordedStill DEF UpdateInv, Still

\* What a step of the budget of faults, or of crashes, leaves.
LEMMA Spent ==
    ASSUME Typed,
           \/ left' = left \/ Fault
           \/ left.crashes > 0 /\ left' = [left EXCEPT !.crashes = @ - 1]
    PROVE  /\ left' \in [applies : 0 .. MaxApplies, crashes : 0 .. MaxCrashes, faults : 0 .. MaxFaults]
           /\ left'.applies = left.applies
  BY UpdateAssumption DEF Typed, Fault

LEMMA Stills ==
    ASSUME Typed, NEW p \in Proc, Others(p) \/ Gone(p),
           UNCHANGED <<host, published, files, journal, late, good>>,
           \/ left' = left \/ Fault
           \/ left.crashes > 0 /\ left' = [left EXCEPT !.crashes = @ - 1]
    PROVE  Still
<1>1. proc' \in [Proc -> Process]
  BY DEF Others, Gone
<1> QED BY <1>1, Spent DEF Typed, Still, files

---------------------------------------------------------------------------
(* The steps that leave the files and the record alone, one by one.        *)

LEMMA PublishStep == ASSUME UpdateInv, Publish PROVE UpdateInv'
<1>1. Still
  BY UpdateAssumption DEF UpdateInv, Typed, Publish, Still, Version, files
<1> QED BY <1>1, WorldQuiet DEF Publish

LEMMA DeadlineStep == ASSUME UpdateInv, DeadlinePasses PROVE UpdateInv'
<1>1. journal.id \in OpId
  BY UpdateAssumption DEF UpdateInv, Typed, Numbered, DeadlinePasses, NoOp, Operation, OpId, Applied
<1>2. Still
  BY <1>1 DEF UpdateInv, Typed, DeadlinePasses, Still, files
<1> QED BY <1>2, WorldQuiet DEF DeadlinePasses

LEMMA ReadyStep == ASSUME UpdateInv, NEW p \in Proc, Ready(p) PROVE UpdateInv'
<1> DEFINE pc == IF proc[p].role = "stray" THEN "end" ELSE IF host.fixture THEN "note"
                 ELSE IF journal = NoOp THEN "auto" ELSE "open"
<1>1. pc \in {"end", "note", "auto", "open"} /\ Rec(p, pc)
  BY DEF Ready
<1>2. pc \in RecPC
  BY <1>1 DEF RecPC
<1>3. RecTo(p, pc)
  BY <1>1, <1>2, RecMoves DEF UpdateInv
<1>4. RecFits(p, pc)
  BY DEF Ready, RecFits
<1> HIDE DEF pc
<1>5. ~RecHolds(p) /\ ~RecHolds(p)'
  BY <1>1, <1>3 DEF Ready, RecHolds, RecTo
<1>6. Still
  BY <1>3, Stills DEF Ready, UpdateInv, RecTo
<1>7. Recovering(p)'
  BY <1>1, <1>3, <1>4, <1>5, <1>6 DEF Recovering, RecTo, RecFits, Ready
<1> QED BY <1>1, <1>2, <1>3, <1>4, <1>5, <1>6, <1>7, RecQuiet DEF RecLock, Ready

LEMMA GoneSteps ==
    ASSUME UpdateInv, NEW p \in Proc,
           DieEarly(p) \/ ServeReturns(p) \/ ExitProcess(p) \/ Crash(p)
    PROVE  UpdateInv'
<1>1. Gone(p)
  BY ExitMoves DEF UpdateInv, DieEarly, ServeReturns, ExitProcess, Crash
<1>2. Still
  BY <1>1, Stills DEF UpdateInv, DieEarly, ServeReturns, ExitProcess, Crash
<1> QED BY <1>1, <1>2, GoneQuiet

LEMMA AutoEndsStep == ASSUME UpdateInv, NEW p \in Proc, AutoEnds(p) PROVE UpdateInv'
<1>1. RecTo(p, "end") /\ "end" \in RecPC
  BY RecMoves DEF AutoEnds, UpdateInv, RecPC
<1>2. Still
  BY <1>1, Stills DEF AutoEnds, UpdateInv, RecTo
<1>3. ~RecHolds(p) /\ ~RecHolds(p)'
  BY <1>1 DEF AutoEnds, RecHolds, RecTo
<1>4. RecFits(p, "end")
  BY DEF UpdateInv, Placed, AutoEnds, RecFits
<1>5. Recovering(p)'
  BY <1>1, <1>3, <1>4 DEF Recovering, RecTo, RecFits
<1> QED BY <1>1, <1>2, <1>3, <1>4, <1>5, RecQuiet DEF RecLock, AutoEnds

LEMMA WaitParentStep == ASSUME UpdateInv, NEW p \in Proc, WaitParent(p) PROVE UpdateInv'
<1> DEFINE pc == IF host.platform = "windows" THEN "backup" ELSE "launch"
<1>1. pc \in {"backup", "launch"} /\ pc \in RecPC /\ Rec(p, pc)
  BY DEF WaitParent, RecPC
<1>2. RecTo(p, pc) /\ proc'[p].op = proc[p].op
  BY <1>1, RecMoves DEF UpdateInv
<1>3. Still
  BY <1>2, Stills DEF WaitParent, UpdateInv, RecTo
<1>4. RecHolds(p) /\ RecHolds(p)'
  BY <1>1, <1>2 DEF WaitParent, RecHolds, RecTo
<1>5. proc[p].role = "helper" /\ host.fixture /\ host.platform \in Platforms
  BY DEF UpdateInv, Placed, WaitParent, Typed, Process, Host
<1>6. RecFits(p, pc)
  BY <1>1, <1>5 DEF RecFits
<1>7. Same(proc[p].op, journal) /\ journal # NoOp
  BY <1>4 DEF UpdateInv, Numbered
<1>8. Recovering(p)'
  <2>1. Recovering(p)
    BY DEF UpdateInv
  <2> QED BY <1>2, <1>3, <1>4, <1>5, <1>7, <2>1 DEF UpdateInv, Recovering, RecTo, WaitParent, Still, Swapped, Safe, Bundle, RecHolds, Pending, Platforms
<1> QED BY <1>1, <1>2, <1>3, <1>4, <1>6, <1>7, <1>8, RecQuiet DEF RecLock, WaitParent

LEMMA OpenStep == ASSUME UpdateInv, NEW p \in Proc, Open(p) PROVE UpdateInv'
<1> DEFINE server == proc[p].role = "server"
<1>1. /\ Typed /\ Locked /\ Placed /\ Recorded /\ Recovering(p)
      /\ ~RecHolds(p) /\ "auto" \in RecPC /\ "evaluate" \in RecPC /\ "wait" \in RecPC
  BY DEF UpdateInv, Open, RecHolds, RecPC
<1>2. IF server THEN ~host.fixture ELSE proc[p].role = "helper" /\ host.fixture
  BY <1>1 DEF Open, Placed, Typed, Process
<1>3. CASE /\ lock = Free /\ journal # NoOp /\ (server \/ journal.phase = "activated")
           /\ lock' = <<p, "rec">>
           /\ proc' = [proc EXCEPT ![p].rec = IF server THEN "evaluate" ELSE "wait", ![p].op = journal]
  <2> DEFINE pc == IF server THEN "evaluate" ELSE "wait"
  <2>1. pc \in RecPC /\ journal \in Operation
    BY <1>1 DEF Typed
  <2>2. RecTo(p, pc) /\ proc'[p].op = journal
    BY <1>1, <1>3, <2>1, LoadMoves
  <2>3. Still
    BY <1>1, <2>2, Stills DEF Open, RecTo
  <2>4. RecHolds(p)'
    BY <2>2 DEF RecTo, RecHolds
  <2>5. RecFits(p, pc)
    BY <1>1, <1>2 DEF RecFits
  <2>6. pc # "confirm" /\ RecLock(p)
    BY <1>3, <2>4 DEF RecLock
  <2>7. Same(proc'[p].op, journal)
    BY <2>2 DEF Same
  <2>8. Recovering(p)'
    <3>1. Safe(journal.prior)' = Safe(journal.prior) /\ Swapped' = Swapped /\ Bundle' = Bundle /\ Pending' = Pending
      BY <2>3 DEF Still, Safe, Swapped, Bundle, Pending
    <3>2. CASE server
      BY <1>3, <2>2, <2>3, <3>2 DEF Recovering, RecTo, Still, Bundle
    <3>3. CASE ~server
      <4>1. /\ journal.phase = "activated" /\ ~journal.failed
            /\ ~Bundle => Safe(journal.prior)
        BY <1>1, <1>3, <3>3 DEF Recorded, Pending
      <4> QED BY <1>1, <2>2, <2>3, <3>1, <3>3, <4>1 DEF Recovering, RecTo, Still, Open
    <3> QED BY <3>2, <3>3
  <2> QED BY <1>3, <2>1, <2>2, <2>3, <2>5, <2>6, <2>7, <2>8, RecQuiet
<1>4. CASE server /\ Rec(p, "auto") /\ UNCHANGED lock
  <2>1. RecTo(p, "auto")
    BY <1>1, <1>4, RecMoves
  <2>2. Still
    BY <1>1, <2>1, Stills DEF Open, RecTo
  <2>3. ~RecHolds(p)' /\ RecLock(p)
    BY <1>1, <1>4, <2>1 DEF RecTo, RecHolds, RecLock
  <2>4. RecFits(p, "auto")
    BY <1>2, <1>4 DEF RecFits
  <2>5. Recovering(p)'
    BY <1>4, <2>1, <2>3 DEF Recovering, RecTo
  <2> QED BY <1>1, <2>1, <2>2, <2>3, <2>4, <2>5, RecQuiet
<1>5. CASE Exit(p)
  <2>1. Gone(p)
    BY <1>1, <1>5, ExitMoves
  <2>2. Still
    BY <1>1, <2>1, Stills DEF Open
  <2> QED BY <2>1, <2>2, GoneQuiet
<1> QED BY <1>3, <1>4, <1>5 DEF Open

\* EvaluateRecovery: what each answer tells of the files.
LEMMA Decides ==
    ASSUME UpdateInv, journal # NoOp, NEW image
    PROVE  LET pc == Decision(journal, image) IN
           /\ pc \in {"auto", "acknowledge", "restore", "cleanup", "clear"}
           /\ pc # "auto" => ~journal.failed
           /\ pc = "acknowledge" => journal.phase = "activated" /\ image = journal.version
           /\ pc = "restore" => Pending
           /\ pc = "cleanup" => journal.phase # "rolled-back"
           /\ ~Bundle =>
                /\ pc \in {"acknowledge", "restore"} => Swapped /\ Safe(journal.prior)
                /\ pc \in {"cleanup", "clear"} => Safe(live) /\ (Pending => live = journal.prior)
<1> DEFINE pc == Decision(journal, image)
<1>1. journal.phase \in {"staged", "activated", "confirmed", "rolled-back"} /\ journal.failed \in BOOLEAN
  BY DEF UpdateInv, Numbered, Typed, Operation
<1>2. journal.failed => pc = "auto"
  BY DEF Decision
<1>3. ASSUME ~journal.failed
      PROVE  /\ pc \in {"acknowledge", "restore", "cleanup", "clear"}
             /\ pc = "acknowledge" => journal.phase = "activated" /\ Activated(journal) /\ image = journal.version
             /\ pc = "restore" => Pending /\ (~Bundle => Activated(journal))
             /\ pc = "cleanup" => journal.phase # "rolled-back" /\ (Pending => ~Activated(journal))
             /\ pc = "clear" => journal.phase = "rolled-back"
  BY <1>1, <1>3, Zenon DEF Decision, Pending, Pristine
<1>4. ASSUME ~Bundle, Pending
      PROVE  /\ Activated(journal) => Swapped
             /\ ~Activated(journal) => live = journal.prior
             /\ Safe(journal.prior)
  BY <1>4 DEF UpdateInv, Recorded, Activated
<1>5. ASSUME ~Bundle
      PROVE  /\ journal.phase = "confirmed" => Safe(live)
             /\ journal.phase = "rolled-back" /\ ~journal.failed => Safe(live)
  BY <1>5 DEF UpdateInv, Recorded, Safe
<1> HIDE DEF pc
<1>6. journal.failed => pc # "acknowledge" /\ pc # "restore" /\ pc # "cleanup" /\ pc # "clear"
  BY <1>2
<1>7. ASSUME ~Bundle
      PROVE  /\ pc \in {"acknowledge", "restore"} => Swapped /\ Safe(journal.prior)
             /\ pc \in {"cleanup", "clear"} => Safe(live) /\ (Pending => live = journal.prior)
  BY <1>1, <1>3, <1>4, <1>5, <1>6, <1>7 DEF Pending
<1>8. pc # "auto" => ~journal.failed
  BY <1>2
<1> QED BY <1>2, <1>3, <1>6, <1>7, <1>8 DEF pc

LEMMA EvaluateStep == ASSUME UpdateInv, NEW p \in Proc, Evaluate(p) PROVE UpdateInv'
<1> DEFINE pc == Decision(proc[p].op, proc[p].image)
<1>1. Typed /\ Locked /\ Placed /\ Recorded /\ Recovering(p) /\ RecHolds(p)
  BY DEF UpdateInv, Evaluate, RecHolds
<1>2. proc[p].op = journal /\ journal # NoOp /\ ~host.fixture /\ proc[p].role = "server"
  BY <1>1 DEF UpdateInv, Recovering, Evaluate, Numbered, Placed, Typed, Process
<1>3. /\ pc \in {"auto", "acknowledge", "restore", "cleanup", "clear"} /\ (pc # "auto" => ~journal.failed)
      /\ pc = "acknowledge" => journal.phase = "activated" /\ proc[p].image = journal.version
      /\ pc = "restore" => Pending
      /\ pc = "cleanup" => journal.phase # "rolled-back"
      /\ ~Bundle => /\ pc \in {"acknowledge", "restore"} => Swapped /\ Safe(journal.prior)
                    /\ pc \in {"cleanup", "clear"} => Safe(live) /\ (Pending => live = journal.prior)
  BY <1>2, Decides
<1>4. Rec(p, pc) /\ RecDone(p, pc) /\ UNCHANGED <<host, published, files, journal, late, left, good>>
  BY DEF Evaluate
<1> HIDE DEF pc
<1>5. pc \in RecPC
  BY <1>3 DEF RecPC
<1>6. RecTo(p, pc) /\ proc'[p].op = journal
  BY <1>1, <1>2, <1>4, <1>5, RecMoves
<1>7. Still
  BY <1>1, <1>4, <1>6, Stills DEF RecTo
<1>8. RecHolds(p)' <=> pc # "auto"
  BY <1>3, <1>6 DEF RecTo, RecHolds
<1>9. RecLock(p)
  BY <1>1, <1>4, <1>8, Alone DEF RecDone, Unlocked, RecLock
<1>10. RecFits(p, pc)
  BY <1>2, <1>3 DEF RecFits
<1>11. Same(proc'[p].op, journal)
  BY <1>6 DEF Same
<1>12. Recovering(p)'
  <2>1. Safe(journal.prior)' = Safe(journal.prior) /\ Safe(live)' = Safe(live) /\ Swapped' = Swapped /\ Bundle' = Bundle /\ Pending' = Pending
    BY <1>7 DEF Still, Safe, Swapped, Bundle, Pending
  <2>2. journal' = journal /\ live' = live /\ proc'[p].role = "server" /\ proc'[p].image = proc[p].image /\ proc'[p].rec = pc
    BY <1>2, <1>6, <1>7 DEF Still, RecTo
  <2> QED BY <1>2, <1>3, <1>6, <1>8, <2>1, <2>2 DEF Recovering, Pending, Swapped
<1> QED BY <1>2, <1>3, <1>5, <1>6, <1>7, <1>9, <1>10, <1>11, <1>12, RecQuiet

\* The fixture reads the record, and goes on to confirm what is activated.
LEMMA NoteStep == ASSUME UpdateInv, NEW p \in Proc, Note(p) PROVE UpdateInv'
<1> DEFINE yes == journal.phase = "activated" /\ journal.version = proc[p].image
           pc == IF yes THEN "confirm" ELSE "end"
<1>1. Typed /\ Locked /\ Placed /\ Numbered /\ Once /\ proc[p].rec = "note"
  BY DEF UpdateInv, Note
<1>2. proc' = [proc EXCEPT ![p].rec = pc, ![p].op = journal]
  BY <1>1 DEF Note, Typed, Process
<1>3. RecTo(p, pc) /\ proc'[p].op = journal
  <2>1. pc \in RecPC /\ journal \in Operation
    BY <1>1 DEF Typed, RecPC
  <2> HIDE DEF pc
  <2> QED BY <1>1, <1>2, <2>1, LoadMoves
<1>4. Still
  BY <1>1, <1>3, Stills DEF Note, RecTo
<1>5. ~RecHolds(p) /\ ~RecHolds(p)' /\ RecLock(p)
  BY <1>1, <1>3 DEF RecTo, RecHolds, RecLock, Note
<1>6. host.fixture /\ proc[p].role = "server"
  BY <1>1 DEF Placed, Typed, Process
<1>7. RecFits(p, pc)
  BY <1>6 DEF RecFits
<1>8. Recovering(p)'
  BY <1>3, <1>5, <1>6 DEF Recovering, RecTo
<1>9. CASE ~yes
  <2>1. pc = "end"
    BY <1>9
  <2> HIDE DEF pc, yes
  <2> QED BY <1>3, <1>4, <1>5, <1>7, <1>8, <2>1, RecQuiet DEF RecPC
<1>10. CASE yes
  <2>1. Locked' /\ Placed'
    BY <1>1, <1>3, <1>4, <1>5, <1>7, RecLocked, RecPlaced DEF Still
  <2>2. Applied' = Applied
    BY <1>4 DEF Still, Applied
  <2>3. \A q \in Proc : proc'[q].app = proc[q].app /\ proc'[q].mine = proc[q].mine /\ proc'[q].role = proc[q].role
    BY <1>3 DEF RecTo, Others, Stays
  <2>4. Numbered'
    <3>1. \A q \in Proc : RecHolds(q)' => RecHolds(q) /\ proc'[q].op = proc[q].op
      BY <1>3, <1>5 DEF RecTo, Others, Stays, RecHolds
    <3> QED BY <1>1, <1>4, <2>2, <2>3, <3>1 DEF Numbered, Still, Asks
  <2>5. journal.id = 1 /\ Applied = 1 /\ journal # NoOp /\ ~journal.failed /\ journal.version # 0
    BY <1>1, <1>6, <1>10, UpdateAssumption DEF Numbered, Once, NoOp, Applied, Typed, UpdateInv, Recorded
  <2>6. \A q \in Proc : proc[q].app \in {"idle", "handoff", "exit"}
    <3> SUFFICES ASSUME NEW q \in Proc, proc[q].app # "idle" PROVE proc[q].app \in {"handoff", "exit"}
      OBVIOUS
    <3>1. proc[q].mine.id = 1
      BY <1>1, <2>5 DEF Numbered
    <3>2. ~Asks(q)
      BY <1>1, <2>5, <3>1 DEF Numbered
    <3>3. proc[q].app \notin {"backup", "swap", "save"}
      BY <1>10 DEF UpdateInv, Applying
    <3> QED BY <1>1, <3>2, <3>3 DEF Asks, Typed, Process, AppPC
  <2>7. \A q \in Proc : proc[q].rec = "confirm" => Same(proc[q].op, journal)
    BY <1>1, <1>6, <2>5 DEF Once
  <2>8. Once'
    <3>1. \A q \in Proc : q # p => proc'[q].rec = proc[q].rec /\ proc'[q].op = proc[q].op
      BY <1>3 DEF RecTo, Others, Stays
    <3>2. \A q \in Proc : proc'[q].rec = "confirm" => Same(proc'[q].op, journal)
      BY <1>3, <2>7, <3>1 DEF Same
    <3>3. \A q, r \in Proc : proc'[q].rec = "confirm" /\ proc'[r].rec = "confirm" => Same(proc'[q].op, proc'[r].op)
      BY <3>2 DEF Same
    <3>4. \A q \in Proc : proc'[q].rec = "confirm" => /\ proc'[q].op.id = 1 /\ proc'[q].op.phase = "activated" /\ ~proc'[q].op.failed /\ proc'[q].op.version # 0
      BY <1>1, <1>3, <1>6, <1>10, <2>5, <3>1 DEF Once
    <3>5. \A q \in Proc : proc'[q].role = "helper" => proc[q].role = "helper"
      BY <2>3
    <3> QED BY <1>1, <1>4, <2>2, <2>3, <2>5, <2>6, <3>2, <3>3, <3>4 DEF Once, Still
  <2>9. \A q \in Proc : (Applying(q) /\ Recovering(q))'
    <3>1. Applying(p)'
      BY <1>3, <1>4 DEF UpdateInv, Applying, Still, RecTo, Swapped, Bundle
    <3> QED BY <1>3, <1>4, <1>8, <3>1, Bystanders DEF RecTo
  <2> QED BY <1>4, <2>1, <2>4, <2>8, <2>9, RecordedStill DEF UpdateInv, Still
<1> QED BY <1>9, <1>10

LEMMA AwaitHealthStep == ASSUME UpdateInv, NEW p \in Proc, AwaitHealth(p) PROVE UpdateInv'
<1> DEFINE pc == IF journal.phase = "confirmed" THEN "cleanup" ELSE "restore"
<1>1. Typed /\ Locked /\ Placed /\ Numbered /\ Recorded /\ Recovering(p) /\ RecHolds(p)
  BY DEF UpdateInv, AwaitHealth, RecHolds
<1>2. Rec(p, pc) /\ UNCHANGED <<host, published, files, journal, late, lock, left, good>>
  BY DEF AwaitHealth
<1>3. pc \in {"cleanup", "restore"} /\ (pc = "cleanup" <=> journal.phase = "confirmed")
  OBVIOUS
<1> HIDE DEF pc
<1>4. RecTo(p, pc) /\ proc'[p].op = proc[p].op /\ pc \in RecPC
  BY <1>1, <1>2, <1>3, RecMoves DEF RecPC
<1>5. Still
  BY <1>1, <1>2, <1>4, Stills DEF RecTo
<1>6. RecHolds(p)' /\ RecLock(p)
  BY <1>1, <1>2, <1>3, <1>4 DEF RecTo, RecHolds, RecLock
<1>7. proc[p].role = "helper"
  BY <1>1 DEF Placed, AwaitHealth, Typed, Process
<1>8. RecFits(p, pc)
  BY <1>3, <1>7 DEF RecFits
<1>9. journal # NoOp /\ Same(proc[p].op, journal)
  BY <1>1 DEF Numbered
<1>10. Recovering(p)'
  <2>1. Safe(proc[p].op.prior)' = Safe(proc[p].op.prior) /\ Safe(live)' = Safe(live) /\ Swapped' = Swapped /\ Bundle' = Bundle /\ Pending' = Pending
    BY <1>4, <1>5 DEF Still, Safe, Swapped, Bundle, Pending
  <2>2. ~Bundle /\ pc = "cleanup" => Safe(live) /\ ~Pending
    BY <1>1, <1>3 DEF Recorded, Safe, Pending
  <2>3. /\ proc[p].op.phase = "activated" /\ ~proc[p].op.failed
        /\ pc = "restore" => journal.phase = "activated"
        /\ ~Bundle => Safe(proc[p].op.prior) /\ Swapped
    BY <1>1, <1>3 DEF AwaitHealth, Recovering, RecHolds
  <2> QED BY <1>3, <1>4, <1>5, <2>1, <2>2, <2>3 DEF Recovering, RecTo, Still, RecHolds
<1> QED BY <1>3, <1>4, <1>5, <1>6, <1>8, <1>9, <1>10, RecQuiet

LEMMA DrainStep == ASSUME UpdateInv, NEW p \in Proc, Drain(p) PROVE UpdateInv'
<1>1. Typed /\ Applying(p) /\ proc[p].app = "drain"
  BY DEF UpdateInv, Drain
<1>2. AppTo(p, "stage") /\ proc'[p].mine = proc[p].mine
  <2>1. PICK r \in Process : r = proc[p]
    BY <1>1 DEF Typed
  <2>2. [r EXCEPT !.app = "stage", !.drained = TRUE] \in Process
    BY DEF Process, AppPC
  <2>3. proc' = [proc EXCEPT ![p] = [r EXCEPT !.app = "stage", !.drained = TRUE]]
    BY <2>1 DEF Drain
  <2> QED BY <1>1, <2>1, <2>2, <2>3 DEF Typed, AppTo, Others, Stays, Process
<1>3. Still
  BY <1>1, <1>2, Stills DEF Drain, AppTo
<1>4. AppLock(p) /\ Asks(p)
  BY <1>1, <1>2 DEF AppLock, AppHolds, AppTo, Drain, Asks
<1>5. Applying(p)'
  BY <1>1, <1>2, <1>3 DEF Applying, AppTo, Still, Bundle
<1> QED BY <1>2, <1>3, <1>4, <1>5, AppQuiet DEF AppPC

LEMMA OpenForApplyStep == ASSUME UpdateInv, NEW p \in Proc, OpenForApply(p) PROVE UpdateInv'
<1>1. Typed /\ Applying(p) /\ proc[p].app = "open"
  BY DEF UpdateInv, OpenForApply
<1>2. PICK pc \in {"prepare", "idle"} :
          /\ App(p, pc)
          /\ IF pc = "prepare" THEN lock = Free /\ lock' = <<p, "app">> ELSE UNCHANGED lock
  BY DEF OpenForApply
<1>3. AppTo(p, pc) /\ proc'[p].mine = proc[p].mine /\ pc \in AppPC
  BY <1>1, <1>2, AppMoves DEF AppPC
<1>4. Still
  BY <1>1, <1>3, Stills DEF OpenForApply, AppTo
<1>5. AppLock(p) /\ Asks(p)
  BY <1>1, <1>2, <1>3 DEF AppLock, AppHolds, AppTo, Asks
<1>6. Applying(p)'
  BY <1>1, <1>2, <1>3, <1>4 DEF Applying, AppTo, Still, Bundle
<1> QED BY <1>2, <1>3, <1>4, <1>5, <1>6, AppQuiet

\* The apply gives up, with or without the lock.
LEMMA GivesUp ==
    ASSUME UpdateInv, NEW p \in Proc, App(p, "idle"), UNCHANGED <<host, published, files, journal, late, good>>,
           left' = left \/ Fault, lock' = IF lock = <<p, "app">> THEN Free ELSE lock
    PROVE  UpdateInv'
<1>1. Typed /\ Locked
  BY DEF UpdateInv
<1>2. AppTo(p, "idle") /\ proc'[p].mine = proc[p].mine /\ "idle" \in AppPC
  BY <1>1, AppMoves DEF AppPC
<1>3. Still
  BY <1>1, <1>2, Stills DEF AppTo
<1>4. AppLock(p)
  BY <1>1, <1>2 DEF AppLock, AppHolds, AppTo, Locked
<1>5. Applying(p)'
  BY <1>2 DEF Applying, AppTo
<1> QED BY <1>2, <1>3, <1>4, <1>5, AppQuiet

LEMMA ApplyFailsStep == ASSUME UpdateInv, NEW p \in Proc, ApplyFails(p) PROVE UpdateInv'
  BY GivesUp DEF ApplyFails

\* A pending operation refuses another one.
LEMMA RefuseStep ==
    ASSUME UpdateInv, NEW p \in Proc, Prepare(p), journal.phase \in {"staged", "activated"} PROVE UpdateInv'
<1>1. AppHolds(p)
  BY DEF Prepare, AppHolds
<1>2. lock = <<p, "app">>
  BY <1>1, Alone DEF UpdateInv
<1> QED BY <1>2, GivesUp DEF Prepare

LEMMA LaunchFailsStep ==
    ASSUME UpdateInv, NEW p \in Proc, LaunchNew(p), Fault,
           Rec(p, IF host.platform = "windows" THEN "undo" ELSE "restore")
    PROVE  UpdateInv'
<1> DEFINE pc == IF host.platform = "windows" THEN "undo" ELSE "restore"
<1>1. Typed /\ Locked /\ Placed /\ Numbered /\ Recovering(p) /\ RecHolds(p)
  BY DEF UpdateInv, LaunchNew, RecHolds
<1>2. pc \in {"undo", "restore"} /\ (pc = "undo" => host.platform = "windows")
  OBVIOUS
<1>3. Rec(p, pc)
  OBVIOUS
<1> HIDE DEF pc
<1>4. RecTo(p, pc) /\ proc'[p].op = proc[p].op /\ pc \in RecPC
  BY <1>1, <1>2, <1>3, RecMoves DEF RecPC
<1>5. Still
  BY <1>1, <1>4, Stills DEF RecTo, LaunchNew
<1>6. RecHolds(p)' /\ RecLock(p)
  BY <1>1, <1>2, <1>4 DEF RecTo, RecHolds, RecLock, LaunchNew
<1>7. proc[p].role = "helper"
  BY <1>1 DEF Placed, LaunchNew, Typed, Process
<1>8. RecFits(p, pc)
  BY <1>2, <1>7 DEF RecFits
<1>9. journal # NoOp /\ Same(proc[p].op, journal)
  BY <1>1 DEF Numbered
<1>10. Recovering(p)'
  <2>1. Safe(proc[p].op.prior)' = Safe(proc[p].op.prior) /\ Swapped' = Swapped /\ Bundle' = Bundle
    BY <1>4, <1>5 DEF Still, Safe, Swapped, Bundle
  <2>2. /\ proc[p].op.phase = "activated" /\ ~proc[p].op.failed
        /\ journal.phase = proc[p].op.phase \/ (host.fixture /\ journal.phase = "confirmed")
        /\ ~Bundle => Safe(proc[p].op.prior) /\ Swapped
    BY <1>1 DEF LaunchNew, Recovering
  <2> QED BY <1>2, <1>4, <1>5, <2>1, <2>2 DEF Recovering, RecTo, Still
<1> QED BY <1>2, <1>4, <1>5, <1>6, <1>8, <1>9, <1>10, RecQuiet

\* Restore finds nothing to restore, or the file system refuses it.
LEMMA RestoreFailsStep ==
    ASSUME UpdateInv, NEW p \in Proc, Restore(p), UNCHANGED <<live, backup>>,
           IF backup[proc[p].op.id] = 0 THEN UNCHANGED left ELSE host.faulty /\ Fault,
           IF proc[p].rec = "undo" THEN Exit(p)
           ELSE /\ proc' = [proc EXCEPT ![p].op.failed = TRUE, ![p].rec = "record"]
                /\ UNCHANGED lock
    PROVE  UpdateInv'
<1>1. /\ Typed /\ Locked /\ Placed /\ Numbered /\ Recovering(p) /\ RecHolds(p)
      /\ UNCHANGED <<host, published, files, journal, late, good>> /\ (left' = left \/ Fault)
  BY DEF UpdateInv, Restore, RecHolds, files
<1>2. CASE Exit(p)
  <2>1. Gone(p)
    BY <1>1, <1>2, ExitMoves
  <2>2. Still
    BY <1>1, <2>1, Stills
  <2> QED BY <2>1, <2>2, GoneQuiet
<1>3. CASE /\ proc' = [proc EXCEPT ![p].op.failed = TRUE, ![p].rec = "record"]
           /\ UNCHANGED lock /\ proc[p].rec = "restore"
  <2>1. PICK op \in Operation : op = [proc[p].op EXCEPT !.failed = TRUE]
    BY <1>1 DEF Typed, Process, Operation
  <2>2. proc' = [proc EXCEPT ![p].rec = "record", ![p].op = op]
    BY <1>1, <1>3, <2>1 DEF Typed, Process
  <2>3. RecTo(p, "record") /\ proc'[p].op = op /\ "record" \in RecPC
    BY <1>1, <2>2, LoadMoves DEF RecPC
  <2>4. Still
    BY <1>1, <2>3, Stills DEF RecTo
  <2>5. RecLock(p) /\ RecHolds(p)'
    BY <1>1, <1>3, <2>3 DEF RecTo, RecHolds, RecLock
  <2>6. RecFits(p, "record")
    BY <1>1, <1>3 DEF Placed, RecFits, Typed, Process
  <2>7. proc[p].op \in Operation
    BY <1>1 DEF Typed, Process
  <2>8. /\ op.id = proc[p].op.id /\ op.version = proc[p].op.version /\ op.prior = proc[p].op.prior
        /\ op.phase = proc[p].op.phase /\ op.failed
    BY <2>1, <2>7 DEF Operation
  <2>9. journal # NoOp /\ Same(op, journal) /\ Same(proc[p].op, journal)
    BY <1>1, <2>8 DEF Numbered, Same
  <2>10. ~Bundle => Safe(op.prior) /\ Swapped /\ host.faulty
    <3>1. ~Bundle => Safe(op.prior) /\ Swapped
      BY <1>1, <1>3, <2>8 DEF Recovering
    <3>2. ~Bundle /\ backup[proc[p].op.id] = 0 => host.faulty
      BY <1>1, <2>8, <2>9, <3>1 DEF Swapped, Safe, Same, Typed, Version
    <3> QED BY <1>1, <3>1, <3>2
  <2>11. Recovering(p)'
    <3>1. Safe(op.prior)' = Safe(op.prior)
      BY <2>4 DEF Still, Safe
    <3>2. Swapped' = Swapped /\ Bundle' = Bundle
      BY <2>4 DEF Still, Swapped, Bundle
    <3>3. /\ op.phase \in {"staged", "activated"}
          /\ journal.phase = op.phase \/ (host.fixture /\ journal.phase = "confirmed")
      BY <1>1, <1>3, <2>8 DEF Recovering
    <3> QED BY <2>3, <2>4, <2>8, <2>10, <3>1, <3>2, <3>3 DEF Recovering, RecTo, Still, Safe, Swapped, Bundle
  <2> QED BY <2>3, <2>4, <2>5, <2>6, <2>9, <2>11, RecQuiet
<1> QED BY <1>2, <1>3 DEF Restore

---------------------------------------------------------------------------
(* A process starts another one.                                           *)

Born(q, role) ==
    /\ proc'[q].role = role /\ proc'[q].app = "idle"
    /\ proc'[q].rec = IF role = "helper" THEN "open" ELSE "start"
Beside(p, q) == proc' \in [Proc -> Process] /\ \A r \in Proc : r # p /\ r # q => Stays(r)

LEMMA StartedProcess ==
    ASSUME NEW role \in {"server", "helper", "stray"}, NEW image \in 0 .. MaxVersion, NEW parent \in Proc \cup {0}
    PROVE  /\ Started(role, image, parent) \in Process
           /\ Started(role, image, parent).role = role
           /\ Started(role, image, parent).app = "idle"
           /\ Started(role, image, parent).rec = IF role = "helper" THEN "open" ELSE "start"
<1> DEFINE rec == IF role = "helper" THEN "open" ELSE "start"
<1>1. NoProc \in Process
  BY Records
<1>2. rec \in RecPC
  BY DEF RecPC
<1>3. Started(role, image, parent) = [NoProc EXCEPT !.role = role, !.image = image, !.parent = parent, !.rec = rec]
  BY DEF Started
<1> HIDE DEF rec
<1>4. /\ Started(role, image, parent) \in Process /\ Started(role, image, parent).role = role
      /\ Started(role, image, parent).app = NoProc.app /\ Started(role, image, parent).rec = rec
  BY <1>1, <1>2, <1>3 DEF Process
<1> QED BY <1>4 DEF rec, NoProc

\* A slot nobody runs in has no thread.
LEMMA Vacant ==
    ASSUME UpdateInv, NEW q \in Proc, ~Alive(q)
    PROVE  proc[q].app = "idle" /\ ~RecHolds(q) /\ ~AppHolds(q) /\ ~Asks(q)
  BY DEF UpdateInv, Placed, Alive, RecHolds, AppHolds, Asks

\* The invariant is that of each process, once the lock and the numbers are.
LEMMA BornQuiet ==
    ASSUME UpdateInv, Still, NEW p \in Proc, NEW q \in Proc, ~Alive(q),
           NEW role \in {"server", "helper", "stray"}, Born(q, role), Beside(p, q),
           Locked', p # q => proc'[p].role \in {proc[p].role, "none"},
           p # q => /\ proc'[p].app \in {"idle", "exit"} /\ (proc'[p].app = "exit" => proc[p].app # "idle")
                    /\ proc'[p].mine = proc[p].mine \/ proc'[p].app = "idle"
                    /\ proc'[p].rec \in {proc[p].rec, "watch", "end"} /\ (proc'[p].rec = "watch" => proc[p].rec = "launch")
                    /\ proc'[p].op = proc[p].op \/ proc'[p].rec = "end"
                    /\ proc'[p].role = "none" => proc'[p].app = "idle" /\ proc'[p].rec = "end"
                    /\ proc'[p].rec = "end" /\ proc[p].rec # "end" => proc'[p].role = "none"
                    /\ Recovering(p)',
           role = "helper" =>
             /\ host.fixture /\ Applied = 1 /\ journal # NoOp
             /\ \A r \in Proc : proc[r].role # "helper" /\ (r # p => proc[r].app \in {"idle", "exit"})
             /\ ~Bundle => /\ IF host.platform = "posix" THEN Swapped ELSE live = journal.prior
                           /\ host.platform = "windows" => staged[journal.id] = journal.version
    PROVE  UpdateInv'
<1>1. Applied' = Applied
  BY DEF Still, Applied
<1>2. \A r \in Proc : r # p /\ r # q => Stays(r)
  BY DEF Beside
<1>3. ~RecHolds(q)' /\ ~Asks(q)' /\ ~RecHolds(q)
  BY Vacant DEF Born, RecHolds, Asks
<1>4. Placed'
  <2> SUFFICES ASSUME NEW r \in Proc
               PROVE  /\ proc'[r].rec \in {"backup", "swap", "undo"} => host.platform = "windows"
                      /\ proc'[r].app = "backup" => host.platform = "posix"
                      /\ proc'[r].app = "swap" => host.platform # "windows"
                      /\ proc'[r].app # "idle" => proc'[r].role = "server"
                      /\ proc'[r].role = "helper" =>
                            host.fixture /\ proc'[r].rec \notin {"start", "note", "confirm", "evaluate", "acknowledge", "auto", "end"}
                      /\ proc'[r].role = "server" =>
                            IF host.fixture THEN proc'[r].rec \in {"start", "note", "confirm", "end"}
                            ELSE proc'[r].rec \notin {"note", "confirm", "wait", "backup", "swap", "launch", "watch", "undo", "relaunch"}
                      /\ proc'[r].role \in {"none", "stray"} => proc'[r].rec \in {"start", "end"}
    BY DEF Placed, Still
  <2>1. CASE r # p /\ r # q
    BY <1>2, <2>1 DEF UpdateInv, Placed, Stays
  <2>2. CASE r = q
    BY <2>2 DEF Born
  <2>3. CASE r = p /\ r # q
    BY <2>3 DEF UpdateInv, Placed
  <2> QED BY <2>1, <2>2, <2>3
<1>5. Numbered'
  <2>1. \A r \in Proc : proc'[r].app # "idle" => proc[r].app # "idle" /\ proc'[r].mine = proc[r].mine
    BY <1>2 DEF Born, Stays
  <2>2. \A r \in Proc : Asks(r)' => Asks(r) /\ proc'[r].mine = proc[r].mine
    BY <1>2, <1>3 DEF Stays, Asks
  <2>3. \A r \in Proc : RecHolds(r)' => RecHolds(r) /\ proc'[r].op = proc[r].op
    BY <1>2, <1>3 DEF Stays, RecHolds
  <2> QED BY <1>1, <2>1, <2>2, <2>3 DEF UpdateInv, Numbered, Still
<1>6. Once'
  <2>1. \A r \in Proc : proc'[r].app \in {"idle", "exit"} \/ proc'[r].app = proc[r].app
    BY <1>2 DEF Born, Stays
  <2>2. \A r \in Proc : proc'[r].rec = "confirm" => proc[r].rec = "confirm" /\ proc'[r].op = proc[r].op
    BY <1>2 DEF Born, Stays
  <2>3. \A r \in Proc : proc'[r].role = "helper" => (r = q /\ role = "helper") \/ (proc[r].role = "helper" /\ r # q)
    BY <1>2 DEF Born, Stays
  <2>4. \A r \in Proc : r # p => proc'[r].app \in {"idle", proc[r].app}
    BY <1>2 DEF Born, Stays
  <2>5. p = q \/ proc'[p].app \in {"idle", "exit"}
    OBVIOUS
  <2>6. \A r \in Proc : r # q => proc[q].role # "helper"
    BY DEF Alive
  <2> QED BY <1>1, <2>1, <2>2, <2>3, <2>4, <2>5, <2>6 DEF UpdateInv, Once, Still, Born
<1>7. \A r \in Proc : (Applying(r) /\ Recovering(r))'
  <2>1. Applying(q)'
    BY DEF Born, Applying
  <2>2. Recovering(q)'
    BY <1>3 DEF Born, Recovering, Still, Swapped, Bundle
  <2>3. p # q => Applying(p)'
    BY DEF Applying
  <2>4. ASSUME NEW r \in Proc, r # p, r # q PROVE (Applying(r) /\ Recovering(r))'
    <3>1. Stays(r)
      BY <1>2, <2>4
    <3> QED BY <3>1, StaysKeeps
  <2> QED BY <2>1, <2>2, <2>3, <2>4
<1> QED BY <1>4, <1>5, <1>6, <1>7, RecordedStill DEF UpdateInv, Still

LEMMA LaunchStep == ASSUME UpdateInv, NEW p \in Proc, Launch(p) PROVE UpdateInv'
<1>1. Typed /\ Locked /\ live \in 0 .. MaxVersion
  BY UpdateAssumption DEF UpdateInv, Typed, Version
<1>2. proc' = [proc EXCEPT ![p] = Started("server", live, 0)] /\ ~Alive(p)
  BY DEF Launch
<1>3. Born(p, "server") /\ Beside(p, p) /\ Others(p)
  BY <1>1, <1>2, StartedProcess DEF Typed, Born, Beside, Others, Stays
<1>4. Still
  BY <1>1, <1>3, Stills DEF Launch
<1>5. Locked'
  <2>1. \A q \in Proc : (RecHolds(q)' <=> RecHolds(q)) /\ (AppHolds(q)' <=> AppHolds(q))
    BY <1>2, <1>3, Vacant DEF Born, Beside, Stays, RecHolds, AppHolds
  <2> QED BY <1>1, <2>1 DEF Locked, Launch
<1> QED BY <1>2, <1>3, <1>4, <1>5, BornQuiet

LEMMA LaunchNewStep == ASSUME UpdateInv, NEW p \in Proc, LaunchNew(p) PROVE UpdateInv'
<1>1. CASE Fault /\ Rec(p, IF host.platform = "windows" THEN "undo" ELSE "restore")
  BY <1>1, LaunchFailsStep
<1>2. ASSUME NEW q \in Proc, ~Alive(q), UNCHANGED left,
             proc' = [proc EXCEPT ![q] = Started("server", live, 0), ![p].rec = "watch", ![p].child = q]
      PROVE  UpdateInv'
  <2>1. Typed /\ Locked /\ Recovering(p) /\ live \in 0 .. MaxVersion /\ p # q
        /\ UNCHANGED <<host, published, files, journal, late, lock, good>> /\ proc[p].rec = "launch"
    <3>1. UNCHANGED <<host, published, files, journal, late, lock, good>> /\ proc[p].rec = "launch"
      BY DEF LaunchNew
    <3>2. p # q
      BY <1>2, <3>1 DEF UpdateInv, Placed, Alive
    <3>3. Typed /\ Locked /\ Recovering(p) /\ live \in 0 .. MaxVersion
      BY UpdateAssumption DEF UpdateInv, Typed, Version
    <3> QED BY <3>1, <3>2, <3>3
  <2>2. PICK r \in Process : r = proc[p]
    BY <2>1 DEF Typed
  <2>3. [r EXCEPT !.rec = "watch", !.child = q] \in Process
    BY DEF Process, RecPC
  <2>4. proc' = [[proc EXCEPT ![q] = Started("server", live, 0)] EXCEPT ![p] = [r EXCEPT !.rec = "watch", !.child = q]]
    BY <1>2, <2>1, <2>2 DEF Typed
  <2>5. Born(q, "server") /\ Beside(p, q)
    BY <2>1, <2>3, <2>4, StartedProcess DEF Typed, Born, Beside, Stays
  <2>6. /\ proc'[p].role = proc[p].role /\ proc'[p].image = proc[p].image /\ proc'[p].app = proc[p].app
        /\ proc'[p].rec = "watch" /\ proc'[p].op = proc[p].op /\ proc'[p].mine = proc[p].mine
    BY <2>1, <2>2, <2>4 DEF Typed, Process
  <2>7. Still
    BY <1>2, <2>1, <2>5 DEF Beside, Still, Typed, files
  <2>8. Locked'
    <3>1. RecHolds(p) /\ RecHolds(p)' /\ (AppHolds(p)' <=> AppHolds(p))
      BY <2>1, <2>6 DEF RecHolds, AppHolds
    <3>2. \A s \in Proc : (RecHolds(s)' <=> RecHolds(s)) /\ (AppHolds(s)' <=> AppHolds(s))
      BY <1>2, <2>5, <3>1, Vacant DEF Born, Beside, Stays, RecHolds, AppHolds
    <3> QED BY <2>1, <3>2 DEF Locked
  <2>9. Recovering(p)'
    <3>1. Safe(proc[p].op.prior)' = Safe(proc[p].op.prior) /\ Swapped' = Swapped /\ Bundle' = Bundle
      BY <2>6, <2>7 DEF Still, Safe, Swapped, Bundle
    <3>2. /\ proc[p].op.phase = "activated" /\ ~proc[p].op.failed
          /\ journal.phase = proc[p].op.phase \/ (host.fixture /\ journal.phase = "confirmed")
          /\ ~Bundle => Safe(proc[p].op.prior) /\ Swapped
      BY <2>1 DEF Recovering, RecHolds
    <3> QED BY <2>6, <2>7, <3>1, <3>2 DEF Recovering, Still
  <2>10. proc[p].app = "idle" /\ proc[p].role # "none"
    <3>1. proc[p].role = "helper"
      BY <2>1 DEF UpdateInv, Placed, Typed, Process
    <3> QED BY <3>1 DEF UpdateInv, Placed
  <2> QED BY <1>2, <2>1, <2>5, <2>6, <2>7, <2>8, <2>9, <2>10, BornQuiet
<1> QED BY <1>1, <1>2 DEF LaunchNew

LEMMA RelaunchStep == ASSUME UpdateInv, NEW p \in Proc, Relaunch(p) PROVE UpdateInv'
<1>1. PICK q \in Proc : ~Alive(q) /\ proc' = [Without(p) EXCEPT ![q] = Started("server", live, 0)]
  BY DEF Relaunch
<1>2. Typed /\ Locked /\ live \in 0 .. MaxVersion /\ p # q /\ RecHolds(p)
      /\ UNCHANGED <<host, published, files, journal, late, left, good>> /\ proc[p].rec = "relaunch"
  BY <1>1, UpdateAssumption DEF UpdateInv, Typed, Version, Relaunch, Placed, Alive, RecHolds
<1>3. /\ \A r \in Proc : Without(p)[r] \in Process
      /\ \A r \in Proc : r # p => /\ Without(p)[r].role = proc[r].role /\ Without(p)[r].image = proc[r].image
                                  /\ Without(p)[r].rec = proc[r].rec /\ Without(p)[r].app = proc[r].app
                                  /\ Without(p)[r].op = proc[r].op /\ Without(p)[r].mine = proc[r].mine
      /\ Without(p)[p] = NoProc /\ Without(p) = [r \in Proc |-> Without(p)[r]]
  BY <1>2, WithoutKeeps
<1>4. proc' \in [Proc -> Process] /\ Born(q, "server") /\ Beside(p, q) /\ proc'[p] = NoProc
  BY <1>1, <1>2, <1>3, StartedProcess DEF Born, Beside, Stays
<1>5. Still
  BY <1>2, <1>4 DEF Still, Typed, files
<1>6. proc'[p].role = "none" /\ proc'[p].app = "idle" /\ proc'[p].rec = "end"
  BY <1>4 DEF NoProc
<1>7. Locked'
  <2>1. lock = <<p, "rec">> /\ lock' = Free /\ \A r \in Proc : ~AppHolds(r) /\ (r # p => ~RecHolds(r))
    BY <1>2, Alone DEF Relaunch, Unlocked
  <2>2. \A r \in Proc : ~RecHolds(r)' /\ ~AppHolds(r)'
    BY <1>4, <1>6, <2>1 DEF Born, Beside, Stays, RecHolds, AppHolds
  <2> QED BY <2>1, <2>2, UpdateAssumption DEF Locked, Free
<1>8. Recovering(p)'
  BY <1>6 DEF Recovering, RecHolds
<1> QED BY <1>1, <1>2, <1>4, <1>5, <1>6, <1>7, <1>8, BornQuiet

LEMMA HandoffStep == ASSUME UpdateInv, NEW p \in Proc, Handoff(p) PROVE UpdateInv'
<1> DEFINE o == proc[p].mine.id
           image == CASE host.platform = "posix" -> live
                      [] host.platform = "windows" -> staged[o]
                      [] host.platform = "bundle" -> backup[o]
           role == IF host.fixture THEN "helper"
                   ELSE IF host.platform = "posix" THEN "server" ELSE "stray"
<1>1. /\ Typed /\ Locked /\ Numbered /\ Applying(p) /\ Recovering(p) /\ AppHolds(p) /\ proc[p].app = "handoff"
      /\ UNCHANGED <<host, published, files, journal, late, lock, left, good>>
  BY DEF UpdateInv, Handoff, AppHolds
<1>2. PICK q \in Proc : ~Alive(q) /\ proc' = [proc EXCEPT ![q] = Started(role, image, p), ![p].app = "exit"]
  BY DEF Handoff
<1>3. role \in {"server", "helper", "stray"} /\ image \in 0 .. MaxVersion /\ p # q /\ o \in 1 .. Applied
  <2>1. o \in 1 .. Applied /\ o \in OpId
    BY <1>1, NumbersGiven DEF Numbered
  <2>2. host.platform \in {"posix", "windows", "bundle"}
    BY <1>1 DEF Typed, Host, Platforms
  <2>3. live \in 0 .. MaxVersion /\ staged[o] \in 0 .. MaxVersion /\ backup[o] \in 0 .. MaxVersion
    BY <1>1, <2>1, UpdateAssumption DEF Typed, Version
  <2>4. p # q
    BY <1>1, <1>2 DEF UpdateInv, Placed, Alive
  <2> QED BY <2>1, <2>2, <2>3, <2>4
<1>4. role = "helper" <=> host.fixture
  OBVIOUS
<1> HIDE DEF role, image
<1>5. PICK r \in Process : r = proc[p]
  BY <1>1 DEF Typed
<1>6. [r EXCEPT !.app = "exit"] \in Process
  BY DEF Process, AppPC
<1>7. proc' = [[proc EXCEPT ![q] = Started(role, image, p)] EXCEPT ![p] = [r EXCEPT !.app = "exit"]]
  BY <1>1, <1>2, <1>3, <1>5 DEF Typed
<1>8. Born(q, role) /\ Beside(p, q)
  BY <1>1, <1>3, <1>6, <1>7, StartedProcess DEF Typed, Born, Beside, Stays
<1>9. /\ proc'[p].role = proc[p].role /\ proc'[p].image = proc[p].image /\ proc'[p].app = "exit"
      /\ proc'[p].rec = proc[p].rec /\ proc'[p].op = proc[p].op /\ proc'[p].mine = proc[p].mine
  BY <1>1, <1>3, <1>5, <1>7 DEF Typed, Process
<1>10. Still
  BY <1>1, <1>8 DEF Beside, Still, Typed, files
<1>11. Locked'
  <2>1. AppHolds(p)' /\ (RecHolds(p)' <=> RecHolds(p))
    BY <1>9 DEF RecHolds, AppHolds
  <2>2. \A s \in Proc : (RecHolds(s)' <=> RecHolds(s)) /\ (AppHolds(s)' <=> AppHolds(s))
    BY <1>1, <1>2, <1>8, <2>1, Vacant DEF Born, Beside, Stays, RecHolds, AppHolds
  <2> QED BY <1>1, <2>2 DEF Locked
<1>12. Recovering(p)'
  BY <1>1, <1>9, <1>10 DEF Recovering, RecHolds, Still, Swapped, Bundle, Safe, Pending
<1>13. ASSUME host.fixture
       PROVE  /\ Applied = 1 /\ journal # NoOp
              /\ \A s \in Proc : proc[s].role # "helper" /\ (s # p => proc[s].app \in {"idle", "exit"})
              /\ ~Bundle => /\ IF host.platform = "posix" THEN Swapped ELSE live = journal.prior
                            /\ host.platform = "windows" => staged[journal.id] = journal.version
  <2>1. Applied = 1 /\ o = 1
    BY <1>1, <1>3, <1>13, UpdateAssumption DEF UpdateInv, Once, Typed, Applied
  <2>2. \A s \in Proc : s # p => proc[s].app = "idle"
    BY <1>1, <2>1 DEF Numbered
  <2>3. \A s \in Proc : proc[s].role # "helper"
    BY <1>1, <1>13 DEF UpdateInv, Once
  <2>4. journal # NoOp /\ Same(proc[p].mine, journal)
    BY <1>1 DEF Applying
  <2> QED BY <1>1, <2>1, <2>2, <2>3, <2>4 DEF Applying, Same
<1>14. proc[p].role = "server"
  BY <1>1 DEF UpdateInv, Placed
<1>15. /\ proc'[p].app \in {"idle", "exit"} /\ (proc'[p].app = "exit" => proc[p].app # "idle")
       /\ proc'[p].mine = proc[p].mine \/ proc'[p].app = "idle"
       /\ proc'[p].rec \in {proc[p].rec, "watch", "end"} /\ (proc'[p].rec = "watch" => proc[p].rec = "launch")
       /\ proc'[p].op = proc[p].op \/ proc'[p].rec = "end"
       /\ proc'[p].role = "none" => proc'[p].app = "idle" /\ proc'[p].rec = "end"
       /\ proc'[p].rec = "end" /\ proc[p].rec # "end" => proc'[p].role = "none"
       /\ Recovering(p)'
       /\ proc'[p].role \in {proc[p].role, "none"}
  <2>1. proc'[p].rec = "watch" => proc[p].rec = "launch"
    BY <1>9, <1>14 DEF UpdateInv, Placed
  <2> QED BY <1>1, <1>9, <1>12, <1>14, <2>1
<1>16. ~Alive(q)
  BY <1>2
<1> HIDE DEF o
<1> QED BY <1>3, <1>4, <1>8, <1>10, <1>11, <1>13, <1>15, <1>16, BornQuiet

---------------------------------------------------------------------------
(* An apply is accepted: a new number, whose artefacts are not there yet.  *)

LEMMA AcceptedStep ==
    ASSUME UpdateInv, NEW p \in Proc, NEW rec \in RecPC, Accepted(p, rec),
           rec = proc[p].rec \/ (rec = "end" /\ proc[p].rec = "auto"),
           host.fixture => Applied = 0
    PROVE  UpdateInv'
<1> DEFINE op == [NoOp EXCEPT !.id = Applied + 1, !.version = published]
<1>1. /\ Typed /\ Locked /\ Numbered /\ Placed /\ Once /\ Recovering(p)
      /\ proc[p].role = "server" /\ proc[p].app = "idle"
      /\ UNCHANGED <<host, published, live, backup, staged, journal, late, lock, good>>
  BY DEF UpdateInv, Accepted, files
<1>2. /\ Applied \in Nat /\ Applied' = Applied + 1 /\ Applied + 1 \in OpId
      /\ left' \in [applies : 0 .. MaxApplies, crashes : 0 .. MaxCrashes, faults : 0 .. MaxFaults]
  <2>1. left.applies \in 1 .. MaxApplies /\ left.crashes \in 0 .. MaxCrashes /\ left.faults \in 0 .. MaxFaults
        /\ left' = [left EXCEPT !.applies = left.applies - 1]
    BY <1>1, UpdateAssumption DEF Accepted, Typed
  <2>2. left' = [applies |-> left.applies - 1, crashes |-> left.crashes, faults |-> left.faults]
    BY <1>1, <2>1 DEF Typed
  <2>3. left'.applies = left.applies - 1 /\ MaxApplies \in Nat
    BY <2>2, UpdateAssumption
  <2>4. Applied' = Applied + 1 /\ Applied \in 0 .. MaxApplies - 1
    BY <2>1, <2>3 DEF Applied
  <2>5. left.applies - 1 \in 0 .. MaxApplies
    BY <2>1, <2>3
  <2>6. left' \in [applies : 0 .. MaxApplies, crashes : 0 .. MaxCrashes, faults : 0 .. MaxFaults]
    BY <2>1, <2>2, <2>5
  <2>7. Applied \in Nat /\ Applied + 1 \in OpId
    BY <2>3, <2>4 DEF OpId
  <2> QED BY <2>4, <2>6, <2>7
<1>3. op \in Operation /\ op.id = Applied + 1 /\ op.version # 0 /\ ~op.failed
  <2>1. Applied + 1 \in 0 .. MaxApplies /\ published \in 0 .. MaxVersion /\ published # 0
    BY <1>1, <1>2, UpdateAssumption DEF Typed, OpId, Version
  <2> QED BY <2>1, Records DEF Operation, NoOp
<1>4. proc' = [proc EXCEPT ![p].rec = rec, ![p].app = "drain", ![p].mine = op]
  BY DEF Accepted, Applied
<1> HIDE DEF op
<1>5. /\ Others(p) /\ proc'[p].role = proc[p].role /\ proc'[p].image = proc[p].image
      /\ proc'[p].rec = rec /\ proc'[p].op = proc[p].op /\ proc'[p].app = "drain" /\ proc'[p].mine = op
  <2>1. PICK r \in Process : r = proc[p]
    BY <1>1 DEF Typed
  <2>2. [r EXCEPT !.rec = rec, !.app = "drain", !.mine = op] \in Process
    BY <1>3 DEF Process, AppPC
  <2>3. proc' = [proc EXCEPT ![p] = [r EXCEPT !.rec = rec, !.app = "drain", !.mine = op]]
    BY <1>4, <2>1
  <2> QED BY <1>1, <2>1, <2>2, <2>3 DEF Typed, Others, Stays, Process
<1>6. Typed'
  BY <1>1, <1>2, <1>5 DEF Typed, Others
<1>7. \A q \in Proc : (RecHolds(q)' <=> RecHolds(q)) /\ (AppHolds(q)' <=> AppHolds(q))
  BY <1>1, <1>5 DEF Others, Stays, RecHolds, AppHolds
<1>8. Locked'
  BY <1>1, <1>7 DEF Locked
<1>9. Numbered'
  <2>1. journal = NoOp \/ journal.id \in 1 .. Applied
    BY <1>1 DEF Numbered
  <2>2. journal.id # Applied + 1
    BY <1>2, <2>1 DEF NoOp
  <2>3. \A q \in Proc : q # p => proc'[q].app = proc[q].app /\ proc'[q].mine = proc[q].mine /\ (Asks(q)' <=> Asks(q))
    BY <1>5 DEF Others, Stays, Asks
  <2>4. \A q \in Proc : RecHolds(q)' => journal' # NoOp /\ Same(proc'[q].op, journal')
    BY <1>1, <1>5, <1>7 DEF Numbered, Others, Stays
  <2>5. \A q \in Proc : /\ proc'[q].app # "idle" => proc'[q].mine.id \in 1 .. Applied + 1
                        /\ Asks(q)' => journal'.id # proc'[q].mine.id
    BY <1>1, <1>2, <1>3, <1>5, <2>2, <2>3 DEF Numbered
  <2>6. \A q, r \in Proc : q # r /\ proc'[q].app # "idle" /\ proc'[r].app # "idle" => proc'[q].mine.id # proc'[r].mine.id
    <3>1. \A q \in Proc : q # p /\ proc'[q].app # "idle" => proc'[q].mine.id # Applied + 1
      BY <1>1, <1>2, <2>3 DEF Numbered
    <3> QED BY <1>1, <1>3, <1>5, <2>3, <3>1 DEF Numbered
  <2>7. \A o \in OpId : o > Applied + 1 => backup'[o] = 0
    BY <1>1, <1>2 DEF Numbered, OpId
  <2>8. journal' = NoOp \/ (journal'.id \in 1 .. Applied + 1 /\ journal'.phase # "none" /\ journal'.version # 0)
    BY <1>1, <1>2 DEF Numbered
  <2> QED BY <1>2, <2>4, <2>5, <2>6, <2>7, <2>8 DEF Numbered
<1>10. Placed'
  BY <1>1, <1>5 DEF Placed, Others, Stays
<1>11. Once'
  <2>1. \A q \in Proc : host.fixture => proc[q].role # "helper" /\ proc[q].rec # "confirm"
    BY <1>1 DEF Once
  <2>2. \A q \in Proc : host.fixture => proc'[q].role # "helper" /\ proc'[q].rec # "confirm"
    BY <1>1, <1>5, <2>1 DEF Others, Stays
  <2> QED BY <1>1, <1>2, <2>2 DEF Once
<1>12. Kept
  BY <1>1 DEF Kept
<1>13. Applying(p)'
  <2>1. backup[Applied + 1] = 0
    BY <1>1, <1>2 DEF Numbered, OpId
  <2> QED BY <1>1, <1>3, <1>5, <2>1 DEF Applying
<1>14. Recovering(p)'
  BY <1>1, <1>5, <1>7 DEF Recovering, RecHolds, Safe, Swapped, Pending, Bundle
<1> QED BY <1>5, <1>6, <1>8, <1>9, <1>10, <1>11, <1>12, <1>13, <1>14, KeptStays, RecordedKept DEF UpdateInv, Others

LEMMA StartupApplyStep == ASSUME UpdateInv, NEW p \in Proc, StartupApply(p) PROVE UpdateInv'
<1>1. proc[p].rec = "auto" /\ Accepted(p, "end") /\ "end" \in RecPC
  BY DEF StartupApply, RecPC
<1>2. ~host.fixture
  BY <1>1 DEF UpdateInv, Placed, Accepted
<1> QED BY <1>1, <1>2, AcceptedStep

LEMMA ApplyRequestStep == ASSUME UpdateInv, NEW p \in Proc, Apply(p) PROVE UpdateInv'
<1>1. Accepted(p, proc[p].rec) /\ proc[p].rec \in RecPC
  BY DEF Apply, UpdateInv, Typed, Process
<1>2. host.fixture => Applied = 0
  BY UpdateAssumption DEF Apply, UpdateInv, Typed, Applied
<1> QED BY <1>1, <1>2, AcceptedStep

---------------------------------------------------------------------------
(* Steps of the holder of the lock that change the files or the record.    *)

\* Files of other operations stay.
OnlyOf(o) == \A n \in OpId : n # o => backup'[n] = backup[n] /\ staged'[n] = staged[n]

\* Who waits for the lock is not concerned by what its holder does.
LEMMA Waiting ==
    ASSUME UpdateInv, NEW p \in Proc, RecHolds(p) \/ AppHolds(p), NEW q \in Proc,
           UNCHANGED host, NEW o, OnlyOf(o),
           Asks(q) => o # proc[q].mine.id,
           ~RecHolds(q), ~AppHolds(q), ~RecHolds(q)', proc[q].role = "helper" => q = p,
           proc'[q].app = proc[q].app, proc'[q].mine = proc[q].mine,
           proc'[q].rec = proc[q].rec, proc'[q].role = proc[q].role
    PROVE  (Applying(q) /\ Recovering(q))'
<1>1. Applying(q)'
  <2>1. Asks(q) => proc[q].mine.id \in OpId
    BY NumbersGiven DEF UpdateInv, Numbered, Asks
  <2>2. Asks(q) => backup'[proc[q].mine.id] = backup[proc[q].mine.id] /\ staged'[proc[q].mine.id] = staged[proc[q].mine.id]
    BY <2>1 DEF OnlyOf
  <2>3. proc[q].app \in {"idle", "drain", "stage", "open"}
    BY DEF AppHolds
  <2> QED BY <2>2, <2>3 DEF UpdateInv, Applying, Asks, Bundle
<1>2. Recovering(q)'
  <2>1. proc[q].role # "helper"
    <3> SUFFICES ASSUME proc[q].role = "helper" PROVE FALSE
      OBVIOUS
    <3>1. host.fixture /\ proc[q].app \in {"idle", "exit"} /\ q = p
      BY DEF UpdateInv, Once, Placed
    <3> QED BY <3>1
  <2>2. proc'[q].role # "helper" /\ proc'[q].rec \in {"start", "open", "auto", "end", "note", "confirm"}
    BY <2>1 DEF RecHolds
  <2> QED BY <2>2 DEF Recovering, RecHolds
<1> QED BY <1>1, <1>2

\* One helper, and no apply at work beside it.
LEMMA OneHelper ==
    ASSUME UpdateInv, NEW p \in Proc, RecHolds(p) \/ proc[p].app \notin {"idle", "exit"},
           NEW q \in Proc, proc[q].role = "helper"
    PROVE  q = p
<1>1. host.fixture /\ proc[p].app \in {"idle", "exit"}
  BY DEF UpdateInv, Placed, Once
<1>2. RecHolds(p)
  BY <1>1
<1>3. proc[p].role = "helper"
  BY <1>1, <1>2 DEF UpdateInv, Placed, RecHolds, Typed, Process
<1> QED BY <1>1, <1>3 DEF UpdateInv, Once

LEMMA RecChange ==
    ASSUME UpdateInv, NEW p \in Proc, RecHolds(p), Typed', Locked', Placed', Others(p),
           UNCHANGED host, left'.applies = left.applies, OnlyOf(journal.id),
           proc'[p].role \in {proc[p].role, "none"},
           (proc'[p].app = proc[p].app /\ proc'[p].mine = proc[p].mine) \/ proc'[p].app = "idle",
           proc'[p].rec # "confirm",
           journal' = NoOp \/ (Same(journal', journal) /\ journal'.phase # "none"),
           journal' = NoOp => proc'[p].role # "helper",
           RecHolds(p)' => journal' # NoOp /\ Same(proc'[p].op, journal'),
           Recorded', Recovering(p)'
    PROVE  UpdateInv'
<1>1. /\ Typed /\ Locked /\ Numbered /\ Placed /\ Once /\ journal # NoOp
      /\ Applied' = Applied /\ ~AppHolds(p)
      /\ \A q \in Proc : q # p => Stays(q) /\ ~RecHolds(q) /\ ~AppHolds(q)
  BY Alone DEF UpdateInv, Numbered, Applied, Others
<1>2. \A q \in Proc : /\ proc'[q].app # "idle" => proc[q].app # "idle" /\ proc'[q].mine = proc[q].mine
                      /\ Asks(q)' => Asks(q) /\ proc'[q].mine = proc[q].mine
  BY <1>1 DEF Stays, Asks
<1>3. \A q \in Proc : q # p => ~RecHolds(q)'
  BY <1>1 DEF Stays, RecHolds
<1>4. Numbered'
  <2>1. \A n \in OpId : n > Applied => backup'[n] = 0
    <3>1. Applied \in Int
      BY <1>1, UpdateAssumption DEF Typed, Applied
    <3> QED BY <1>1, <3>1 DEF Numbered, OnlyOf, OpId
  <2>2. \A q \in Proc : Asks(q)' => journal'.id # proc'[q].mine.id
    <3>1. NoOp.id = 0
      BY DEF NoOp
    <3> QED BY <1>1, <1>2, <3>1 DEF Numbered, Same, Asks
  <2>3. journal' = NoOp \/ (journal'.id \in 1 .. Applied /\ journal'.phase # "none" /\ journal'.version # 0)
    BY <1>1 DEF Numbered, Same
  <2> QED BY <1>1, <1>2, <1>3, <2>1, <2>2, <2>3 DEF Numbered
<1>5. Once'
  <2>1. \A q \in Proc : proc'[q].rec = "confirm" => q # p /\ proc[q].rec = "confirm" /\ proc'[q].op = proc[q].op
    BY <1>1 DEF Stays
  <2>2. \A q \in Proc : proc'[q].role = "helper" => q = p /\ proc[q].role = "helper" /\ journal' # NoOp
    BY <1>1, OneHelper DEF Stays
  <2>3. \A q \in Proc : proc'[q].app \in {"idle", proc[q].app}
    BY <1>1 DEF Stays
  <2>4. \A q \in Proc : host.fixture /\ proc'[q].rec = "confirm" /\ journal' # NoOp => Same(proc'[q].op, journal')
    BY <1>1, <2>1 DEF Once, Same
  <2>5. \A q, r \in Proc : host.fixture /\ proc'[q].rec = "confirm" /\ proc'[r].rec = "confirm" => Same(proc'[q].op, proc'[r].op)
    BY <1>1, <2>1 DEF Once
  <2> QED BY <1>1, <2>1, <2>2, <2>3, <2>4, <2>5 DEF Once
<1>6. \A q \in Proc : (Applying(q) /\ Recovering(q))'
  <2>1. \A q \in Proc : Asks(q) => journal.id # proc[q].mine.id
    BY <1>1 DEF Numbered
  <2>2. ASSUME NEW q \in Proc, q # p PROVE (Applying(q) /\ Recovering(q))'
    BY <1>1, <1>3, <2>1, <2>2, OneHelper, Waiting DEF Stays
  <2>3. Applying(p)'
    <3>1. CASE proc'[p].app = "idle"
      BY <3>1 DEF Applying
    <3>2. CASE proc'[p].app = proc[p].app /\ proc'[p].mine = proc[p].mine
      <4>1. Asks(p) => proc[p].mine.id \in OpId
        BY <1>1, NumbersGiven DEF Numbered, Asks
      <4>2. Asks(p) => backup'[proc[p].mine.id] = backup[proc[p].mine.id] /\ staged'[proc[p].mine.id] = staged[proc[p].mine.id]
        BY <2>1, <4>1 DEF OnlyOf
      <4>3. proc[p].app \in {"idle", "drain", "stage", "open"}
        BY <1>1 DEF AppHolds
      <4> QED BY <3>2, <4>2, <4>3 DEF UpdateInv, Applying, Asks, Bundle
    <3> QED BY <3>1, <3>2
  <2> QED BY <2>2, <2>3
<1> QED BY <1>4, <1>5, <1>6 DEF UpdateInv

LEMMA AppChange ==
    ASSUME UpdateInv, NEW p \in Proc, AppHolds(p), NEW pc \in {"backup", "swap", "save", "handoff", "exit"},
           AppTo(p, pc), Typed', UNCHANGED <<host, lock>>, left'.applies = left.applies,
           proc[p].app \in {"prepare", "backup", "swap", "save"},
           OnlyOf(proc[p].mine.id), proc'[p].mine.id = proc[p].mine.id,
           pc = "backup" => host.platform = "posix", pc = "swap" => host.platform # "windows",
           journal'.id = proc[p].mine.id, journal'.phase # "none", journal'.version # 0,
           Recorded', Applying(p)'
    PROVE  UpdateInv'
<1>1. /\ Typed /\ Locked /\ Numbered /\ Placed /\ Once
      /\ Applied' = Applied /\ ~RecHolds(p) /\ proc[p].mine.id \in 1 .. Applied
      /\ \A q \in Proc : q # p => Stays(q) /\ ~RecHolds(q) /\ ~AppHolds(q)
  BY Alone DEF UpdateInv, Numbered, Applied, AppTo, Others
<1>2. Locked'
  <2>1. AppHolds(p)'
    BY DEF AppTo, AppHolds
  <2> QED BY <1>1, <2>1, AppLocked DEF AppLock
<1>3. Placed'
  BY <1>1 DEF Placed, AppTo, Stays
<1>4. \A q \in Proc : ~RecHolds(q)'
  BY <1>1 DEF AppTo, Stays, RecHolds
<1>5. \A q \in Proc : q # p => proc'[q].app = proc[q].app /\ proc'[q].mine = proc[q].mine /\ (Asks(q)' <=> Asks(q))
  BY <1>1 DEF Stays, Asks
<1>6. Numbered'
  <2>1. \A n \in OpId : n > Applied => backup'[n] = 0
    <3>1. Applied \in Int
      BY <1>1, UpdateAssumption DEF Typed, Applied
    <3> QED BY <1>1, <3>1 DEF Numbered, OnlyOf, OpId
  <2>2. ~Asks(p)'
    BY DEF AppTo, Asks
  <2>3. \A q \in Proc : Asks(q)' => journal'.id # proc'[q].mine.id
    BY <1>1, <1>5, <2>2 DEF Numbered, Asks
  <2> QED BY <1>1, <1>4, <1>5, <2>1, <2>3 DEF Numbered
<1>7. Once'
  <2>1. \A q \in Proc : host.fixture => proc[q].role # "helper" /\ proc[q].rec # "confirm"
    BY <1>1 DEF Once
  <2>2. \A q \in Proc : host.fixture => proc'[q].role # "helper" /\ proc'[q].rec # "confirm"
    BY <1>1, <2>1 DEF AppTo, Stays
  <2> QED BY <1>1, <2>2 DEF Once
<1>8. \A q \in Proc : (Applying(q) /\ Recovering(q))'
  <2>1. \A q \in Proc : q # p /\ Asks(q) => proc[p].mine.id # proc[q].mine.id
    BY <1>1 DEF Numbered, Asks
  <2>2. ASSUME NEW q \in Proc, q # p PROVE (Applying(q) /\ Recovering(q))'
    BY <1>1, <1>4, <2>1, <2>2, OneHelper, Waiting DEF Stays
  <2>3. Recovering(p)'
    <3>1. proc'[p].role # "helper" /\ proc'[p].rec \in {"start", "open", "auto", "end", "note", "confirm"}
      BY <1>1 DEF Placed, AppTo, RecHolds
    <3> QED BY <3>1 DEF Recovering, RecHolds
  <2> QED BY <2>2, <2>3
<1> QED BY <1>2, <1>3, <1>6, <1>7, <1>8 DEF UpdateInv

\* What the holder knows of its operation.
LEMMA Holding ==
    ASSUME UpdateInv, NEW p \in Proc, RecHolds(p)
    PROVE  /\ journal # NoOp /\ Same(proc[p].op, journal) /\ Recovering(p) /\ lock = <<p, "rec">>
           /\ proc[p].op \in Operation /\ journal \in Operation
           /\ journal.id \in OpId /\ journal.version \in Version
           /\ journal.phase # "none" /\ proc[p].role \in {"server", "helper"}
           /\ proc[p].role = "server" <=> ~host.fixture
<1>1. Typed /\ Numbered /\ Placed /\ Recovering(p) /\ Locked
  BY DEF UpdateInv
<1>2. journal # NoOp /\ Same(proc[p].op, journal) /\ lock = <<p, "rec">>
  BY <1>1 DEF Numbered, Locked
<1>3. proc[p].op \in Operation /\ journal \in Operation
  BY <1>1 DEF Typed, Process
<1>4. journal.id \in OpId /\ journal.version \in Version /\ journal.phase # "none"
  BY <1>1, <1>2, <1>3, UpdateAssumption DEF Numbered, Typed, Applied, OpId, Version, Operation
<1>5. proc[p].role \in {"server", "helper"}
  BY <1>1 DEF Placed, RecHolds, Typed, Process
<1>6. proc[p].role = "server" => ~host.fixture
  BY <1>1 DEF Placed, RecHolds
<1>7. proc[p].role = "helper" => host.fixture
  BY <1>1 DEF Placed
<1> QED BY <1>1, <1>2, <1>3, <1>4, <1>5, <1>6, <1>7

\* The stand-ins of a given-up operation outlive a step on another one.
LEMMA SafeKept ==
    ASSUME OnlyOf(journal.id), UNCHANGED host, good \subseteq good',
           journal'.id = journal.id \/ journal' = NoOp, NEW v, Safe(v)
    PROVE  \/ v \in good'
           \/ host'.faulty /\ ~host'.fixture /\ \E o \in OpId : o # journal'.id /\ backup'[o] \in good'
<1>1. CASE v \in good
  BY <1>1
<1>2. CASE host.faulty /\ ~host.fixture /\ \E o \in OpId : o # journal.id /\ backup[o] \in good
  <2>1. PICK o \in OpId : o # journal.id /\ backup[o] \in good
    BY <1>2
  <2>2. backup'[o] \in good' /\ o # journal'.id
    BY <2>1, UpdateAssumption DEF OnlyOf, NoOp, OpId
  <2> QED BY <1>2, <2>2
<1> QED BY <1>1, <1>2 DEF Safe

LEMMA AcknowledgeStep == ASSUME UpdateInv, NEW p \in Proc, Acknowledge(p) PROVE UpdateInv'
<1>1. /\ RecHolds(p) /\ Typed /\ Locked /\ Placed /\ Recorded
      /\ UNCHANGED <<host, published, live, backup, staged, late, lock, left>>
      /\ Rec(p, "cleanup") /\ good' = good \cup {proc[p].op.version} /\ proc[p].rec = "acknowledge"
  BY DEF UpdateInv, Acknowledge, RecHolds, files
<1>2. /\ journal # NoOp /\ Same(proc[p].op, journal) /\ Recovering(p) /\ journal \in Operation
      /\ journal.id \in OpId /\ journal.version \in Version /\ ~host.fixture
  BY <1>1, Holding DEF UpdateInv, Placed
<1>3. RecTo(p, "cleanup") /\ proc'[p].op = proc[p].op
  BY <1>1, RecMoves DEF RecPC
<1>4. PICK j \in Operation : j = [journal EXCEPT !.phase = "confirmed"]
  BY <1>2 DEF Operation
<1>5. journal' = j /\ j.id = journal.id /\ j.version = journal.version /\ j.prior = journal.prior
      /\ j.phase = "confirmed" /\ j.failed = journal.failed
  BY <1>2, <1>4 DEF Acknowledge, Operation
<1>6. proc[p].op = journal /\ ~journal.failed
  BY <1>1, <1>2 DEF Recovering
<1>7. Typed'
  BY <1>1, <1>2, <1>3, <1>5, <1>6 DEF Typed, RecTo, Others
<1>8. Locked'
  BY <1>1, <1>3, RecLocked DEF RecLock, RecHolds, RecTo
<1>9. Placed'
  BY <1>1, <1>3, RecPlaced DEF RecFits, Placed
<1>10. ~Bundle => live \in good' /\ journal.version \in good'
  BY <1>1, <1>2, <1>6 DEF Recovering
<1>11. Recorded'
  BY <1>1, <1>5, <1>6, <1>10 DEF Recorded, Bundle, Pending
<1>12. Recovering(p)'
  BY <1>1, <1>2, <1>3, <1>5, <1>6, <1>10 DEF Recovering, RecTo, Bundle, Pending, Safe
<1>13. journal' # NoOp /\ Same(journal', journal) /\ journal'.phase # "none" /\ Same(proc'[p].op, journal')
  BY <1>2, <1>3, <1>5, <1>6 DEF Same, NoOp
<1> QED BY <1>1, <1>3, <1>7, <1>8, <1>9, <1>11, <1>12, <1>13, RecChange DEF RecTo, OnlyOf

LEMMA CleanupStep == ASSUME UpdateInv, NEW p \in Proc, Cleanup(p) PROVE UpdateInv'
<1> DEFINE o == proc[p].op.id
<1>1. /\ RecHolds(p) /\ Typed /\ Locked /\ Placed /\ Recorded
      /\ UNCHANGED <<host, published, live, journal, late, lock, left, good>>
      /\ Rec(p, "clear") /\ proc[p].rec = "cleanup"
      /\ backup' = [backup EXCEPT ![o] = 0] /\ staged' = [staged EXCEPT ![o] = 0]
  BY DEF UpdateInv, Cleanup, RecHolds
<1>2. journal # NoOp /\ Same(proc[p].op, journal) /\ Recovering(p) /\ o = journal.id /\ journal.id \in OpId
  BY <1>1, Holding DEF Same
<1> HIDE DEF o
<1>3. RecTo(p, "clear") /\ proc'[p].op = proc[p].op
  BY <1>1, RecMoves DEF RecPC
<1>4. backup' \in [OpId -> 0 .. MaxVersion] /\ staged' \in [OpId -> 0 .. MaxVersion]
      /\ backup'[journal.id] = 0 /\ OnlyOf(journal.id)
  BY <1>1, <1>2, UpdateAssumption DEF Typed, OnlyOf
<1>5. Typed'
  BY <1>1, <1>3, <1>4 DEF Typed, RecTo, Others
<1>6. Locked'
  BY <1>1, <1>3, RecLocked DEF RecLock, RecHolds, RecTo
<1>7. Placed'
  BY <1>1, <1>3, RecPlaced DEF RecFits, Placed
<1>8. /\ Safe(live) => Safe(live)'
      /\ Safe(journal.prior) => Safe(journal.prior)'
  BY <1>1, <1>4, SafeKept DEF Safe
<1>9. /\ ~proc[p].op.failed /\ journal.phase # "rolled-back"
      /\ ~Bundle => Safe(live) /\ (Pending => live = journal.prior)
  BY <1>1, <1>2 DEF Recovering
<1>10. Recorded'
  BY <1>1, <1>4, <1>8, <1>9 DEF Recorded, Bundle, Pending
<1>11. Recovering(p)'
  BY <1>1, <1>3, <1>8, <1>9 DEF Recovering, RecTo, Bundle, Pending
<1> QED BY <1>1, <1>2, <1>3, <1>4, <1>5, <1>6, <1>7, <1>10, <1>11, RecChange DEF RecTo, Same, Numbered, UpdateInv

LEMMA ClearStep == ASSUME UpdateInv, NEW p \in Proc, Clear(p) PROVE UpdateInv'
<1>1. /\ RecHolds(p) /\ Typed /\ Locked /\ Placed /\ Recorded
      /\ UNCHANGED <<host, published, live, backup, staged, late, left, good>>
      /\ proc[p].rec = "clear" /\ journal' = NoOp
      /\ IF proc[p].role = "server" THEN Rec(p, "auto") /\ lock' = Unlocked(p) ELSE Exit(p)
  BY DEF UpdateInv, Clear, RecHolds, files
<1>2. Recovering(p) /\ lock = <<p, "rec">>
  BY <1>1, Holding
<1>3. NoOp.id = 0 /\ NoOp.phase = "none" /\ ~NoOp.failed /\ NoOp \in Operation
  BY Records DEF NoOp
<1>4. Safe(live) => Safe(live)'
  BY <1>1, SafeKept DEF Safe, OnlyOf
<1>5. Recorded'
  <2>1. ~Bundle => Safe(live)'
    BY <1>1, <1>2, <1>4 DEF Recovering
  <2> QED BY <1>1, <1>3, <2>1 DEF Recorded, Bundle, Pending
<1>6. ASSUME Others(p), ~RecHolds(p)', Locked', Placed', proc'[p].rec # "confirm",
             proc'[p].role = "server" \/ proc'[p].role = "none", proc'[p].role \in {proc[p].role, "none"},
             (proc'[p].app = proc[p].app /\ proc'[p].mine = proc[p].mine) \/ proc'[p].app = "idle"
      PROVE  UpdateInv'
  <2>1. Typed'
    BY <1>1, <1>3, <1>6 DEF Typed, Others
  <2>2. Recovering(p)'
    BY <1>6 DEF Recovering, RecHolds
  <2> QED BY <1>1, <1>5, <1>6, <2>1, <2>2, RecChange DEF OnlyOf
<1>7. CASE proc[p].role = "server"
  <2>1. RecTo(p, "auto") /\ "auto" \in RecPC
    BY <1>1, <1>7, RecMoves DEF RecPC
  <2>2. ~RecHolds(p)' /\ lock' = Free
    BY <1>1, <1>2, <1>7, <2>1 DEF RecTo, RecHolds, Unlocked
  <2>3. Locked'
    BY <1>1, <1>2, <2>1, <2>2, RecLocked DEF RecLock
  <2>4. Placed'
    BY <1>1, <1>7, <2>1, RecPlaced DEF RecFits, Placed
  <2> QED BY <1>6, <1>7, <2>1, <2>2, <2>3, <2>4 DEF RecTo
<1>8. CASE proc[p].role # "server"
  <2>1. Gone(p)
    BY <1>1, <1>8, ExitMoves
  <2>2. Locked'
    BY <1>1, <2>1, GoneLocked
  <2>3. Placed'
    BY <1>1, <2>1 DEF Placed, Gone, Others, Stays
  <2> QED BY <1>6, <2>1, <2>2, <2>3 DEF Gone, RecHolds
<1> QED BY <1>7, <1>8

\* Rollback succeeds: the backup is live again.
LEMMA RestoreWorksStep ==
    ASSUME UpdateInv, NEW p \in Proc, Restore(p), backup[proc[p].op.id] # 0,
           live' = backup[proc[p].op.id],
           backup' = [backup EXCEPT ![proc[p].op.id] = IF Bundle THEN live ELSE 0],
           Rec(p, IF proc[p].rec = "undo" THEN "relaunch" ELSE "record"), UNCHANGED <<left, lock>>
    PROVE  UpdateInv'
<1> DEFINE pc == IF proc[p].rec = "undo" THEN "relaunch" ELSE "record"
<1>1. /\ RecHolds(p) /\ Typed /\ Locked /\ Placed /\ Recorded
      /\ UNCHANGED <<host, published, staged, journal, late, good>> /\ proc[p].rec \in {"restore", "undo"}
  BY DEF UpdateInv, Restore, RecHolds
<1>2. /\ journal # NoOp /\ Same(proc[p].op, journal) /\ Recovering(p) /\ proc[p].op.id = journal.id
      /\ journal.id \in OpId /\ proc[p].role \in {"server", "helper"} /\ (proc[p].role = "server" <=> ~host.fixture)
      /\ journal.phase # "none"
  BY <1>1, Holding DEF Same
<1>3. pc \in {"relaunch", "record"} /\ pc \in RecPC /\ (pc = "relaunch" => proc[p].rec = "undo") /\ Rec(p, pc)
  BY DEF RecPC
<1> HIDE DEF pc
<1>4. RecTo(p, pc) /\ proc'[p].op = proc[p].op
  BY <1>1, <1>3, RecMoves
<1>5. live \in 0 .. MaxVersion /\ backup[journal.id] \in 0 .. MaxVersion
  BY <1>1, <1>2, UpdateAssumption DEF Typed, Version
<1>6. /\ backup' \in [OpId -> 0 .. MaxVersion] /\ OnlyOf(journal.id)
      /\ ~Bundle => backup'[journal.id] = 0
  BY <1>1, <1>2, <1>5, UpdateAssumption DEF Typed, OnlyOf
<1>7. live' \in Version
  BY <1>2, <1>5, UpdateAssumption DEF Version
<1>8. Typed'
  BY <1>1, <1>4, <1>6, <1>7 DEF Typed, RecTo, Others
<1>9. Locked'
  BY <1>1, <1>3, <1>4, RecLocked DEF RecLock, RecHolds, RecTo
<1>10. RecFits(p, pc)
  <2>1. proc[p].role = "server" => pc # "relaunch"
    BY <1>1, <1>2, <1>3 DEF Placed
  <2> QED BY <1>1, <1>2, <1>3, <2>1 DEF RecFits
<1>11. Placed'
  BY <1>1, <1>4, <1>10, RecPlaced
<1>12. /\ ~proc[p].op.failed /\ proc[p].op.phase \in {"staged", "activated"}
       /\ journal.phase = proc[p].op.phase \/ (host.fixture /\ journal.phase = "confirmed")
       /\ ~Bundle => Swapped /\ Safe(journal.prior)
  BY <1>1, <1>2 DEF Recovering, Same, RecHolds
<1>13. Safe(journal.prior) => Safe(journal.prior)'
  BY <1>1, <1>6, SafeKept DEF Safe
<1>14. ~Bundle => live' = journal.prior
  BY <1>2, <1>12 DEF Swapped
<1>15. Recorded'
  <2>1. ~Bundle /\ journal.phase = "confirmed" => live' \in good'
    BY <1>1, <1>12, <1>14 DEF Safe
  <2>2. journal.failed => journal.phase = "rolled-back"
    BY <1>1 DEF Recorded
  <2> QED BY <1>1, <1>6, <1>12, <1>13, <1>14, <2>1, <2>2 DEF Recorded, Bundle, Pending
<1>16. Recovering(p)'
  <2>1. ~Bundle => Safe(proc[p].op.prior)'
    BY <1>1, <1>2, <1>4, <1>12, <1>13 DEF Same, Safe
  <2> QED BY <1>1, <1>2, <1>3, <1>4, <1>12, <1>14, <2>1 DEF Recovering, RecTo, Bundle, Same
<1> QED BY <1>1, <1>2, <1>4, <1>6, <1>8, <1>9, <1>11, <1>15, <1>16, <1>3, RecChange DEF RecTo, Same

LEMMA RecordStep == ASSUME UpdateInv, NEW p \in Proc, Record(p) PROVE UpdateInv'
<1> DEFINE op == proc[p].op
<1>1. /\ RecHolds(p) /\ Typed /\ Locked /\ Placed /\ Recorded
      /\ UNCHANGED <<host, published, live, backup, staged, late, left, good>>
      /\ proc[p].rec = "record" /\ journal' = [op EXCEPT !.phase = "rolled-back"]
      /\ IF proc[p].role = "server" THEN Rec(p, "auto") /\ lock' = Unlocked(p)
         ELSE IF op.failed THEN Exit(p) ELSE Rec(p, "relaunch") /\ UNCHANGED lock
  BY DEF UpdateInv, Record, RecHolds, files
<1>2. /\ journal # NoOp /\ Same(op, journal) /\ Recovering(p) /\ op \in Operation /\ lock = <<p, "rec">>
      /\ journal.id \in OpId /\ proc[p].role \in {"server", "helper"} /\ (proc[p].role = "server" <=> ~host.fixture)
  BY <1>1, Holding
<1>3. /\ journal' \in Operation /\ Same(journal', journal) /\ Same(op, journal')
      /\ journal'.phase = "rolled-back" /\ journal'.failed = op.failed /\ journal' # NoOp
  BY <1>1, <1>2 DEF Operation, Same, NoOp
<1>4. ~Bundle => Safe(journal.prior) /\ IF op.failed THEN Swapped /\ host.faulty ELSE live = journal.prior
  BY <1>1, <1>2 DEF Recovering, Same
<1>5. Safe(journal.prior) => Safe(journal.prior)'
  BY <1>1, <1>3, SafeKept DEF Safe, OnlyOf, Same
<1>6. Recorded'
  BY <1>1, <1>3, <1>4, <1>5 DEF Recorded, Bundle, Pending, Same, Swapped
<1> HIDE DEF op
<1>7. ASSUME Others(p), Locked', Placed', proc'[p].rec # "confirm", proc'[p].role \in {proc[p].role, "none"},
             RecHolds(p)' => proc'[p].op = op,
             (proc'[p].app = proc[p].app /\ proc'[p].mine = proc[p].mine) \/ proc'[p].app = "idle",
             Recovering(p)'
      PROVE  UpdateInv'
  <2>1. Typed'
    BY <1>1, <1>3, <1>7 DEF Typed, Others
  <2> QED BY <1>1, <1>3, <1>6, <1>7, <2>1, RecChange DEF OnlyOf
<1>8. CASE proc[p].role = "server"
  <2>1. RecTo(p, "auto") /\ "auto" \in RecPC
    BY <1>1, <1>8, RecMoves DEF RecPC
  <2>2. ~RecHolds(p)' /\ lock' = Free
    BY <1>1, <1>2, <1>8, <2>1 DEF RecTo, RecHolds, Unlocked
  <2>3. Locked'
    BY <1>1, <1>2, <2>1, <2>2, RecLocked DEF RecLock
  <2>4. Placed'
    BY <1>1, <1>2, <1>8, <2>1, RecPlaced DEF RecFits
  <2>5. Recovering(p)'
    BY <1>8, <2>1, <2>2 DEF Recovering, RecTo
  <2> QED BY <1>7, <2>1, <2>2, <2>3, <2>4, <2>5 DEF RecTo
<1>9. CASE proc[p].role # "server" /\ Exit(p)
  <2>1. Gone(p)
    BY <1>1, <1>9, ExitMoves
  <2>2. Locked' /\ ~RecHolds(p)'
    BY <1>1, <2>1, GoneLocked DEF Gone, RecHolds
  <2>3. Placed'
    BY <1>1, <2>1 DEF Placed, Gone, Others, Stays
  <2>4. Recovering(p)'
    BY <2>1, <2>2 DEF Recovering, Gone
  <2> QED BY <1>7, <2>1, <2>2, <2>3, <2>4 DEF Gone
<1>10. CASE proc[p].role = "helper" /\ ~op.failed /\ Rec(p, "relaunch") /\ UNCHANGED lock
  <2>1. RecTo(p, "relaunch") /\ proc'[p].op = op
    BY <1>1, <1>10, RecMoves DEF RecPC, op
  <2>2. Locked'
    BY <1>1, <1>10, <2>1, RecLocked DEF RecLock, RecHolds, RecTo
  <2>3. Placed'
    BY <1>1, <1>10, <2>1, RecPlaced DEF RecFits
  <2>4. Recovering(p)'
    BY <1>10, <2>1 DEF Recovering, RecTo
  <2> QED BY <1>7, <2>1, <2>2, <2>3, <2>4 DEF RecTo
<1> QED BY <1>1, <1>2, <1>8, <1>9, <1>10 DEF op

LEMMA HelperBackupStep == ASSUME UpdateInv, NEW p \in Proc, HelperBackup(p) PROVE UpdateInv'
<1>1. /\ RecHolds(p) /\ Typed /\ Locked /\ Placed /\ Recorded
      /\ UNCHANGED <<host, published, live, staged, journal, late, lock, left, good>>
      /\ proc[p].rec = "backup" /\ Rec(p, "swap") /\ backup' = [backup EXCEPT ![proc[p].op.id] = live]
  BY DEF UpdateInv, HelperBackup, RecHolds
<1>2. /\ journal # NoOp /\ Same(proc[p].op, journal) /\ Recovering(p) /\ proc[p].op.id = journal.id
      /\ journal.id \in OpId /\ proc[p].role = "helper" /\ host.platform = "windows" /\ ~Bundle
      /\ journal.phase # "none"
  BY <1>1, Holding DEF Same, Placed, Bundle
<1>3. RecTo(p, "swap") /\ proc'[p].op = proc[p].op
  BY <1>1, RecMoves DEF RecPC
<1>4. live \in 0 .. MaxVersion
  BY <1>1, UpdateAssumption DEF Typed, Version
<1>5. /\ backup' \in [OpId -> 0 .. MaxVersion] /\ OnlyOf(journal.id)
      /\ backup'[journal.id] = live
  BY <1>1, <1>2, <1>4, UpdateAssumption DEF Typed, OnlyOf
<1>6. Typed'
  BY <1>1, <1>3, <1>5 DEF Typed, RecTo, Others
<1>7. Locked'
  BY <1>1, <1>3, RecLocked DEF RecLock, RecHolds, RecTo
<1>8. Placed'
  BY <1>1, <1>2, <1>3, RecPlaced DEF RecFits
<1>9. /\ ~proc[p].op.failed /\ proc[p].op.phase = "activated" /\ live = journal.prior
      /\ journal.phase = "activated" \/ (host.fixture /\ journal.phase = "confirmed")
      /\ Safe(journal.prior) /\ staged[journal.id] = journal.version
  BY <1>1, <1>2 DEF Recovering, Same, RecHolds
<1>10. Safe(journal.prior)'
  BY <1>1, <1>5, <1>9, SafeKept DEF Safe
<1>11. Recorded'
  BY <1>1, <1>5, <1>9, <1>10 DEF Recorded, Bundle, Pending
<1>12. Recovering(p)'
  <2>1. Safe(proc[p].op.prior)'
    BY <1>1, <1>2, <1>3, <1>10 DEF Same, Safe
  <2> QED BY <1>1, <1>2, <1>3, <1>5, <1>9, <2>1 DEF Recovering, RecTo, Bundle, Same
<1> QED BY <1>1, <1>2, <1>3, <1>5, <1>6, <1>7, <1>8, <1>11, <1>12, RecChange DEF RecTo, Same

LEMMA HelperSwapStep == ASSUME UpdateInv, NEW p \in Proc, HelperSwap(p) PROVE UpdateInv'
<1>1. /\ RecHolds(p) /\ Typed /\ Locked /\ Placed /\ Recorded
      /\ UNCHANGED <<host, published, backup, journal, late, lock, left, good>>
      /\ proc[p].rec = "swap" /\ Rec(p, "launch") /\ staged[proc[p].op.id] # 0
      /\ live' = staged[proc[p].op.id] /\ staged' = [staged EXCEPT ![proc[p].op.id] = 0]
  BY DEF UpdateInv, HelperSwap, RecHolds
<1>2. /\ journal # NoOp /\ Same(proc[p].op, journal) /\ Recovering(p) /\ proc[p].op.id = journal.id
      /\ journal.id \in OpId /\ proc[p].role = "helper" /\ host.platform = "windows" /\ ~Bundle
      /\ journal.phase # "none"
  BY <1>1, Holding DEF Same, Placed, Bundle
<1>3. RecTo(p, "launch") /\ proc'[p].op = proc[p].op
  BY <1>1, RecMoves DEF RecPC
<1>4. /\ live' \in Version /\ staged' \in [OpId -> 0 .. MaxVersion] /\ OnlyOf(journal.id)
  BY <1>1, <1>2, UpdateAssumption DEF Typed, OnlyOf, Version
<1>5. Typed'
  BY <1>1, <1>3, <1>4 DEF Typed, RecTo, Others
<1>6. Locked'
  BY <1>1, <1>3, RecLocked DEF RecLock, RecHolds, RecTo
<1>7. Placed'
  BY <1>1, <1>2, <1>3, RecPlaced DEF RecFits
<1>8. /\ ~proc[p].op.failed /\ proc[p].op.phase = "activated"
      /\ journal.phase = "activated" \/ (host.fixture /\ journal.phase = "confirmed")
      /\ Safe(journal.prior) /\ staged[journal.id] = journal.version /\ backup[journal.id] = journal.prior
  BY <1>1, <1>2 DEF Recovering, Same, RecHolds
<1>9. live' = journal.version /\ Swapped'
  BY <1>1, <1>2, <1>8 DEF Swapped
<1>10. Safe(journal.prior)'
  BY <1>1, <1>8 DEF Safe
<1>11. Recorded'
  BY <1>1, <1>8, <1>9, <1>10 DEF Recorded, Bundle, Pending, Swapped
<1>12. Recovering(p)'
  <2>1. Safe(proc[p].op.prior)'
    BY <1>1, <1>2, <1>3, <1>10 DEF Same, Safe
  <2> QED BY <1>1, <1>2, <1>3, <1>8, <1>9, <2>1 DEF Recovering, RecTo, Bundle, Same
<1> QED BY <1>1, <1>2, <1>3, <1>4, <1>5, <1>6, <1>7, <1>11, <1>12, RecChange DEF RecTo, Same

---------------------------------------------------------------------------
(* The apply, from the staged payload to the record of the activation.     *)

\* StageArchive writes under its own number while others may hold the lock.
LEMMA StageStep == ASSUME UpdateInv, NEW p \in Proc, Stage(p) PROVE UpdateInv'
<1> DEFINE o == proc[p].mine.id
<1>1. /\ Typed /\ Locked /\ Numbered /\ Placed /\ Once /\ Recorded /\ Applying(p)
      /\ UNCHANGED <<host, published, live, journal, late, lock, left, good>>
      /\ proc[p].app = "stage" /\ App(p, "open") /\ Asks(p)
      /\ IF Bundle THEN backup' = [backup EXCEPT ![o] = proc[p].mine.version] /\ UNCHANGED staged
         ELSE staged' = [staged EXCEPT ![o] = proc[p].mine.version] /\ UNCHANGED backup
  BY DEF UpdateInv, Stage, Asks
<1>2. o \in 1 .. Applied /\ o \in OpId /\ o # journal.id /\ Applied' = Applied /\ Applied \in Nat
  <2>1. Applied' = Applied
    BY <1>1 DEF Applied
  <2> QED BY <1>1, <2>1, NumbersGiven DEF Numbered
<1>3. AppTo(p, "open") /\ proc'[p].mine = proc[p].mine
  BY <1>1, AppMoves DEF AppPC
<1>4. proc[p].mine.version \in 0 .. MaxVersion
  BY <1>1 DEF Typed, Process, Operation
<1> HIDE DEF o
<1>5. /\ backup' \in [OpId -> 0 .. MaxVersion] /\ staged' \in [OpId -> 0 .. MaxVersion] /\ OnlyOf(o)
      /\ IF Bundle THEN backup'[o] = proc[p].mine.version
         ELSE staged'[o] = proc[p].mine.version /\ backup' = backup
  BY <1>1, <1>2, <1>4 DEF Typed, OnlyOf
<1>6. Typed'
  BY <1>1, <1>3, <1>5 DEF Typed, AppTo, Others
<1>7. Locked'
  BY <1>1, <1>3, AppLocked DEF AppLock, AppHolds, AppTo
<1>8. \A q \in Proc : /\ proc'[q].rec = proc[q].rec /\ proc'[q].op = proc[q].op /\ proc'[q].mine = proc[q].mine
                      /\ proc'[q].role = proc[q].role /\ proc'[q].image = proc[q].image
                      /\ q # p => proc'[q].app = proc[q].app
  BY <1>3 DEF AppTo, Others, Stays
<1>9. proc'[p].app = "open"
  BY <1>3 DEF AppTo
<1>10. Placed'
  BY <1>1, <1>8, <1>9 DEF Placed
<1>11. Numbered'
  <2>1. \A n \in OpId : n > Applied => backup'[n] = 0
    BY <1>1, <1>2, <1>5 DEF Numbered, OnlyOf, OpId
  <2>2. \A q \in Proc : (Asks(q)' => Asks(q)) /\ (RecHolds(q)' <=> RecHolds(q))
    BY <1>1, <1>8 DEF Asks, RecHolds
  <2>3. \A q \in Proc : proc'[q].app # "idle" => proc[q].app # "idle"
    BY <1>1, <1>8
  <2> QED BY <1>1, <1>2, <1>8, <2>1, <2>2, <2>3 DEF Numbered
<1>12. host.fixture => \A q \in Proc : proc[q].role # "helper" /\ proc[q].rec # "confirm"
  BY <1>1 DEF Once
<1>13. Once'
  BY <1>1, <1>2, <1>8, <1>12 DEF Once
<1>14. Recorded'
  BY <1>1, <1>5 DEF Recorded, Bundle, Pending, Safe, Swapped
<1>15. ASSUME NEW q \in Proc PROVE Recovering(q)'
  <2>1. proc[q].role # "helper"
    BY <1>1, <1>12 DEF Placed
  <2>2. Recovering(q)
    BY DEF UpdateInv
  <2>3. proc[q].rec \notin {"wait", "backup", "swap"}
    BY <1>1, <2>1 DEF Placed, Typed, Process
  <2>4. RecHolds(q)' <=> RecHolds(q)
    BY <1>8 DEF RecHolds
  <2>5. Bundle' = Bundle /\ Pending' = Pending
    BY <1>1 DEF Bundle, Pending
  <2>6. ~Bundle => /\ Safe(live)' = Safe(live) /\ Safe(proc[q].op.prior)' = Safe(proc[q].op.prior) /\ Swapped' = Swapped
    BY <1>1, <1>5, <1>8 DEF Safe, Swapped
  <2> QED BY <1>1, <1>8, <2>1, <2>2, <2>3, <2>4, <2>5, <2>6 DEF Recovering
<1>16. Applying(p)'
  <2>1. ~Bundle => backup[o] = 0
    BY <1>1 DEF Applying, o
  <2> QED BY <1>1, <1>3, <1>5, <1>9, <2>1 DEF Applying, Bundle, o
<1>17. ASSUME NEW q \in Proc, q # p PROVE Applying(q)'
  <2>1. CASE proc[q].app = "idle"
    BY <1>8, <1>17, <2>1 DEF Applying
  <2>2. CASE proc[q].app # "idle"
    <3>1. proc[q].mine.id # o /\ proc[q].mine.id \in OpId
      BY <1>1, <1>2, <1>17, <2>2, NumbersGiven DEF Numbered, o
    <3>2. backup'[proc[q].mine.id] = backup[proc[q].mine.id] /\ staged'[proc[q].mine.id] = staged[proc[q].mine.id]
      BY <1>5, <3>1 DEF OnlyOf
    <3>3. ~Bundle => Swapped' = Swapped
      BY <1>1, <1>5 DEF Swapped
    <3>4. Applying(q)
      BY DEF UpdateInv
    <3> QED BY <1>1, <1>8, <1>17, <3>2, <3>3, <3>4 DEF Applying, Bundle
  <2> QED BY <2>1, <2>2
<1> QED BY <1>6, <1>7, <1>10, <1>11, <1>13, <1>14, <1>15, <1>16, <1>17 DEF UpdateInv

LEMMA PrepareStep == ASSUME UpdateInv, NEW p \in Proc, Prepare(p) PROVE UpdateInv'
<1>1. CASE journal.phase \in {"staged", "activated"}
  BY <1>1, RefuseStep
<1>2. CASE journal.phase \notin {"staged", "activated"}
  <2> DEFINE op == [proc[p].mine EXCEPT !.phase = "staged", !.prior = IF Bundle THEN 0 ELSE live]
  <2>1. /\ Typed /\ Numbered /\ Recorded /\ Applying(p) /\ AppHolds(p) /\ Asks(p) /\ proc[p].app = "prepare"
        /\ UNCHANGED <<host, published, live, backup, staged, late, left, good, lock>>
        /\ journal' = op /\ proc' = [proc EXCEPT ![p].app = FirstStep, ![p].mine = op]
    BY <1>2 DEF UpdateInv, Prepare, Prepared, AppHolds, Asks, files
  <2>2. proc[p].mine \in Operation /\ live \in 0 .. MaxVersion /\ host.platform \in Platforms
    BY <2>1, UpdateAssumption DEF Typed, Process, Version, Host
  <2>3. /\ op \in Operation /\ op.id = proc[p].mine.id /\ op.version = proc[p].mine.version
        /\ op.phase = "staged" /\ op.failed = proc[p].mine.failed /\ op.prior = IF Bundle THEN 0 ELSE live
    <3> DEFINE prior == IF Bundle THEN 0 ELSE live
    <3>1. prior \in 0 .. MaxVersion /\ op = [proc[p].mine EXCEPT !.phase = "staged", !.prior = prior]
      BY <2>2, UpdateAssumption
    <3> HIDE DEF op, prior
    <3>2. /\ op \in Operation /\ op.id = proc[p].mine.id /\ op.version = proc[p].mine.version
          /\ op.phase = "staged" /\ op.failed = proc[p].mine.failed /\ op.prior = prior
      BY <2>2, <3>1 DEF Operation
    <3> QED BY <3>2 DEF prior
  <2>4. ~proc[p].mine.failed /\ proc[p].mine.version # 0 /\ (~Bundle => backup[op.id] = 0 /\ staged[op.id] = op.version)
        /\ (Bundle => backup[op.id] = op.version) /\ op.id # journal.id /\ op.id \in 1 .. Applied
    BY <2>1, <2>3 DEF Applying, Numbered
  <2> HIDE DEF op
  <2>5. /\ FirstStep \in {"backup", "save", "swap"} /\ (FirstStep = "backup" <=> host.platform = "posix")
        /\ (FirstStep = "save" <=> host.platform = "windows") /\ (FirstStep = "swap" <=> Bundle)
    BY <2>2 DEF FirstStep, Platforms, Bundle
  <2>6. AppTo(p, FirstStep) /\ proc'[p].mine = op
    <3>1. FirstStep \in AppPC /\ proc' = [proc EXCEPT ![p].mine = op, ![p].app = FirstStep]
      BY <2>1, <2>5 DEF AppPC, Typed, Process
    <3> QED BY <2>1, <2>3, <3>1, SaveMoves
  <2>7. Typed'
    BY <2>1, <2>3, <2>6 DEF Typed, AppTo, Others
  <2>8. Recorded'
    <3>1. ASSUME ~Bundle
          PROVE  live \in good \/ (host.faulty /\ ~host.fixture /\ \E n \in OpId : n # op.id /\ backup[n] \in good)
      <4>0. op.id \in OpId /\ 0 \notin good
        BY <2>1, <2>4, UpdateAssumption DEF Typed, Applied, OpId, Version
      <4>1. ASSUME NEW v, Safe(v)
            PROVE  v \in good \/ (host.faulty /\ ~host.fixture /\ \E n \in OpId : n # op.id /\ backup[n] \in good)
        BY <2>4, <3>1, <4>0, <4>1 DEF Safe
      <4>2. journal.phase = "none" => Safe(live)
        BY <2>1, <3>1 DEF Recorded
      <4>3. journal.phase = "confirmed" => Safe(live)
        BY <2>1, <3>1 DEF Recorded, Safe
      <4>4. journal.phase = "rolled-back" /\ ~journal.failed => Safe(live)
        BY <2>1, <3>1 DEF Recorded
      <4>5. ASSUME journal.phase = "rolled-back", journal.failed
            PROVE  host.faulty /\ ~host.fixture /\ \E n \in OpId : n # op.id /\ backup[n] \in good
        <5>1. Swapped /\ Safe(journal.prior) /\ host.faulty
          BY <2>1, <3>1, <4>5 DEF Recorded
        <5>2. journal.id \in 1 .. Applied
          BY <2>1, <4>5 DEF Numbered, NoOp
        <5>3. ~host.fixture
          BY <2>1, <2>4, <5>2, UpdateAssumption DEF UpdateInv, Once, Typed, Applied
        <5>4. journal.id \in OpId
          BY <2>1, <5>2, NumbersGiven
        <5> QED BY <2>4, <3>1, <4>1, <5>1, <5>3, <5>4 DEF Swapped
      <4>6. journal.phase \in {"none", "confirmed", "rolled-back"}
        BY <1>2, <2>1 DEF Typed, Operation
      <4> QED BY <4>1, <4>2, <4>3, <4>4, <4>5, <4>6
    <3> QED BY <2>1, <2>3, <2>4, <3>1 DEF Recorded, Bundle, Pending, Safe
  <2>9. Applying(p)'
    BY <2>1, <2>3, <2>4, <2>5, <2>6 DEF Applying, AppTo, Bundle
  <2> QED BY <2>1, <2>3, <2>4, <2>5, <2>6, <2>7, <2>8, <2>9, AppChange DEF OnlyOf, Bundle
<1> QED BY <1>1, <1>2

LEMMA BackupStep == ASSUME UpdateInv, NEW p \in Proc, Backup(p) PROVE UpdateInv'
<1> DEFINE op == proc[p].mine
<1>1. /\ Typed /\ Numbered /\ Recorded /\ Applying(p) /\ AppHolds(p) /\ proc[p].app = "backup"
      /\ UNCHANGED <<host, published, live, staged, journal, late, lock, left, good>>
      /\ App(p, "swap") /\ backup' = [backup EXCEPT ![op.id] = live]
  BY DEF UpdateInv, Backup, AppHolds
<1>2. host.platform = "posix" /\ ~Bundle /\ journal = op /\ op.phase = "staged" /\ live = op.prior
      /\ ~op.failed /\ op.version # 0 /\ staged[op.id] = op.version
  BY <1>1 DEF UpdateInv, Placed, Applying, Bundle
<1>3. op.id \in OpId /\ live \in 0 .. MaxVersion
  BY <1>1, UpdateAssumption DEF Numbered, Typed, Applied, OpId, Version
<1> HIDE DEF op
<1>4. AppTo(p, "swap") /\ proc'[p].mine = op
  BY <1>1, AppMoves DEF AppPC, op
<1>5. backup' \in [OpId -> 0 .. MaxVersion] /\ OnlyOf(op.id) /\ backup'[op.id] = live
  BY <1>1, <1>3 DEF Typed, OnlyOf
<1>6. Typed'
  BY <1>1, <1>4, <1>5 DEF Typed, AppTo, Others
<1>7. Recorded'
  <2>1. Pending
    BY <1>2 DEF Pending
  <2>2. Safe(journal.prior)'
    BY <1>1, <1>2, <1>5, <2>1, SafeKept DEF Recorded, Safe
  <2> QED BY <1>1, <1>2, <1>5, <2>2 DEF Recorded, Bundle, Pending
<1>8. Applying(p)'
  BY <1>1, <1>2, <1>4, <1>5 DEF Applying, AppTo, Bundle
<1> QED BY <1>1, <1>2, <1>4, <1>5, <1>6, <1>7, <1>8, AppChange DEF op

\* The moment of the swap: what was live is already in the backup.
LEMMA SwapStep == ASSUME UpdateInv, NEW p \in Proc, Swap(p) PROVE UpdateInv'
<1> DEFINE op == proc[p].mine
<1>1. /\ Typed /\ Numbered /\ Recorded /\ Applying(p) /\ AppHolds(p) /\ proc[p].app = "swap"
      /\ UNCHANGED <<host, published, journal, late, lock, left, good>> /\ App(p, "save")
      /\ IF Bundle
         THEN live' = backup[op.id] /\ backup' = [backup EXCEPT ![op.id] = live] /\ UNCHANGED staged
         ELSE live' = staged[op.id] /\ staged' = [staged EXCEPT ![op.id] = 0] /\ UNCHANGED backup
  BY DEF UpdateInv, Swap, AppHolds
<1>2. /\ journal = op /\ op.phase = "staged" /\ ~op.failed /\ op.version # 0 /\ host.platform # "windows"
      /\ Bundle => backup[op.id] = op.version
      /\ ~Bundle => staged[op.id] = op.version /\ backup[op.id] = op.prior /\ host.platform = "posix"
  BY <1>1 DEF UpdateInv, Placed, Applying, Bundle, Typed, Host, Platforms
<1>3. op.id \in OpId /\ live \in 0 .. MaxVersion /\ op.version \in Version
  BY <1>1, <1>2, UpdateAssumption DEF Numbered, Typed, Applied, OpId, Version, Process, Operation
<1> HIDE DEF op
<1>4. AppTo(p, "save") /\ proc'[p].mine = op
  BY <1>1, AppMoves DEF AppPC, op
<1>5. /\ backup' \in [OpId -> 0 .. MaxVersion] /\ staged' \in [OpId -> 0 .. MaxVersion] /\ OnlyOf(op.id)
      /\ live' = op.version /\ (~Bundle => backup' = backup)
  BY <1>1, <1>2, <1>3, UpdateAssumption DEF Typed, OnlyOf
<1>6. Typed'
  BY <1>1, <1>3, <1>4, <1>5 DEF Typed, AppTo, Others
<1>7. ~Bundle => Swapped'
  BY <1>1, <1>2, <1>5 DEF Swapped
<1>8. Recorded'
  <2>1. Pending
    BY <1>2 DEF Pending
  <2>2. ~Bundle => Safe(journal.prior)'
    BY <1>1, <1>5, <2>1 DEF Recorded, Safe
  <2>3. ~Bundle => backup[journal.id] \in {0, journal.prior}
    BY <1>1, <2>1 DEF Recorded
  <2> QED BY <1>1, <1>2, <1>5, <1>7, <2>1, <2>2, <2>3 DEF Recorded, Bundle, Pending
<1>9. Applying(p)'
  BY <1>1, <1>2, <1>4, <1>5, <1>7 DEF Applying, AppTo, Bundle
<1> QED BY <1>1, <1>2, <1>4, <1>5, <1>6, <1>8, <1>9, AppChange DEF op

LEMMA SaveActivatedStep == ASSUME UpdateInv, NEW p \in Proc, SaveActivated(p) PROVE UpdateInv'
<1> DEFINE old == proc[p].mine
           op == [old EXCEPT !.phase = "activated"]
           pc == IF host.supervised THEN "exit" ELSE "handoff"
<1>1. /\ Typed /\ Numbered /\ Recorded /\ Applying(p) /\ AppHolds(p) /\ proc[p].app = "save"
      /\ UNCHANGED <<host, published, live, backup, staged, late, lock, left, good>>
      /\ journal' = op /\ proc' = [proc EXCEPT ![p].mine = op, ![p].app = pc]
  BY DEF UpdateInv, SaveActivated, AppHolds, files
<1>2. /\ journal = old /\ old.phase = "staged" /\ ~old.failed /\ old.version # 0 /\ old \in Operation
      /\ ~Bundle => IF host.platform = "posix" THEN Swapped ELSE live = old.prior /\ staged[old.id] = old.version
  BY <1>1 DEF Applying, Typed, Process
<1>3. old.id \in OpId
  BY <1>1, NumbersGiven DEF Numbered, AppHolds
<1>4. /\ op \in Operation /\ op.id = old.id /\ op.version = old.version /\ op.prior = old.prior
      /\ op.phase = "activated" /\ ~op.failed
  BY <1>2 DEF Operation
<1>5. pc \in {"exit", "handoff"} /\ pc \in AppPC
  BY DEF AppPC
<1> HIDE DEF op, old, pc
<1>6. AppTo(p, pc) /\ proc'[p].mine = op
  BY <1>1, <1>4, <1>5, SaveMoves
<1>7. Typed'
  BY <1>1, <1>4, <1>6 DEF Typed, AppTo, Others
<1>8. Recorded'
  <2>1. Pending
    BY <1>2 DEF Pending
  <2>2. ~Bundle => Safe(journal.prior)'
    BY <1>1, <1>2, <1>4, <2>1 DEF Recorded, Safe
  <2> QED BY <1>1, <1>2, <1>4, <2>1, <2>2 DEF Recorded, Bundle, Pending, Swapped
<1>9. Applying(p)'
  <2>1. journal' # NoOp /\ Same(op, journal')
    BY <1>1, <1>4 DEF Same, NoOp
  <2> QED BY <1>1, <1>2, <1>4, <1>5, <1>6, <2>1 DEF Applying, AppTo, Bundle, Swapped
<1> QED BY <1>1, <1>2, <1>4, <1>5, <1>6, <1>7, <1>8, <1>9, AppChange DEF old, OnlyOf

\* The acknowledgement without the lock: nobody can be at work on a swap.
LEMMA ConfirmStep == ASSUME UpdateInv, NEW p \in Proc, Confirm(p) PROVE UpdateInv'
<1> DEFINE op == proc[p].op
<1>1. /\ Typed /\ Locked /\ Numbered /\ Placed /\ Once /\ Recorded
      /\ UNCHANGED <<host, published, live, backup, staged, late, lock, left>>
      /\ proc[p].rec = "confirm" /\ journal' = [op EXCEPT !.phase = "confirmed"]
      /\ good' = good \cup {op.version} /\ Rec(p, "end")
  BY DEF UpdateInv, Confirm, files
<1>2. host.fixture /\ proc[p].role = "server" /\ op \in Operation
  BY <1>1 DEF Placed, Typed, Process
<1>3. /\ Applied = 1 /\ op.id = 1 /\ op.version # 0 /\ op.phase = "activated" /\ ~op.failed
      /\ journal # NoOp => Same(op, journal)
      /\ \A q \in Proc : proc[q].app \in {"idle", "handoff", "exit"} /\ (proc[q].rec = "confirm" => Same(op, proc[q].op))
  BY <1>1, <1>2 DEF Once
<1>4. /\ journal' \in Operation /\ journal'.id = 1 /\ journal'.version = op.version /\ journal'.prior = op.prior
      /\ journal'.phase = "confirmed" /\ ~journal'.failed /\ journal' # NoOp /\ Same(op, journal')
  BY <1>1, <1>2, <1>3 DEF Operation, NoOp, Same
<1>5. op.version \in Version
  BY <1>2, <1>3, UpdateAssumption DEF Operation, Version
<1> HIDE DEF op
<1>6. RecTo(p, "end") /\ proc'[p].op = op
  BY <1>1, RecMoves DEF RecPC, op
<1>7. Typed'
  BY <1>1, <1>4, <1>5, <1>6 DEF Typed, RecTo, Others
<1>8. Locked'
  BY <1>1, <1>6, RecLocked DEF RecLock, RecHolds, RecTo
<1>9. Placed'
  BY <1>1, <1>2, <1>6, RecPlaced DEF RecFits
<1>10. /\ Applied' = Applied
       /\ \A q \in Proc : /\ proc'[q].app = proc[q].app /\ proc'[q].mine = proc[q].mine /\ proc'[q].role = proc[q].role
                          /\ proc'[q].op = proc[q].op /\ proc'[q].image = proc[q].image
                          /\ proc'[q].rec = IF q = p THEN "end" ELSE proc[q].rec
  BY <1>1, <1>6 DEF Applied, RecTo, Others, Stays, op
<1>11. \A q \in Proc : RecHolds(q)' <=> RecHolds(q)
  BY <1>1, <1>10 DEF RecHolds
<1>12. Numbered'
  <2>1. \A q \in Proc : ~Asks(q)'
    BY <1>3, <1>10 DEF Asks
  <2>2. \A q \in Proc : RecHolds(q)' => Same(proc'[q].op, journal')
    BY <1>1, <1>3, <1>4, <1>10, <1>11 DEF Numbered, Same
  <2> QED BY <1>1, <1>3, <1>4, <1>10, <2>1, <2>2 DEF Numbered
<1>13. Once'
  <2>1. \A q \in Proc : proc'[q].rec = "confirm" => proc[q].rec = "confirm" /\ Same(proc'[q].op, journal')
    BY <1>3, <1>4, <1>10 DEF Same
  <2> QED BY <1>1, <1>2, <1>4, <1>10, <2>1 DEF Once
<1>14. ~Bundle => live \in good'
  <2> SUFFICES ASSUME ~Bundle PROVE live \in good \/ live = op.version
    BY <1>1
  <2>1. \A v : Safe(v) => v \in good
    BY <1>2 DEF Safe
  <2>2. CASE journal.phase = "none"
    BY <1>1, <2>1, <2>2 DEF Recorded
  <2>3. CASE Pending
    <3>1. journal # NoOp
      BY <2>3 DEF Pending, NoOp
    <3>2. live = journal.prior \/ live = journal.version
      BY <1>1, <2>3 DEF Recorded, Swapped
    <3>3. Safe(journal.prior)
      BY <1>1, <2>3 DEF Recorded
    <3> QED BY <1>3, <2>1, <3>1, <3>2, <3>3 DEF Same
  <2>4. CASE journal.phase = "confirmed"
    BY <1>1, <2>4 DEF Recorded
  <2>5. CASE journal.phase = "rolled-back"
    <3>1. journal # NoOp
      BY <2>5 DEF NoOp
    <3>2. Safe(journal.prior) /\ (live = journal.prior \/ live = journal.version)
      BY <1>1, <2>5 DEF Recorded, Swapped
    <3> QED BY <1>3, <2>1, <3>1, <3>2 DEF Same
  <2> QED BY <1>1, <2>2, <2>3, <2>4, <2>5 DEF Typed, Operation, Pending
<1>15. Recorded'
  BY <1>1, <1>4, <1>14 DEF Recorded, Bundle, Pending
<1>16. ASSUME NEW q \in Proc, journal # NoOp
       PROVE  /\ journal'.id = journal.id /\ journal'.version = journal.version /\ journal'.prior = journal.prior
              /\ Swapped' = Swapped /\ Bundle' = Bundle
  BY <1>1, <1>3, <1>4, <1>16 DEF Same, Swapped, Bundle
<1>17. ASSUME NEW q \in Proc PROVE Applying(q)'
  <2>1. Applying(q)
    BY DEF UpdateInv
  <2>2. CASE proc[q].app = "handoff"
    <3>1. journal # NoOp
      BY <2>1, <2>2 DEF Applying
    <3> QED BY <1>1, <1>4, <1>10, <1>16, <2>1, <2>2, <3>1 DEF Applying, Same
  <2>3. CASE proc[q].app \in {"idle", "exit"}
    BY <1>10, <2>3 DEF Applying
  <2> QED BY <1>3, <2>2, <2>3
<1>18. ASSUME NEW q \in Proc PROVE Recovering(q)'
  <2>1. CASE proc[q].role # "helper"
    <3>1. proc'[q].rec \in {"start", "note", "confirm", "end"} /\ proc'[q].role # "helper"
      BY <1>1, <1>2, <1>10, <2>1 DEF Placed, Typed, Process
    <3> QED BY <3>1 DEF Recovering, RecHolds
  <2>2. CASE proc[q].role = "helper"
    <3>1. journal # NoOp /\ q # p /\ proc[q].rec \notin {"evaluate", "acknowledge"}
      BY <1>1, <1>2, <2>2 DEF Once, Placed
    <3>2. \A v : Safe(v) <=> v \in good
      BY <1>2 DEF Safe
    <3>3. Recovering(q)
      BY DEF UpdateInv
    <3>4. ~Pending'
      BY <1>4 DEF Pending
    <3>5. ~Bundle => Safe(live)'
      BY <1>1, <1>14 DEF Safe
    <3>6. Safe(proc[q].op.prior) => Safe(proc[q].op.prior)'
      BY <1>1, <1>2, <1>10 DEF Safe
    <3> QED BY <1>1, <1>2, <1>4, <1>10, <1>11, <1>16, <2>2, <3>1, <3>3, <3>4, <3>5, <3>6 DEF Recovering
  <2> QED BY <2>1, <2>2
<1> QED BY <1>7, <1>8, <1>9, <1>12, <1>13, <1>15, <1>17, <1>18 DEF UpdateInv

---------------------------------------------------------------------------
(* The invariant and what follows from it.                                 *)

LEMMA UpdateInit == ASSUME Init PROVE UpdateInv
<1>1. /\ host \in Hosts /\ published = 1 /\ live = 1 /\ good = {1}
      /\ backup = [o \in OpId |-> 0] /\ staged = [o \in OpId |-> 0]
      /\ journal = NoOp /\ late = {} /\ lock = Free /\ proc = [p \in Proc |-> NoProc]
      /\ left = [applies |-> MaxApplies, crashes |-> MaxCrashes, faults |-> MaxFaults]
  BY DEF Init
<1>2. NoOp \in Operation /\ NoProc \in Process /\ NoOp.phase = "none" /\ ~NoOp.failed
  BY Records DEF NoOp
<1>3. \A p \in Proc : proc[p].role = "none" /\ proc[p].rec = "end" /\ proc[p].app = "idle"
  BY <1>1 DEF NoProc
<1>4. Typed
  <2>1. 1 \in Version
    BY UpdateAssumption DEF Version
  <2> QED BY <1>1, <1>2, <2>1, UpdateAssumption DEF Typed, Version
<1>5. Locked
  BY <1>1, <1>3, UpdateAssumption DEF Locked, Free, RecHolds, AppHolds
<1>6. Numbered
  BY <1>1, <1>3 DEF Numbered, RecHolds, Asks
<1>7. Placed
  BY <1>3 DEF Placed
<1>8. Once
  BY <1>1, <1>3, UpdateAssumption DEF Once, Applied
<1>9. Recorded
  BY <1>1, <1>2 DEF Recorded, Pending, Safe
<1>10. \A p \in Proc : Applying(p) /\ Recovering(p)
  BY <1>3 DEF Applying, Recovering, RecHolds
<1> QED BY <1>4, <1>5, <1>6, <1>7, <1>8, <1>9, <1>10 DEF UpdateInv

LEMMA RestoreStep == ASSUME UpdateInv, NEW p \in Proc, Restore(p) PROVE UpdateInv'
<1> DEFINE o == proc[p].op.id
<1>1. CASE /\ backup[o] # 0 /\ live' = backup[o]
           /\ backup' = [backup EXCEPT ![o] = IF Bundle THEN live ELSE 0]
           /\ Rec(p, IF proc[p].rec = "undo" THEN "relaunch" ELSE "record") /\ UNCHANGED <<left, lock>>
  BY <1>1, RestoreWorksStep
<1>2. CASE /\ IF backup[o] = 0 THEN UNCHANGED left ELSE host.faulty /\ Fault
           /\ IF proc[p].rec = "undo" THEN Exit(p)
              ELSE proc' = [proc EXCEPT ![p].op.failed = TRUE, ![p].rec = "record"] /\ UNCHANGED lock
           /\ UNCHANGED <<live, backup>>
  BY <1>2, RestoreFailsStep
<1>3. proc[p].rec = "undo" <=> (IF proc[p].rec = "undo" THEN "relaunch" ELSE "record") = "relaunch"
  OBVIOUS
<1> QED BY <1>1, <1>2, <1>3 DEF Restore

LEMMA UpdateNext == ASSUME UpdateInv, [Next]_vars PROVE UpdateInv'
<1>1. CASE UNCHANGED vars
  <2>1. Still
    BY <1>1 DEF vars, files, UpdateInv, Still, Typed
  <2> QED BY <1>1, <2>1, WorldQuiet DEF vars
<1>2. CASE Publish
  BY <1>2, PublishStep
<1>3. CASE DeadlinePasses
  BY <1>3, DeadlineStep
<1>4. ASSUME NEW p \in Proc, Launch(p) \/ StartupApply(p) \/ Apply(p) \/ ApplyFails(p) \/ Crash(p)
      PROVE  UpdateInv'
  BY <1>4, LaunchStep, StartupApplyStep, ApplyRequestStep, ApplyFailsStep, GoneSteps
<1>5. ASSUME NEW p \in Proc, RecoveryStep(p) PROVE UpdateInv'
  BY <1>5, ReadyStep, GoneSteps, OpenStep, EvaluateStep, AcknowledgeStep, NoteStep, ConfirmStep,
     CleanupStep, ClearStep, RestoreStep, RecordStep, AutoEndsStep DEF RecoveryStep
<1>6. ASSUME NEW p \in Proc, ApplyStep(p) PROVE UpdateInv'
  BY <1>6, DrainStep, GoneSteps, StageStep, OpenForApplyStep, PrepareStep, BackupStep, SwapStep,
     SaveActivatedStep, HandoffStep DEF ApplyStep
<1>7. ASSUME NEW p \in Proc, HelperStep(p) PROVE UpdateInv'
  BY <1>7, WaitParentStep, HelperBackupStep, HelperSwapStep, LaunchNewStep, AwaitHealthStep,
     RelaunchStep DEF HelperStep
<1> QED BY <1>1, <1>2, <1>3, <1>4, <1>5, <1>6, <1>7 DEF Next

LEMMA TypeFollows == ASSUME UpdateInv PROVE TypeOK
<1>1. Typed /\ Locked
  BY DEF UpdateInv
<1>2. ASSUME lock # Free
      PROVE  IF lock[2] = "app" THEN AppHolds(lock[1]) ELSE RecHolds(lock[1])
  <2>1. PICK p \in Proc : lock = <<p, "rec">> \/ lock = <<p, "app">>
    BY <1>1, <1>2 DEF Locked
  <2> QED BY <1>1, <2>1 DEF Locked
<1> QED BY <1>1, <1>2 DEF TypeOK, Typed, Locked, AppHolds, RecHolds

LEMMA RecoverableFollows == ASSUME UpdateInv PROVE Recoverable
<1> SUFFICES ASSUME ~Bundle
             PROVE  live \in good \/ \E o \in OpId : backup[o] \in good /\ (o = journal.id \/ host.faulty)
  BY DEF Recoverable
<1> DEFINE Back == live \in good \/ \E o \in OpId : backup[o] \in good /\ (o = journal.id \/ host.faulty)
<1>1. Typed /\ Numbered /\ Recorded
  BY DEF UpdateInv
<1>2. ASSUME NEW v, Safe(v), v = live \/ (journal.id \in OpId /\ v = backup[journal.id]) PROVE Back
  BY <1>2 DEF Safe
<1>3. journal # NoOp => journal.id \in OpId
  BY <1>1, NumbersGiven DEF Numbered
<1>4. CASE journal.phase = "none"
  BY <1>1, <1>2, <1>4 DEF Recorded
<1>5. CASE journal.phase = "confirmed"
  BY <1>1, <1>5 DEF Recorded
<1>6. CASE Pending \/ journal.phase = "rolled-back"
  <2>1. journal # NoOp
    BY <1>6 DEF NoOp, Pending
  <2>2. Safe(journal.prior) /\ (live = journal.prior \/ Swapped)
    BY <1>1, <1>6 DEF Recorded
  <2> QED BY <1>2, <1>3, <2>1, <2>2 DEF Swapped
<1> QED BY <1>1, <1>4, <1>5, <1>6 DEF Typed, Operation, Pending

LEMMA RollbackFollows == ASSUME UpdateInv PROVE RollbackRestores
  BY DEF UpdateInv, Recorded, RollbackRestores

\* The invariant the theorems rest on.
THEOREM UpdateInvariant == Spec => []UpdateInv
<1>1. Init => UpdateInv
  BY UpdateInit
<1>2. UpdateInv /\ [Next]_vars => UpdateInv'
  BY UpdateNext
<1> QED BY <1>1, <1>2, PTL DEF Spec

\* Every variable keeps its type and the lock is held only between OpenJournal
\* and Close, whatever is killed, fails or races.
THEOREM UpdateTypes == Spec => []TypeOK
  BY UpdateInvariant, TypeFollows, PTL

\* A process or the machine may die between any two durable changes of an
\* update: the live path or a backup holds a release that was healthy once.
THEOREM WayBack == Spec => []Recoverable
  BY UpdateInvariant, RecoverableFollows, PTL

\* PhaseRolledBack on record means the previous installation is live.
THEOREM RolledBack == Spec => []RollbackRestores
  BY UpdateInvariant, RollbackFollows, PTL

---------------------------------------------------------------------------
(* A dependable installation carries out InstalledVersion.                 *)

Top(v) == v \in good /\ \A g \in good : g <= v
Serves(p) == proc[p].role = "server" /\ proc[p].app # "exit"

\* One process serves; a pending operation replaces the latest proven release
\* by a later one; and a process may not apply what it, or what it already
\* replaced, is not older than.
Proven ==
    Dependable =>
      /\ \A p, q \in Proc : Serves(p) /\ Serves(q) => p = q
      /\ IF Pending THEN Top(journal.prior) /\ journal.version > journal.prior ELSE Top(live)
      /\ \A p \in Proc : Serves(p) =>
            live <= proc[p].image \/ (Pending /\ live = journal.version /\ journal.prior <= proc[p].image)
      /\ \A p \in Proc : Asks(p) => proc[p].mine.version > proc[p].image

\* What a step may do to the release that is installed.
Installs == live \in good /\ UNCHANGED good /\ live' > live /\ live' \in Nat
Confirms == UNCHANGED live /\ good' = good \cup {live}
Restores == live \notin good /\ UNCHANGED good /\ live' \in good /\ \A v \in good : v <= live'
Outside == UNCHANGED <<live, good>>
Move == Dependable => Installs \/ Confirms \/ Restores \/ Outside

\* No process starts to serve or to ask.
Narrow ==
    \A q \in Proc :
        /\ Serves(q)' => Serves(q) /\ proc'[q].image = proc[q].image
        /\ Asks(q)' => Asks(q) /\ proc'[q].image = proc[q].image /\ proc'[q].mine.version = proc[q].mine.version

LEMMA MoveMaps == ASSUME UNCHANGED host, Move PROVE [Installed!Next]_(Installed!vars)
<1>1. Dependable' = Dependable
  BY DEF Dependable, Bundle
<1>2. CASE ~Dependable
  BY <1>1, <1>2 DEF Installed!vars
<1>3. CASE Dependable
  <2>1. CASE Installs
    BY <1>1, <1>3, <2>1 DEF Installs, Installed!Next, Installed!Install
  <2>2. CASE Confirms
    BY <1>1, <1>3, <2>2 DEF Confirms, Installed!Next, Installed!Confirm
  <2>3. CASE Restores
    BY <1>1, <1>3, <2>3 DEF Restores, Installed!Next, Installed!Restore
  <2>4. CASE Outside
    BY <1>1, <1>3, <2>4 DEF Outside, Installed!vars
  <2> QED BY <1>3, <2>1, <2>2, <2>3, <2>4 DEF Move
<1> QED BY <1>2, <1>3

LEMMA NarrowQuiet ==
    ASSUME Proven, Narrow, UNCHANGED <<host, live, journal, good>> PROVE Proven' /\ Move
<1>1. Dependable' = Dependable /\ Pending' = Pending
  BY DEF Dependable, Bundle, Pending
<1>2. Proven'
  BY <1>1 DEF Proven, Narrow, Top
<1> QED BY <1>2 DEF Move, Outside

LEMMA RecNarrow == ASSUME NEW p \in Proc, NEW pc, RecTo(p, pc) PROVE Narrow
  BY DEF Narrow, Serves, Asks, RecTo, Others, Stays

LEMMA AppNarrow ==
    ASSUME NEW p \in Proc, NEW pc, AppTo(p, pc), proc[p].app # "exit",
           pc \in {"drain", "stage", "open", "prepare"} => Asks(p) /\ proc'[p].mine = proc[p].mine
    PROVE  Narrow
  BY DEF Narrow, Serves, Asks, AppTo, Others, Stays

LEMMA GoneNarrow == ASSUME NEW p \in Proc, Gone(p) PROVE Narrow
  BY DEF Narrow, Serves, Asks, Gone, Others, Stays

\* The steps of a recovery never start a server or an apply.
LEMMA RecOnlyNarrow == ASSUME Typed, NEW p \in Proc, NEW pc, Rec(p, pc) PROVE Narrow
  BY DEF Typed, Rec, Narrow, Serves, Asks, Process

LEMMA LoadNarrow ==
    ASSUME Typed, NEW p \in Proc, NEW pc, NEW op, proc' = [proc EXCEPT ![p].rec = pc, ![p].op = op] PROVE Narrow
  BY DEF Typed, Narrow, Serves, Asks, Process

LEMMA ExitNarrow == ASSUME Typed, NEW p \in Proc, Exit(p) PROVE Narrow
  BY ExitMoves, GoneNarrow

\* Of a build without the fixture's shortcuts, only servers recover.
LEMMA NoHelper ==
    ASSUME UpdateInv, Dependable, NEW p \in Proc
    PROVE  proc[p].role # "helper" /\ proc[p].rec \notin {"note", "confirm", "wait", "backup", "swap", "launch", "watch", "undo", "relaunch"}
  BY DEF UpdateInv, Placed, Dependable, Typed, Process

LEMMA RecoveryMoves ==
    ASSUME UpdateInv, Proven, Dependable, NEW p \in Proc,
           Ready(p) \/ DieEarly(p) \/ Open(p) \/ Evaluate(p) \/ Note(p) \/ Confirm(p) \/ AutoEnds(p) \/ Cleanup(p)
    PROVE  Proven' /\ Move
<1>1. Typed
  BY DEF UpdateInv
<1>2. ~Note(p) /\ ~Confirm(p)
  BY NoHelper DEF Note, Confirm
<1>3. UNCHANGED <<host, live, journal, good>>
  BY <1>2 DEF Ready, DieEarly, Open, Evaluate, AutoEnds, Cleanup, files
<1>4. Narrow
  <2>1. CASE \E pc : Rec(p, pc)
    BY <1>1, <2>1, RecOnlyNarrow
  <2>2. CASE Exit(p)
    BY <1>1, <2>2, ExitNarrow
  <2>3. CASE \E pc : proc' = [proc EXCEPT ![p].rec = pc, ![p].op = journal]
    BY <1>1, <2>3, LoadNarrow
  <2>4. Open(p) => (\E pc : Rec(p, pc)) \/ Exit(p) \/ (\E pc : proc' = [proc EXCEPT ![p].rec = pc, ![p].op = journal])
    BY DEF Open
  <2>5. Ready(p) \/ Evaluate(p) \/ AutoEnds(p) \/ Cleanup(p) => \E pc : Rec(p, pc)
    BY DEF Ready, Evaluate, AutoEnds, Cleanup
  <2>6. DieEarly(p) => Exit(p)
    BY DEF DieEarly
  <2> QED BY <1>2, <2>1, <2>2, <2>3, <2>4, <2>5, <2>6
<1> QED BY <1>3, <1>4, NarrowQuiet

LEMMA HelperMoves == ASSUME UpdateInv, Dependable, NEW p \in Proc, HelperStep(p) PROVE FALSE
  BY NoHelper DEF HelperStep, WaitParent, HelperBackup, HelperSwap, LaunchNew, AwaitHealth, Relaunch

\* Only a server at work recovers, and it is the one that serves.
LEMMA HolderServes ==
    ASSUME UpdateInv, Proven, Dependable, NEW p \in Proc, RecHolds(p)
    PROVE  Serves(p) /\ \A q \in Proc : Serves(q) => q = p
<1>1. proc[p].role = "server" /\ ~AppHolds(p)
  BY Holding, Alone DEF UpdateInv, Dependable
<1> QED BY <1>1 DEF Serves, AppHolds, Proven

LEMMA AcknowledgeMoves == ASSUME UpdateInv, Proven, Dependable, NEW p \in Proc, Acknowledge(p) PROVE Proven' /\ Move
<1>1. /\ RecHolds(p) /\ Typed /\ Recorded /\ Recovering(p) /\ Rec(p, "cleanup") /\ proc[p].rec = "acknowledge"
      /\ UNCHANGED <<host, live>> /\ good' = good \cup {proc[p].op.version}
      /\ journal' = [journal EXCEPT !.phase = "confirmed"]
  BY DEF UpdateInv, Acknowledge, RecHolds, files
<1>2. journal \in Operation /\ live \in Int /\ good \subseteq Int /\ proc[p].image \in Int
  BY <1>1, UpdateAssumption DEF Typed, Version, Process
<1>3. journal'.phase = "confirmed"
  BY <1>1, <1>2 DEF Operation
<1>4. /\ proc[p].op = journal /\ journal.phase = "activated"
      /\ live = journal.version /\ proc[p].image = journal.version
  BY <1>1 DEF Recovering, Dependable
<1>5. Top(journal.prior) /\ journal.version > journal.prior
  BY <1>4 DEF Proven, Pending
<1>6. Narrow
  BY <1>1, RecOnlyNarrow
<1>7. \A g \in good' : g <= live'
  BY <1>1, <1>2, <1>4, <1>5 DEF Top, Operation
<1>8. Serves(p) /\ \A q \in Proc : Serves(q) => q = p
  BY <1>1, HolderServes
<1>9. Proven'
  <2>1. Dependable' = Dependable /\ ~Pending' /\ Top(live)'
    BY <1>1, <1>3, <1>4, <1>7 DEF Dependable, Bundle, Pending, Top
  <2>2. \A q \in Proc : Serves(q)' => q = p /\ live' <= proc'[q].image
    BY <1>1, <1>2, <1>4, <1>6, <1>8 DEF Narrow
  <2>3. \A q \in Proc : Asks(q)' => proc'[q].mine.version > proc'[q].image
    BY <1>6 DEF Narrow, Proven
  <2> QED BY <2>1, <2>2, <2>3 DEF Proven
<1> QED BY <1>1, <1>4, <1>9 DEF Move, Confirms

LEMMA RestoreMoves == ASSUME UpdateInv, Proven, Dependable, NEW p \in Proc, Restore(p) PROVE Proven' /\ Move
<1>1. /\ RecHolds(p) /\ Typed /\ Recorded /\ Recovering(p) /\ proc[p].rec = "restore"
      /\ UNCHANGED <<host, journal, good>>
  BY NoHelper DEF UpdateInv, Restore, RecHolds
<1>2. /\ Same(proc[p].op, journal) /\ Swapped /\ Pending /\ Top(journal.prior) /\ journal.version > journal.prior
  <2>1. Same(proc[p].op, journal)
    BY <1>1, Holding
  <2>2. proc[p].op.phase \in {"staged", "activated"} /\ journal.phase = proc[p].op.phase /\ Swapped
    BY <1>1 DEF Recovering, Dependable, RecHolds
  <2> QED BY <2>1, <2>2 DEF Pending, Proven
<1>3. journal.prior \in good /\ journal.prior # 0 /\ backup[proc[p].op.id] = journal.prior
  BY <1>1, <1>2, UpdateAssumption DEF Top, Swapped, Same, Typed, Version
<1>4. live' = journal.prior
  BY <1>1, <1>2, <1>3 DEF Restore, Dependable
<1>5. Narrow
  BY <1>1, <1>3, RecOnlyNarrow DEF Restore, Dependable
<1>6. journal.version \in Int /\ journal.prior \in Int /\ (\A q \in Proc : proc[q].image \in Int) /\ good \subseteq Int
  BY <1>1, UpdateAssumption DEF Typed, Operation, Process, Version
<1>7. Move
  <2>1. live \notin good
    <3>1. live = journal.version /\ \A g \in good : g <= journal.prior
      BY <1>2 DEF Swapped, Top
    <3> QED BY <1>2, <1>6, <3>1
  <2> QED BY <1>1, <1>2, <1>3, <1>4, <2>1 DEF Move, Restores, Top
<1>8. Proven'
  <2>1. Dependable' = Dependable /\ Pending' /\ Top(journal.prior)' /\ journal'.version > journal'.prior
    BY <1>1, <1>2 DEF Dependable, Bundle, Pending, Top
  <2>2. \A q \in Proc : Serves(q) => journal.prior <= proc[q].image
    BY <1>2, <1>6 DEF Proven, Swapped
  <2>3. \A q \in Proc : Serves(q)' => live' <= proc'[q].image
    BY <1>4, <1>5, <2>2 DEF Narrow
  <2> QED BY <1>5, <2>1, <2>3 DEF Proven, Narrow
<1> QED BY <1>7, <1>8

\* The two steps after which no operation is pending.
LEMMA SettleMoves ==
    ASSUME UpdateInv, Proven, Dependable, NEW p \in Proc, Clear(p) \/ Record(p) PROVE Proven' /\ Move
<1>1. /\ RecHolds(p) /\ Typed /\ Recorded /\ Recovering(p) /\ UNCHANGED <<host, live, good>>
  BY DEF UpdateInv, Clear, Record, RecHolds, files
<1>2. proc[p].role = "server" /\ Same(proc[p].op, journal) /\ proc[p].op \in Operation
  BY <1>1, Holding DEF Dependable
<1>3. Narrow
  BY <1>1, <1>2, RecOnlyNarrow DEF Clear, Record
<1>4. ~Pending'
  BY <1>2 DEF Clear, Record, Pending, NoOp, Operation
<1>5. Pending => live = journal.prior
  <2>1. CASE Clear(p)
    BY <1>1, <2>1 DEF Clear, Recovering, Dependable
  <2>2. CASE Record(p)
    BY <1>1, <1>2, <2>2 DEF Record, Recovering, Dependable, Same
  <2> QED BY <2>1, <2>2
<1>6. Top(live)
  BY <1>5 DEF Proven
<1>7. \A q \in Proc : Serves(q) => live <= proc[q].image
  BY <1>5 DEF Proven
<1>8. Proven'
  <2>1. Dependable' = Dependable /\ Top(live)'
    BY <1>1, <1>6 DEF Dependable, Bundle, Top
  <2> QED BY <1>1, <1>3, <1>4, <1>7, <2>1 DEF Proven, Narrow
<1> QED BY <1>1, <1>8 DEF Move, Outside

LEMMA AppOnlyNarrow ==
    ASSUME Typed, NEW p \in Proc, NEW pc, App(p, pc), proc[p].app # "exit", Asks(p) \/ pc \notin {"drain", "stage", "open", "prepare"}
    PROVE  Narrow
  BY DEF Typed, App, Narrow, Serves, Asks, Process

\* The steps of an apply that leave the live path and the record alone.
LEMMA ApplyMoves ==
    ASSUME UpdateInv, Proven, Dependable, NEW p \in Proc,
           Drain(p) \/ ServeReturns(p) \/ Stage(p) \/ OpenForApply(p) \/ Backup(p) \/ ExitProcess(p)
             \/ ApplyFails(p) \/ Crash(p) \/ (Prepare(p) /\ journal.phase \in {"staged", "activated"})
    PROVE  Proven' /\ Move
<1>1. Typed
  BY DEF UpdateInv
<1>2. UNCHANGED <<host, live, journal, good>>
  BY DEF Drain, ServeReturns, Stage, OpenForApply, Backup, ExitProcess, ApplyFails, Crash, Prepare, files
<1>3. Narrow
  <2>1. CASE Exit(p)
    BY <1>1, <2>1, ExitNarrow
  <2>2. CASE \E pc : App(p, pc) /\ proc[p].app # "exit" /\ (Asks(p) \/ pc \notin {"drain", "stage", "open", "prepare"})
    BY <1>1, <2>2, AppOnlyNarrow
  <2>3. CASE Drain(p)
    BY <1>1, <2>3 DEF Drain, Typed, Narrow, Serves, Asks, Process
  <2>4. ServeReturns(p) \/ ExitProcess(p) \/ Crash(p) => Exit(p)
    BY DEF ServeReturns, ExitProcess, Crash
  <2>5. Stage(p) => App(p, "open") /\ proc[p].app # "exit" /\ Asks(p)
    BY DEF Stage, Asks
  <2>6. OpenForApply(p) => (App(p, "prepare") \/ App(p, "idle")) /\ proc[p].app # "exit" /\ Asks(p)
    BY DEF OpenForApply, Asks
  <2>7. Backup(p) => App(p, "swap") /\ proc[p].app # "exit"
    BY DEF Backup
  <2>8. ApplyFails(p) => App(p, "idle") /\ proc[p].app # "exit"
    BY DEF ApplyFails
  <2>9. Prepare(p) /\ journal.phase \in {"staged", "activated"} => App(p, "idle") /\ proc[p].app # "exit"
    BY DEF Prepare
  <2> QED BY <2>1, <2>2, <2>3, <2>4, <2>5, <2>6, <2>7, <2>8, <2>9
<1> QED BY <1>2, <1>3, NarrowQuiet

LEMMA PrepareMoves ==
    ASSUME UpdateInv, Proven, Dependable, NEW p \in Proc, Prepare(p), journal.phase \notin {"staged", "activated"}
    PROVE  Proven' /\ Move
<1> DEFINE op == [proc[p].mine EXCEPT !.phase = "staged", !.prior = live]
<1>1. /\ Typed /\ proc[p].app = "prepare" /\ UNCHANGED <<host, live, good>>
      /\ journal' = op /\ proc' = [proc EXCEPT ![p].app = FirstStep, ![p].mine = op]
  BY DEF UpdateInv, Prepare, Prepared, Dependable, files
<1>2. op.version = proc[p].mine.version /\ op.prior = live /\ op.phase = "staged"
  BY <1>1 DEF Typed, Process, Operation
<1> HIDE DEF op
<1>3. FirstStep \in {"backup", "save", "swap"}
  BY <1>1 DEF FirstStep, Typed, Host, Platforms
<1>4. \A q \in Proc : /\ proc'[q].role = proc[q].role /\ proc'[q].image = proc[q].image
                      /\ proc'[q].app = IF q = p THEN FirstStep ELSE proc[q].app
                      /\ q # p => proc'[q].mine = proc[q].mine
  BY <1>1 DEF Typed, Process
<1>5. Narrow
  BY <1>1, <1>3, <1>4 DEF Narrow, Serves, Asks
<1>6. ~Pending /\ Top(live) /\ \A q \in Proc : Serves(q) => live <= proc[q].image
  BY DEF Proven, Pending
<1>7. Serves(p)
  BY <1>1 DEF UpdateInv, Placed, Serves
<1>8. op.version > live
  <2>1. op.version > proc[p].image /\ live <= proc[p].image
    BY <1>1, <1>2, <1>6, <1>7 DEF Proven, Asks
  <2>2. op.version \in Int /\ proc[p].image \in Int /\ live \in Int
    BY <1>1, <1>2, UpdateAssumption DEF Typed, Process, Operation, Version
  <2> QED BY <2>1, <2>2
<1>9. Proven'
  <2>1. Dependable' = Dependable /\ Pending' /\ Top(journal.prior)' /\ journal'.version > journal'.prior
    BY <1>1, <1>2, <1>6, <1>8 DEF Dependable, Bundle, Pending, Top
  <2>2. \A q \in Proc : Serves(q)' => live' <= proc'[q].image
    BY <1>1, <1>5, <1>6 DEF Narrow
  <2> QED BY <1>5, <2>1, <2>2 DEF Proven, Narrow
<1> QED BY <1>1, <1>9 DEF Move, Outside

LEMMA SwapMoves == ASSUME UpdateInv, Proven, Dependable, NEW p \in Proc, Swap(p) PROVE Proven' /\ Move
<1>1. /\ Typed /\ Applying(p) /\ proc[p].app = "swap" /\ App(p, "save") /\ UNCHANGED <<host, journal, good>>
      /\ live' = staged[proc[p].mine.id]
  BY DEF UpdateInv, Swap, Dependable
<1>2. /\ journal = proc[p].mine /\ Pending /\ live = journal.prior /\ live' = journal.version
  BY <1>1 DEF Applying, Pending, Dependable
<1>3. Top(journal.prior) /\ journal.version > journal.prior
  BY <1>2 DEF Proven
<1>4. live' > live /\ live' \in Nat
  BY <1>1, <1>2, <1>3, UpdateAssumption DEF Typed, Operation
<1>5. Narrow
  BY <1>1, AppOnlyNarrow
<1>6. \A q \in Proc : Serves(q) => journal.prior <= proc[q].image
  BY <1>2 DEF Proven
<1>7. Proven'
  <2>1. Dependable' = Dependable /\ Pending' /\ Top(journal.prior)' /\ journal'.version > journal'.prior
    BY <1>1, <1>2, <1>3 DEF Dependable, Bundle, Pending, Top
  <2>2. \A q \in Proc : Serves(q)' => live' = journal'.version /\ journal'.prior <= proc'[q].image
    BY <1>1, <1>2, <1>5, <1>6 DEF Narrow
  <2> QED BY <1>5, <2>1, <2>2 DEF Proven, Narrow
<1> QED BY <1>1, <1>2, <1>3, <1>4, <1>7 DEF Move, Installs, Top

LEMMA SaveActivatedMoves == ASSUME UpdateInv, Proven, Dependable, NEW p \in Proc, SaveActivated(p) PROVE Proven' /\ Move
<1> DEFINE op == [proc[p].mine EXCEPT !.phase = "activated"]
           pc == IF host.supervised THEN "exit" ELSE "handoff"
<1>1. /\ Typed /\ Applying(p) /\ proc[p].app = "save" /\ UNCHANGED <<host, live, good>>
      /\ journal' = op /\ proc' = [proc EXCEPT ![p].mine = op, ![p].app = pc]
  BY DEF UpdateInv, SaveActivated, files
<1>2. /\ op.version = proc[p].mine.version /\ op.prior = proc[p].mine.prior /\ op.phase = "activated"
      /\ journal = proc[p].mine /\ Pending
  BY <1>1 DEF Typed, Process, Operation, Applying, Pending
<1> HIDE DEF op
<1>3. \A q \in Proc : /\ proc'[q].role = proc[q].role /\ proc'[q].image = proc[q].image
                      /\ proc'[q].app = IF q = p THEN pc ELSE proc[q].app
                      /\ q # p => proc'[q].mine = proc[q].mine
  BY <1>1 DEF Typed, Process
<1>4. Narrow
  <2>1. proc[p].app = "save" /\ pc \in {"exit", "handoff"}
    BY <1>1
  <2> HIDE DEF pc
  <2> QED BY <1>3, <2>1 DEF Narrow, Serves, Asks
<1>5. Proven'
  <2>1. Dependable' = Dependable /\ Pending' /\ (Top(journal.prior)' <=> Top(journal.prior))
        /\ journal'.version = journal.version /\ journal'.prior = journal.prior
    BY <1>1, <1>2 DEF Dependable, Bundle, Pending, Top
  <2> QED BY <1>1, <1>2, <1>4, <2>1 DEF Proven, Narrow
<1> QED BY <1>1, <1>5 DEF Move, Outside

\* A process that starts to serve comes from the live path, and is alone.
LEMMA StartMoves ==
    ASSUME UpdateInv, Proven, Dependable, NEW p \in Proc, Launch(p) \/ Handoff(p) PROVE Proven' /\ Move
<1>1. Typed /\ UNCHANGED <<host, live, journal, good>>
  BY DEF UpdateInv, Launch, Handoff, files
<1>2. PICK q \in Proc : /\ \A r \in Proc : r # q => /\ Serves(r)' => Serves(r) /\ r # p /\ proc'[r].image = proc[r].image
                                                    /\ Asks(r)' => Asks(r) /\ proc'[r].image = proc[r].image /\ proc'[r].mine = proc[r].mine
                        /\ ~Asks(q)' /\ (Serves(q)' => proc'[q].image = live)
                        /\ \A r \in Proc : Serves(r) => r = p
  <2>1. CASE Launch(p)
    <3>1. proc' = [proc EXCEPT ![p] = Started("server", live, 0)] /\ \A r \in Proc : ~Serves(r)
      BY <2>1 DEF Launch, Serves
    <3>2. Started("server", live, 0).image = live /\ Started("server", live, 0).app = "idle"
      BY DEF Started, NoProc
    <3> QED BY <1>1, <3>1, <3>2 DEF Typed, Serves, Asks
  <2>2. CASE Handoff(p)
    <3> DEFINE image == CASE host.platform = "posix" -> live
                          [] host.platform = "windows" -> staged[proc[p].mine.id]
                          [] host.platform = "bundle" -> backup[proc[p].mine.id]
               role == IF host.fixture THEN "helper"
                       ELSE IF host.platform = "posix" THEN "server" ELSE "stray"
    <3>1. PICK q \in Proc : ~Alive(q) /\ proc' = [proc EXCEPT ![q] = Started(role, image, p), ![p].app = "exit"]
      BY <2>2 DEF Handoff
    <3>2. role = "server" => image = live
      BY DEF Dependable
    <3> HIDE DEF role, image
    <3>3. /\ Started(role, image, p).image = image /\ Started(role, image, p).app = "idle"
          /\ Started(role, image, p).role = role
      BY DEF Started, NoProc
    <3>4. proc[p].role = "server" /\ proc[p].app = "handoff" /\ p # q
      BY <2>2, <3>1 DEF Handoff, UpdateInv, Placed, Alive
    <3>5. Serves(p)
      BY <3>4 DEF Serves
    <3>6. \A r \in Proc : Serves(r) => r = p
      BY <3>5 DEF Proven
    <3>7. proc'[q] = Started(role, image, p)
      BY <1>1, <3>1, <3>4 DEF Typed
    <3>8. \A r \in Proc : r # q /\ r # p => proc'[r] = proc[r]
      BY <1>1, <3>1 DEF Typed
    <3>9. proc'[p].app = "exit"
      BY <1>1, <3>1, <3>4 DEF Typed, Process
    <3> QED BY <3>2, <3>3, <3>6, <3>7, <3>8, <3>9 DEF Serves, Asks
  <2> QED BY <2>1, <2>2
<1>3. Dependable' = Dependable /\ Pending' = Pending
  BY <1>1 DEF Dependable, Bundle, Pending
<1>4. \A r \in Proc : Serves(r)' => r = q
  BY <1>2
<1>5. live <= live
  BY <1>1, UpdateAssumption DEF Typed, Version
<1>6. Proven'
  BY <1>1, <1>2, <1>3, <1>4, <1>5 DEF Proven, Top
<1> QED BY <1>1, <1>6 DEF Move, Outside

\* The new operation is later than the release that asks for it.
LEMMA AcceptMoves ==
    ASSUME UpdateInv, Proven, Dependable, NEW p \in Proc, NEW rec, Accepted(p, rec) PROVE Proven' /\ Move
<1> DEFINE op == [NoOp EXCEPT !.id = MaxApplies - left.applies + 1, !.version = published]
<1>1. /\ Typed /\ UNCHANGED <<host, live, journal, good>> /\ published > proc[p].image
      /\ proc[p].role = "server" /\ proc[p].app = "idle"
      /\ proc' = [proc EXCEPT ![p].rec = rec, ![p].app = "drain", ![p].mine = op]
  BY DEF UpdateInv, Accepted, files
<1>2. op.version = published
  BY DEF NoOp
<1> HIDE DEF op
<1>3. \A q \in Proc : /\ proc'[q].role = proc[q].role /\ proc'[q].image = proc[q].image
                      /\ proc'[q].app = IF q = p THEN "drain" ELSE proc[q].app
                      /\ proc'[q].mine = IF q = p THEN op ELSE proc[q].mine
  BY <1>1 DEF Typed, Process
<1>4. Dependable' = Dependable /\ Pending' = Pending
  BY <1>1 DEF Dependable, Bundle, Pending
<1>5. \A q \in Proc : Serves(q)' <=> Serves(q)
  <2>1. proc[p].app # "exit"
    BY <1>1
  <2> QED BY <1>3, <2>1 DEF Serves
<1>6. \A q \in Proc : Asks(q)' => proc'[q].mine.version > proc'[q].image
  BY <1>1, <1>2, <1>3 DEF Asks, Proven
<1>7. Proven'
  BY <1>1, <1>3, <1>4, <1>5, <1>6 DEF Proven, Top
<1> QED BY <1>1, <1>7 DEF Move, Outside

LEMMA ProvenInit == ASSUME Init PROVE Proven /\ Installed!Init
<1>1. live = 1 /\ good = {1} /\ journal = NoOp /\ proc = [p \in Proc |-> NoProc]
  BY DEF Init
<1>2. Proven
  BY <1>1 DEF Proven, Pending, NoOp, Top, Serves, Asks, NoProc
<1> QED BY <1>1, <1>2 DEF Installed!Init

LEMMA ProvenNext == ASSUME UpdateInv, Proven, [Next]_vars PROVE Proven' /\ Move /\ UNCHANGED host
<1>1. UNCHANGED host
  <2>1. ASSUME NEW p \in Proc, Launch(p) \/ StartupApply(p) \/ Apply(p) \/ ApplyFails(p) \/ Crash(p) PROVE UNCHANGED host
    BY <2>1 DEF Launch, StartupApply, Apply, Accepted, ApplyFails, Crash
  <2>2. ASSUME NEW p \in Proc, RecoveryStep(p) PROVE UNCHANGED host
    BY <2>2 DEF RecoveryStep, Ready, DieEarly, Open, Evaluate, Acknowledge, Note, Confirm, Cleanup, Clear, Restore, Record, AutoEnds
  <2>3. ASSUME NEW p \in Proc, ApplyStep(p) PROVE UNCHANGED host
    BY <2>3 DEF ApplyStep, Drain, ServeReturns, Stage, OpenForApply, Prepare, Backup, Swap, SaveActivated, Handoff, ExitProcess
  <2>4. ASSUME NEW p \in Proc, HelperStep(p) PROVE UNCHANGED host
    BY <2>4 DEF HelperStep, WaitParent, HelperBackup, HelperSwap, LaunchNew, AwaitHealth, Relaunch
  <2> QED BY <2>1, <2>2, <2>3, <2>4 DEF Next, Publish, DeadlinePasses, vars
<1>2. CASE ~Dependable
  <2>1. ~Dependable'
    BY <1>1, <1>2 DEF Dependable, Bundle
  <2> QED BY <1>1, <1>2, <2>1 DEF Proven, Move
<1>3. CASE Dependable
  <2>1. CASE UNCHANGED vars \/ Publish \/ DeadlinePasses
    <3>1. UNCHANGED <<host, live, journal, good, proc>>
      BY <2>1 DEF vars, files, Publish, DeadlinePasses
    <3>2. Narrow
      BY <3>1 DEF Narrow, Serves, Asks
    <3> QED BY <1>1, <3>1, <3>2, NarrowQuiet
  <2>2. ASSUME NEW p \in Proc, Launch(p) \/ StartupApply(p) \/ Apply(p) \/ ApplyFails(p) \/ Crash(p) PROVE Proven' /\ Move
    BY <1>3, <2>2, StartMoves, AcceptMoves, ApplyMoves DEF StartupApply, Apply
  <2>3. ASSUME NEW p \in Proc, RecoveryStep(p) PROVE Proven' /\ Move
    BY <1>3, <2>3, RecoveryMoves, AcknowledgeMoves, SettleMoves, RestoreMoves DEF RecoveryStep
  <2>4. ASSUME NEW p \in Proc, ApplyStep(p) PROVE Proven' /\ Move
    BY <1>3, <2>4, ApplyMoves, PrepareMoves, SwapMoves, SaveActivatedMoves, StartMoves DEF ApplyStep
  <2>5. ASSUME NEW p \in Proc, HelperStep(p) PROVE Proven' /\ Move
    BY <1>3, <2>5, HelperMoves
  <2> QED BY <1>1, <2>1, <2>2, <2>3, <2>4, <2>5 DEF Next
<1> QED BY <1>2, <1>3

\* A real build on an executable replaces only a proven release, and each new
\* one is confirmed or gives way to the latest proven release.
THEOREM UpdateImplementsInstalled == Spec => InstalledSpec
<1>1. Init => Proven /\ Installed!Init
  BY ProvenInit
<1>2. UpdateInv /\ Proven /\ [Next]_vars => Proven' /\ [Installed!Next]_(Installed!vars)
  BY ProvenNext, MoveMaps
<1> QED BY <1>1, <1>2, UpdateInvariant, PTL DEF Spec, InstalledSpec, Installed!Spec
=============================================================================
