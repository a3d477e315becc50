-------------------------- MODULE QBittorrentEngine --------------------------
(***************************************************************************)
(* The qBittorrent adapter around one torrent: adding it, which may meet a *)
(* duplicate, preparing files by a series of requests under a mutex of the *)
(* torrent, pausing, resuming and removing it.  Any request may fail, or   *)
(* work and lose its answer, the torrent may go between two requests, and  *)
(* the process may restart.                                                *)
(*                                                                         *)
(* The scheduler flags can only be toggled.  A flag that is on is no proof *)
(* that the edge pieces are scheduled: that is lost with an add or with a  *)
(* change of priorities and comes back when the flag goes off and on.      *)
(* Left out: subtitle files, which are wanted but not counted, speeds,     *)
(* trackers and pieces.                                                    *)
(***************************************************************************)
EXTENDS Naturals

CONSTANTS
    User,   \* goroutines of the application
    Item    \* files of the torrent

VARIABLES
    qb,       \* at qBittorrent: here, wanted files, sequential and edge flags, edges scheduled, paused
    ready,    \* the hash is in the map ready
    lock,     \* holder of the mutex prepare[hash]
    work,     \* per goroutine: its call, its step and what it read
    tainted   \* history: a call failed, or a mark outlived its torrent, since the start

qbVars == <<qb, ready, lock, work, tainted>>

Missing == "missing"   \* an index the torrent does not have
Nobody == "nobody"

Absent == [here |-> FALSE, on |-> Item, seq |-> FALSE, edge |-> FALSE, set |-> FALSE, paused |-> FALSE]
NoWork == [pc |-> "idle", media |-> {}, off |-> {}, sel |-> {}, changed |-> FALSE, again |-> FALSE, seq |-> 0, edge |-> 0,
           disturbed |-> FALSE]

QBInit ==
    /\ qb = Absent
    /\ ready = FALSE /\ lock = Nobody /\ tainted = FALSE
    /\ work = [u \in User |-> NoWork]

Goes(u, pc) == work' = [work EXCEPT ![u].pc = pc]

\* The end of a call: the mutex is released if it is held.
Ends(u) ==
    /\ work' = [work EXCEPT ![u] = NoWork]
    /\ lock' = IF lock = u THEN Nobody ELSE lock

Fails(u) == Ends(u) /\ tainted' = TRUE

\* do: a login when there is no session, one more when qBittorrent says 403,
\* and a wait when it says 429.  A request works, works with its answer lost,
\* or is not carried out; Then is what follows an answer.
Command(u, effects, Then) ==
    \/ qb' \in effects /\ Then
    \/ qb' \in effects /\ Fails(u)
    \/ UNCHANGED qb /\ Fails(u)

\* The torrent other calls are working on is gone or another one.
Disturb(w) == [v \in User |-> [w[v] EXCEPT !.disturbed = @ \/ w[v].pc # "idle"]]

---------------------------------------------------------------------------
(* Adding and removing.                                                    *)

\* Add: the mark is dropped before the request.
BeginAdd(u) ==
    /\ work[u].pc = "idle"
    /\ Goes(u, "post")
    /\ ready' = FALSE
    /\ UNCHANGED <<qb, lock, tainted>>

\* The torrent comes with all its files and both flags, edge pieces scheduled or not.
Added == {[here |-> TRUE, on |-> Item, seq |-> TRUE, edge |-> TRUE, set |-> set, paused |-> FALSE] :
             set \in BOOLEAN}

Post(u) ==
    /\ work[u].pc = "post"
    /\ IF qb.here
       THEN Command(u, {qb}, Goes(u, "confirm") /\ UNCHANGED <<lock, tainted>>)
       ELSE /\ \/ /\ qb' \in Added
                  /\ work' = Disturb([work EXCEPT ![u] = NoWork])
                  /\ \E lost \in BOOLEAN : tainted' = (tainted \/ ready \/ lost)
               \/ UNCHANGED qb /\ work' = [work EXCEPT ![u] = NoWork] /\ tainted' = TRUE
            /\ UNCHANGED lock
    /\ UNCHANGED ready

\* A duplicate is a success when Status finds the torrent.
Confirm(u) ==
    /\ work[u].pc = "confirm"
    /\ \/ qb.here /\ Ends(u) /\ UNCHANGED tainted
       \/ Fails(u)
    /\ UNCHANGED <<qb, ready>>

Gone == work' = Disturb(work) /\ UNCHANGED <<lock, ready, tainted>>

\* Remove, whatever becomes of its answer; the mark stays until the next Add.
Remove(u) ==
    /\ work[u].pc = "idle"
    /\ qb.here
    /\ qb' = Absent
    /\ Gone

\* The torrent is deleted in qBittorrent itself.
Vanish == qb.here /\ qb' = Absent /\ Gone

\* Pause and Resume; an unknown torrent is an error of Resume.
SetPaused(u) ==
    /\ work[u].pc = "idle"
    /\ qb.here
    /\ \E paused \in BOOLEAN : qb' = [qb EXCEPT !.paused = paused]
    /\ UNCHANGED <<ready, lock, work, tainted>>

---------------------------------------------------------------------------
(* PrepareFiles.                                                           *)

\* Mutant of LockFree: no mutex.
LockOpen == TRUE

LockFree == lock = Nobody

BeginPrepare(u) ==
    /\ work[u].pc = "idle"
    /\ LockFree
    /\ lock' = u
    /\ \E media \in SUBSET (Item \cup {Missing}) :
          work' = [work EXCEPT ![u] = [NoWork EXCEPT !.pc = "list", !.media = media]]
    /\ UNCHANGED <<qb, ready, tainted>>

\* Files: what is to be deselected and what selected comes from one listing.
ListFiles(u) ==
    /\ work[u].pc = "list"
    /\ \/ /\ qb.here
          /\ work' = [work EXCEPT ![u].pc = "deselect", ![u].off = qb.on \ work[u].media,
                                  ![u].sel = work[u].media \ qb.on]
          /\ UNCHANGED <<lock, tainted>>
       \/ Fails(u)
    /\ UNCHANGED <<qb, ready>>

\* filePrio, which an unknown torrent refuses.
Prioritised(on) == {[qb EXCEPT !.on = on, !.set = @ /\ set] : set \in IF qb.here THEN BOOLEAN ELSE {}}

Deselect(u) ==
    /\ work[u].pc = "deselect"
    /\ IF work[u].off = {} THEN UNCHANGED <<qb, lock, tainted>> /\ Goes(u, "select")
       ELSE Command(u, Prioritised(qb.on \ work[u].off),
                    /\ work' = [work EXCEPT ![u].pc = "select", ![u].changed = TRUE]
                    /\ UNCHANGED <<lock, tainted>>)
    /\ UNCHANGED ready

\* Mutant of Reapplies: the first preparation after an add is like any other.
ReappliesOnChange(changed, before) == changed

\* reapplySchedulers: priorities changed, or not prepared since the add or the start.
Reapplies(changed, before) == changed \/ ~before

\* An index the torrent does not have ends the call, after the deselection.
Select(u) ==
    LET Then(changed) == /\ work' = [work EXCEPT ![u].pc = "status", ![u].changed = changed,
                                                 ![u].again = Reapplies(changed, ready)]
                         /\ UNCHANGED <<lock, tainted>> IN
    /\ work[u].pc = "select"
    /\ IF work[u].media = {} \/ Missing \in work[u].media THEN UNCHANGED qb /\ Fails(u)
       ELSE IF work[u].sel = {} THEN UNCHANGED qb /\ Then(work[u].changed)
       ELSE Command(u, Prioritised(qb.on \cup work[u].sel), Then(TRUE))
    /\ UNCHANGED ready

\* Status: a flag that is on is toggled twice if the schedulers are reapplied,
\* one that is off once.
Toggles(on, again) == IF ~on THEN 1 ELSE IF again THEN 2 ELSE 0

ReadFlags(u) ==
    /\ work[u].pc = "status"
    /\ \/ /\ qb.here
          /\ work' = [work EXCEPT ![u].pc = "toggle", ![u].seq = Toggles(qb.seq, work[u].again),
                                  ![u].edge = Toggles(qb.edge, work[u].again)]
          /\ UNCHANGED <<lock, tainted>>
       \/ Fails(u)
    /\ UNCHANGED <<qb, ready>>

\* toggleSequentialDownload, then toggleFirstLastPiecePrio; an unknown torrent is ignored.
Toggled(flag) ==
    IF ~qb.here THEN qb
    ELSE IF flag = "seq" THEN [qb EXCEPT !.seq = ~@]
    ELSE [qb EXCEPT !.edge = ~@, !.set = ~qb.edge]

Toggle(u) ==
    LET flag == IF work[u].seq > 0 THEN "seq" ELSE "edge" IN
    /\ work[u].pc = "toggle"
    /\ IF work[u].seq = 0 /\ work[u].edge = 0
       THEN UNCHANGED <<qb, lock, tainted>> /\ Goes(u, "verify")
       ELSE Command(u, {Toggled(flag)},
                    /\ work' = [work EXCEPT ![u][flag] = @ - 1]
                    /\ UNCHANGED <<lock, tainted>>)
    /\ UNCHANGED ready

\* The flags are read back; the mark is set, also for a torrent added meanwhile.
Verify(u) ==
    /\ work[u].pc = "verify"
    /\ \/ /\ qb.here /\ qb.seq /\ qb.edge
          /\ ready' = TRUE
          /\ tainted' = (tainted \/ work[u].disturbed)
          /\ Goes(u, "prepared")
          /\ UNCHANGED lock
       \/ Fails(u) /\ UNCHANGED ready
    /\ UNCHANGED qb

Return(u) ==
    /\ work[u].pc = "prepared"
    /\ Ends(u)
    /\ UNCHANGED <<qb, ready, tainted>>

Prepare(u) == ListFiles(u) \/ Deselect(u) \/ Select(u) \/ ReadFlags(u) \/ Toggle(u) \/ Verify(u) \/ Return(u)

\* The process ends between any two requests; the maps of the next one are empty.
Restart ==
    /\ ready' = FALSE /\ lock' = Nobody /\ tainted' = FALSE
    /\ work' = [u \in User |-> NoWork]
    /\ UNCHANGED qb

QBNext ==
    \/ Restart \/ Vanish
    \/ \E u \in User : \/ BeginAdd(u) \/ Post(u) \/ Confirm(u) \/ Remove(u) \/ SetPaused(u)
                       \/ BeginPrepare(u) \/ Prepare(u)

QBSpec == QBInit /\ [][QBNext]_qbVars

---------------------------------------------------------------------------
QBTypeOK ==
    /\ qb \in [here : BOOLEAN, on : SUBSET Item, seq : BOOLEAN, edge : BOOLEAN, set : BOOLEAN,
               paused : BOOLEAN]
    /\ ready \in BOOLEAN /\ tainted \in BOOLEAN /\ lock \in User \cup {Nobody}
    /\ \A u \in User :
          /\ work[u].pc \in {"idle", "post", "confirm", "list", "deselect", "select", "status",
                             "toggle", "verify", "prepared"}
          /\ work[u].media \subseteq Item \cup {Missing}
          /\ work[u].seq \in 0..2 /\ work[u].edge \in 0..2

\* A preparation that reports success left exactly the files it was asked for
\* and both schedulers on, whatever earlier calls were cut short between two of
\* their toggles; and the edge pieces are scheduled, unless an earlier call of
\* this process failed, as one may after it changed priorities, or the mark of a
\* torrent that is gone stands for a new one.
PreparedWhole ==
    \A u \in User :
        work[u].pc = "prepared" /\ ~work[u].disturbed =>
            /\ qb.on = work[u].media
            /\ qb.seq /\ qb.edge
            /\ tainted \/ qb.set
=============================================================================
