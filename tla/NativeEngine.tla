---------------------------- MODULE NativeEngine ----------------------------
(***************************************************************************)
(* The embedded torrent engine around one torrent: the calls that add,     *)
(* prepare, steer, pause, resume and remove it, each of which looks the    *)
(* torrent up before it takes the engine's lock, the library that          *)
(* transfers, fails and announces underneath, the session file and the     *)
(* piece-completion database, and a restart at any point.                  *)
(*                                                                         *)
(* A file is one piece; store says which completion bits are set and which *)
(* pieces have their data.  Progress, speed, counters and what the tracker *)
(* answers, which only name the state, are left out.                       *)
(***************************************************************************)
EXTENDS Naturals

CONSTANTS
    Call,    \* goroutines of the application
    Piece    \* pieces, in order: one per file

VARIABLES
    lib,      \* the library's torrent: live, wanted files, transfer allowed, raised pieces
    maps,     \* the maps of the client: paused, selected, window, failed
    session,  \* the entries in memory
    store,    \* on disk: session file, pieces with a completion bit, pieces with data
    requests, \* per goroutine: operation, step, and the torrent it looked up
    torn,     \* history: a save or an add failed, or changes overlapped
    late      \* history: pieces marked after a removal had cleared their bit

engineVars == <<lib, maps, session, store, requests, torn, late>>

NoEntry == [meta |-> FALSE, sel |-> {}, paused |-> FALSE]
NoTorrent == [live |-> FALSE, wanted |-> {}, allowed |-> TRUE, raised |-> {}]
NoMaps == [paused |-> FALSE, sel |-> {}, window |-> {}, steered |-> FALSE,
           failed |-> FALSE]
NoCall == [op |-> "none", pc |-> "idle", t |-> "nil", arg |-> {}]

Head(sel) == {CHOOSE p \in sel : \A q \in sel : p <= q}

\* loadSession: add, PrepareFiles and Pause for an entry that has its metainfo.
Loaded(e) ==
    [NoTorrent EXCEPT !.live = e.meta, !.wanted = e.sel, !.allowed = ~e.paused,
                      !.raised = IF e.sel = {} THEN {} ELSE Head(e.sel)]
LoadedMaps(e) ==
    IF ~e.meta THEN NoMaps
    ELSE [NoMaps EXCEPT !.paused = e.paused, !.sel = e.sel, !.steered = (e.sel # {}),
                        !.window = Loaded(e).raised]

EngineInit ==
    /\ lib = NoTorrent /\ maps = NoMaps /\ session = NoEntry
    /\ store = [entry |-> NoEntry, bits |-> {}, data |-> {}]
    /\ requests = [c \in Call |-> NoCall]
    /\ torn = FALSE /\ late = {}

\* The process ends between any two steps; New reads the session file again.
Restart ==
    /\ session' = store.entry
    /\ lib' = Loaded(store.entry)
    /\ maps' = LoadedMaps(store.entry)
    /\ requests' = [c \in Call |-> NoCall]
    /\ UNCHANGED <<store, torn, late>>

Removing(c) == requests[c].op = "remove"
Busy(c) == requests[c].pc # "idle"

\* Two changes at once, or anything at once with a removal: the library is
\* told before the lock is taken and the session after it, in either order.
Overlaps(c, op) ==
    \E d \in Call \ {c} : Busy(d) /\ (op = "remove" \/ Removing(d) \/ "range" \notin {op, requests[d].op})

Begin(c, op, arg) ==
    /\ ~Busy(c)
    /\ requests' = [requests EXCEPT ![c] = [op |-> op, pc |-> "locked", arg |-> arg,
                                      t |-> IF lib.live THEN "current" ELSE "nil"]]
    /\ torn' = (torn \/ Overlaps(c, op)) /\ UNCHANGED late

End(c) == requests' = [requests EXCEPT ![c] = NoCall]
Goes(c, pc) == requests' = [requests EXCEPT ![c].pc = pc]

\* A save updates the entries, then the file, unless writing it fails.
Save(entry) ==
    /\ session' = entry
    /\ \/ store' = [store EXCEPT !.entry = entry] /\ UNCHANGED torn
       \/ UNCHANGED store /\ torn' = TRUE

---------------------------------------------------------------------------
(* Calls.                                                                  *)

\* Add, all of it under the lock: a torrent held already is a success as it
\* is; one added may time out waiting for its info before it is saved.
BeginAdd(c) == Begin(c, "add", {}) /\ UNCHANGED <<lib, maps, session, store>>

Add(c) ==
    /\ requests[c].op = "add"
    /\ End(c)
    /\ IF lib.live THEN UNCHANGED <<lib, session, store, torn>>
       ELSE /\ lib' = [NoTorrent EXCEPT !.live = TRUE]
            /\ \/ Save([session EXCEPT !.meta = TRUE])
               \/ torn' = TRUE /\ UNCHANGED <<session, store>>
    /\ UNCHANGED <<maps, late>>

\* PrepareFiles: the priorities of the files, then selection, window and map.
BeginPrepare(c) ==
    /\ lib.live
    /\ \E sel \in (SUBSET Piece) \ {{}} :
          Begin(c, "prepare", sel) /\ lib' = [lib EXCEPT !.wanted = sel]
    /\ UNCHANGED <<maps, session, store>>

\* Mutant of Raised: the previous window stays raised.
RaisedToo(raised, window, next) == raised \cup next

\* steerLocked: the previous window falls back, the new one is raised.
Raised(raised, window, next) == (raised \ window) \cup next

Steer(c, next, m) ==
    /\ maps' = [m EXCEPT !.window = next, !.steered = TRUE]
    /\ lib' = IF requests[c].t = "current"
              THEN [lib EXCEPT !.raised = Raised(@, m.window, next)] ELSE lib

Prepare(c) ==
    LET sel == requests[c].arg IN
    /\ requests[c].op = "prepare"
    /\ End(c)
    /\ \/ /\ Save([session EXCEPT !.sel = sel])
          /\ IF maps.steered
             THEN maps' = [maps EXCEPT !.sel = sel] /\ UNCHANGED lib
             ELSE Steer(c, Head(sel), [maps EXCEPT !.sel = sel])
       \/ \* the save fails and the rest is not done
          /\ session' = [session EXCEPT !.sel = sel]
          /\ torn' = TRUE
          /\ UNCHANGED <<maps, lib, store>>
    /\ UNCHANGED late

\* PrepareRange moves the window.
BeginRange(c) ==
    /\ lib.live
    /\ \E range \in {{p} : p \in Piece} \cup {Piece} : Begin(c, "range", range)
    /\ UNCHANGED <<lib, maps, session, store>>

Range(c) ==
    /\ requests[c].op = "range"
    /\ Steer(c, requests[c].arg, maps)
    /\ End(c)
    /\ UNCHANGED <<session, store, torn, late>>

\* Pause and Resume: the library first, then the map and the session; a
\* resume forgives a write failure.
BeginPause(c) ==
    /\ lib.live
    /\ \E op \in {"pause", "resume"} :
          Begin(c, op, {}) /\ lib' = [lib EXCEPT !.allowed = (op = "resume")]
    /\ UNCHANGED <<maps, session, store>>

Pause(c) ==
    /\ requests[c].op \in {"pause", "resume"}
    /\ LET on == requests[c].op = "pause" IN
       /\ maps' = [maps EXCEPT !.paused = on, !.failed = @ /\ on]
       /\ Save([session EXCEPT !.paused = on])
    /\ End(c)
    /\ UNCHANGED <<lib, late>>

\* Remove with its files: the maps, the completion bits, the drop, the
\* session entry, the data; a failed save does not stop the rest.
BeginRemove(c) == Begin(c, "remove", {}) /\ UNCHANGED <<lib, maps, session, store>>

ForgetMaps(c) ==
    /\ Removing(c) /\ requests[c].pc = "locked"
    /\ maps' = NoMaps
    /\ requests' = [requests EXCEPT ![c] =
          IF @.t = "nil" THEN [@ EXCEPT !.pc = "session"] ELSE [@ EXCEPT !.pc = "bits", !.arg = Piece]]
    /\ UNCHANGED <<lib, session, store, torn, late>>

\* Mutant of ClearBits: the bit of the last piece stays.
KeepBits(c) ==
    /\ Removing(c) /\ requests[c].pc = "bits" /\ requests[c].arg # {}
    /\ \E p \in Head(requests[c].arg) :
          /\ store' = IF p = 0 THEN [store EXCEPT !.bits = @ \ {p}] ELSE store
          /\ late' = late \ {p}
          /\ requests' = [requests EXCEPT ![c].arg = @ \ {p}]
    /\ UNCHANGED <<lib, maps, session, torn>>

\* clearPieceCompletion: piece after piece, while the torrent is live.
ClearBits(c) ==
    /\ Removing(c) /\ requests[c].pc = "bits" /\ requests[c].arg # {}
    /\ \E p \in Head(requests[c].arg) :
          /\ store' = [store EXCEPT !.bits = @ \ {p}]
          /\ late' = late \ {p}
          /\ requests' = [requests EXCEPT ![c].arg = @ \ {p}]
    /\ UNCHANGED <<lib, maps, session, torn>>

\* Others still hold the torrent they looked up.
Drop(c) ==
    /\ Removing(c) /\ requests[c].pc = "bits" /\ requests[c].arg = {}
    /\ lib' = IF requests[c].t = "current" THEN NoTorrent ELSE lib
    /\ requests' = [d \in Call |->
          IF d = c THEN [requests[c] EXCEPT !.pc = "session"]
          ELSE IF requests[d].t = "current" THEN [requests[d] EXCEPT !.t = "dropped"] ELSE requests[d]]
    /\ UNCHANGED <<maps, session, store, torn, late>>

ForgetEntry(c) ==
    /\ Removing(c) /\ requests[c].pc = "session"
    /\ Save(NoEntry)
    /\ Goes(c, "data")
    /\ UNCHANGED <<lib, maps, late>>

DeleteData(c) ==
    /\ Removing(c) /\ requests[c].pc = "data"
    /\ store' = [store EXCEPT !.data = {}]
    /\ End(c)
    /\ UNCHANGED <<lib, maps, session, torn, late>>

---------------------------------------------------------------------------
(* The library.                                                            *)

\* A wanted piece is written and marked, also while a removal clears the bits: the
\* mark of a piece whose bit it has passed will outlive the data.
Passed(p) == \E c \in Call : Removing(c) /\ requests[c].pc = "bits" /\ p \notin requests[c].arg
Complete ==
    /\ lib.live /\ lib.allowed
    /\ \E p \in lib.wanted :
          /\ store' = [store EXCEPT !.bits = @ \cup {p}, !.data = @ \cup {p}]
          /\ late' = IF Passed(p) THEN late \cup {p} ELSE late \ {p}
    /\ UNCHANGED <<lib, maps, session, requests, torn>>

\* The armed write-chunk callback.
Report ==
    /\ lib.live
    /\ maps' = [maps EXCEPT !.failed = TRUE]
    /\ UNCHANGED <<lib, session, store, requests, torn, late>>

CallStep(c) ==
    \/ Add(c) \/ Prepare(c) \/ Range(c) \/ Pause(c)
    \/ ForgetMaps(c) \/ ClearBits(c) \/ Drop(c) \/ ForgetEntry(c) \/ DeleteData(c)

\* Bound: a behaviour is followed until it is torn.
EngineNext ==
    /\ ~torn
    /\ \/ Restart \/ Complete \/ Report
       \/ \E c \in Call : \/ CallStep(c)
                          \/ BeginAdd(c) \/ BeginPrepare(c) \/ BeginRange(c)
                          \/ BeginPause(c) \/ BeginRemove(c)

EngineSpec == EngineInit /\ [][EngineNext]_engineVars

---------------------------------------------------------------------------
\* Status: a write failure first, then the map; progress only names the state.
Status == IF maps.failed THEN "error"
          ELSE IF maps.paused THEN "paused" ELSE "transferring"

Entry == [meta : BOOLEAN, sel : SUBSET Piece, paused : BOOLEAN]

EngineTypeOK ==
    /\ lib \in [live : BOOLEAN, wanted : SUBSET Piece, allowed : BOOLEAN, raised : SUBSET Piece]
    /\ maps \in [paused : BOOLEAN, sel : SUBSET Piece, window : SUBSET Piece, steered : BOOLEAN,
                 failed : BOOLEAN]
    /\ session \in Entry
    /\ store \in [entry : Entry, bits : SUBSET Piece, data : SUBSET Piece] /\ late \subseteq Piece
    /\ \A c \in Call : requests[c].t \in {"nil", "current", "dropped"} /\ requests[c].arg \subseteq Piece

Quiet == ~torn /\ \A c \in Call : ~Busy(c)

\* A restart brings back what runs: the torrent, its selection and whether it
\* is paused, and the reported state is the one the library is in.
RestartRestores ==
    Quiet =>
        /\ store.entry.meta <=> lib.live
        /\ lib.live =>
              /\ store.entry.sel = lib.wanted /\ store.entry.sel = maps.sel
              /\ Status = "paused" => ~lib.allowed
              /\ store.entry.paused = ~lib.allowed
        /\ ~lib.live => maps.sel = {} /\ ~maps.paused

\* A completion bit outlives the bytes it vouches for, and is trusted by a later add,
\* only if the library set it after a removal had cleared it and before the drop,
\* wherever the removal is interrupted.
BitsHaveData == ~torn => store.bits \ late \subseteq store.data

\* Exactly the window of the last prepare or read is raised.
WindowExact == Quiet /\ lib.live => lib.raised = maps.window
=============================================================================
