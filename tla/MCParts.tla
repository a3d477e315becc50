------------------------------- MODULE MCParts -------------------------------
(***************************************************************************)
(* One instance for TLC of the components that stand alone: a behaviour is *)
(* one of the component part names, the others keep their initial state.   *)
(* It is the union of their state spaces and not the product, so nothing   *)
(* is said here of two components at once.  A component that takes no part *)
(* keeps an initial state, of which its properties hold anyway.            *)
(***************************************************************************)
EXTENDS EventFeed, PortalHub, UpdateManager

CONSTANT Parts  \* the components that take part in the run

CONSTANTS App, Caller, Mover, Dir, Home, MaxLeaks
CONSTANTS Store, Client, Environment, MaxSaves
CONSTANTS Call, Piece
CONSTANTS Length, FileOffset, PieceSize, FirstChunk, ReadAhead, Reader
CONSTANTS Identity, Version, MaxExpanded, MaxEntries
CONSTANTS User, Item
CONSTANTS Subtitle, Web, Preparer, Size, Maximum

\* The settings page runs one move of the directory at a time.  The bindings take the
\* guard of a move as a flag and clear it without asking whose it is.
ASSUME DesktopAssumption == Home \in Dir /\ Mover \subseteq Caller /\ \A c, d \in Mover : c = d
\* Pieces have an order in which the first is the head of a selection.
ASSUME EngineAssumption == Piece \subseteq Nat
\* A file that is streamed has bytes, and so have its pieces and the chunks of a copy.
ASSUME RangeAssumption ==
    /\ Length \in Nat \ {0} /\ FileOffset \in Nat /\ PieceSize \in Nat \ {0}
    /\ FirstChunk \in Nat \ {0} /\ ReadAhead \in Nat \ {0}
\* The limits of an archive are numbers.
ASSUME StagingAssumption == MaxExpanded \in Nat /\ MaxEntries \in Nat
\* Files have sizes, and some of the assets are in WebVTT.
ASSUME SubtitleAssumption ==
    /\ Subtitle # {} /\ IsFiniteSet(Subtitle) /\ Web \subseteq Subtitle
    /\ Size \in [Subtitle -> Nat] /\ Maximum \in Nat

VARIABLE part
VARIABLES sup, apps, holder, disk, task
VARIABLES file, tmp, env, stores, view, saves, current
VARIABLES lib, maps, session, store, requests, torn, late
VARIABLES done, place, reads
VARIABLES release, sel, temp, rules, tree, stager, payload
VARIABLES qb, ready, lock, work, tainted
VARIABLES cache, rows, prep, due, cut

D == INSTANCE DesktopLifecycle
S == INSTANCE SettingsStore
N == INSTANCE NativeEngine
R == INSTANCE StreamRange
G == INSTANCE ReleaseStaging
Q == INSTANCE QBittorrentEngine
C == INSTANCE SubtitleCache

\* The environment sets keys, and the bound on the saves is a number.
ASSUME StoreAssumption == Environment \subseteq SUBSET S!Key /\ MaxSaves \in Nat

\* The mutex that nobody has is told from one that a call has.
ASSUME QBAssumption == Q!Nobody \notin User

\* Each key is managed in one environment and not in the other.
Environments == {{"plain"}, {"secret", "path"}}

\* The builds that resolve a release: every platform, one that has no asset and one
\* without a release version.
Build(goos, goarch, flavor, valid) == [goos |-> goos, goarch |-> goarch, flavor |-> flavor, valid |-> valid]
Builds == {Build("linux", "amd64", "gui", TRUE), Build("linux", "arm", "gui", TRUE),
           Build("linux", "arm", "headless", TRUE), Build("windows", "amd64", "gui", TRUE),
           Build("darwin", "arm64", "bundle", TRUE), Build("linux", "amd64", "headless", FALSE)}
\* One file is larger than the whole cache may be.
Sizes == [f \in Subtitle |-> IF f = "film" THEN Maximum + 1 ELSE 1]
Versions == {[n |-> 1, pre |-> FALSE], [n |-> 2, pre |-> TRUE]}

---------------------------------------------------------------------------
desktopAll == <<sup, apps, holder, disk, task>>
settingsAll == <<file, tmp, env, stores, view, saves, current>>
engineAll == <<lib, maps, session, store, requests, torn, late>>
rangeAll == <<done, place, reads>>
stagingAll == <<release, sel, temp, rules, tree, stager, payload>>
qbittorrentAll == <<qb, ready, lock, work, tainted>>
subtitlesAll == <<cache, rows, prep, due, cut>>

\* The part that takes the step leaves the variables of the others alone.
Only(p) ==
    /\ part = p /\ UNCHANGED part
    /\ p # "desktop" => UNCHANGED desktopAll
    /\ p # "settings" => UNCHANGED settingsAll
    /\ p # "feed" => UNCHANGED feedVars
    /\ p # "portal" => UNCHANGED portalVars
    /\ p # "manager" => UNCHANGED managerVars
    /\ p # "engine" => UNCHANGED engineAll
    /\ p # "range" => UNCHANGED rangeAll
    /\ p # "staging" => UNCHANGED stagingAll
    /\ p # "qbittorrent" => UNCHANGED qbittorrentAll
    /\ p # "subtitles" => UNCHANGED subtitlesAll

\* A component that takes no part starts in one of its initial states.
Init ==
    /\ part \in Parts
    /\ D!DesktopInit /\ (part # "desktop" => ~holder.complete)
    /\ S!SettingsInit /\ (part # "settings" => file = S!Defaults /\ \A s \in Store : env[s] = CHOOSE e \in Environment : TRUE)
    /\ FeedInit /\ PortalInit /\ ManagerInit /\ N!EngineInit
    /\ R!RangeInit /\ (part # "range" => done = {})
    /\ G!StagingInit /\ (part # "staging" => release.id.goarch = "arm64" /\ ~release.hint.pre)
    /\ Q!QBInit
    /\ C!SubtitleInit /\ (part # "subtitles" => rows = {})

Next ==
    \/ Only("desktop") /\ D!DesktopNext
    \/ Only("settings") /\ S!SettingsNext
    \/ Only("feed") /\ FeedNext
    \/ Only("portal") /\ PortalNext
    \/ Only("manager") /\ ManagerNext
    \/ Only("engine") /\ N!EngineNext
    \/ Only("range") /\ R!RangeNext
    \/ Only("staging") /\ G!StagingNext
    \/ Only("qbittorrent") /\ Q!QBNext
    \/ Only("subtitles") /\ C!SubtitleNext

vars == <<part, desktopAll, settingsAll, feedVars, portalVars, managerVars, engineAll, rangeAll,
          stagingAll, qbittorrentAll, subtitlesAll>>

\* The fairness of the two components whose progress is checked here.
Spec ==
    /\ Init /\ [][Next]_vars
    /\ WF_portalVars(part = "portal" /\ Cycle) /\ SF_portalVars(part = "portal" /\ Hourly)
    /\ WF_managerVars(part = "manager" /\ Alive /\ Pipeline)
    /\ \A c \in Thread : WF_managerVars(part = "manager" /\ Alive /\ CallStep(c))

---------------------------------------------------------------------------
\* The component that takes part keeps its types; those at rest keep their state.
TypeOK ==
    /\ part = "desktop" => D!DesktopTypeOK
    /\ part = "settings" => S!SettingsTypeOK
    /\ part = "feed" => FeedTypeOK
    /\ part = "portal" => PortalTypeOK
    /\ part = "manager" => ManagerTypeOK
    /\ part = "engine" => N!EngineTypeOK
    /\ part = "range" => R!RangeTypeOK
    /\ part = "staging" => G!StagingTypeOK
    /\ part = "qbittorrent" => Q!QBTypeOK
    /\ part = "subtitles" => C!SubtitleTypeOK

\* The data directory moves alone: no Start slips in between the stop of the
\* server and the swap of the directory (bindings.go, ChangeDataDir).
MoveAlone == part = "desktop" => D!MoveAlone
\* A supervised server serves the directory the bindings show and save to.
ServesCurrentDir == part = "desktop" => D!ServesCurrentDir
\* A relocation that fails before it commits restores the server it stopped.
ResumeRestores == D!ResumeRestores

\* A save of a store no other one saved past leaves alone what the environment
\* manages, and no secret is lost.
SaveKeeps == S!SaveKeeps
\* The settings in effect are those a start from the same file would find, in a store
\* no other one saved past.
ReloadSame == part = "settings" => S!ReloadSame

\* A restart of the engine brings back what runs, the bits vouch for data but for
\* pieces marked behind a removal that cleared them, and exactly the window of the last
\* prepare or read is raised.
RestartRestores == part = "engine" => N!RestartRestores /\ N!BitsHaveData /\ N!WindowExact
\* A preparation that reports success left the selection and both schedulers on.
PreparedWhole == part = "qbittorrent" => Q!PreparedWhole
\* The cache is within its limit when the last call returns, and what is returned
\* is whole.
SubtitlesKept == part = "subtitles" => C!CacheBounded /\ C!ServedWhole

\* No byte of a range comes from an incomplete piece.
SentIsComplete == part = "range" => R!SentIsComplete
\* A verified payload is one release for one installation.
PayloadWhole == part = "staging" => G!PayloadWhole
=============================================================================
