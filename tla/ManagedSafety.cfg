SPECIFICATION Spec
CONSTANTS
    t1 = t1
    t2 = t2
    r1 = r1
    r2 = r2
    r3 = r3
    Source = {1, 2, 3, 4}
    Torrent = {t1, t2}
    TorrentOf <- PackAndFilm
    Size <- PackTwoFilmOne
    Incoming <- PackTwoFilmTwo
    Request = {r1, r2, r3}
    Workload <- SafetyLoads
    Reserve = 0
    Capacity = 9
    ProtectIncomplete = FALSE
    ProtectLeased = TRUE
    Kept = {}
INVARIANT TypeOK
INVARIANT LeaseExact
INVARIANT NoDanglingRow
INVARIANT NoOrphanTorrent
INVARIANT SelectionKeepsRows
INVARIANT CompleteHasData
INVARIANT VictimWasUnstreamed
PROPERTY BudgetSpec
CHECK_DEADLOCK FALSE
