SPECIFICATION FairSpec
CONSTANTS
    t1 = t1
    t2 = t2
    r1 = r1
    r2 = r2
    r3 = r3
    Source = {1, 2, 4}
    Torrent = {t1, t2}
    TorrentOf <- ShortPackAndFilm
    Size <- PackTwoFilmOne
    Incoming <- PackTwoFilmOne
    Request = {r1, r2, r3}
    Workload <- LivenessLoads
    Reserve = 7
    Capacity = 9
    ProtectIncomplete = TRUE
    ProtectLeased = TRUE
    Kept = {}
PROPERTY CallsEnd
PROPERTY LimitsRecur
CHECK_DEADLOCK FALSE
