SPECIFICATION Spec
CONSTANTS
    t1 = t1
    t2 = t2
    r1 = r1
    r2 = r2
    r3 = r3
    Source = {1, 2, 4}
    Torrent = {t1, t2}
    TorrentOf <- ShortPackAndFilm
    Size <- PackTwoFilmOne
    Incoming <- PackTwoFilmOne
    Request = {r1, r2, r3}
    Workload <- AdmissionPair
    Reserve = 0
    Capacity = 9
    ProtectIncomplete = FALSE
    ProtectLeased = TRUE
    Kept = {}
PROPERTY AdmissionFits
CHECK_DEADLOCK FALSE
