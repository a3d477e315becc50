SPECIFICATION Spec
CONSTANTS
  Parts = {"desktop", "settings", "feed", "portal", "manager", "engine", "range", "staging", "qbittorrent", "subtitles"}
  App = {1, 2}
  Caller = {c1, c2}
  Mover = {c1}
  Dir = {"home", "other"}
  Home = "home"
  MaxLeaks = 1
  Store = {s1, s2}
  Client = {q1}
  Environment <- Environments
  MaxSaves = 2
  Loop = {p1}
  Worker = {p2}
  Handler = {p3}
  Stream = {e1}
  BufferSize = 1
  ReplayLimit = 1
  MaxEvents = 3
  MaxConnects = 2
  Op = {o1}
  MaxTicks = 1
  Page = {w1}
  Cadence = k2
  Applier = {a1, a2}
  Startup = k3
  MaxOps = 2
  Call = {g1, g2}
  Piece = {0, 1}
  Length = 5
  FileOffset = 1
  PieceSize = 2
  FirstChunk = 1
  ReadAhead = 3
  Reader = {r1}
  Identity <- Builds
  Version <- Versions
  MaxExpanded = 2
  MaxEntries = 3
  User = {b1, b2}
  Item = {"a", "b"}
  Subtitle = {"two", "film"}
  Web = {"two"}
  Preparer = {u1, u2}
  Size <- Sizes
  Maximum = 2
INVARIANT TypeOK
INVARIANT MoveAlone
INVARIANT ServesCurrentDir
PROPERTY SaveKeeps
INVARIANT ReloadSame
INVARIANT FeedDelivery
INVARIANT JoinedBeforeClose
INVARIANT NoSilentChange
INVARIANT DonorSeesNoAds
PROPERTY DonorExpires
INVARIANT ApplySafe
PROPERTY OperationEnds
INVARIANT RestartRestores
INVARIANT SentIsComplete
INVARIANT PayloadWhole
INVARIANT PreparedWhole
INVARIANT SubtitlesKept
CHECK_DEADLOCK FALSE
