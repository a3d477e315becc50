\* One title, one search; a restart at any point. The service may stop, or wait for a request.
SPECIFICATION Spec
CONSTANTS
  MetadataJob = {"m1"}
  RefreshJob = {"t1"}
  SearchJob = {"s1"}
  CatalogJob = {}
  RetentionJob = {}
  MetadataOf <- RefreshToMetadata
  Handler = {h1, h2}
  MetaWorker = {w1}
  Syncer = {g1}
  Slots = 1
  QueueCap = 1
  CheckLimit = 1
  RecoverLimit = 2
  MaxEvents = 2
  MaxRestarts = 1
  MaxCloses = 0
  Failure = {"transient"}
INVARIANT TypeOK
INVARIANT MetadataOnce
INVARIANT PendingIsInFlight
INVARIANT GatesExact
 
CHECK_DEADLOCK FALSE
SYMMETRY HandlerSymmetry
