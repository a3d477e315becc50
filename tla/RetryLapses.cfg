\* A transient failure, an automatic retry and a restart.
SPECIFICATION Spec
CONSTANTS
  MetadataJob = {"m1"}
  RefreshJob = {"t1"}
  SearchJob = {}
  CatalogJob = {}
  RetentionJob = {}
  MetadataOf <- RefreshToMetadata
  Handler = {h1}
  MetaWorker = {w1}
  Syncer = {g1}
  Slots = 1
  QueueCap = 1
  CheckLimit = 1
  RecoverLimit = 2
  MaxEvents = 1
  MaxRestarts = 1
  MaxCloses = 0
  Failure = {"transient"}
INVARIANT RetryPromised
CHECK_DEADLOCK FALSE
