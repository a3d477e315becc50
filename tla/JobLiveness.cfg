\* Refresh, metadata, catalog and retention jobs, with Close. A closed service has no step left.
SPECIFICATION FairSpec
CONSTANTS
  MetadataJob = {"m1"}
  RefreshJob = {"t1"}
  SearchJob = {}
  CatalogJob = {"latest"}
  RetentionJob = {"retention"}
  MetadataOf <- RefreshToMetadata
  Handler = {h1}
  MetaWorker = {w1}
  Syncer = {g1}
  Slots = 1
  QueueCap = 1
  CheckLimit = 1
  RecoverLimit = 2
  MaxEvents = 1
  MaxRestarts = 0
  MaxCloses = 1
  Failure = {}
INVARIANT GatesExact
PROPERTY JobsEnd
PROPERTY TrackerFreed
CHECK_DEADLOCK FALSE
