SPECIFICATION FairSpec
CONSTANTS
  Uploads <- AllUploads
  Threshold = 3
  BatchSize = 2
  Window = 2
CHECK_DEADLOCK FALSE
INVARIANTS TypeOK TrueMeansStored StoredIsValidPrefix RepliedCounts
PROPERTIES SaveBatchReturns
