SPECIFICATION FairSpec
INVARIANTS CachedStateIsTrue RequestsAreAllowed
PROPERTIES FailureMeansRefusal CallOnListeningSlaveReturns
