SPECIFICATION FairSpec
CONSTANTS
  RingSize = 3
  Window = 2
  MaxRequests = 5
  MaxControllers = 1
  MaxLost = 1
INVARIANTS FutureImpliesReply AbandonedOnlyAtDestruction CompletionInOrder
  NeverAborts LinkHasOneUser FrameCoversControllers
PROPERTIES ImplementsService EveryFutureResolved StopReturns
CHECK_DEADLOCK FALSE
