SPECIFICATION FairSpec
CONSTANTS
  QUEUE_BITS = 16
  Pushed = {1, 7, 9, 15}
INVARIANTS QueueHoldsWaiting NobodyOvertakesTwice
PROPERTY ImplementsPendingSet
