SPECIFICATION FairSpec
CONSTANTS
  MaxBytes = 4
  MaxChunk = 2
INVARIANT NoLostWakeUp
PROPERTIES ImplementsByteStream CloseEndsThreads
