SPECIFICATION FairSpec
CONSTANTS
  MaxCommands = 3
  MaxWaiting = 1
  MaxPackets = 1
  RssiFilter = TRUE
INVARIANTS WritesToOpenPipe NothingBeforeDefaults ModesAgree
PROPERTIES ThreadsEndForAReason StopEndsCapture
