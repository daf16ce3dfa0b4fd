SPECIFICATION FairSpec
CONSTANTS
  beef = beef
  cafe = cafe
  feed = feed
  Node = {beef, cafe, feed}
  Reg = {0, 1, 2}
  LedReg = {2}
  AppReg = {1, 2}
  QUEUE_BITS = 8
  MAX_REVISION = 7
  COUNT_MOD = 1
  MaxWrites <- Writes1and2
  BootTogether = TRUE
  Link <- FanLinks
  Reliable <- FanLinks
  Rota <- Beef1Cafe2
  Requested <- BeefAsks2
PROPERTIES FallsSilent QueuedIsSent RequestIsAnswered Converges ImplementsReplicas
CHECK_DEADLOCK FALSE
