SPECIFICATION Spec
CONSTANTS
  beef = beef
  cafe = cafe
  feed = feed
  Node = {beef, cafe, feed}
  Reg = {0, 1, 2}
  LedReg = {1, 2}
  AppReg = {1, 2}
  QUEUE_BITS = 8
  MAX_REVISION = 7
  COUNT_MOD = 1
  MaxWrites <- Writes1and6
  BootTogether = TRUE
  Link <- LineLinks
  Reliable <- NoLinks
  Rota <- Beef1Cafe2
  Requested <- BeefAsks2

PROPERTY NeverOlder
CHECK_DEADLOCK FALSE
