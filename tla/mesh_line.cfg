SPECIFICATION Spec
CONSTANTS
  beef = beef
  cafe = cafe
  feed = feed
  Node = {beef, cafe, feed}
  Reg = {0, 1}
  LedReg = {1}
  AppReg = {1}
  QUEUE_BITS = 8
  MAX_REVISION = 7
  COUNT_MOD = 1
  MaxWrites <- Writes18
  BootTogether = FALSE
  Link <- LineLinks
  Reliable <- NoLinks
  Rota <- Beef1
  Requested <- Nobody
INVARIANTS TypeOK NoStall NeverMixed OwnerIsNewest AirIsRecent
PROPERTY NeverOlder
CHECK_DEADLOCK FALSE
