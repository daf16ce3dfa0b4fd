SPECIFICATION CopySpec
CONSTANTS
  MAX_REVISION = 255
  COUNT_MOD = 2
  MaxWrites = 300
  MaxLag = 126
  Ages = {0, 1, 2, 63, 126}
INVARIANT NeverLockedOut
PROPERTIES NeverOlder DropsCountLosses
