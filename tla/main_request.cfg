SPECIFICATION Spec
CONSTANTS
  Node = {}
  Reg = {0, 1, 2}
  LedReg = {1, 2}
  QUEUE_BITS = 8
  MAX_REVISION = 7
  COUNT_MOD = 1
  Asked = 2
  Traffic <- Register1Traffic
  Answer <- Register2Answer
INVARIANTS PopFindsData NothingStranded
PROPERTY SettlesDown
