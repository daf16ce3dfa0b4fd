SPECIFICATION Spec
CONSTANTS
  MaxLinks = 4
  MaxEvents = 5
INVARIANTS HaltsOnlyForLateEvents NeverIdle
PROPERTY NoLinkHangs
CHECK_DEADLOCK FALSE
