SPECIFICATION ParseSpec
CONSTANTS
  Inputs <- MCInputs
  Unset = Unset
  NameOfDirect = NameOfDirect
INVARIANTS PaddingIsGone OKIsComplete NameIsFound
CHECK_DEADLOCK FALSE
