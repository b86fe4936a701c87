\* Every choice of slots, with and without cards, 15 polls.
SPECIFICATION FairSpec
CONSTANTS
  MaxPolls = 15
INVARIANTS
  TypeOK
  ChangeAwaited
  OthersKept
  LeftBehind
PROPERTIES
  IgrEnds
CHECK_DEADLOCK FALSE
