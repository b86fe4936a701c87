\* The boundary sizes, one transfer after another.
SPECIFICATION FairSpec
CONSTANTS
  Sizes <- MCSizes
INVARIANTS
  TypeOK
  AllMoved
  InPlace
  RemainderKept
  QueueFits
  WindowKept
PROPERTIES
  TransferEnds
