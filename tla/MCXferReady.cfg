\* A card that may say "not ready".
SPECIFICATION FairSpec
CONSTANTS
  Sizes <- MCSizes
INVARIANTS
  ReadyHeeded
