\* Every command but the sector read.
SPECIFICATION Spec
CONSTANTS
  Used <- AllButSectors
INVARIANTS
  TypeOK
  InStep
  RefusalReported
PROPERTIES
  StopsWhenRefused
