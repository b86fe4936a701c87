\* The sector read of mmcedrv alone.
SPECIFICATION Spec
CONSTANTS
  Used <- SectorsOnly
PROPERTIES
  StopsWhenRefused
