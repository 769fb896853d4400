SPECIFICATION Spec
CONSTANTS
  MaxSaves = 1
  MaxStarts = 2
PROPERTIES
  Restored
CHECK_DEADLOCK FALSE
