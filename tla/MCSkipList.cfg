SPECIFICATION Spec
CONSTANTS
  Key = {1, 2, 3}
  Value = {1, 2, 3}
  NoValue = NoValue
  Node = {n1, n2, n3}
  Header = Header
  Null = Null
  MaxLevel = 3
SYMMETRY Symmetry
VIEW View
INVARIANTS
  TypeOK
  LevelsThreaded
  SearchFinds
  LevelInUse
PROPERTY
  IsMap
CHECK_DEADLOCK FALSE
