SPECIFICATION Spec
CONSTANTS
  l = l
  u = u
  Lists = {l}
  Urls = {u}
  Intervals = {0}
  Commands <- AllCommands
  Databases <- SomeStored
  Stall = 0
  Far = 1
  Work = 2
INVARIANTS TypeOK StoredIsActive ReportsAreWhole
PROPERTY ImplementsConfig
CONSTRAINT Undisturbed
