SPECIFICATION Spec
CONSTANTS
  Gid = {a, b}
  Offset = {0, 1}
  PageSize = 2
  MaxTotal = 2
  MaxGen = 1
  NoTotal = NoTotal
SYMMETRY GidSymmetry
INVARIANTS
  OneOwner
  ListedTasksAreKnown
  DerivedStateIsFresh
  EngineListsShowEngineData
PROPERTY ChangesArePatched
