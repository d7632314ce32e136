SPECIFICATION Spec
CONSTANTS
  Gid = {a, b}
  Offset = {0, 1, 2}
  NoTotal = NoTotal
  MaxAttempts = Unlimited
  Unlimited = Unlimited
  MaxGen = 0
  EngineMoves = {"Purge"}
  PageSize = 1
  Controls = {"ForceRefresh", "LoadMore", "Remove"}
CHECK_DEADLOCK FALSE
SYMMETRY GidSymmetry
INVARIANTS
  TypeOK
  
  
