SPECIFICATION Spec
CONSTANTS
  Instance = {a, b}
  Leftover = Leftover
  NoFile = NoFile
  Nobody = Nobody
  ExclusiveHandles = FALSE
  MaxRestarts = 1
  Window = 1
SYMMETRY InstanceSymmetry
INVARIANT ExclusiveOwner
