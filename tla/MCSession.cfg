SPECIFICATION SessionSpec
CONSTANTS
  Gid = {a, b}
  Offset = {0, 1, 2}
  NoTotal = NoTotal
  MaxAttempts = Unlimited
  Unlimited = Unlimited
  MaxGen = 0
  EngineMoves = {"Purge"}
  PageSize = 1
  Controls = {"LoadMore"}
CHECK_DEADLOCK FALSE
PROPERTIES
  
  FullRefreshFollows
