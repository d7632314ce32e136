SPECIFICATION Spec
CONSTANTS
  Gid = {a}
  Offset = {0, 1}
  NoTotal = NoTotal
  MaxAttempts = Unlimited
  Unlimited = Unlimited
  MaxGen = 0
  EngineMoves = {"Purge"}
  PageSize = 1
  Controls = {"Remove"}
CHECK_DEADLOCK FALSE
INVARIANT RemoveDeletesHistoryRow
