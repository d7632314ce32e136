SPECIFICATION LoopSpec
CONSTANTS
  Gid = {a}
  Offset = {0, 1}
  NoTotal = NoTotal
  MaxAttempts = 2
  Unlimited = Unlimited
  MaxGen = 3
  EngineMoves = {"Pause", "Purge", "Restart"}
  PageSize = 1
  Controls = {"ForceRefresh", "Mutate"}
CHECK_DEADLOCK FALSE
 
PROPERTIES
  RefinesLifecycle
  
  
  
