SPECIFICATION ShellSpec
CONSTANTS
  t1 = t1
  t2 = t2
  t3 = t3
  Task = {t1, t2, t3}
  Owner <- OfOneProfile
  Follows <- NothingFollows
  NoTask = NoTask
  MaxSessions = 1
  MaxCommands = 1
PROPERTY RemovalIsConfirmed
CHECK_DEADLOCK FALSE
