SPECIFICATION Spec
CONSTANTS
  HintGid = {g1, g2}
  NoGid = NoGid
  BroadcastCap = 2
  HintCap = 1
  MaxNotes = 4
  c1 = c1
  c2 = c2
  Call = {c1, c2}
  Size <- TwoThenOne
  ChannelCap = 1
  g1 = g1
  g2 = g2
  g3 = g3
  g4 = g4
  uri1 = uri1
  uri2 = uri2
  Task = {g1, g2, g3, g4}
  Existing = {g1, g2}
  Sourcings <- OneOrTwo
  Loaded = 4
  Operations = {"Pause", "Resume", "Change", "Remove", "Retry", "RemoveWithFiles"}
INVARIANTS
  TypeOK
  AnnouncementsAreNotForgotten
  
  NoLiveTaskLosesItsFiles
PROPERTIES
  RefinesCalls
  EveryCallEnds
CHECK_DEADLOCK FALSE
