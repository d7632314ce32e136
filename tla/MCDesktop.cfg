SPECIFICATION Spec
CONSTANTS
  NoBag = NoBag
  Profile = {p, q}
  First = p
  Overlap = FALSE
  MaxEdits = 3
  Writer = {w1, w2}
  Starter = w1
  Value = {v0, v1}
  Default = v0
  Bad = {b1, b2}
  Absent = Absent
  NoValue = NoValue
  f1 = f1
  f2 = f2
  f3 = f3
  x1 = x1
  x2 = x2
  x3 = x3
  x4 = x4
  Forwarder = {f1, f2, f3}
  Item = {x1, x2, x3, x4}
  HeadersOf <- OneHeaderDiffers
  Launches <- FourItems
  MaxItems = 3
  Version = {r1, r2}
  Shell = {ui}
  Worker = {worker}
  MaxCores = 3
  Power = {sleep, shutdown}
  NoPower = NoPower
  Seconds = 2
  t1 = t1
  t2 = t2
  t3 = t3
  Task = {t1, t2, t3}
  Owner <- OfTwoProfiles
  Follows <- OneFollows
  NoTask = NoTask
  MaxSessions = 2
  MaxCommands = 2
  d1 = d1
  d2 = d2
  Download = {d1, d2}
  FollowedBy <- DownloadFollows
  NoDownload = NoDownload
  NoDrawer = NoDrawer
  NoRow = NoRow
  MaxVersion = 2
  MaxAttempts = 2
  MaxUnderWay = 2
INVARIANTS
  OriginalIsPreserved
  
  
  NoLaunchIsLost
  RegisteredIsPresent
  
  OneCommandPerSession
  DetailsAreCurrent
PROPERTIES
  RefinesDocument
  OneTaskIsRemovedAsAsked
CHECK_DEADLOCK FALSE
