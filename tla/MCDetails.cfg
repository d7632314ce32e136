SPECIFICATION FairDetailsSpec
CONSTANTS
  Download = {d1}
  FollowedBy <- NothingFollowsIt
  NoDownload = NoDownload
  NoDrawer = NoDrawer
  NoRow = NoRow
  MaxVersion = 2
  MaxAttempts = 1
  MaxUnderWay = 1
PROPERTY DetailsConverge
CHECK_DEADLOCK FALSE
