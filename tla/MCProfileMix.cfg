SPECIFICATION SettingsSpec
CONSTANTS
  NoBag = NoBag
  Profile = {p, q}
  First = p
  Overlap = TRUE
  MaxEdits = 2
INVARIANT EachProfileOwnsItsBag
CHECK_DEADLOCK FALSE
