SPECIFICATION FeedSpec
CONSTANTS
  Drives = {1}
  Enabled = {1}
  NUM_TRACKS = 3
  LAP = 3
  DEPTH = 4
  SLOW = FALSE
INVARIANTS StepsNoticed
