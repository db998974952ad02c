SPECIFICATION SystemSpec
CONSTANTS
  Commands = {0, 16, 136}
  Bytes = {0, 1, 2, 40, 41, 78, 161, 254, 251, 256}
  DataVals = {}
  SeekVals = {2}
  TrackVals = {}
  SectorVals = {}
  TRACK_MOD = 4
  SECTOR_LEN = 2
  RNF_LIMIT = 2
  IP_MOD = 3
  StepClks <- MC_StepClks
  STEP_PULSE = 1
  GAP2_4E_MIN = 1
  GAP2_00_MIN = 1
  GAP3_4E_MIN = 1
  GAP3_00_MIN = 1
  A1_RUN = 2
  BYTE_CLKS = 5
  TICK = 3
  ACCESS_CLKS = 3
  Track <- MC_Track
  INDEX_LEN = 1
  WriteProtect = {FALSE}
  Track00 = {TRUE}
  PROMPT = TRUE
  AHEAD = TRUE
  POLLING = FALSE
  RESETS = TRUE
  MID_COMMAND = TRUE
  Drives = {1}
  Enabled = {1}
  NUM_TRACKS = 3
  TrackImage <- MC_TrackImage
INVARIANTS StepsSeparate OneProcessor HeadFollows
