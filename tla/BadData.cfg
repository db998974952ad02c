SPECIFICATION SramSpec
CONSTANTS
  Commands = {128}
  Bytes = {0, 1, 40, 41, 50, 51, 78, 161, 254, 251, 256, 255, 257}
  DataVals = {1, 2}
  SeekVals = {}
  TrackVals = {}
  SectorVals = {1}
  TRACK_MOD = 4
  SECTOR_LEN = 2
  RNF_LIMIT = 2
  IP_MOD = 4
  StepClks <- MC_StepClks
  STEP_PULSE = 0
  GAP2_4E_MIN = 1
  GAP2_00_MIN = 1
  GAP3_4E_MIN = 1
  GAP3_00_MIN = 1
  A1_RUN = 2
  BYTE_CLKS = 8
  TICK = 4
  ACCESS_CLKS = 3
  Track <- MC_Track
  INDEX_LEN = 1
  WriteProtect = {FALSE}
  Track00 = {TRUE}
  PROMPT = TRUE
  AHEAD = TRUE
  POLLING = FALSE
  RESETS = FALSE
  MID_COMMAND = FALSE
  Image <- MC_BadCrc
  DataField <- MC_DataField
  Damaged = {}
  Floating = 255
INVARIANTS DataCrcReported
