SPECIFICATION Spec
CONSTANTS
  Commands = {4, 136, 240, 208, 212}
  Bytes = {0, 1, 40, 41, 78, 161, 254, 251, 256}
  DataVals = {1, 247}
  SeekVals = {}
  TrackVals = {}
  SectorVals = {}
  TRACK_MOD = 256
  SECTOR_LEN = 2
  RNF_LIMIT = 1
  IP_MOD = 2
  StepClks <- MC_StepClks
  STEP_PULSE = 0
  GAP2_4E_MIN = 1
  GAP2_00_MIN = 1
  GAP3_4E_MIN = 1
  GAP3_00_MIN = 1
  A1_RUN = 2
  BYTE_CLKS = 9
  TICK = 3
  ACCESS_CLKS = 3
  Track <- MC_Blank
  INDEX_LEN = 1
  WriteProtect = {FALSE, TRUE}
  Track00 = {TRUE}
  PROMPT = TRUE
  AHEAD = TRUE
  POLLING = TRUE
  RESETS = FALSE
  MID_COMMAND = FALSE
INVARIANTS TypeOK  NoEarlyIrq CommandOwned
PROPERTIES ImplementsLife CrcPair
