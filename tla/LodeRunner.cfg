SPECIFICATION Spec
CONSTANTS
  LastRow = 3
  LastCol = 2
  MID = 1
  MAX_GUARDS = 2
  MAX_HOLES = 5
  DIG_FRAMES = 3
  HOLE_TICKS = 20
  TRAPPED = 6
  WRIGGLE = 5
  CLIMB = 3
  RESPAWN = 3
  DEAD = 127
  NO_LIVES = 1
  Levels <- MC_Levels
  Controls <- MC_Interactive
INVARIANTS TypeOK GoldConserved HolesAccounted MarksTrue LadderUnbroken
PROPERTIES ImplementsLedger
