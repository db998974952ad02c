SPECIFICATION Spec
CONSTANTS
  NUM_OBJS = 3
  Rooms <- MC_Rooms
  Exits <- MC_Exits
  StartScrn <- MC_StartScrn
  StartRooms <- MC_StartRooms
  CAULDRON_SCREEN = 136
  BUBBLES_SCREEN = 180
  ObjectsRequired <- MC_ObjectsRequired
  FirstKinds = {6}
  NO_LIVES = 1
  Clearings = {TRUE}
INVARIANTS TypeOK OnePlace ShapeFollowsSun KeysComeBack
PROPERTIES ImplementsObjectLife
