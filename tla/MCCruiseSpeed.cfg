\* Set speeds 2 to 8, steps of 1 and 3, a long press of two frames, card up to a frame ahead.
CONSTANTS
  V_CRUISE_MIN = 2
  V_CRUISE_MAX = 8
  V_CRUISE_UNSET = 9
  Initials <- mcInitials
  LongStep = 3
  LongPress = 2
  Speeds <- mcSpeeds
  EnableEdges = {TRUE, FALSE}
  MaxLag = 1
  SwitchedAlone = TRUE
SPECIFICATION CruiseSpec
INVARIANTS EngagedSpeedIsSet
 
