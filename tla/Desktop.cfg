CONSTANTS
  none = none
  b1 = b1
  b2 = b2
  Nothing = none
  Boxes <- MCBoxes
  Scripted = {"show", "toggle"}
  Full = 4
  MaxCalls = 3
  MaxClicks = 4
  MaxWindows = 2
  Fits = {1, 2}
SPECIFICATION Spec
INVARIANTS
  OneAtATime
  TaskBarFits
PROPERTIES
  MinimisedStays
  AllEnds
CHECK_DEADLOCK FALSE
