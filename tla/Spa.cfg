\* Two requests at once; a refresh token outlives its JWT by two ticks.
SPECIFICATION Spec
CONSTANTS
  s1 = s1  s2 = s2
  Slot <- TwoSlots
  JwtLife = 1  RefreshLife = 3  MaxNow = 3  MaxPairs = 2  MaxTgts = 2
SYMMETRY AlikeSlots
CHECK_DEADLOCK FALSE
PROPERTIES SpentStaysSpent 
