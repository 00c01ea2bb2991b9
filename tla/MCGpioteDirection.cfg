CONSTANTS
  NumPins = 2
  NumUsers = 3
  LowToHigh <- MCLowToHigh
  HighToLow <- MCHighToLow
  OneShot <- MCOneShot
  UserArraySize = 3
  LowPowerEvents = 2
SPECIFICATION Spec
INVARIANTS DirectionTold
