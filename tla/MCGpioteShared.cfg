CONSTANTS
  NumPins = 2
  NumUsers = 3
  LowToHigh <- MCLowToHigh
  HighToLow <- MCHighToLow
  OneShot = {2}
  UserArraySize = 3
  LowPowerEvents = 2
SPECIFICATION Spec
INVARIANT SensedWhenWanted
