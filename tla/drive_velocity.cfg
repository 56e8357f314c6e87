SPECIFICATION Spec
CONSTANTS
  MaxPosition = 1
  VelocityLimit = 1
  MaxVelocity = 2
  NaN = NaN
  Speeds <- MCSpeeds
  Limits <- MCLimits
  Patience = 3
INVARIANT VelocityCommandHolds
