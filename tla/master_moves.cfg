SPECIFICATION Spec
CONSTANTS
  Slaves = 2
  Top = 1
  MaxMoves = 1
  MaxTroubles = 0
INVARIANT SpeedsScaleWithAmount
