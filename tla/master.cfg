SPECIFICATION FairSpec
CONSTANTS
  Slaves = 2
  Top = 1
  MaxMoves = 1
  MaxTroubles = 1
INVARIANTS TypeOK OperationalIsServed NobodyLeftMoving AllAtStop ExceptionsHaveACause
PROPERTIES OutputsOffBeforeInit MainEnds
