SPECIFICATION FairSpec
CONSTANTS
  Objects = {entry, count}
  Entry = entry
  Count = count
  Data = {0, 1}
INVARIANTS FinishedCallsTookEffect CallsLeaveNothingBehind
PROPERTIES RequestIsNotOverwritten ImplementsTransfer CallsEnd
