SPECIFICATION FairSpec
CONSTANTS
  c1 = c1
  Clients = {c1}
  MaxRecords = 1
  MaxNodes = 2
  MaxCalls = 2
  MaxPlans = 1
INVARIANTS TypeOK Delivered
PROPERTIES ImplementsJournal StreamEnds
CHECK_DEADLOCK FALSE
