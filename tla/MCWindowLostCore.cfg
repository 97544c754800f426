\* The window may be closed, and nothing happens after that.
CONSTANTS
  o1 = o1
  o2 = o2
  NoOp = NoOp
  OperationIds <- MCOperationIds
  MaxRequests = 2
  MaxCompleted = 1
CHECK_DEADLOCK FALSE
SPECIFICATION WindowSafety
INVARIANTS
  LostCoreReleasesWindow
