\* Two operations, two connections, two calls of stop_game, and room for one
\* terminal record.
CONSTANTS
  o1 = o1
  o2 = o2
  r1 = r1
  r2 = r2
  v1 = v1
  p1 = p1
  s1 = s1
  s2 = s2
  NoOp = NoOp
  NoRequest = NoRequest
  OperationIds <- MCOperationIds
  Requests <- MCRequests
  Versions <- MCVersions
  Profiles <- MCProfiles
  StopCalls <- MCStopCalls
  MaxTerminalOperations = 1
SPECIFICATION WorkflowSpec
INVARIANTS
  MutationExcludesGame
  CancelledNeverPlays
  EndIsLastAndFree
  StopEndsCleanly
PROPERTIES
  RegistrySpec
  ExclusiveUseSpec
  CancelIsHonoured
  GameEndIsReported
