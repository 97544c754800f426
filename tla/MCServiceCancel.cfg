\* A change and a cancellation between the claim of the guard and the new token.
CONSTANTS
  wait = wait
  change = change
  cancel = cancel
  query = query
  bad = bad
  Nobody = Nobody
  Waiters <- MCWaiters
  Changes <- MCChanges
  Cancellers <- MCCancellers
  Queries <- MCQueries
  Malformed <- MCMalformed
  OrdinaryPermits = 2
  ControlPermits = 1
  Capacity = 1
  MaxInput = 1
  MaxRequests = 3
  MaxProgress = 1
SPECIFICATION ServiceSpec
INVARIANT CancelStopsOperation
CHECK_DEADLOCK FALSE
