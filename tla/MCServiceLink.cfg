\* Five requests, three of them sent: a cancellation and any two others, which can
\* take all ordinary permits; one frame of room.
CONSTANTS
  wait = wait
  change = change
  cancel = cancel
  query = query
  bad = bad
  Nobody = Nobody
  Waiters <- MCWaiters
  Changes <- MCChanges
  Cancellers <- MCCancellers
  Queries <- MCQueries
  Malformed <- MCMalformed
  OrdinaryPermits = 2
  ControlPermits = 1
  Capacity = 1
  MaxInput = 1
  MaxRequests = 3
  MaxProgress = 1
SPECIFICATION ServiceSpec
PROPERTIES
  CancelIsCarriedOut
  RequestsAreAnswered
CHECK_DEADLOCK FALSE
INVARIANTS
  EventsPrecedeAnswers
  CancelHitsItsTarget
  SleepersWillWake
