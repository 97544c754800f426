\* Two executions compete for one hashed file, or one execution downloads a
\* hashed and an unhashed file side by side; a crash, and another program.
CONSTANTS
  e1 = e1
  e2 = e2
  f1 = f1
  f2 = f2
  Nobody = Nobody
  Executions <- MCExecutions
  Watched <- MCWatched
  Files <- MCFiles
  Plans <- MCPlans
  Hashed <- MCHashed
  Size = 2
  MaxConcurrentDownloads = 2
  MaxAttempts = 2
  MaxRuns = 2
  MaxCrashes = 1
  MaxDisturbances = 1
SPECIFICATION DownloadSpec
INVARIANTS
  OkMeansVerified
  ReplacedOnlyByVerified
  ProgressIsSum
PROPERTIES
  ExecutionReturns
CHECK_DEADLOCK FALSE
