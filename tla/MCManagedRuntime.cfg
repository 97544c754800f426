\* A launch and a page, two calls of each, with three faults and a crash.
CONSTANTS
  launch = launch
  page = page
  java = java
  otherJava = otherJava
  NoPath = NoPath
  Launches <- MCLaunches
  Pages <- MCPages
  Paths <- MCPaths
  Legacy = TRUE
  MaxFaults = 3
  MaxCrashes = 1
  MaxCalls = 2
SPECIFICATION RuntimeSpec
INVARIANTS
  GapIsReported
  ValidIsInPlace
  ChoiceSurvives
PROPERTIES
  WorkingRuntimeIsKept
CHECK_DEADLOCK FALSE
