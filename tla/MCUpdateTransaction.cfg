\* Two updaters on one installation; the new file is replaced between two old
\* ones. The model stops when both have ended.
CONSTANTS
  u1 = u1
  u2 = u2
  f1 = f1
  f2 = f2
  f3 = f3
  Old = Old
  Missing = Missing
  NoUpdater = NoUpdater
  Updaters <- MCUpdaters
  Package <- MCPackage
  OldFiles <- MCOldFiles
SPECIFICATION UpdateSpec
INVARIANTS
  AllOrNothing
  OldFilesArePreserved
CHECK_DEADLOCK FALSE
