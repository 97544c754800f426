\* Three preparations of two builds, two editions of the metadata, two errors
\* and an end of the process.
CONSTANTS
  one = one
  other = other
  NoBuild = NoBuild
  Builds <- MCBuilds
  MaxEdition = 2
  MaxErrors = 2
  MaxEnds = 1
  MaxPreparations = 3
SPECIFICATION InstallSpec
INVARIANTS
  ReadyIsComplete
PROPERTIES
  NativesAreKept
  VerifiedPartsStay
CHECK_DEADLOCK FALSE
