\* Three operations on two builds, with two errors and an end of the process.
CONSTANTS
  one = one
  other = other
  mod = mod
  library = library
  foreign = foreign
  partner = partner
  own = own
  rinthPack = rinthPack
  forgePack = forgePack
  NoBuild = NoBuild
  NoPack = NoPack
  Builds <- MCBuilds
  Projects <- MCProjects
  Locals <- MCLocals
  CurseForge <- MCCurseForge
  Packs <- MCPacks
  PackFiles <- MCPackFiles
  PackLoader <- MCPackLoader
  FileName <- MCFileName
  Requires <- MCRequires
  Paths <- MCPaths
  Config = "config"
  Loaders = {"vanilla", "forge"}
  MaxVersion = 2
  MaxPreviews = 1
  MaxErrors = 2
  MaxEnds = 1
  MaxCalls = 3
SPECIFICATION LibrarySpec
INVARIANTS
  RowsMatchFiles
  NothingIsLost
  RequiredAreEnabled
  SelectionIsWhole
  ListedCanBeLaunched
PROPERTIES
  EditsSurviveRepair
CHECK_DEADLOCK FALSE
