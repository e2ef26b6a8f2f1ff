SPECIFICATION FairSpec
CONSTANTS
  Modules <- DiamondModules
  Deps <- DiamondDeps
  Langs = {"java", "dotnet", "python"}
  MaxLoads = 2
  Faults = {"tarball", "code", "types"}
INVARIANTS LoadedIsInKernel CodeRunsOnce
PROPERTY WalkEnds
\* A program that has all its modules loads no more.
CHECK_DEADLOCK FALSE
