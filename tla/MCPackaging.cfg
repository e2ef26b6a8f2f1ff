SPECIFICATION FairSpec
CONSTANTS
  Packages = {"a", "c", "d", "x"}
  Jsii = {"a", "c", "d"}
  Edited = {"d"}
  Root = "a"
  Dependencies <- Diamond
  Targets = {"java", "sphinx"}
  Bundling = {"java"}
  Fingerprinted = {"sphinx"}
  Invocations <- SomeInvocations
  MaxRuns = 2
  MaxVersion = 2
INVARIANTS DependenciesFirst SuccessIsComplete TempDirsAreRemoved
PROPERTIES RunEnds
\* After the last run nothing is started.
CHECK_DEADLOCK FALSE
