SPECIFICATION Spec
CONSTANTS
  Names = {"a", "b"}
  Langs = {"java", "dotnet", "python"}
  Classes <- CallerAndMember
  Natives <- OneOrTwoClasses
  MaxDepth = 4
INVARIANTS SuperNeverBounces AccessIsVirtual
\* A create request that was refused leaves nothing to call.
CHECK_DEADLOCK FALSE
