SPECIFICATION Spec
CONSTANTS
  Names = {"a", "b"}
  Langs = {"python"}
  Classes <- CallerAndMember
  Natives <- OneOrTwoClasses
  MaxDepth = 1
INVARIANT NoDuplicates
CHECK_DEADLOCK FALSE
