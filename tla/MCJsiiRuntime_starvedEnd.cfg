SPECIFICATION Spec
CONSTANTS
  MaxId = 3
  MaxRid = 8
  MaxCalls = 1
  Sandbox = {"timer"}
  Native = {}
INVARIANTS
  RuntimeOutlivesProgram
