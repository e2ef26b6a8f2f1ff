SPECIFICATION FairSpec
CONSTANTS
  MaxId = 4
  MaxRid = 8
  MaxCalls = 3
  Sandbox = {"taskSync"}
  Native = {}
INVARIANTS EndsAgree CallbacksAccountedFor
PROPERTIES CallsReturn RuntimeStops CallsNest
