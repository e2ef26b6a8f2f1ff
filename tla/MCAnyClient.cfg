SPECIFICATION ProcessSpec
CONSTANTS
 MaxId = 3
 MaxRid = 1
 MaxLines = 1
 Sandbox = {"timer", "taskSync"}
INVARIANTS ProcessTypeOK OneDriver CallbackIdsUnique AwaitsSomething
PROPERTY CallbacksCompleteOnce
CHECK_DEADLOCK FALSE
