SPECIFICATION Spec
CONSTANTS
Chats = {c1}
MaxTasks = 2
MaxQueues = 2
Cap = 1
OutCap = 1
MaxConcurrent = 2
IdleTimeout = 1
MayStop = FALSE
INVARIANTS OneAtATime
CHECK_DEADLOCK FALSE
