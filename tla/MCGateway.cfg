SPECIFICATION AllSpec
CONSTANTS
Jobs = {j1}
Replicas = {r1, r2}
LockTTL = 3
MaxWait = 3
MaxCrashes = 2
Chats = {c1, c2}
MaxTasks = 3
MaxQueues = 2
Cap = 1
OutCap = 1
MaxConcurrent = 1
IdleTimeout = 1
MayStop = TRUE
INVARIANTS TypeOK NoSendOnClosed NoTaskLost LockExclusive
PROPERTIES Served JobsFire ServiceSpec
CHECK_DEADLOCK FALSE
