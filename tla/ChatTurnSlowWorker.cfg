SPECIFICATION Spec
CONSTANTS
MaxAttempts = 2
Recoverers = {r1}
FaultSets = {{"lease"}}
ClientId = TRUE
INVARIANTS OneReply
CHECK_DEADLOCK FALSE
