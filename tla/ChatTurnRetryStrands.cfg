SPECIFICATION FairSpec
CONSTANTS
MaxAttempts = 2
Recoverers = {r1}
FaultSets = {{"wallet"}}
ClientId = TRUE
PROPERTIES EveryAttemptSettles
CHECK_DEADLOCK FALSE
