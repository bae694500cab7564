SPECIFICATION PageSpec
CONSTANTS
Modes = {"script", "free"}
Script = "script"
MaxSends = 1
MaxTaps = 2
MaxFailures = 1
NoSession = NoSession
INVARIANTS EarlierIsDiscarded
CHECK_DEADLOCK FALSE
