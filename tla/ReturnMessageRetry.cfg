SPECIFICATION Spec
CONSTANTS
Callers = {c1, c2}
UnreadCap = 2
WindowCount = 2
LastDay = 2
MaxCopies = 2
Roleplay = TRUE
INVARIANTS OneCopy
CHECK_DEADLOCK FALSE
