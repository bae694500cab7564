SPECIFICATION Spec
CONSTANTS
None = None
Procs = {p1}
Caches = {c1, c2}
Ids = {i1, i2}
Kinds = {"turn", "new"}
MaxRequests = 3
MaxRounds = 1
MaxFaults = 0
INVARIANTS ClearedStaysCleared
CHECK_DEADLOCK FALSE
