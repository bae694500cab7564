SPECIFICATION AllSpec
CONSTANTS
None = None
Procs = {p1, p2}
Caches = {c1, c2}
Ids = {i1}
Kinds = {"turn", "stream", "read", "readStream", "append", "new", "retry", "undo", "compact"}
MaxRequests = 3
MaxRounds = 1
MaxFaults = 1
Users = {u1, u2}
Requests = {q1, q2}
MaxChanges = 2
Absent = Absent
Agents = {a1, a2}
Accounts = {b1, b2}
Texts = {text}
MaxPosts = 1
TTL = 1
Spread = 1
AnyAccount = AnyAccount
Nobody = Nobody
Modes = {"script", "free"}
Script = "script"
MaxSends = 2
MaxTaps = 2
MaxFailures = 1
NoSession = NoSession
TurnIds = {t1, t2}
Sessions = {s1}
MaxLoads = 2
MaxBoxes = 2
MaxWrites = 2
MaxOutages = 1
IdleTTL = 0
Nothing = Nothing
INVARIANTS AllTypeOK IdsUnique NothingLost CallsAnswered HeardOnce WorkIsKept SpaceIsFresh ShownIsScope RepliesShown InputOpens
SYMMETRY Symmetry
CHECK_DEADLOCK FALSE
