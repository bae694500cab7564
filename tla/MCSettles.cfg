SPECIFICATION AllSpec
CONSTANTS
Callers = {c1, c2}
UnreadCap = 2
WindowCount = 2
LastDay = 2
MaxCopies = 1
Roleplay = TRUE
r1 = r1
u1 = u1
o1 = o1
h1 = h1
h2 = h2
h3 = h3
aggregate = aggregate
NoOne = NoOne
INVARIANTS AgentKnowsDelivered
PROPERTIES NothingKeptForNothing PurchaseFairSpec InboxSpec InboxFillsUp
CHECK_DEADLOCK FALSE
