SPECIFICATION BoundedSpec
CONSTANTS
r1 = r1
r2 = r2
MaxAttempts = 2
ClientId = TRUE
Recoverers = {r1, r2}
FaultSets = {{"crash", "wallet", "mark", "db"}, {"crash", "wallet", "mark", "db", "usage", "ack", "lease"}}
INVARIANTS FreeRepliesAreFree RecordsTellTruth FencedOneReply ChargesStayInReach
PROPERTIES PaidReplySpec
CHECK_DEADLOCK FALSE
