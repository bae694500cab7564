SPECIFICATION AllSpec
CONSTANTS
u1 = u1
u2 = u2
a1 = a1
o1 = o1
o2 = o2
kOrder = kOrder
kConsume = kConsume
kNext = kNext
kRefund = kRefund
kAdjust = kAdjust
Keys = {kOrder, kConsume, kNext, kRefund, kAdjust}
Admins = {a1}
NoProc = NoProc
NoAdmin = NoAdmin
Buyers = {u1}
Orders = {o1, o2}
Owner <- OwnerOfAll
Points <- PointsOfAll
Handlers = {h1, h2}
Providers = {aggregate, mock}
Mock = mock
NoOne = NoOne
Effects = {"achievement"}
Contents <- Unsaid
Obsolete <- Old
LevelStep = 2
ManyMessages = 3
MaxTurns = 2
MaxFaults = 1
MaxUnanswered = 1
MaxSuggestions = 2
Jobs <- AllJobs
Users = {u1, u2}
Procs = {p1, p2, p3}
MaxCalls = 2
INVARIANTS AllTypeOK LedgerExplainsBalance ReplyIsRecorded TotalsExplainBalance AuditMatchesLedger SomeCallGoesOn OneCredential OpenOrderIsPayable CreditedExactly UnlocksCatchUp MemoriesAreCurrent
PROPERTIES PromiseSpec PurchaseSpec
SYMMETRY Symmetry
VIEW AllObserved
CHECK_DEADLOCK FALSE
