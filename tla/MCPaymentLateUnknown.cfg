SPECIFICATION OrderSpec
CONSTANTS
u1 = u1
o1 = o1
o2 = o2
Buyers = {u1}
Orders = {o1}
Owner <- OwnerOfAll
Points <- PointsOfAll
Handlers = {h1, h2}
Providers = {aggregate}
Mock = mock
NoOne = NoOne
INVARIANTS CreditedIsVerified
CHECK_DEADLOCK FALSE
