SPECIFICATION FairSpec
CONSTANTS
  Procs = {p1, p2}
  Users = {u1}
  Reqs = {r1, r2}
  Orders = {o1, o2}
  PurchaseLimit = 1
  OrderTTL = 1
  MaxClock = 0
  None = None
INVARIANTS WithinPurchaseLimit
