SPECIFICATION FairSpec
CONSTANTS
  Procs = {p1}
  Clerks = {q1}
  Users = {u1}
  Admins = {a1}
  Reqs = {r1}
  Orders = {o1}
  PurchaseLimit = 0
  OrderTTL = 1
  MaxClock = 1
  MaxUses = 2
  None = None
INVARIANTS RowsAgree MoneyBehindRows
PROPERTIES KeepsItsUses CardsKeepContract MoneyAccountedFor
