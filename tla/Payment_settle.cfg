SPECIFICATION Spec
CONSTANTS
  Procs = {p1, p2}
  Users = {u1}
  Reqs = {r1, r2}
  Orders = {o1, o2}
  PurchaseLimit = 2
  OrderTTL = 1
  MaxClock = 2
  None = None
SYMMETRY Symmetry
INVARIANTS TypeOK PaidIffCard CardOnlyForMoney TradeHasPaymentRow
PROPERTIES OrdersOnlyOnSale
