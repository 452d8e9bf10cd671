SPECIFICATION Spec
CONSTANTS
  Procs = {p1, p2}
  Users = {m, s}
  Staff = {s}
  Cards = {c1}
  Tokens = {t1, t2}
  Codes = {k1}
  Reqs = {r1, r2}
  Products = {pr1}
  Settings <- OneDay
  Sold <- OneDaySold
  Owner <- AllCardsOfM
  Kind <- AllCountCards
  Total <- TwoUses
  Product <- OneProduct
  DayLength = 2
  TokenTTL = 1
  MaxClock = 2
  MaxVersion = 1
  None = None
  m = m
  s = s
  c1 = c1
  p1 = p1
  p2 = p2
  t1 = t1
  t2 = t2
SYMMETRY Symmetry
INVARIANTS TypeOK BalanceChain TokenSpentOnce OneActiveToken StatusMatchesHistory
PROPERTY CardsKeepContract
