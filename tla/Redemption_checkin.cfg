SPECIFICATION FairSpec
CONSTANTS
  Procs = {p1, p2}
  Users = {s}
  Staff = {s}
  Cards = {c1}
  Tokens = {t1, t2}
  Codes = {k1, k2}
  Reqs = {r1}
  Products = {pr1}
  Settings <- OneDay
  Sold <- OneDaySold
  Owner <- AllCardsOfS
  Kind <- AllCountCards
  Total <- TwoUses
  Product <- OneProduct
  DayLength = 2
  TokenTTL = 1
  MaxClock = 0
  MaxVersion = 2
  None = None
  m = m
  s = s
  c1 = c1
  p1 = p1
  p2 = p2
  t1 = t1
  t2 = t2
INVARIANTS CheckinKeyReserved
PROPERTIES EveryRequestAnswered OnlyCurrentCodeRecords
