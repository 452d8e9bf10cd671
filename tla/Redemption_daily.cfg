SPECIFICATION FairSpec
CONSTANTS
  Procs = {p1, p2}
  Users = {m, s}
  Staff = {s}
  Cards = {c1}
  Tokens = {t1}
  Codes = {k1}
  Reqs = {r1, r2, r3}
  Products = {pr1}
  Settings <- TwoDays
  Sold <- TwoDaysSold
  Owner <- AllCardsOfM
  Kind <- AllTimePasses
  Total <- NoTotal
  Product <- OneProduct
  DayLength = 2
  TokenTTL = 1
  MaxClock = 1
  MaxVersion = 1
  None = None
  m = m
  s = s
  c1 = c1
  p1 = p1
  p2 = p2
  t1 = t1
  t2 = t2
INVARIANTS DailyLimit
