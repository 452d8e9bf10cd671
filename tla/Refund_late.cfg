SPECIFICATION FairSpec
CONSTANTS
  Procs = {p1, p2}
  Admins = {a1}
  Reqs = {r1}
  Orders = {o1}
  MaxUses = 1
  None = None
INVARIANTS FailedIsNotPaidOut
