SPECIFICATION Spec
CONSTANTS
  Procs = {p1, p2}
  Admins = {a1, a2}
  Reqs = {r1}
  Orders = {o1}
  MaxUses = 2
  None = None
SYMMETRY Symmetry
INVARIANTS TypeOK RefundStatesAgree RefundedCardUnused SucceededIsPaidOut ActivationKept
PROPERTIES FinalRefundKept RestoredOnWechatsWord
