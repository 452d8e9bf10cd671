---------------------------- MODULE OrderLifecycle ----------------------------
(***************************************************************************)
(* Payment and Refund on the same rows of orders, payment_transactions and *)
(* member_cards: purchase, use, refund, and the notices of WeChat about    *)
(* the one and the other, which may arrive at any later time.              *)
(***************************************************************************)
EXTENDS Integers, FiniteSets

CONSTANTS Procs, Users, Reqs, Orders, PurchaseLimit, OrderTTL, MaxClock, \* Payment
          Clerks, Admins, MaxUses,                                       \* Refund
          None

ASSUME BoundsAssumption ==
  OrderTTL \in Nat \ {0} /\ MaxUses \in Nat \ {0} /\ IsFiniteSet(Orders)
ASSUME NoneAssumption == None \notin Users \cup Admins \cup Reqs \cup Orders

VARIABLES clock, product, orders, payments, cards, trades, tx, answer,
          refunds, wechat, notices, late, attempts, replies

paymentVars == <<clock, product, trades, tx, answer>>
refundVars == <<refunds, wechat, notices, late, attempts, replies>>
vars == <<orders, payments, cards, paymentVars, refundVars>>

Buying == INSTANCE Payment
Refunding == INSTANCE Refund WITH Procs <- Clerks

Init ==
  /\ Buying!Init
  /\ refunds = [o \in Orders |-> Refunding!NoRefund]
  /\ wechat = [o \in Orders |-> "NONE"]
  /\ notices = {}
  /\ late = {}
  /\ attempts = [p \in Clerks |-> Refunding!Idle]
  /\ replies = [p \in Clerks |-> "NONE"]

Next ==
  \/ Buying!Next /\ UNCHANGED refundVars
  \/ Refunding!Next /\ UNCHANGED paymentVars

Spec == Init /\ [][Next]_vars

Fairness ==
  /\ \A o \in Orders : WF_vars(Buying!Notify(o) /\ UNCHANGED refundVars)
  /\ \A n \in [order : Orders, status : Refunding!WechatStatus] :
       WF_vars(Refunding!RefundNotify(n) /\ UNCHANGED paymentVars)
FairSpec == Spec /\ Fairness
-----------------------------------------------------------------------------
(* The contract of the card, as seen in the rows. *)

StandingOf(status) ==
  CASE status \in {"PENDING_ACTIVATION", "ACTIVE"} -> "good"
    [] status = "REFUND_LOCKED" -> "held"
    [] status \in {"USED_UP", "EXPIRED"} -> "over"
    [] status = "REFUNDED" -> "refunded"
    [] status = "NONE" -> "none"

Contract ==
  INSTANCE CardContract WITH
    Cards <- Orders,
    Kind <- [o \in Orders |-> "COUNT_CARD"],
    Total <- [o \in Orders |-> MaxUses],
    standing <- [o \in Orders |-> StandingOf(cards[o].status)],
    left <- [o \in Orders |-> MaxUses - cards[o].uses]
-----------------------------------------------------------------------------
\* The statuses of order, payment, card and refund fit together at every moment,
\* though five handlers and two streams of notices write them.
RowsAgree ==
  \A o \in Orders :
    LET row == [order |-> orders[o].status, refund |-> refunds[o].status] IN
    /\ row.order \in {"NONE", "PENDING", "CLOSED"} =>
         payments[o] # "SUCCEEDED" /\ cards[o].status = "NONE" /\ row.refund = "NONE"
    /\ row.order = "PAID" =>
         /\ payments[o] = "SUCCEEDED" /\ row.refund \in {"NONE", "FAILED"}
         /\ StandingOf(cards[o].status) \in {"good", "over"}
    /\ row.order = "REFUNDING" =>
         row.refund \in Refunding!InProgress /\ cards[o].status = "REFUND_LOCKED"
    /\ row.order = "REFUNDED" =>
         row.refund = "SUCCEEDED" /\ cards[o].status = "REFUNDED" /\ payments[o] = "SUCCEEDED"

\* No notice of an old payment touches a card that is out: it is neither issued
\* anew nor given its uses back, not even after a refund.
KeepsItsUses ==
  [][\A o \in Orders : cards[o].status # "NONE" =>
       cards'[o].status # "NONE" /\ cards'[o].uses >= cards[o].uses]_vars

\* Every row that speaks of money has WeChat's money behind it, whichever answers
\* and notices are late or lost: a card was paid for, a refunded order was paid
\* back, and WeChat holds a refund only of an order it was paid for, with a row of
\* refund_transactions to find it by (adminorder/refund.go:88 calls what 258 stored).
MoneyBehindRows ==
  \A o \in Orders :
    /\ cards[o].status # "NONE" => trades[o] = "SUCCESS"
    /\ orders[o].status = "REFUNDED" => wechat[o] = "SUCCESS"
    /\ wechat[o] # "NONE" => refunds[o].status # "NONE" /\ trades[o] = "SUCCESS"

\* The money of every paid trade becomes a card, and a refund WeChat has paid out
\* or closed is concluded in the rows, with one server writing both; as the failed
\* refund of FailedIsNotPaidOut in the worst case.
MoneyAccountedFor == Buying!PaymentSettles /\ Refunding!RefundConcludes

\* Every card keeps to the contract.
CardsKeepContract == Contract!Spec
-----------------------------------------------------------------------------
(* What the properties rest on, state by state. *)

TypeOK == Buying!TypeOK /\ refunds \in [Orders -> Refunding!Refund]

\* A refund is of a card, and a card in service has a use left.
RefundHasCard == \A o \in Orders : refunds[o].status # "NONE" => cards[o].status # "NONE"
UseLeft ==
  \A o \in Orders : StandingOf(cards[o].status) \in {"good", "held"} => cards[o].uses < MaxUses

\* What Payment and Refund promise of the rows they share holds of both together.
Inv ==
  /\ TypeOK /\ RefundHasCard /\ UseLeft
  /\ Buying!PaidIffCard /\ Refunding!RefundStatesAgree
  /\ Refunding!RefundedCardUnused /\ Refunding!ActivationKept

\* What stands outside the rows: WeChat's refunds and the handlers on their way.
RemoteOK ==
  /\ wechat \in [Orders -> Refunding!WechatStatus]
  /\ notices \subseteq [order : Orders, status : Refunding!WechatStatus]
  /\ late \subseteq Orders
  /\ attempts \in [Clerks -> Refunding!Attempt]

\* A Sync settles what it saw paid, and no call goes to WeChat without its refund row.
PaidSyncs ==
  \A p \in Procs : tx[p].pc = "syncPaid" =>
    tx[p].order \in Orders /\ trades[tx[p].order] = "SUCCESS"
RefundsBooked ==
  /\ \A q \in Clerks : attempts[q].pc # "done" => refunds[attempts[q].order].status # "NONE"
  /\ \A o \in Orders : o \in late \/ wechat[o] # "NONE" => refunds[o].status # "NONE"

MoneyInv ==
  /\ RemoteOK /\ PaidSyncs /\ RefundsBooked /\ Refunding!Honest
  /\ Buying!CardOnlyForMoney /\ Refunding!SucceededIsPaidOut
=============================================================================
