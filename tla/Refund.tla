-------------------------------- MODULE Refund --------------------------------
(***************************************************************************)
(* Refunding an order: internal/adminorder/refund.go, against WeChat Pay   *)
(* and against the redemption and expiry of the card being refunded.       *)
(*                                                                         *)
(* lockForRefund, failRefundRequest and applyRefundResult are transactions *)
(* whose first statement locks the order, card and refund rows with FOR    *)
(* UPDATE: each is one step.  Between them the handler calls WeChat, and   *)
(* there anything may happen to the call, the answer and the handler.      *)
(***************************************************************************)
EXTENDS Integers, FiniteSets

CONSTANTS
  Procs,    \* administrators' handler goroutines
  Admins,   \* operator_user_id
  Reqs,     \* client_request_id
  Orders,   \* orders, each with its card, payment and at most one refund
  MaxUses,  \* total_times of the cards
  None

ASSUME BoundsAssumption == MaxUses \in Nat \ {0}
ASSUME NoneAssumption == None \notin Orders \cup Admins \cup Reqs

VARIABLES
  orders,    \* orders; only the status is read here
  payments,  \* payment_transactions
  cards,     \* member_cards, by source_order_id; uses counts its redemption_records
  refunds,   \* refund_transactions, by order
  wechat,    \* WeChat's refund of every order
  notices,   \* refund notices WeChat has sent; each may arrive again at any time
  late,      \* orders with a CreateRefund call nobody waits for any more
  attempts,  \* what every handler is doing
  replies    \* what every handler answered last

rows == <<orders, payments, cards, refunds>>
remote == <<wechat, notices, late>>
vars == <<orders, payments, cards, refunds, wechat, notices, late, attempts, replies>>
-----------------------------------------------------------------------------
RefundStatus == {"NONE", "CREATED", "PROCESSING", "SUCCEEDED", "FAILED", "ABNORMAL"}
InProgress == {"CREATED", "PROCESSING", "ABNORMAL"}
Refundable == {"ACTIVE", "PENDING_ACTIVATION"}
Final == {"SUCCEEDED", "FAILED"}
WechatStatus == {"NONE", "PROCESSING", "SUCCESS", "CLOSED", "ABNORMAL"}
CardStatus == {"NONE", "PENDING_ACTIVATION", "ACTIVE", "USED_UP", "EXPIRED",
               "REFUND_LOCKED", "REFUNDED"}
OrderStatus == {"NONE", "PENDING", "PAID", "CLOSED", "REFUNDING", "REFUNDED"}
Refund == [status : RefundStatus, operator : Admins \cup {None}, request : Reqs \cup {None}]
NoRefund == [status |-> "NONE", operator |-> None, request |-> None]
Attempt == [pc : {"done", "locked", "answered", "rejected"}, order : Orders \cup {None},
            result : WechatStatus]
Idle == [pc |-> "done", order |-> None, result |-> "NONE"]
Reply == {"NONE", "ORDER_NOT_FOUND", "REFUND_ALREADY_EXISTS", "REFUND_NOT_ALLOWED",
          "REFUND_CREATE_FAILED", "RECORD", "WECHAT_REFUND_REJECTED",
          "REFUND_FAILURE_SYNC_FAILED", "WECHAT_REFUND_UNKNOWN", "REFUND_NOT_FOUND",
          "WECHAT_REFUND_QUERY_FAILED", "INTERNAL_ERROR"}

TypeOK ==
  /\ orders \in [Orders -> [status : OrderStatus]]
  /\ payments \in [Orders -> {"NONE", "CREATED", "SUCCEEDED"}]
  /\ cards \in [Orders -> [status : CardStatus, activated : BOOLEAN, uses : Nat]]
  /\ refunds \in [Orders -> Refund]
  /\ wechat \in [Orders -> WechatStatus]
  /\ notices \subseteq [order : Orders, status : WechatStatus]
  /\ late \subseteq Orders
  /\ attempts \in [Procs -> Attempt]
  /\ replies \in [Procs -> Reply]
-----------------------------------------------------------------------------
Finish(p, reply) ==
  /\ attempts' = [attempts EXCEPT ![p] = Idle]
  /\ replies' = [replies EXCEPT ![p] = reply]
Answer(p, reply) == Finish(p, reply) /\ UNCHANGED <<rows, remote>>
Goto(p, attempt) ==
  /\ attempts' = [attempts EXCEPT ![p] = attempt]
  /\ replies' = [replies EXCEPT ![p] = "NONE"]
-----------------------------------------------------------------------------
(* lockForRefund, the first transaction of Refund. *)

Known(o) == payments[o] = "SUCCEEDED" /\ cards[o].status # "NONE"
SameRequest(o, a, r) == refunds[o].operator = a /\ refunds[o].request = r

\* Mutant: redeemed cards are refunded as well.
AllowedEvenIfUsed(o) == orders[o].status = "PAID" /\ cards[o].status \in Refundable
Allowed(o) == orders[o].status = "PAID" /\ cards[o].status \in Refundable /\ cards[o].uses = 0

\* Mutant: the card stays as it is until WeChat has answered.
LockedRowsOnlyOrder(o) ==
  /\ orders' = [orders EXCEPT ![o].status = "REFUNDING"]
  /\ UNCHANGED cards
LockedRows(o) ==
  /\ orders' = [orders EXCEPT ![o].status = "REFUNDING"]
  /\ cards' = [cards EXCEPT ![o].status = "REFUND_LOCKED"]

\* A repetition of the request that made the refund goes on to WeChat only while
\* the refund is still CREATED.
Resume(p, o, a, r) ==
  /\ attempts[p].pc = "done" /\ Known(o)
  /\ refunds[o].status # "NONE" /\ SameRequest(o, a, r)
  /\ IF refunds[o].status = "CREATED"
       THEN Goto(p, [pc |-> "locked", order |-> o, result |-> "NONE"]) /\ UNCHANGED <<rows, remote>>
       ELSE Answer(p, "RECORD")

\* uk_refund_operator_request lets a client_request_id make one refund.
Lock(p, o, a, r) ==
  /\ attempts[p].pc = "done" /\ Known(o)
  /\ refunds[o].status = "NONE" /\ Allowed(o)
  /\ \A other \in Orders : refunds[other].status = "NONE" \/ ~SameRequest(other, a, r)
  /\ refunds' = [refunds EXCEPT ![o] = [status |-> "CREATED", operator |-> a, request |-> r]]
  /\ LockedRows(o)
  /\ Goto(p, [pc |-> "locked", order |-> o, result |-> "NONE"])
  /\ UNCHANGED <<payments, remote>>

\* Payments more than 365 days old are refused too; their age is not kept.
Refuse(p, o, a, r) ==
  /\ attempts[p].pc = "done"
  /\ \/ ~Known(o) /\ Answer(p, "ORDER_NOT_FOUND")
     \/ /\ Known(o) /\ refunds[o].status # "NONE" /\ ~SameRequest(o, a, r)
        /\ Answer(p, "REFUND_ALREADY_EXISTS")
     \/ /\ Known(o) /\ refunds[o].status = "NONE"
        /\ Answer(p, "REFUND_NOT_ALLOWED")
     \/ /\ Known(o) /\ refunds[o].status = "NONE" /\ Allowed(o)
        /\ \E other \in Orders : refunds[other].status # "NONE" /\ SameRequest(other, a, r)
        /\ Answer(p, "REFUND_CREATE_FAILED")
-----------------------------------------------------------------------------
(* CreateRefund at WeChat, idempotent by refund number. *)

Accepted(o) == [wechat EXCEPT ![o] = IF @ = "NONE" THEN "PROCESSING" ELSE @]

CallAccepted(p) ==
  LET o == attempts[p].order IN
  /\ attempts[p].pc = "locked"
  /\ wechat' = Accepted(o)
  /\ Goto(p, [pc |-> "answered", order |-> o, result |-> Accepted(o)[o]])
  /\ UNCHANGED <<rows, notices, late>>

\* One of the codes explicitRefundRejection lists, NOT_ENOUGH for instance.
\* Assumed of WeChat: it does not reject a repetition of a refund it has accepted.
CallRejected(p) ==
  /\ attempts[p].pc = "locked" /\ wechat[attempts[p].order] = "NONE"
  /\ Goto(p, [attempts[p] EXCEPT !.pc = "rejected"])
  /\ UNCHANGED <<rows, remote>>

\* Any other error, or none within the client's ten seconds: the request may have
\* been refused, have been accepted, or reach WeChat later.
CallUnknown(p) ==
  /\ attempts[p].pc = "locked"
  /\ late' \in {late, late \cup {attempts[p].order}}
  /\ Finish(p, "WECHAT_REFUND_UNKNOWN")
  /\ UNCHANGED <<rows, wechat, notices>>

LateArrival(o) ==
  /\ o \in late
  /\ late' = late \ {o}
  /\ wechat' = Accepted(o)
  /\ UNCHANGED <<rows, notices, attempts, replies>>
-----------------------------------------------------------------------------
(* failRefundRequest and applyRefundResult. *)

\* Mutant: the restored card is always ACTIVE, as PRD.md:165 has it.
RestoredActive(o) == "ACTIVE"
Restored(o) == IF cards[o].activated THEN "ACTIVE" ELSE "PENDING_ACTIVATION"

\* Mutant: the refund takes over WeChat's word for its status.
FailedAsWechatSays(o) ==
  /\ refunds' = [refunds EXCEPT ![o].status = "CLOSED"]
  /\ orders' = [orders EXCEPT ![o].status = IF @ = "REFUNDING" THEN "PAID" ELSE @]
  /\ cards' = [cards EXCEPT ![o].status = IF @ = "REFUND_LOCKED" THEN Restored(o) ELSE @]
  /\ UNCHANGED payments
\* Each UPDATE names the status it expects to replace.
Failed(o) ==
  /\ refunds' = [refunds EXCEPT ![o].status = "FAILED"]
  /\ orders' = [orders EXCEPT ![o].status = IF @ = "REFUNDING" THEN "PAID" ELSE @]
  /\ cards' = [cards EXCEPT ![o].status = IF @ = "REFUND_LOCKED" THEN Restored(o) ELSE @]
  /\ UNCHANGED payments
Succeeded(o) ==
  /\ refunds' = [refunds EXCEPT ![o].status = "SUCCEEDED"]
  /\ orders' = [orders EXCEPT ![o].status = IF @ \in {"REFUNDING", "REFUNDED"} THEN "REFUNDED" ELSE @]
  /\ cards' = [cards EXCEPT ![o].status = IF @ \in {"REFUND_LOCKED", "REFUNDED"} THEN "REFUNDED" ELSE @]
  /\ UNCHANGED payments
Marked(o, status) ==
  /\ refunds' = [refunds EXCEPT ![o].status = status]
  /\ UNCHANGED <<orders, payments, cards>>

FailRefundRequest(p) ==
  LET o == attempts[p].order IN
  /\ attempts[p].pc = "rejected"
  /\ \/ refunds[o].status = "CREATED" /\ Failed(o) /\ Finish(p, "WECHAT_REFUND_REJECTED")
     \/ refunds[o].status = "FAILED" /\ UNCHANGED rows /\ Finish(p, "WECHAT_REFUND_REJECTED")
     \/ /\ refunds[o].status \notin {"CREATED", "FAILED"}
        /\ UNCHANGED rows /\ Finish(p, "REFUND_FAILURE_SYNC_FAILED")
  /\ UNCHANGED remote

\* Mutant: a final refund is not left alone.
ApplyAlways(o, result) ==
  \/ result = "SUCCESS" /\ Succeeded(o)
  \/ result = "CLOSED" /\ Failed(o)
  \/ result \in {"PROCESSING", "ABNORMAL"} /\ Marked(o, result)
\* Mutant: the acceptance of the refund is taken for its success.
ApplyAcceptance(o, result) ==
  \/ refunds[o].status \in Final /\ UNCHANGED rows
  \/ refunds[o].status \notin Final /\ result = "CLOSED" /\ Failed(o)
  \/ refunds[o].status \notin Final /\ result # "CLOSED" /\ Succeeded(o)
\* Mutant: an abnormal refund gives the card back.
ApplyAbnormalRestores(o, result) ==
  \/ refunds[o].status \in Final /\ UNCHANGED rows
  \/ refunds[o].status \notin Final /\ result = "SUCCESS" /\ Succeeded(o)
  \/ refunds[o].status \notin Final /\ result \in {"CLOSED", "ABNORMAL"} /\ Failed(o)
  \/ refunds[o].status \notin Final /\ result = "PROCESSING" /\ Marked(o, result)
\* Mutant: a notice is dropped once the refund is known to be processing.
ApplyOnce(o, result) ==
  \/ refunds[o].status # "CREATED" /\ UNCHANGED rows
  \/ refunds[o].status = "CREATED" /\ result = "SUCCESS" /\ Succeeded(o)
  \/ refunds[o].status = "CREATED" /\ result = "CLOSED" /\ Failed(o)
  \/ refunds[o].status = "CREATED" /\ result \in {"PROCESSING", "ABNORMAL"} /\ Marked(o, result)

ApplyRefundResult(o, result) ==
  \/ refunds[o].status \in Final /\ UNCHANGED rows
  \/ /\ refunds[o].status \in InProgress
     /\ \/ result = "SUCCESS" /\ Succeeded(o)
        \/ result = "CLOSED" /\ Failed(o)
        \/ result = "PROCESSING"
             /\ IF refunds[o].status = "ABNORMAL" THEN UNCHANGED rows ELSE Marked(o, result)
        \/ result = "ABNORMAL" /\ Marked(o, result)

\* The end of Refund and of SyncRefund.
ApplyAnswer(p) ==
  /\ attempts[p].pc = "answered"
  /\ ApplyRefundResult(attempts[p].order, attempts[p].result)
  /\ Finish(p, "RECORD")
  /\ UNCHANGED remote

Sync(p, o) ==
  /\ attempts[p].pc = "done"
  /\ \/ refunds[o].status = "NONE" /\ Answer(p, "REFUND_NOT_FOUND")
     \/ refunds[o].status # "NONE" /\ wechat[o] = "NONE" /\ Answer(p, "WECHAT_REFUND_QUERY_FAILED")
     \/ /\ refunds[o].status # "NONE" /\ wechat[o] # "NONE"
        /\ Goto(p, [pc |-> "answered", order |-> o, result |-> wechat[o]])
        /\ UNCHANGED <<rows, remote>>

RefundNotify(n) ==
  /\ n \in notices
  /\ ApplyRefundResult(n.order, n.status)
  /\ UNCHANGED <<remote, attempts, replies>>

Abort(p) == attempts[p].pc # "done" /\ Answer(p, "INTERNAL_ERROR")
-----------------------------------------------------------------------------
(* WeChat; the redemption and the expiry of cards (module Redemption). *)

Progress(o, status) ==
  /\ \/ wechat[o] = "PROCESSING" /\ status \in {"SUCCESS", "CLOSED", "ABNORMAL"}
     \/ wechat[o] = "ABNORMAL" /\ status \in {"SUCCESS", "CLOSED"}
  /\ wechat' = [wechat EXCEPT ![o] = status]
  /\ notices' = notices \cup {[order |-> o, status |-> status]}
  /\ UNCHANGED <<rows, late, attempts, replies>>

Redeem(o) ==
  /\ cards[o].status \in {"ACTIVE", "PENDING_ACTIVATION"}
  /\ cards' = [cards EXCEPT ![o] =
       [status |-> IF @.uses + 1 = MaxUses THEN "USED_UP" ELSE "ACTIVE",
        activated |-> TRUE, uses |-> @.uses + 1]]
  /\ UNCHANGED <<orders, payments, refunds, remote, attempts, replies>>
ExpireCard(o) ==
  /\ cards[o].status = "ACTIVE"
  /\ cards' = [cards EXCEPT ![o].status = "EXPIRED"]
  /\ UNCHANGED <<orders, payments, refunds, remote, attempts, replies>>
-----------------------------------------------------------------------------
\* Every order has just been paid for (module Payment).
Init ==
  /\ orders = [o \in Orders |-> [status |-> "PAID"]]
  /\ payments = [o \in Orders |-> "SUCCEEDED"]
  /\ \E first \in SUBSET Orders :
       cards = [o \in Orders |->
         [status |-> IF o \in first THEN "PENDING_ACTIVATION" ELSE "ACTIVE",
          activated |-> o \notin first, uses |-> 0]]
  /\ refunds = [o \in Orders |-> NoRefund]
  /\ wechat = [o \in Orders |-> "NONE"]
  /\ notices = {}
  /\ late = {}
  /\ attempts = [p \in Procs |-> Idle]
  /\ replies = [p \in Procs |-> "NONE"]

Request(p) ==
  \/ \E o \in Orders, a \in Admins, r \in Reqs :
       Lock(p, o, a, r) \/ Resume(p, o, a, r) \/ Refuse(p, o, a, r)
  \/ \E o \in Orders : Sync(p, o)
Step(p) ==
  \/ CallAccepted(p) \/ CallRejected(p) \/ CallUnknown(p)
  \/ ApplyAnswer(p) \/ FailRefundRequest(p)
Wechat ==
  \/ \E o \in Orders, status \in WechatStatus : Progress(o, status)
  \/ \E o \in Orders : LateArrival(o)
  \/ \E n \in notices : RefundNotify(n)
UseOfCards == \E o \in Orders : Redeem(o) \/ ExpireCard(o)
Next ==
  \/ \E p \in Procs : Request(p) \/ Step(p) \/ Abort(p)
  \/ Wechat
  \/ UseOfCards

Spec == Init /\ [][Next]_vars

\* WeChat repeats a notice until it is acknowledged.
Fairness == \A n \in [order : Orders, status : WechatStatus] : WF_vars(RefundNotify(n))
FairSpec == Spec /\ Fairness
-----------------------------------------------------------------------------
(* Properties. *)

\* Refund, order and card move together through every interleaving of attempts,
\* answers and notices: a card is locked exactly while its refund is under way,
\* void exactly once it succeeded.
RefundStatesAgree ==
  \A o \in Orders :
    /\ refunds[o].status \in InProgress <=> orders[o].status = "REFUNDING"
    /\ refunds[o].status \in InProgress <=> cards[o].status = "REFUND_LOCKED"
    /\ refunds[o].status = "SUCCEEDED" <=> orders[o].status = "REFUNDED"
    /\ refunds[o].status = "SUCCEEDED" <=> cards[o].status = "REFUNDED"

\* No card is refunded, or locked for it, that has been redeemed; neither
\* beforehand nor in the race with lockForRefund.
RefundedCardUnused ==
  \A o \in Orders : cards[o].status \in {"REFUND_LOCKED", "REFUNDED"} => cards[o].uses = 0

\* A refund counts as done only when WeChat has paid it out.
SucceededIsPaidOut == \A o \in Orders : refunds[o].status = "SUCCEEDED" => wechat[o] = "SUCCESS"

\* A card comes back as it was, waiting for its first use exactly if never activated:
\* the code follows PRD.md:640, the original status, against PRD.md:165 and the state
\* machine at PRD.md:286, by which a failed refund leaves the card ACTIVE.
ActivationKept ==
  \A o \in Orders : cards[o].status \in Refundable =>
    (cards[o].status = "PENDING_ACTIVATION" <=> ~cards[o].activated)

\* A refund that has succeeded or failed keeps its status whatever answers and
\* notices still arrive, in whatever order.
FinalRefundKept ==
  [][\A o \in Orders : refunds[o].status \in Final => refunds'[o] = refunds[o]]_vars

\* A locked card comes back only on WeChat's word that there will be no refund:
\* a CLOSED refund or an explicit rejection, never an unknown or abnormal outcome.
RestoredOnWechatsWord ==
  [][\A o \in Orders : cards[o].status = "REFUND_LOCKED" /\ cards'[o].status \in Refundable =>
       \/ wechat[o] = "CLOSED"
       \/ \E p \in Procs : attempts[p].pc = "rejected" /\ attempts[p].order = o]_vars

\* Once WeChat has closed the matter the refund is final here too.
RefundConcludes ==
  \A o \in Orders : wechat[o] \in {"SUCCESS", "CLOSED"} ~> refunds[o].status \in Final

\* The card of a failed refund has no refund at WeChat that may still be paid out.
FailedIsNotPaidOut ==
  \A o \in Orders : refunds[o].status = "FAILED" => wechat[o] \in {"NONE", "CLOSED"}
-----------------------------------------------------------------------------
\* A final result in the hands of a handler or a notice is WeChat's own.
Honest ==
  /\ \A p \in Procs :
       /\ attempts[p].pc # "done" => attempts[p].order \in Orders
       /\ attempts[p].pc = "answered" /\ attempts[p].result \in {"SUCCESS", "CLOSED"} =>
            wechat[attempts[p].order] = attempts[p].result
  /\ \A n \in notices : n.status \in {"SUCCESS", "CLOSED"} => wechat[n.order] = n.status

Inv ==
  /\ TypeOK /\ Honest
  /\ RefundStatesAgree /\ RefundedCardUnused /\ SucceededIsPaidOut /\ ActivationKept
=============================================================================
