---------------------------- MODULE Refund_proofs ----------------------------
(* Proofs about Refund for any number of handlers, administrators and orders. *)
EXTENDS Refund, TLAPS

\* Inv in three parts: the rows, WeChat, the handlers.
RowsOK ==
  /\ orders \in [Orders -> [status : OrderStatus]]
  /\ payments \in [Orders -> {"NONE", "CREATED", "SUCCEEDED"}]
  /\ cards \in [Orders -> [status : CardStatus, activated : BOOLEAN, uses : Nat]]
  /\ refunds \in [Orders -> Refund]
  /\ RefundStatesAgree /\ RefundedCardUnused /\ ActivationKept /\ SucceededIsPaidOut
RemoteOK ==
  /\ wechat \in [Orders -> WechatStatus]
  /\ notices \subseteq [order : Orders, status : WechatStatus]
  /\ late \subseteq Orders
  /\ \A n \in notices : n.status \in {"SUCCESS", "CLOSED"} => wechat[n.order] = n.status
HandlerOK(p) ==
  /\ attempts[p] \in Attempt /\ replies[p] \in Reply
  /\ attempts[p].pc # "done" => attempts[p].order \in Orders
  /\ attempts[p].pc = "answered" /\ attempts[p].result \in {"SUCCESS", "CLOSED"} =>
       wechat[attempts[p].order] = attempts[p].result
HandlersOK ==
  /\ attempts \in [Procs -> Attempt] /\ replies \in [Procs -> Reply]
  /\ \A p \in Procs : HandlerOK(p)

LEMMA Parts == Inv <=> RowsOK /\ RemoteOK /\ HandlersOK
  BY DEF Inv, TypeOK, Honest, RowsOK, RemoteOK, HandlersOK, HandlerOK

LEMMA Join == ASSUME RowsOK', RemoteOK', HandlersOK' PROVE Inv'
  BY DEF Inv, TypeOK, Honest, RowsOK, RemoteOK, HandlersOK, HandlerOK

\* WeChat does not go back on a paid or closed refund.
Settled == \A o \in Orders : wechat[o] \in {"SUCCESS", "CLOSED"} => wechat'[o] = wechat[o]

LEMMA RowsRest == ASSUME RowsOK, UNCHANGED rows, Settled PROVE RowsOK'
  BY DEF rows, RowsOK, RefundStatesAgree, RefundedCardUnused, ActivationKept,
         SucceededIsPaidOut, Settled

LEMMA RemoteRest == ASSUME RemoteOK, UNCHANGED remote PROVE RemoteOK' /\ Settled
  BY DEF remote, RemoteOK, Settled

\* A handler that does nothing is not disturbed.
LEMMA OtherHandler ==
  ASSUME HandlersOK, Settled, NEW p \in Procs, attempts'[p] = attempts[p], replies'[p] = replies[p]
  PROVE HandlerOK(p)'
  BY DEF HandlersOK, HandlerOK, Settled

LEMMA HandlersRest ==
  ASSUME HandlersOK, Settled, UNCHANGED <<attempts, replies>>
  PROVE HandlersOK'
  BY OtherHandler DEF HandlersOK

LEMMA FinishHandlers ==
  ASSUME HandlersOK, Settled, NEW p \in Procs, NEW r \in Reply, Finish(p, r)
  PROVE HandlersOK'
  <1>1. Idle \in Attempt /\ Idle.pc = "done"
    BY DEF Idle, Attempt, WechatStatus
  <1>2. /\ attempts' \in [Procs -> Attempt] /\ replies' \in [Procs -> Reply]
        /\ attempts'[p] = Idle
        /\ \A q \in Procs : q # p => attempts'[q] = attempts[q] /\ replies'[q] = replies[q]
    BY <1>1 DEF Finish, HandlersOK
  <1>3. HandlerOK(p)'
    BY <1>1, <1>2 DEF HandlerOK
  <1>. QED
    BY <1>2, <1>3, OtherHandler DEF HandlersOK

LEMMA GotoHandlers ==
  ASSUME HandlersOK, Settled, NEW p \in Procs, NEW pc \in {"locked", "answered", "rejected"},
         NEW o \in Orders, NEW result \in WechatStatus,
         pc = "answered" /\ result \in {"SUCCESS", "CLOSED"} => wechat'[o] = result,
         Goto(p, [pc |-> pc, order |-> o, result |-> result])
  PROVE HandlersOK'
  <1>. DEFINE a == [pc |-> pc, order |-> o, result |-> result]
  <1>1. a \in Attempt /\ a.pc = pc /\ a.order = o /\ a.result = result
    BY DEF Attempt
  <1>2. attempts' = [attempts EXCEPT ![p] = a] /\ replies' = [replies EXCEPT ![p] = "NONE"]
    BY DEF Goto
  <1>. HIDE DEF a
  <1>3. /\ attempts' \in [Procs -> Attempt] /\ replies' \in [Procs -> Reply]
        /\ attempts'[p] = a
        /\ \A q \in Procs : q # p => attempts'[q] = attempts[q] /\ replies'[q] = replies[q]
    BY <1>1, <1>2 DEF HandlersOK, Reply
  <1>4. HandlerOK(p)'
    BY <1>1, <1>3 DEF HandlerOK
  <1>. QED
    BY <1>3, <1>4, OtherHandler DEF HandlersOK

\* An answer that changes nothing else.
LEMMA AnswerInv ==
  ASSUME Inv, NEW p \in Procs, NEW r \in Reply, Answer(p, r)
  PROVE Inv'
  BY Parts, Join, RemoteRest, RowsRest, FinishHandlers DEF Answer
-----------------------------------------------------------------------------
(* The rows. *)

LEMMA LockRows ==
  ASSUME RowsOK, NEW o \in Orders, NEW a \in Admins, NEW r \in Reqs,
         refunds[o].status = "NONE", Allowed(o),
         refunds' = [refunds EXCEPT ![o] = [status |-> "CREATED", operator |-> a, request |-> r]],
         LockedRows(o), UNCHANGED <<payments, wechat>>
  PROVE RowsOK'
  <1>. DEFINE new == [status |-> "CREATED", operator |-> a, request |-> r]
  <1>1. new \in Refund /\ new.status = "CREATED"
    BY DEF Refund, RefundStatus
  <1>2. refunds' = [refunds EXCEPT ![o] = new]
    OBVIOUS
  <1>. HIDE DEF new
  <1>3. refunds' \in [Orders -> Refund] /\ refunds'[o].status = "CREATED"
    BY <1>1, <1>2 DEF RowsOK
  <1>4. orders' \in [Orders -> [status : OrderStatus]] /\ orders'[o].status = "REFUNDING"
    BY DEF RowsOK, LockedRows, OrderStatus
  <1>5. /\ cards' \in [Orders -> [status : CardStatus, activated : BOOLEAN, uses : Nat]]
        /\ cards'[o].status = "REFUND_LOCKED" /\ cards'[o].uses = cards[o].uses
    BY DEF RowsOK, LockedRows, CardStatus
  <1>6. \A x \in Orders : x # o =>
          refunds'[x] = refunds[x] /\ orders'[x] = orders[x] /\ cards'[x] = cards[x]
    BY <1>2 DEF RowsOK, LockedRows
  <1>7. RefundStatesAgree'
    BY <1>3, <1>4, <1>5, <1>6 DEF RowsOK, RefundStatesAgree, InProgress
  <1>8. RefundedCardUnused' /\ ActivationKept' /\ SucceededIsPaidOut'
    BY <1>3, <1>5, <1>6 DEF RowsOK, Allowed, RefundedCardUnused, ActivationKept,
                            SucceededIsPaidOut, Refundable
  <1>. QED
    BY <1>3, <1>4, <1>5, <1>7, <1>8 DEF RowsOK

LEMMA FailedRows ==
  ASSUME RowsOK, NEW o \in Orders, refunds[o].status \in InProgress, Failed(o), UNCHANGED wechat
  PROVE RowsOK'
  <1>1. orders[o].status = "REFUNDING" /\ cards[o].status = "REFUND_LOCKED"
    BY DEF RowsOK, RefundStatesAgree
  <1>2. refunds' \in [Orders -> Refund] /\ refunds'[o].status = "FAILED"
    BY DEF RowsOK, Failed, Refund, RefundStatus
  <1>3. orders' \in [Orders -> [status : OrderStatus]] /\ orders'[o].status = "PAID"
    BY <1>1 DEF RowsOK, Failed, OrderStatus
  <1>4. /\ cards' \in [Orders -> [status : CardStatus, activated : BOOLEAN, uses : Nat]]
        /\ cards'[o].status = Restored(o) /\ cards'[o].activated = cards[o].activated
    BY <1>1 DEF RowsOK, Failed, CardStatus, Restored
  <1>5. \A x \in Orders : x # o =>
          refunds'[x] = refunds[x] /\ orders'[x] = orders[x] /\ cards'[x] = cards[x]
    BY DEF RowsOK, Failed
  <1>a. cards'[o].status \in Refundable
    BY <1>4 DEF Restored, Refundable
  <1>6. RefundStatesAgree'
    BY <1>2, <1>3, <1>5, <1>a DEF RowsOK, RefundStatesAgree, InProgress, Refundable
  <1>7. RefundedCardUnused' /\ ActivationKept' /\ SucceededIsPaidOut'
    BY <1>2, <1>4, <1>5 DEF RowsOK, RefundedCardUnused, ActivationKept, SucceededIsPaidOut,
                            Restored, Refundable
  <1>. QED
    BY <1>2, <1>3, <1>4, <1>6, <1>7 DEF RowsOK, Failed

LEMMA SucceededRows ==
  ASSUME RowsOK, NEW o \in Orders, refunds[o].status \in InProgress, wechat[o] = "SUCCESS",
         Succeeded(o), UNCHANGED wechat
  PROVE RowsOK'
  <1>1. /\ orders[o].status = "REFUNDING" /\ cards[o].status = "REFUND_LOCKED"
        /\ cards[o].uses = 0
    BY DEF RowsOK, RefundStatesAgree, RefundedCardUnused
  <1>2. refunds' \in [Orders -> Refund] /\ refunds'[o].status = "SUCCEEDED"
    BY DEF RowsOK, Succeeded, Refund, RefundStatus
  <1>3. orders' \in [Orders -> [status : OrderStatus]] /\ orders'[o].status = "REFUNDED"
    BY <1>1 DEF RowsOK, Succeeded, OrderStatus
  <1>4. /\ cards' \in [Orders -> [status : CardStatus, activated : BOOLEAN, uses : Nat]]
        /\ cards'[o].status = "REFUNDED" /\ cards'[o].uses = 0
    BY <1>1 DEF RowsOK, Succeeded, CardStatus
  <1>5. \A x \in Orders : x # o =>
          refunds'[x] = refunds[x] /\ orders'[x] = orders[x] /\ cards'[x] = cards[x]
    BY DEF RowsOK, Succeeded
  <1>6. RefundStatesAgree'
    BY <1>2, <1>3, <1>4, <1>5 DEF RowsOK, RefundStatesAgree, InProgress
  <1>7. RefundedCardUnused' /\ ActivationKept' /\ SucceededIsPaidOut'
    BY <1>2, <1>4, <1>5 DEF RowsOK, RefundedCardUnused, ActivationKept, SucceededIsPaidOut,
                            Refundable
  <1>. QED
    BY <1>2, <1>3, <1>4, <1>6, <1>7 DEF RowsOK, Succeeded

LEMMA MarkedRows ==
  ASSUME RowsOK, NEW o \in Orders, refunds[o].status \in InProgress,
         NEW status \in {"PROCESSING", "ABNORMAL"}, Marked(o, status), UNCHANGED wechat
  PROVE RowsOK'
  <1>1. /\ refunds' \in [Orders -> Refund] /\ refunds'[o].status = status
        /\ \A x \in Orders : x # o => refunds'[x] = refunds[x]
    BY DEF RowsOK, Marked, Refund, RefundStatus
  <1>2. UNCHANGED <<orders, payments, cards>>
    BY DEF Marked
  <1>. QED
    BY <1>1, <1>2 DEF RowsOK, RefundStatesAgree, RefundedCardUnused, ActivationKept,
                      SucceededIsPaidOut, InProgress

\* Whatever WeChat says of a refund is applied to the rows as a whole.
LEMMA ApplyRows ==
  ASSUME RowsOK, NEW o \in Orders, NEW result \in WechatStatus,
         result = "SUCCESS" => wechat[o] = "SUCCESS",
         ApplyRefundResult(o, result), UNCHANGED wechat
  PROVE RowsOK'
  <1>1. CASE UNCHANGED rows
    BY <1>1, RowsRest DEF Settled
  <1>2. CASE refunds[o].status \in InProgress /\ result = "SUCCESS" /\ Succeeded(o)
    BY <1>2, SucceededRows
  <1>3. CASE refunds[o].status \in InProgress /\ result = "CLOSED" /\ Failed(o)
    BY <1>3, FailedRows
  <1>4. CASE /\ refunds[o].status \in InProgress /\ result \in {"PROCESSING", "ABNORMAL"}
             /\ Marked(o, result)
    BY <1>4, MarkedRows
  <1>. QED
    BY <1>1, <1>2, <1>3, <1>4 DEF ApplyRefundResult
-----------------------------------------------------------------------------
(* The actions. *)

LEMMA RequestInv ==
  ASSUME Inv, NEW p \in Procs, Request(p)
  PROVE Inv'
  <1>1. ASSUME NEW o \in Orders, NEW a \in Admins, NEW r \in Reqs, Lock(p, o, a, r)
        PROVE Inv'
    <2>1. RowsOK' /\ RemoteOK' /\ Settled
      BY <1>1, Parts, LockRows, RemoteRest DEF Lock, remote
    <2>2. Goto(p, [pc |-> "locked", order |-> o, result |-> "NONE"])
      BY <1>1 DEF Lock
    <2>. QED
      BY <2>1, <2>2, Parts, Join, GotoHandlers DEF WechatStatus
  <1>2. ASSUME NEW o \in Orders, NEW a \in Admins, NEW r \in Reqs, Resume(p, o, a, r)
        PROVE Inv'
    <2>1. CASE Answer(p, "RECORD")
      BY <2>1, AnswerInv DEF Reply
    <2>2. CASE /\ Goto(p, [pc |-> "locked", order |-> o, result |-> "NONE"])
               /\ UNCHANGED <<rows, remote>>
      BY <2>2, Parts, Join, RowsRest, RemoteRest, GotoHandlers DEF WechatStatus
    <2>. QED
      BY <1>2, <2>1, <2>2 DEF Resume
  <1>3. ASSUME NEW o \in Orders, NEW a \in Admins, NEW r \in Reqs, Refuse(p, o, a, r)
        PROVE Inv'
    BY <1>3, AnswerInv DEF Refuse, Reply
  <1>4. ASSUME NEW o \in Orders, Sync(p, o) PROVE Inv'
    <2>1. CASE Answer(p, "REFUND_NOT_FOUND") \/ Answer(p, "WECHAT_REFUND_QUERY_FAILED")
      BY <2>1, AnswerInv DEF Reply
    <2>2. CASE /\ Goto(p, [pc |-> "answered", order |-> o, result |-> wechat[o]])
               /\ UNCHANGED <<rows, remote>>
      <3>1. RowsOK' /\ RemoteOK' /\ Settled /\ wechat[o] \in WechatStatus /\ wechat'[o] = wechat[o]
        BY <2>2, Parts, RowsRest, RemoteRest DEF remote, RemoteOK
      <3>. QED
        BY <2>2, <3>1, Parts, Join, GotoHandlers
    <2>. QED
      BY <1>4, <2>1, <2>2 DEF Sync
  <1>. QED
    BY <1>1, <1>2, <1>3, <1>4 DEF Request

\* WeChat takes a refund on.
LEMMA AcceptedRemote ==
  ASSUME RemoteOK, NEW o \in Orders, wechat' = Accepted(o), UNCHANGED notices, late' \subseteq late
  PROVE RemoteOK' /\ Settled
  <1>1. /\ wechat' \in [Orders -> WechatStatus]
        /\ \A x \in Orders : wechat[x] # "NONE" => wechat'[x] = wechat[x]
    BY DEF RemoteOK, Accepted, WechatStatus
  <1>. QED
    BY <1>1 DEF RemoteOK, Settled

LEMMA StepInv ==
  ASSUME Inv, NEW p \in Procs, Step(p)
  PROVE Inv'
  <1>. DEFINE o == attempts[p].order
  <1>1. attempts[p] \in Attempt /\ o \in Orders
    BY Parts DEF Step, CallAccepted, CallRejected, CallUnknown, ApplyAnswer, FailRefundRequest,
                 HandlersOK, HandlerOK
  <1>2. CASE CallAccepted(p)
    <2>1. wechat' = Accepted(o) /\ UNCHANGED <<rows, notices, late>>
      BY <1>2 DEF CallAccepted
    <2>2. RemoteOK' /\ Settled /\ RowsOK'
      BY <1>1, <2>1, Parts, AcceptedRemote, RowsRest
    <2>3. wechat'[o] \in WechatStatus
      BY <1>1, <2>2 DEF RemoteOK
    <2>4. Goto(p, [pc |-> "answered", order |-> o, result |-> wechat'[o]])
      BY <1>2, <2>1 DEF CallAccepted
    <2>. QED
      BY <1>1, <2>2, <2>3, <2>4, Parts, Join, GotoHandlers
  <1>3. CASE CallRejected(p)
    <2>1. Goto(p, [pc |-> "rejected", order |-> o, result |-> attempts[p].result])
      BY <1>1, <1>3 DEF CallRejected, Attempt
    <2>. QED
      BY <1>1, <1>3, <2>1, Parts, Join, RowsRest, RemoteRest, GotoHandlers DEF CallRejected, Attempt
  <1>4. CASE CallUnknown(p)
    <2>1. RemoteOK' /\ Settled
      BY <1>1, <1>4, Parts DEF CallUnknown, RemoteOK, Settled
    <2>. QED
      BY <1>4, <2>1, Parts, Join, RowsRest, FinishHandlers DEF CallUnknown, Reply
  <1>5. CASE ApplyAnswer(p)
    <2>1. attempts[p].result \in WechatStatus
          /\ (attempts[p].result = "SUCCESS" => wechat[o] = "SUCCESS")
      BY <1>1, <1>5, Parts DEF ApplyAnswer, HandlersOK, HandlerOK, Attempt
    <2>2. RemoteOK' /\ Settled /\ UNCHANGED wechat
      BY <1>5, Parts, RemoteRest DEF ApplyAnswer, remote
    <2>3. RowsOK'
      BY <1>1, <1>5, <2>1, <2>2, Parts, ApplyRows DEF ApplyAnswer
    <2>. QED
      BY <1>5, <2>2, <2>3, Parts, Join, FinishHandlers DEF ApplyAnswer, Reply
  <1>6. CASE FailRefundRequest(p)
    <2>1. RemoteOK' /\ Settled /\ UNCHANGED wechat
      BY <1>6, Parts, RemoteRest DEF FailRefundRequest, remote
    <2>2. \/ refunds[o].status = "CREATED" /\ Failed(o)
          \/ UNCHANGED rows
      BY <1>6 DEF FailRefundRequest
    <2>3. RowsOK'
      BY <1>1, <2>1, <2>2, Parts, FailedRows, RowsRest DEF InProgress
    <2>. QED
      BY <1>6, <2>1, <2>3, Parts, Join, FinishHandlers DEF FailRefundRequest, Reply
  <1>. QED
    BY <1>2, <1>3, <1>4, <1>5, <1>6 DEF Step

LEMMA WechatInv ==
  ASSUME Inv, Wechat
  PROVE Inv'
  <1>1. ASSUME NEW o \in Orders, NEW status \in WechatStatus, Progress(o, status) PROVE Inv'
    <2>. DEFINE n == [order |-> o, status |-> status]
    <2>1. /\ wechat[o] \in {"PROCESSING", "ABNORMAL"} /\ wechat' = [wechat EXCEPT ![o] = status]
          /\ notices' = notices \cup {n}
          /\ UNCHANGED <<rows, late, attempts, replies>>
      BY <1>1 DEF Progress
    <2>2. /\ wechat' \in [Orders -> WechatStatus] /\ wechat'[o] = status
          /\ \A x \in Orders : x # o => wechat'[x] = wechat[x]
      BY <2>1, Parts DEF RemoteOK
    <2>3. Settled
      BY <2>1, <2>2 DEF Settled
    <2>4. n.order = o /\ n.status = status /\ n \in [order : Orders, status : WechatStatus]
      OBVIOUS
    <2>. HIDE DEF n
    <2>5. \A k \in notices' : k.status \in {"SUCCESS", "CLOSED"} => wechat'[k.order] = k.status
      BY <2>1, <2>2, <2>4, Parts DEF RemoteOK
    <2>6. RemoteOK'
      BY <2>1, <2>2, <2>4, <2>5, Parts DEF RemoteOK
    <2>. QED
      BY <2>1, <2>3, <2>6, Parts, Join, RowsRest, HandlersRest
  <1>2. ASSUME NEW o \in Orders, LateArrival(o) PROVE Inv'
    BY <1>2, Parts, Join, AcceptedRemote, RowsRest, HandlersRest DEF LateArrival
  <1>3. ASSUME NEW n \in notices, RefundNotify(n) PROVE Inv'
    <2>1. n.order \in Orders /\ n.status \in WechatStatus
          /\ (n.status = "SUCCESS" => wechat[n.order] = "SUCCESS")
      BY Parts, Join DEF RemoteOK
    <2>2. RemoteOK' /\ Settled /\ UNCHANGED wechat /\ UNCHANGED <<attempts, replies>>
      BY <1>3, Parts, Join, RemoteRest DEF RefundNotify, remote
    <2>3. RowsOK'
      BY <1>3, <2>1, <2>2, Parts, ApplyRows DEF RefundNotify
    <2>. QED
      BY <2>2, <2>3, Parts, Join, HandlersRest
  <1>. QED
    BY <1>1, <1>2, <1>3 DEF Wechat

\* A card that is used or expires is not under refund, and does not come under it.
LEMMA UseInv ==
  ASSUME Inv, UseOfCards
  PROVE Inv'
  <1>1. PICK o \in Orders : Redeem(o) \/ ExpireCard(o)
    BY DEF UseOfCards
  <1>2. UNCHANGED <<orders, payments, refunds, remote, attempts, replies>>
    BY <1>1 DEF Redeem, ExpireCard
  <1>3. cards[o] \in [status : CardStatus, activated : BOOLEAN, uses : Nat]
    BY Parts DEF RowsOK
  <1>4. /\ cards' \in [Orders -> [status : CardStatus, activated : BOOLEAN, uses : Nat]]
        /\ \A x \in Orders : x # o => cards'[x] = cards[x]
        /\ cards[o].status \notin {"REFUND_LOCKED", "REFUNDED"}
        /\ cards'[o].status \in {"ACTIVE", "USED_UP", "EXPIRED"}
        /\ cards'[o].status = "ACTIVE" => cards'[o].activated = TRUE
    <2>1. CASE Redeem(o)
      <3>. DEFINE new == [status |-> IF cards[o].uses + 1 = MaxUses THEN "USED_UP" ELSE "ACTIVE",
                          activated |-> TRUE, uses |-> cards[o].uses + 1]
      <3>1. /\ new \in [status : CardStatus, activated : BOOLEAN, uses : Nat]
            /\ new.status \in {"ACTIVE", "USED_UP"} /\ new.activated = TRUE
        BY <1>3 DEF CardStatus
      <3>2. /\ cards' = [cards EXCEPT ![o] = new]
            /\ cards[o].status \in {"ACTIVE", "PENDING_ACTIVATION"}
        BY <2>1 DEF Redeem
      <3>. HIDE DEF new
      <3>. QED
        BY <3>1, <3>2, Parts DEF RowsOK
    <2>2. CASE ExpireCard(o)
      BY <1>3, <2>2, Parts DEF RowsOK, ExpireCard, CardStatus
    <2>. QED
      BY <1>1, <2>1, <2>2
  <1>5. RowsOK'
    <2>1. RefundStatesAgree'
      BY <1>2, <1>4, Parts DEF RowsOK, RefundStatesAgree
    <2>2. RefundedCardUnused' /\ ActivationKept' /\ SucceededIsPaidOut'
      BY <1>2, <1>4, Parts DEF RowsOK, RefundedCardUnused, ActivationKept,
                               SucceededIsPaidOut, Refundable, remote
    <2>. QED
      BY <1>2, <1>4, <2>1, <2>2, Parts DEF RowsOK
  <1>. QED
    BY <1>2, <1>5, Parts, Join, RemoteRest, HandlersRest

LEMMA InitInv == Init => Inv
  <1>. SUFFICES ASSUME Init PROVE Inv
    OBVIOUS
  <1>1. NoRefund \in Refund /\ NoRefund.status = "NONE"
    BY DEF NoRefund, Refund, RefundStatus
  <1>2. Idle \in Attempt /\ Idle.pc = "done"
    BY DEF Idle, Attempt, WechatStatus
  <1>3. HandlersOK /\ RemoteOK
    BY <1>2 DEF Init, HandlersOK, HandlerOK, RemoteOK, Reply, WechatStatus
  <1>4. /\ cards \in [Orders -> [status : CardStatus, activated : BOOLEAN, uses : Nat]]
        /\ \A o \in Orders : /\ cards[o].status = "PENDING_ACTIVATION" <=> ~cards[o].activated
                             /\ cards[o].status \in {"PENDING_ACTIVATION", "ACTIVE"}
                             /\ cards[o].uses = 0
    <2>1. PICK first \in SUBSET Orders :
            cards = [o \in Orders |->
              [status |-> IF o \in first THEN "PENDING_ACTIVATION" ELSE "ACTIVE",
               activated |-> o \notin first, uses |-> 0]]
      BY DEF Init
    <2>2. ASSUME NEW o \in Orders
          PROVE  /\ cards[o] \in [status : CardStatus, activated : BOOLEAN, uses : Nat]
                 /\ cards[o].status = "PENDING_ACTIVATION" <=> ~cards[o].activated
                 /\ cards[o].status \in {"PENDING_ACTIVATION", "ACTIVE"}
                 /\ cards[o].uses = 0
      <3>1. CASE o \in first
        BY <2>1, <3>1 DEF CardStatus
      <3>2. CASE o \notin first
        BY <2>1, <3>2 DEF CardStatus
      <3>. QED
        BY <3>1, <3>2
    <2>3. cards = [o \in Orders |-> cards[o]]
      BY <2>1
    <2>. QED
      BY <2>2, <2>3
  <1>5. RowsOK
    BY <1>1, <1>4 DEF Init, RowsOK, RefundStatesAgree, RefundedCardUnused, ActivationKept,
                      SucceededIsPaidOut, InProgress, OrderStatus, Refundable
  <1>. QED
    BY <1>3, <1>5, Parts

LEMMA NextInv == Inv /\ [Next]_vars => Inv'
  <1>. SUFFICES ASSUME Inv, [Next]_vars PROVE Inv'
    OBVIOUS
  <1>1. ASSUME NEW p \in Procs, Abort(p) PROVE Inv'
    BY <1>1, AnswerInv DEF Abort, Reply
  <1>2. CASE UNCHANGED vars
    BY <1>2, Parts, Join, RowsRest, RemoteRest, HandlersRest DEF vars, rows, remote
  <1>. QED
    BY <1>1, <1>2, RequestInv, StepInv, WechatInv, UseInv DEF Next

LEMMA InvAlways == Spec => []Inv
  BY InitInv, NextInv, PTL DEF Spec

\* Every row of a refund, WeChat's side and every handler keep their types.
THEOREM TypeCorrect == Spec => []TypeOK
  BY InvAlways, PTL DEF Inv

\* Refund, order and card move together, whatever lockForRefund, the two ways a
\* refund fails, its success, and the redemption or expiry of the card do between.
THEOREM RefundRowsAgree == Spec => []RefundStatesAgree
  BY InvAlways, PTL DEF Inv

\* No redeemed card is locked for a refund or refunded.
THEOREM RefundsOnlyUnused == Spec => []RefundedCardUnused
  BY InvAlways, PTL DEF Inv

\* applyRefundResult says SUCCEEDED only of a refund WeChat has paid out.
THEOREM PaidOutIfSucceeded == Spec => []SucceededIsPaidOut
  BY InvAlways, PTL DEF Inv

\* A failed refund gives the card back in the state its activation calls for.
THEOREM ActivationRestored == Spec => []ActivationKept
  BY InvAlways, PTL DEF Inv
-----------------------------------------------------------------------------
(* What a step may not do. *)

LEMMA ApplyFinal ==
  ASSUME RowsOK, NEW o \in Orders, NEW result, ApplyRefundResult(o, result),
         NEW x \in Orders, refunds[x].status \in Final
  PROVE refunds'[x] = refunds[x]
  <1>1. Final \cap InProgress = {}
    BY DEF Final, InProgress
  <1>2. CASE UNCHANGED rows
    BY <1>2 DEF rows
  <1>3. CASE x # o
    BY <1>3 DEF RowsOK, ApplyRefundResult, Succeeded, Failed, Marked, rows
  <1>. QED
    BY <1>1, <1>2, <1>3 DEF ApplyRefundResult

LEMMA FinalStep ==
  ASSUME Inv, [Next]_vars, NEW x \in Orders, refunds[x].status \in Final
  PROVE refunds'[x] = refunds[x]
  <1>. USE Parts
  <1>1. ASSUME NEW p \in Procs, Request(p) PROVE refunds'[x] = refunds[x]
    <2>1. ASSUME NEW o \in Orders, NEW a \in Admins, NEW r \in Reqs, Lock(p, o, a, r)
          PROVE refunds'[x] = refunds[x]
      <3>1. x # o
        BY <2>1 DEF Lock, Final
      <3>. QED
        BY <2>1, <3>1 DEF Lock, RowsOK
    <2>. QED
      BY <1>1, <2>1 DEF Request, Resume, Refuse, Sync, Answer, rows
  <1>2. ASSUME NEW p \in Procs, Step(p) PROVE refunds'[x] = refunds[x]
    <2>1. CASE ApplyAnswer(p)
      <3>1. attempts[p].order \in Orders
        BY <2>1 DEF ApplyAnswer, HandlersOK, HandlerOK
      <3>. QED
        BY <2>1, <3>1, ApplyFinal DEF ApplyAnswer
    <2>2. CASE FailRefundRequest(p)
      <3>1. attempts[p].order \in Orders
        BY <2>2 DEF FailRefundRequest, HandlersOK, HandlerOK
      <3>2. refunds[attempts[p].order].status = "CREATED" => x # attempts[p].order
        BY DEF Final
      <3>. QED
        BY <2>2, <3>1, <3>2 DEF FailRefundRequest, Failed, rows, RowsOK
    <2>. QED
      BY <1>2, <2>1, <2>2 DEF Step, CallAccepted, CallRejected, CallUnknown, rows
  <1>3. ASSUME Wechat PROVE refunds'[x] = refunds[x]
    <2>1. ASSUME NEW n \in notices, RefundNotify(n) PROVE refunds'[x] = refunds[x]
      <3>1. n.order \in Orders
        BY DEF RemoteOK
      <3>. QED
        BY <2>1, <3>1, ApplyFinal DEF RefundNotify
    <2>. QED
      BY <1>3, <2>1 DEF Wechat, Progress, LateArrival, rows
  <1>4. ASSUME UseOfCards PROVE refunds'[x] = refunds[x]
    BY <1>4 DEF UseOfCards, Redeem, ExpireCard
  <1>5. ASSUME NEW p \in Procs, Abort(p) PROVE refunds'[x] = refunds[x]
    BY <1>5 DEF Abort, Answer, rows
  <1>. QED
    BY <1>1, <1>2, <1>3, <1>4, <1>5 DEF Next, vars

\* A refund that has succeeded or failed is left alone by every later answer,
\* notice and request.
THEOREM FinalKept == Spec => FinalRefundKept
  <1>1. Inv /\ [Next]_vars =>
          [\A o \in Orders : refunds[o].status \in Final => refunds'[o] = refunds[o]]_vars
    BY FinalStep
  <1>. QED
    BY <1>1, InvAlways, PTL DEF Spec, FinalRefundKept

LEMMA ApplyRestores ==
  ASSUME RowsOK, NEW o \in Orders, NEW result, ApplyRefundResult(o, result),
         NEW x \in Orders, cards[x].status = "REFUND_LOCKED", cards'[x].status \in Refundable
  PROVE x = o /\ result = "CLOSED"
  <1>1. cards'[x] # cards[x] /\ cards'[x].status # "REFUNDED"
    BY DEF Refundable
  <1>2. ~UNCHANGED cards
    BY <1>1
  <1>3. (result = "SUCCESS" /\ Succeeded(o)) \/ (result = "CLOSED" /\ Failed(o))
    BY <1>2 DEF ApplyRefundResult, Marked, rows
  <1>4. x = o
    BY <1>1, <1>3 DEF RowsOK, Succeeded, Failed
  <1>5. ~Succeeded(o)
    BY <1>1, <1>4 DEF RowsOK, Succeeded
  <1>. QED
    BY <1>3, <1>4, <1>5

LEMMA RestoreStep ==
  ASSUME Inv, [Next]_vars, NEW x \in Orders,
         cards[x].status = "REFUND_LOCKED", cards'[x].status \in Refundable
  PROVE \/ wechat[x] = "CLOSED"
        \/ \E p \in Procs : attempts[p].pc = "rejected" /\ attempts[p].order = x
  <1>. DEFINE Word == \/ wechat[x] = "CLOSED"
                     \/ \E p \in Procs : attempts[p].pc = "rejected" /\ attempts[p].order = x
  <1>0. cards'[x] # cards[x] /\ ~UNCHANGED cards
    BY DEF Refundable
  <1>1. ASSUME NEW p \in Procs, Request(p) PROVE FALSE
    <2>1. ASSUME NEW o \in Orders, NEW a \in Admins, NEW r \in Reqs, Lock(p, o, a, r)
          PROVE FALSE
      <3>1. x # o
        BY <2>1, Parts DEF Lock, RowsOK, RefundStatesAgree, InProgress
      <3>. QED
        BY <1>0, <2>1, <3>1, Parts DEF Lock, LockedRows, RowsOK
    <2>. QED
      BY <1>0, <1>1, <2>1 DEF Request, Resume, Refuse, Sync, Answer, rows
  <1>2. ASSUME NEW p \in Procs, Step(p) PROVE Word
    <2>1. CASE ApplyAnswer(p)
      <3>1. attempts[p].order \in Orders
        BY <2>1, Parts DEF ApplyAnswer, HandlersOK, HandlerOK
      <3>2. x = attempts[p].order /\ attempts[p].result = "CLOSED"
        BY <2>1, <3>1, Parts, ApplyRestores DEF ApplyAnswer
      <3>. QED
        BY <2>1, <3>2, Parts DEF ApplyAnswer, HandlersOK, HandlerOK
    <2>2. CASE FailRefundRequest(p)
      <3>1. x = attempts[p].order
        BY <1>0, <2>2, Parts DEF FailRefundRequest, Failed, rows, RowsOK
      <3>. QED
        BY <2>2, <3>1 DEF FailRefundRequest
    <2>. QED
      BY <1>0, <1>2, <2>1, <2>2 DEF Step, CallAccepted, CallRejected, CallUnknown, rows
  <1>3. ASSUME Wechat PROVE Word
    <2>1. ASSUME NEW n \in notices, RefundNotify(n) PROVE Word
      <3>1. n.order \in Orders
        BY Parts DEF RemoteOK
      <3>2. x = n.order /\ n.status = "CLOSED"
        BY <2>1, <3>1, Parts, ApplyRestores DEF RefundNotify
      <3>. QED
        BY <3>2, Parts DEF RemoteOK
    <2>. QED
      BY <1>0, <1>3, <2>1 DEF Wechat, Progress, LateArrival, rows
  <1>4. ASSUME UseOfCards PROVE FALSE
    <2>1. PICK o \in Orders : Redeem(o) \/ ExpireCard(o)
      BY <1>4 DEF UseOfCards
    <2>2. x # o
      BY <2>1 DEF Redeem, ExpireCard
    <2>. QED
      BY <1>0, <2>1, <2>2, Parts DEF Redeem, ExpireCard, RowsOK
  <1>5. ASSUME NEW p \in Procs, Abort(p) PROVE FALSE
    BY <1>0, <1>5 DEF Abort, Answer, rows
  <1>. QED
    BY <1>0, <1>1, <1>2, <1>3, <1>4, <1>5 DEF Next, vars

\* A locked card is given back only after WeChat closed the refund or rejected it.
THEOREM CardRestored == Spec => RestoredOnWechatsWord
  <1>1. Inv /\ [Next]_vars =>
          [\A o \in Orders : cards[o].status = "REFUND_LOCKED" /\ cards'[o].status \in Refundable =>
             \/ wechat[o] = "CLOSED"
             \/ \E p \in Procs : attempts[p].pc = "rejected" /\ attempts[p].order = o]_vars
    BY RestoreStep
  <1>. QED
    BY <1>1, InvAlways, PTL DEF Spec, RestoredOnWechatsWord
=============================================================================
