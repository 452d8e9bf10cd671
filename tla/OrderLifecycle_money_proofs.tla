---------------------- MODULE OrderLifecycle_money_proofs ----------------------
(* Proofs that WeChat's money stands behind the rows of purchase and refund   *)
(* together.  WeChat does not go back on what it has paid, taken or refused;   *)
(* so what a handler or a notice carries stays true until it is applied.       *)
EXTENDS OrderLifecycle_proofs

LEMMA MoneyTypes ==
  Inv => /\ RowTypes /\ trades \in [Orders -> {"NONE", "NOTPAY", "SUCCESS", "CLOSED"}]
         /\ tx \in [Procs -> Buying!Tx]
  BY Types DEF Inv, TypeOK, Buying!TypeOK
-----------------------------------------------------------------------------
(* The steps of the purchase. *)

\* A step of the purchase: trades that are paid stay so, a card comes of a paid
\* trade, and a handler settles what it has seen paid.
SeenPaid(t) == t.order \in Orders /\ trades[t.order] = "SUCCESS"
PaidStep ==
  /\ \A o \in Orders : trades[o] = "SUCCESS" => trades'[o] = "SUCCESS"
  /\ \A o \in Orders : payments'[o] = "SUCCEEDED" => payments[o] = "SUCCEEDED" \/ trades[o] = "SUCCESS"
  /\ \A p \in Procs : tx'[p].pc = "syncPaid" => tx'[p] = tx[p] \/ SeenPaid(tx'[p])

\* A handler p takes up t, or gives up, and no money has moved.
LEMMA HandlerPaid ==
  ASSUME Inv, NEW p \in Procs, NEW t, tx' = [tx EXCEPT ![p] = t],
         t.pc = "syncPaid" => SeenPaid(t)
  PROVE \A q \in Procs : tx'[q].pc = "syncPaid" => tx'[q] = tx[q] \/ SeenPaid(tx'[q])
  BY MoneyTypes

LEMMA FinishPaid ==
  ASSUME Inv, NEW p \in Procs, NEW outcome, Buying!Finish(p, outcome)
  PROVE \A q \in Procs : tx'[q].pc = "syncPaid" => tx'[q] = tx[q] \/ SeenPaid(tx'[q])
  BY HandlerPaid DEF Buying!Finish, Buying!NoTx

LEMMA ReplyPaid ==
  ASSUME Inv, NEW p \in Procs, NEW outcome, Buying!Reply(p, outcome)
  PROVE PaidStep
  BY FinishPaid DEF Buying!Reply, PaidStep

LEMMA BeginPaid ==
  ASSUME Inv, NEW p \in Procs, NEW t, Buying!Begin(p, t),
         t.pc = "syncPaid" => SeenPaid(t)
  PROVE PaidStep
  BY HandlerPaid DEF Buying!Begin, PaidStep

LEMMA RequestPaid ==
  ASSUME Inv, NEW p \in Procs, Buying!Request(p)
  PROVE PaidStep
  <1>1. ASSUME NEW u \in Users, NEW r \in Reqs, Buying!BeginCreate(p, u, r) PROVE PaidStep
    <2>. DEFINE t == [Buying!NoTx EXCEPT !.pc = "createStarted", !.user = u, !.request = r,
                                         !.purchased = Buying!Cardinality(Buying!Counted(u))]
    <2>1. t.pc = "createStarted"
      BY DEF Buying!NoTx
    <2>2. Buying!Reply(p, "EXISTING") \/ Buying!Begin(p, t)
      BY <1>1 DEF Buying!BeginCreate
    <2>. HIDE DEF t
    <2>. QED
      BY <2>1, <2>2, ReplyPaid, BeginPaid
  <1>2. ASSUME NEW o \in Orders, Buying!BeginPrepare(p, o) PROVE PaidStep
    <2>1. CASE Buying!Reply(p, "ORDER_NOT_PAYABLE")
      BY <2>1, ReplyPaid
    <2>2. ASSUME NEW pc \in {"prepareLapsed", "prepareLoaded"},
                 Buying!Begin(p, [Buying!NoTx EXCEPT !.pc = pc, !.order = o])
          PROVE PaidStep
      <3>1. [Buying!NoTx EXCEPT !.pc = pc, !.order = o].pc = pc
        BY DEF Buying!NoTx
      <3>. QED
        BY <2>2, <3>1, BeginPaid
    <2>. QED
      BY <1>2, <2>1, <2>2 DEF Buying!BeginPrepare
  <1>3. ASSUME NEW o \in Orders, Buying!BeginSync(p, o) PROVE PaidStep
    <2>. DEFINE t == [Buying!NoTx EXCEPT !.pc = "syncPaid", !.order = o]
    <2>1. t.order = o
      BY DEF Buying!NoTx
    <2>2. \/ trades[o] = "SUCCESS" /\ Buying!Begin(p, t)
          \/ Buying!Reply(p, "NOT_PAID_YET")
      BY <1>3 DEF Buying!BeginSync
    <2>. HIDE DEF t
    <2>. QED
      BY <2>1, <2>2, ReplyPaid, BeginPaid DEF SeenPaid
  <1>. QED
    BY <1>1, <1>2, <1>3 DEF Buying!Request

\* Settling makes the payment row of this order, and of no other, SUCCEEDED.
LEMMA SettlePaid ==
  ASSUME Inv, NEW o, trades[o] = "SUCCESS", Buying!Settle(o)
  PROVE /\ \A x \in Orders : trades[x] = "SUCCESS" => trades'[x] = "SUCCESS"
        /\ \A x \in Orders : payments'[x] = "SUCCEEDED" =>
             payments[x] = "SUCCEEDED" \/ trades[x] = "SUCCESS"
  BY MoneyTypes DEF Buying!Settle, RowTypes

LEMMA StepPaid ==
  ASSUME Inv, PaidSyncs, NEW p \in Procs, Buying!Step(p)
  PROVE PaidStep
  <1>. DEFINE o == tx[p].order
  <1>1. ASSUME NEW pc, pc # "syncPaid", tx' = [tx EXCEPT ![p].pc = pc]
        PROVE \A q \in Procs : tx'[q].pc = "syncPaid" => tx'[q] = tx[q]
    BY <1>1, MoneyTypes DEF Buying!Tx
  <1>2. CASE Buying!CreateCheck(p)
    <2>1. CASE /\ tx' = [tx EXCEPT ![p].pc = "createChecked", ![p].mode = product.mode]
               /\ UNCHANGED <<clock, product, orders, payments, cards, trades, answer>>
      <3>1. \A q \in Procs : tx'[q].pc = "syncPaid" => tx'[q] = tx[q]
        BY <2>1, MoneyTypes DEF Buying!Tx
      <3>. QED
        BY <2>1, <3>1 DEF PaidStep
    <2>. QED
      BY <1>2, <2>1, ReplyPaid DEF Buying!CreateCheck
  <1>3. CASE Buying!CreateInsert(p)
    <2>1. CASE Buying!Finish(p, "CREATED") /\ UNCHANGED <<payments, trades>>
      BY <2>1, FinishPaid DEF PaidStep
    <2>. QED
      BY <1>3, <2>1, ReplyPaid DEF Buying!CreateInsert
  <1>4. CASE Buying!PrepareClose(p)
    BY <1>4, FinishPaid DEF Buying!PrepareClose, PaidStep
  <1>5. CASE Buying!EnsurePaymentTransaction(p)
    <2>1. \A x \in Orders : payments'[x] = "SUCCEEDED" => payments[x] = "SUCCEEDED"
      BY <1>5, MoneyTypes DEF Buying!EnsurePaymentTransaction, RowTypes
    <2>2. UNCHANGED trades /\ tx' = [tx EXCEPT ![p].pc = "prepareRecorded"]
      BY <1>5 DEF Buying!EnsurePaymentTransaction
    <2>. QED
      BY <1>1, <2>1, <2>2 DEF PaidStep
  <1>6. CASE Buying!Prepay(p)
    <2>1. /\ \A x \in Orders : trades[x] = "SUCCESS" => trades'[x] = "SUCCESS"
          /\ UNCHANGED payments
      BY <1>6, MoneyTypes DEF Buying!Prepay
    <2>2. Buying!Finish(p, "PREPARED") \/ Buying!Finish(p, "WECHAT_PREPAY_FAILED")
      BY <1>6 DEF Buying!Prepay
    <2>. QED
      BY <2>1, <2>2, FinishPaid DEF PaidStep
  <1>7. CASE Buying!SyncSettle(p)
    <2>1. CASE Buying!Settle(o) /\ Buying!Finish(p, "SETTLED")
      <3>1. trades[o] = "SUCCESS"
        BY <1>7 DEF Buying!SyncSettle, PaidSyncs
      <3>. HIDE DEF o
      <3>. QED
        BY <2>1, <3>1, SettlePaid, FinishPaid DEF PaidStep
    <2>. QED
      BY <1>7, <2>1, ReplyPaid DEF Buying!SyncSettle
  <1>. QED
    BY <1>2, <1>3, <1>4, <1>5, <1>6, <1>7 DEF Buying!Step

LEMMA BuyingPaid ==
  ASSUME Inv, PaidSyncs, Buying!Next
  PROVE PaidStep
  <1>1. ASSUME NEW p \in Procs, Buying!Abort(p) PROVE PaidStep
    BY <1>1, ReplyPaid DEF Buying!Abort
  <1>2. ASSUME NEW o \in Orders, Buying!Notify(o) PROVE PaidStep
    BY <1>2, SettlePaid DEF Buying!Notify, PaidStep
  <1>3. ASSUME NEW o \in Orders, Buying!Pay(o) \/ Buying!ExpireTrade(o) PROVE PaidStep
    BY <1>3, MoneyTypes DEF Buying!Pay, Buying!ExpireTrade, PaidStep
  <1>4. CASE UNCHANGED <<payments, trades, tx>>
    BY <1>4 DEF PaidStep
  <1>. QED
    BY <1>1, <1>2, <1>3, <1>4, RequestPaid, StepPaid
    DEF Buying!Next, Buying!Environment, Buying!CloseExpired, Buying!ChangeProduct, Buying!Tick
-----------------------------------------------------------------------------
(* The steps of the refund. *)

Concluded == {"SUCCESS", "CLOSED"}

\* What a step may not do to rows and to WeChat's refunds.
Kept == \A o \in Orders : refunds[o].status # "NONE" => refunds'[o].status # "NONE"
Settled == \A o \in Orders : wechat[o] \in Concluded => wechat'[o] = wechat[o]
PaysOut ==
  \A o \in Orders :
    refunds'[o].status = "SUCCEEDED" => refunds[o].status = "SUCCEEDED" \/ wechat[o] = "SUCCESS"

\* RemoteOK, Honest and RefundsBooked, apart for WeChat and for each handler.
WechatOK ==
  /\ wechat \in [Orders -> Refunding!WechatStatus]
  /\ notices \subseteq [order : Orders, status : Refunding!WechatStatus]
  /\ late \subseteq Orders
  /\ \A n \in notices : n.status \in Concluded => wechat[n.order] = n.status
  /\ \A o \in Orders : o \in late \/ wechat[o] # "NONE" => refunds[o].status # "NONE"
AttemptOK(a) ==
  /\ a.pc # "done" => a.order \in Orders /\ refunds[a.order].status # "NONE"
  /\ a.pc = "answered" /\ a.result \in Concluded => wechat[a.order] = a.result
ClerksOK == attempts \in [Clerks -> Refunding!Attempt] /\ \A q \in Clerks : AttemptOK(attempts[q])

LEMMA MoneyParts ==
  MoneyInv <=> /\ WechatOK /\ ClerksOK /\ PaidSyncs
               /\ Buying!CardOnlyForMoney /\ Refunding!SucceededIsPaidOut
  BY DEF MoneyInv, RemoteOK, RefundsBooked, Refunding!Honest, WechatOK, ClerksOK, AttemptOK, Concluded

LEMMA RowsKept == ASSUME Inv, [Next]_vars PROVE Kept
  <1>1. ASSUME NEW o \in Orders, refunds[o].status # "NONE" PROVE refunds'[o].status # "NONE"
    BY <1>1, NextRows
    DEF Inv, RowsStep, Rests, KeepsRows, Opens, Closes, Records, Settles, Locks, Fails, Succeeds,
        Marks, Redeems, Expires, Refunding!InProgress
  <1>. QED
    BY <1>1 DEF Kept

LEMMA WechatRest ==
  ASSUME WechatOK, Kept, UNCHANGED <<wechat, notices, late>>
  PROVE WechatOK' /\ Settled
  BY DEF WechatOK, Kept, Settled

LEMMA ClerksRest ==
  ASSUME ClerksOK, Kept, Settled, UNCHANGED attempts
  PROVE ClerksOK'
  BY DEF ClerksOK, AttemptOK, Kept, Settled

\* Clerk p's handler goes on with a; the others are not disturbed.
LEMMA ClerkGoes ==
  ASSUME ClerksOK, Kept, Settled, NEW p \in Clerks, NEW a \in Refunding!Attempt,
         attempts' = [attempts EXCEPT ![p] = a],
         a.pc # "done" => a.order \in Orders /\ refunds'[a.order].status # "NONE",
         a.pc = "answered" /\ a.result \in Concluded => wechat'[a.order] = a.result
  PROVE ClerksOK'
  <1>1. /\ attempts' \in [Clerks -> Refunding!Attempt] /\ attempts'[p] = a
        /\ \A q \in Clerks : q # p => attempts'[q] = attempts[q]
    BY DEF ClerksOK
  <1>2. ASSUME NEW q \in Clerks, q # p PROVE AttemptOK(attempts[q])'
    BY <1>1, <1>2 DEF ClerksOK, AttemptOK, Kept, Settled
  <1>3. AttemptOK(attempts[p])'
    BY <1>1 DEF AttemptOK
  <1>. QED
    BY <1>1, <1>2, <1>3 DEF ClerksOK

LEMMA ClerkFinishes ==
  ASSUME ClerksOK, Kept, Settled, NEW p \in Clerks, NEW r, Refunding!Finish(p, r)
  PROVE ClerksOK'
  <1>1. Refunding!Idle \in Refunding!Attempt /\ Refunding!Idle.pc = "done"
    BY DEF Refunding!Idle, Refunding!Attempt, Refunding!WechatStatus
  <1>2. attempts' = [attempts EXCEPT ![p] = Refunding!Idle]
    BY DEF Refunding!Finish
  <1>. QED
    BY <1>1, <1>2, ClerkGoes

LEMMA ClerkGoto ==
  ASSUME ClerksOK, Kept, Settled, NEW p \in Clerks, NEW pc \in {"locked", "answered", "rejected"},
         NEW o \in Orders, NEW result \in Refunding!WechatStatus, refunds'[o].status # "NONE",
         pc = "answered" => wechat'[o] = result,
         Refunding!Goto(p, [pc |-> pc, order |-> o, result |-> result])
  PROVE ClerksOK'
  <1>. DEFINE a == [pc |-> pc, order |-> o, result |-> result]
  <1>1. a \in Refunding!Attempt /\ a.pc = pc /\ a.order = o /\ a.result = result
    BY DEF Refunding!Attempt
  <1>2. attempts' = [attempts EXCEPT ![p] = a]
    BY DEF Refunding!Goto
  <1>. HIDE DEF a
  <1>. QED
    BY <1>1, <1>2, ClerkGoes

\* A refund is SUCCEEDED only by a result that is WeChat's SUCCESS.
\* An UPDATE of the status of one refund.
LEMMA StatusOnly ==
  ASSUME RowTypes, NEW o \in Orders, NEW st \in Refunding!RefundStatus,
         refunds' = [refunds EXCEPT ![o].status = st]
  PROVE refunds'[o].status = st /\ \A x \in Orders : x # o => refunds'[x] = refunds[x]
  BY DEF RowTypes, Refunding!Refund

LEMMA ApplyPaysOut ==
  ASSUME RowTypes, NEW o \in Orders, NEW result, result = "SUCCESS" => wechat[o] = "SUCCESS",
         Refunding!ApplyRefundResult(o, result)
  PROVE PaysOut /\ UNCHANGED payments
  <1>1. CASE UNCHANGED Refunding!rows
    BY <1>1 DEF Refunding!rows, PaysOut
  <1>2. CASE result = "SUCCESS" /\ Refunding!Succeeded(o)
    BY <1>2 DEF Refunding!Succeeded, PaysOut, RowTypes
  <1>3. CASE Refunding!Failed(o)
    BY <1>3, StatusOnly DEF Refunding!Failed, PaysOut, RowTypes
  <1>4. CASE result \in {"PROCESSING", "ABNORMAL"} /\ Refunding!Marked(o, result)
    BY <1>4, StatusOnly DEF Refunding!Marked, PaysOut, RowTypes
  <1>. QED
    BY <1>1, <1>2, <1>3, <1>4 DEF Refunding!ApplyRefundResult

\* What every step of the refund leaves true.
RefundMoney == WechatOK' /\ ClerksOK' /\ Settled /\ PaysOut /\ UNCHANGED payments

LEMMA AnswerMoney ==
  ASSUME WechatOK, ClerksOK, Kept, NEW p \in Clerks, NEW r, Refunding!Answer(p, r)
  PROVE RefundMoney
  <1>1. WechatOK' /\ Settled
    BY WechatRest DEF Refunding!Answer, Refunding!remote
  <1>2. ClerksOK'
    BY <1>1, ClerkFinishes DEF Refunding!Answer
  <1>. QED
    BY <1>1, <1>2 DEF Refunding!Answer, Refunding!rows, RefundMoney, PaysOut

LEMMA RequestMoney ==
  ASSUME Inv, WechatOK, ClerksOK, Kept, NEW p \in Clerks, Refunding!Request(p)
  PROVE RefundMoney
  <1>1. ASSUME NEW o \in Orders, NEW a \in Admins, NEW r \in Reqs, Refunding!Lock(p, o, a, r)
        PROVE RefundMoney
    <2>1. WechatOK' /\ Settled /\ UNCHANGED payments
      BY <1>1, WechatRest DEF Refunding!Lock, Refunding!remote
    <2>2. refunds' = [refunds EXCEPT ![o] = [status |-> "CREATED", operator |-> a, request |-> r]]
      BY <1>1 DEF Refunding!Lock
    <2>3. refunds'[o].status = "CREATED" /\ \A x \in Orders : x # o => refunds'[x] = refunds[x]
      BY <2>2, MoneyTypes DEF RowTypes
    <2>4. PaysOut
      BY <2>3 DEF PaysOut
    <2>5. Refunding!Goto(p, [pc |-> "locked", order |-> o, result |-> "NONE"])
      BY <1>1 DEF Refunding!Lock
    <2>6. ClerksOK'
      BY <2>1, <2>3, <2>5, ClerkGoto DEF Refunding!WechatStatus
    <2>. QED
      BY <2>1, <2>4, <2>6 DEF RefundMoney
  <1>2. ASSUME NEW o \in Orders, refunds[o].status # "NONE",
               NEW pc \in {"locked", "answered"}, NEW result \in Refunding!WechatStatus,
               pc = "answered" => wechat[o] = result,
               Refunding!Goto(p, [pc |-> pc, order |-> o, result |-> result]),
               UNCHANGED <<Refunding!rows, Refunding!remote>>
        PROVE RefundMoney
    <2>1. WechatOK' /\ Settled /\ UNCHANGED <<wechat, refunds, payments>>
      BY <1>2, WechatRest DEF Refunding!rows, Refunding!remote
    <2>2. refunds'[o].status # "NONE" /\ (pc = "answered" => wechat'[o] = result)
      BY <1>2, <2>1
    <2>3. ClerksOK'
      BY <1>2, <2>1, <2>2, ClerkGoto
    <2>. QED
      BY <2>1, <2>3 DEF RefundMoney, PaysOut
  <1>3. ASSUME NEW o \in Orders, NEW a \in Admins, NEW r \in Reqs, Refunding!Resume(p, o, a, r)
        PROVE RefundMoney
    <2>1. CASE Refunding!Answer(p, "RECORD")
      BY <2>1, AnswerMoney
    <2>. QED
      BY <1>2, <1>3, <2>1 DEF Refunding!Resume, Refunding!WechatStatus
  <1>4. ASSUME NEW o \in Orders, NEW a \in Admins, NEW r \in Reqs, Refunding!Refuse(p, o, a, r)
        PROVE RefundMoney
    BY <1>4, AnswerMoney DEF Refunding!Refuse
  <1>5. ASSUME NEW o \in Orders, Refunding!Sync(p, o) PROVE RefundMoney
    <2>1. wechat[o] \in Refunding!WechatStatus
      BY DEF WechatOK
    <2>2. \/ \E r : Refunding!Answer(p, r)
          \/ /\ refunds[o].status # "NONE"
             /\ Refunding!Goto(p, [pc |-> "answered", order |-> o, result |-> wechat[o]])
             /\ UNCHANGED <<Refunding!rows, Refunding!remote>>
      BY <1>5 DEF Refunding!Sync
    <2>. QED
      BY <1>2, <2>1, <2>2, AnswerMoney
  <1>. QED
    BY <1>1, <1>3, <1>4, <1>5 DEF Refunding!Request

\* WeChat takes on a refund that has its row.
LEMMA AcceptedMoney ==
  ASSUME WechatOK, Kept, NEW o \in Orders, refunds[o].status # "NONE",
         wechat' = Refunding!Accepted(o), UNCHANGED notices, late' \subseteq late
  PROVE WechatOK' /\ Settled
  <1>1. /\ wechat' \in [Orders -> Refunding!WechatStatus]
        /\ \A x \in Orders : wechat[x] # "NONE" => wechat'[x] = wechat[x]
        /\ \A x \in Orders : x # o => wechat'[x] = wechat[x]
    BY DEF WechatOK, Refunding!Accepted, Refunding!WechatStatus
  <1>2. Settled
    BY <1>1 DEF Settled, Concluded
  <1>3. \A n \in notices : n.status \in Concluded => wechat'[n.order] = n.status
    BY <1>2 DEF WechatOK, Settled
  <1>. QED
    BY <1>1, <1>2, <1>3 DEF WechatOK, Kept

LEMMA StepMoney ==
  ASSUME Inv, WechatOK, ClerksOK, Kept, NEW p \in Clerks, Refunding!Step(p)
  PROVE RefundMoney
  <1>. DEFINE o == attempts[p].order
  <1>1. attempts[p] \in Refunding!Attempt /\ attempts[p].pc # "done"
    BY DEF ClerksOK, Refunding!Step, Refunding!CallAccepted, Refunding!CallRejected,
           Refunding!CallUnknown, Refunding!ApplyAnswer, Refunding!FailRefundRequest
  <1>2. o \in Orders /\ refunds[o].status # "NONE"
    BY <1>1 DEF ClerksOK, AttemptOK
  <1>3. CASE Refunding!CallAccepted(p)
    <2>1. wechat' = Refunding!Accepted(o) /\ UNCHANGED <<notices, late, refunds, payments>>
      BY <1>3 DEF Refunding!CallAccepted, Refunding!rows
    <2>2. WechatOK' /\ Settled
      BY <1>2, <2>1, AcceptedMoney
    <2>3. wechat'[o] \in Refunding!WechatStatus /\ refunds'[o].status # "NONE"
      BY <1>2, <2>1, <2>2 DEF WechatOK
    <2>4. Refunding!Goto(p, [pc |-> "answered", order |-> o, result |-> wechat'[o]])
      BY <1>3, <2>1 DEF Refunding!CallAccepted
    <2>5. ClerksOK'
      <3>. HIDE DEF o
      <3>1. PICK result \in Refunding!WechatStatus : result = wechat'[o]
        BY <2>3
      <3>. QED
        BY <1>2, <2>2, <2>3, <2>4, <3>1, ClerkGoto
    <2>. QED
      BY <2>1, <2>2, <2>5 DEF RefundMoney, PaysOut
  <1>4. CASE Refunding!CallRejected(p)
    <2>1. WechatOK' /\ Settled /\ UNCHANGED <<refunds, payments>>
      BY <1>4, WechatRest DEF Refunding!CallRejected, Refunding!rows, Refunding!remote
    <2>2. Refunding!Goto(p, [pc |-> "rejected", order |-> o, result |-> attempts[p].result])
      BY <1>1, <1>4 DEF Refunding!CallRejected, Refunding!Attempt
    <2>3. ClerksOK'
      BY <1>1, <1>2, <2>1, <2>2, ClerkGoto DEF Refunding!Attempt
    <2>. QED
      BY <2>1, <2>3 DEF RefundMoney, PaysOut
  <1>5. CASE Refunding!CallUnknown(p)
    <2>1. late' \in {late, late \cup {o}} /\ UNCHANGED <<wechat, notices, refunds, payments>>
      BY <1>5 DEF Refunding!CallUnknown, Refunding!rows
    <2>2. WechatOK' /\ Settled
      BY <1>2, <2>1 DEF WechatOK, Settled
    <2>3. ClerksOK'
      BY <1>5, <2>2, ClerkFinishes DEF Refunding!CallUnknown
    <2>. QED
      BY <2>1, <2>2, <2>3 DEF RefundMoney, PaysOut
  <1>6. CASE Refunding!ApplyAnswer(p)
    <2>1. attempts[p].result = "SUCCESS" => wechat[o] = "SUCCESS"
      BY <1>6 DEF Refunding!ApplyAnswer, ClerksOK, AttemptOK, Concluded
    <2>2. WechatOK' /\ Settled
      BY <1>6, WechatRest DEF Refunding!ApplyAnswer, Refunding!remote
    <2>3. PaysOut /\ UNCHANGED payments
      BY <1>2, <1>6, <2>1, MoneyTypes, ApplyPaysOut DEF Refunding!ApplyAnswer
    <2>4. ClerksOK'
      BY <1>6, <2>2, ClerkFinishes DEF Refunding!ApplyAnswer
    <2>. QED
      BY <2>2, <2>3, <2>4 DEF RefundMoney
  <1>7. CASE Refunding!FailRefundRequest(p)
    <2>1. WechatOK' /\ Settled
      BY <1>7, WechatRest DEF Refunding!FailRefundRequest, Refunding!remote
    <2>2. PaysOut /\ UNCHANGED payments
      <3>1. CASE Refunding!Failed(o)
        BY <1>2, <3>1, MoneyTypes, StatusOnly
        DEF Refunding!Failed, PaysOut, Refunding!RefundStatus
      <3>2. CASE UNCHANGED Refunding!rows
        BY <3>2 DEF Refunding!rows, PaysOut
      <3>. QED
        BY <1>7, <3>1, <3>2 DEF Refunding!FailRefundRequest
    <2>3. ClerksOK'
      BY <1>7, <2>1, ClerkFinishes DEF Refunding!FailRefundRequest
    <2>. QED
      BY <2>1, <2>2, <2>3 DEF RefundMoney
  <1>. QED
    BY <1>3, <1>4, <1>5, <1>6, <1>7 DEF Refunding!Step

LEMMA WechatMoney ==
  ASSUME Inv, WechatOK, ClerksOK, Kept, Refunding!Wechat
  PROVE RefundMoney
  <1>1. ASSUME NEW o \in Orders, NEW status \in Refunding!WechatStatus,
               Refunding!Progress(o, status)
        PROVE RefundMoney
    <2>. DEFINE n == [order |-> o, status |-> status]
    <2>1. /\ wechat[o] \in {"PROCESSING", "ABNORMAL"} /\ wechat' = [wechat EXCEPT ![o] = status]
          /\ notices' = notices \cup {n} /\ UNCHANGED <<late, refunds, payments, attempts>>
      BY <1>1 DEF Refunding!Progress, Refunding!rows
    <2>2. /\ wechat' \in [Orders -> Refunding!WechatStatus] /\ wechat'[o] = status
          /\ \A x \in Orders : x # o => wechat'[x] = wechat[x]
      BY <2>1 DEF WechatOK
    <2>3. Settled
      BY <2>1, <2>2 DEF Settled, Concluded
    <2>4. n.order = o /\ n.status = status /\ n \in [order : Orders, status : Refunding!WechatStatus]
      OBVIOUS
    <2>. HIDE DEF n
    <2>5. \A k \in notices' : k.status \in Concluded => wechat'[k.order] = k.status
      BY <2>1, <2>2, <2>3, <2>4 DEF WechatOK, Settled
    <2>6. WechatOK'
      BY <2>1, <2>2, <2>4, <2>5 DEF WechatOK
    <2>. QED
      BY <2>1, <2>3, <2>6, ClerksRest DEF RefundMoney, PaysOut
  <1>2. ASSUME NEW o \in Orders, Refunding!LateArrival(o) PROVE RefundMoney
    <2>1. /\ wechat' = Refunding!Accepted(o) /\ late' \subseteq late
          /\ UNCHANGED <<notices, refunds, payments, attempts>>
      BY <1>2 DEF Refunding!LateArrival, Refunding!rows
    <2>2. refunds[o].status # "NONE"
      BY <1>2 DEF Refunding!LateArrival, WechatOK
    <2>. QED
      BY <2>1, <2>2, AcceptedMoney, ClerksRest DEF RefundMoney, PaysOut
  <1>3. ASSUME NEW n \in notices, Refunding!RefundNotify(n) PROVE RefundMoney
    <2>1. n.order \in Orders /\ (n.status = "SUCCESS" => wechat[n.order] = "SUCCESS")
      BY DEF WechatOK, Concluded
    <2>2. WechatOK' /\ Settled /\ UNCHANGED attempts
      BY <1>3, WechatRest DEF Refunding!RefundNotify, Refunding!remote
    <2>3. PaysOut /\ UNCHANGED payments
      BY <1>3, <2>1, MoneyTypes, ApplyPaysOut DEF Refunding!RefundNotify
    <2>. QED
      BY <2>2, <2>3, ClerksRest DEF RefundMoney
  <1>. QED
    BY <1>1, <1>2, <1>3 DEF Refunding!Wechat

LEMMA RefundingMoney ==
  ASSUME Inv, WechatOK, ClerksOK, Kept, Refunding!Next
  PROVE RefundMoney
  <1>1. ASSUME NEW p \in Clerks, Refunding!Abort(p) PROVE RefundMoney
    BY <1>1, AnswerMoney DEF Refunding!Abort
  <1>2. CASE Refunding!UseOfCards
    <2>1. UNCHANGED <<payments, refunds, wechat, notices, late, attempts>>
      BY <1>2 DEF Refunding!UseOfCards, Refunding!Redeem, Refunding!ExpireCard, Refunding!remote
    <2>. QED
      BY <2>1, WechatRest, ClerksRest DEF RefundMoney, PaysOut
  <1>. QED
    BY <1>1, <1>2, RequestMoney, StepMoney, WechatMoney DEF Refunding!Next
-----------------------------------------------------------------------------
(* Both together. *)

LEMMA InitMoney == Init => MoneyInv
  BY DEF Init, MoneyInv, RemoteOK, PaidSyncs, RefundsBooked, Refunding!Honest,
         Buying!CardOnlyForMoney, Refunding!SucceededIsPaidOut, Buying!Init, Buying!NoTx,
         Buying!NoCard, Refunding!Idle, Refunding!NoRefund, Refunding!Attempt, Refunding!WechatStatus

LEMMA CardsPaid ==
  ASSUME Inv, Inv', Buying!CardOnlyForMoney,
         \A o \in Orders : trades[o] = "SUCCESS" => trades'[o] = "SUCCESS",
         \A o \in Orders : payments'[o] = "SUCCEEDED" => payments[o] = "SUCCEEDED" \/ trades[o] = "SUCCESS"
  PROVE Buying!CardOnlyForMoney'
  <1>1. ASSUME NEW o \in Orders
        PROVE /\ payments[o] = "SUCCEEDED" => cards[o].status # "NONE"
              /\ cards'[o].status # "NONE" => payments'[o] = "SUCCEEDED"
    BY DEF Inv, Buying!PaidIffCard
  <1>. QED
    BY <1>1 DEF Buying!CardOnlyForMoney

LEMMA NextMoney == Inv /\ Inv' /\ MoneyInv /\ [Next]_vars => MoneyInv'
  <1>. SUFFICES ASSUME Inv, Inv', MoneyInv, [Next]_vars PROVE MoneyInv'
    OBVIOUS
  <1>1. /\ WechatOK /\ ClerksOK /\ PaidSyncs /\ Kept
        /\ Buying!CardOnlyForMoney /\ Refunding!SucceededIsPaidOut
    BY MoneyParts, RowsKept
  <1>2. ASSUME RefundMoney, UNCHANGED <<trades, tx>> PROVE MoneyInv'
    <2>1. WechatOK' /\ ClerksOK' /\ PaidSyncs'
      BY <1>1, <1>2 DEF RefundMoney, PaidSyncs
    <2>2. Buying!CardOnlyForMoney'
      BY <1>1, <1>2, CardsPaid DEF RefundMoney
    <2>3. Refunding!SucceededIsPaidOut'
      BY <1>1, <1>2 DEF RefundMoney, PaysOut, Settled, Concluded, Refunding!SucceededIsPaidOut
    <2>. QED
      BY <2>1, <2>2, <2>3 DEF MoneyInv, RemoteOK, RefundsBooked, Refunding!Honest,
                              WechatOK, ClerksOK, AttemptOK, Concluded
  <1>3. CASE Buying!Next /\ UNCHANGED refundVars
    <2>1. UNCHANGED <<refunds, wechat, notices, late, attempts>>
      BY <1>3 DEF refundVars
    <2>2. PaidStep
      BY <1>1, <1>3, BuyingPaid
    <2>3. WechatOK' /\ ClerksOK' /\ Refunding!SucceededIsPaidOut'
      BY <1>1, <2>1, WechatRest, ClerksRest DEF Refunding!SucceededIsPaidOut
    <2>4. PaidSyncs'
      BY <1>1, <2>2 DEF PaidStep, PaidSyncs, SeenPaid
    <2>5. Buying!CardOnlyForMoney'
      BY <1>1, <2>2, CardsPaid DEF PaidStep
    <2>. QED
      BY <2>3, <2>4, <2>5 DEF MoneyInv, RemoteOK, RefundsBooked, Refunding!Honest,
                              WechatOK, ClerksOK, AttemptOK, Concluded
  <1>4. CASE Refunding!Next /\ UNCHANGED paymentVars
    BY <1>1, <1>2, <1>4, RefundingMoney DEF paymentVars
  <1>5. CASE UNCHANGED vars
    <2>1. UNCHANGED <<payments, trades, tx, refunds, wechat, notices, late, attempts>>
      BY <1>5 DEF vars, paymentVars, refundVars
    <2>. QED
      BY <1>1, <1>2, <2>1, WechatRest, ClerksRest DEF RefundMoney, PaysOut
  <1>. QED
    BY <1>3, <1>4, <1>5 DEF Next

LEMMA AlwaysMoney == Spec => []MoneyInv
  BY InitMoney, NextMoney, AlwaysInv, PTL DEF Spec

\* Money and rows agree over the whole life of an order: a card was paid for, a
\* refunded order was paid back, and WeChat refunds nothing that has no row here,
\* with any answers and notices late, lost, repeated or out of order.
THEOREM MoneyStands == Spec => []MoneyBehindRows
  <1>1. Inv /\ MoneyInv => MoneyBehindRows
    BY DEF Inv, MoneyInv, RefundHasCard, RefundsBooked, Refunding!RefundStatesAgree,
           Buying!CardOnlyForMoney, Refunding!SucceededIsPaidOut, MoneyBehindRows
  <1>. QED
    BY <1>1, AlwaysInv, AlwaysMoney, PTL
-----------------------------------------------------------------------------
(* What Refund promises of its steps holds of the steps of both. *)

\* A refund that has succeeded or failed keeps its row, also while its order is
\* still being prepared, synced or notified as a purchase.
THEOREM FinalKept == Spec => Refunding!FinalRefundKept
  <1>1. ASSUME Inv, [Next]_vars, NEW o \in Orders, refunds[o].status \in Refunding!Final
        PROVE refunds'[o] = refunds[o]
    <2>1. RowsStep(o) /\ refunds[o].status \notin Refunding!InProgress /\ refunds[o].status # "NONE"
      BY <1>1, NextRows DEF Inv, Refunding!Final, Refunding!InProgress
    <2>. QED
      BY <2>1 DEF RowsStep, Rests, KeepsRows, Opens, Closes, Records, Settles, Locks, Fails,
                  Succeeds, Marks, Redeems, Expires
  <1>2. Inv /\ [Next]_vars =>
          \A o \in Orders : refunds[o].status \in Refunding!Final => refunds'[o] = refunds[o]
    BY <1>1
  <1>. QED
    BY <1>2, AlwaysInv, PTL DEF Spec, Refunding!FinalRefundKept

\* A refund fails on WeChat's word only.
WechatsWord(o) ==
  wechat[o] = "CLOSED" \/ \E q \in Clerks : attempts[q].pc = "rejected" /\ attempts[q].order = o
FailsOnWord ==
  \A o \in Orders :
    refunds[o].status \in Refunding!InProgress /\ refunds'[o].status = "FAILED" => WechatsWord(o)

LEMMA FailedOnWord ==
  ASSUME RowTypes, NEW o \in Orders, WechatsWord(o), Refunding!Failed(o)
  PROVE FailsOnWord
  BY StatusOnly DEF Refunding!Failed, Refunding!RefundStatus, Refunding!InProgress, FailsOnWord

LEMMA ApplyOnWord ==
  ASSUME RowTypes, NEW o \in Orders, NEW result, result = "CLOSED" => wechat[o] = "CLOSED",
         Refunding!ApplyRefundResult(o, result)
  PROVE FailsOnWord
  <1>1. CASE UNCHANGED Refunding!rows
    BY <1>1 DEF Refunding!rows, FailsOnWord, Refunding!InProgress
  <1>2. CASE Refunding!Succeeded(o)
    BY <1>2, StatusOnly DEF Refunding!Succeeded, Refunding!RefundStatus, Refunding!InProgress, FailsOnWord
  <1>3. CASE result = "CLOSED" /\ Refunding!Failed(o)
    BY <1>3, FailedOnWord DEF WechatsWord
  <1>4. CASE result \in {"PROCESSING", "ABNORMAL"} /\ Refunding!Marked(o, result)
    BY <1>4, StatusOnly DEF Refunding!Marked, Refunding!RefundStatus, Refunding!InProgress, FailsOnWord
  <1>. QED
    BY <1>1, <1>2, <1>3, <1>4 DEF Refunding!ApplyRefundResult

LEMMA RefundingOnWord ==
  ASSUME Inv, WechatOK, ClerksOK, Refunding!Next
  PROVE FailsOnWord
  <1>1. CASE UNCHANGED refunds
    BY <1>1 DEF FailsOnWord, Refunding!InProgress
  <1>2. ASSUME NEW p \in Clerks, Refunding!Request(p) PROVE FailsOnWord
    <2>1. ASSUME NEW o \in Orders, NEW a \in Admins, NEW r \in Reqs, Refunding!Lock(p, o, a, r)
          PROVE FailsOnWord
      <3>1. refunds' = [refunds EXCEPT ![o] = [status |-> "CREATED", operator |-> a, request |-> r]]
        BY <2>1 DEF Refunding!Lock
      <3>2. refunds'[o].status = "CREATED" /\ \A x \in Orders : x # o => refunds'[x] = refunds[x]
        BY <3>1, MoneyTypes DEF RowTypes
      <3>. QED
        BY <3>2 DEF FailsOnWord, Refunding!InProgress
    <2>. QED
      BY <1>1, <1>2, <2>1
      DEF Refunding!Request, Refunding!Resume, Refunding!Refuse, Refunding!Sync,
          Refunding!Answer, Refunding!rows
  <1>3. ASSUME NEW p \in Clerks, Refunding!ApplyAnswer(p) PROVE FailsOnWord
    BY <1>3, MoneyTypes, ApplyOnWord
    DEF Refunding!ApplyAnswer, ClerksOK, AttemptOK, Concluded
  <1>4. ASSUME NEW p \in Clerks, Refunding!FailRefundRequest(p) PROVE FailsOnWord
    <2>. DEFINE o == attempts[p].order
    <2>1. o \in Orders /\ WechatsWord(o)
      BY <1>4 DEF Refunding!FailRefundRequest, ClerksOK, AttemptOK, WechatsWord
    <2>2. CASE Refunding!Failed(o)
      BY <2>1, <2>2, MoneyTypes, FailedOnWord
    <2>. QED
      BY <1>1, <1>4, <2>2 DEF Refunding!FailRefundRequest, Refunding!rows
  <1>5. ASSUME NEW n \in notices, Refunding!RefundNotify(n) PROVE FailsOnWord
    BY <1>5, MoneyTypes, ApplyOnWord DEF Refunding!RefundNotify, WechatOK, Concluded
  <1>. QED
    BY <1>1, <1>2, <1>3, <1>4, <1>5
    DEF Refunding!Next, Refunding!Step, Refunding!CallAccepted, Refunding!CallRejected,
        Refunding!CallUnknown, Refunding!Wechat, Refunding!Progress, Refunding!LateArrival,
        Refunding!Abort, Refunding!Answer, Refunding!UseOfCards, Refunding!Redeem,
        Refunding!ExpireCard, Refunding!rows

\* A card that is locked for a refund comes back only if WeChat has closed or
\* refused the refund; no step of the purchase brings it back, nor any use of it.
THEOREM CardRestored == Spec => Refunding!RestoredOnWechatsWord
  <1>1. ASSUME Inv, MoneyInv, [Next]_vars, NEW o \in Orders,
               cards[o].status = "REFUND_LOCKED", cards'[o].status \in Refunding!Refundable
        PROVE WechatsWord(o)
    <2>1. RowsStep(o) /\ cards[o] \in Buying!Card /\ RowInv(o)
      BY <1>1, NextRows, InvRows, MoneyTypes DEF Inv, RowTypes
    <2>2. refunds[o].status \in Refunding!InProgress /\ refunds'[o].status = "FAILED"
      <3>1. CASE Fails(o)
        BY <3>1 DEF Fails
      <3>2. CASE Locks(o)
        BY <1>1, <3>2 DEF Locks, Refunding!Allowed, Refunding!Refundable
      <3>3. CASE Succeeds(o)
        BY <1>1, <2>1, <3>3 DEF Succeeds, Buying!Card, Refunding!Refundable
      <3>4. CASE Settles(o) \/ Redeems(o) \/ Expires(o)
        BY <1>1, <3>4 DEF Settles, Buying!Settleable, Redeems, Expires
      <3>5. CASE cards'[o] = cards[o]
        BY <1>1, <3>5 DEF Refunding!Refundable
      <3>. QED
        BY <2>1, <3>1, <3>2, <3>3, <3>4, <3>5
        DEF RowsStep, Rests, Opens, Closes, Records, Marks
    <2>3. Refunding!Next
      BY <1>1, <2>2 DEF Next, vars, refundVars, Refunding!InProgress
    <2>4. FailsOnWord
      BY <1>1, <2>3, MoneyParts, RefundingOnWord
    <2>. QED
      BY <2>2, <2>4 DEF FailsOnWord
  <1>2. Inv /\ MoneyInv /\ [Next]_vars =>
          \A o \in Orders : cards[o].status = "REFUND_LOCKED" /\ cards'[o].status \in Refunding!Refundable =>
            \/ wechat[o] = "CLOSED"
            \/ \E p \in Clerks : attempts[p].pc = "rejected" /\ attempts[p].order = o
    BY <1>1 DEF WechatsWord
  <1>. QED
    BY <1>2, AlwaysInv, AlwaysMoney, PTL DEF Spec, Refunding!RestoredOnWechatsWord
=============================================================================
