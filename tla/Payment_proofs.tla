---------------------------- MODULE Payment_proofs ----------------------------
(* Proofs about Payment for any number of handlers, members, orders and keys. *)
EXTENDS Payment, FiniteSetTheorems, TLAPS

\* The orders counted against the limit are a natural number of orders.
LEMMA CountedType == ASSUME NEW u PROVE Cardinality(Counted(u)) \in Nat
  <1>1. Counted(u) \subseteq Orders
    BY DEF Counted
  <1>. QED
    BY <1>1, OrdersAssumption, FS_Subset, FS_CardinalityType

LEMMA NoTxType == NoTx \in Tx
  BY DEF NoTx, Tx, Mode

\* An idle handler carries no obligation.
LEMMA FinishTx ==
  ASSUME Inv, NEW p \in Procs, NEW o \in Outcome, Finish(p, o)
  PROVE /\ tx' \in [Procs -> Tx] /\ answer' \in [Procs -> Outcome]
        /\ \A q \in Procs : tx'[q] = IF q = p THEN NoTx ELSE tx[q]
  BY NoTxType DEF Finish, Inv, TypeOK

\* Orders, payments and paid trades never disappear.
Grows ==
  \A o \in Orders :
    /\ orders[o].status # "NONE" => orders'[o].status # "NONE"
    /\ payments[o] # "NONE" => payments'[o] # "NONE"
    /\ trades[o] = "SUCCESS" => trades'[o] = "SUCCESS"

\* What a handler relies on survives the steps of everybody else.
LEMMA OthersTx ==
  ASSUME Inv, Grows, NEW q \in Procs, tx'[q] = tx[q]
  PROVE WellFormed(tx[q])'
  <1>. DEFINE t == tx[q]
  <1>1. WellFormed(t)
    BY DEF Inv, WellFormedTx
  <1>2. t' = t
    OBVIOUS
  <1>3. t.pc \in {"prepareLapsed", "prepareLoaded", "prepareRecorded", "syncPaid"} => t.order \in Orders
    BY <1>1 DEF WellFormed
  <1>. QED
    BY <1>1, <1>2, <1>3 DEF WellFormed, Exists, Grows

\* A handler that ends, or an action without one, leaves the handlers well formed.
LEMMA FinishWellFormed ==
  ASSUME Inv, Grows, NEW p \in Procs, NEW o \in Outcome, Finish(p, o)
  PROVE /\ tx' \in [Procs -> Tx] /\ answer' \in [Procs -> Outcome]
        /\ WellFormedTx'
  <1>1. \A q \in Procs : WellFormed(tx[q])'
    <2>. SUFFICES ASSUME NEW q \in Procs PROVE WellFormed(tx[q])'
      OBVIOUS
    <2>1. CASE q = p
      <3>1. tx'[q] = NoTx
        BY <2>1, FinishTx
      <3>. QED
        BY <3>1 DEF WellFormed, NoTx
    <2>2. CASE q # p
      BY <2>2, FinishTx, OthersTx
    <2>. QED
      BY <2>1, <2>2
  <1>. QED
    BY <1>1, FinishTx DEF WellFormedTx

LEMMA IdleWellFormed ==
  ASSUME Inv, Grows, UNCHANGED tx
  PROVE WellFormedTx'
  BY OthersTx DEF WellFormedTx

\* An answer that changes no row keeps the invariant.
LEMMA ReplyInv ==
  ASSUME Inv, NEW p \in Procs, NEW o \in Outcome, Reply(p, o)
  PROVE Inv'
  <1>1. Grows
    BY DEF Reply, Grows
  <1>2. tx' \in [Procs -> Tx] /\ answer' \in [Procs -> Outcome] /\ WellFormedTx'
    BY <1>1, FinishWellFormed DEF Reply
  <1>. QED
    BY <1>2 DEF Reply, Inv, TypeOK, RowsOfOrders, PaidIffCard, CardOnlyForMoney,
                TradeHasPaymentRow, Exists

\* One handler goes on to a well-formed state, the others stay.
LEMMA SetTx ==
  ASSUME Inv, Grows, NEW p \in Procs, WellFormed(tx[p])',
         \A q \in Procs : q # p => tx'[q] = tx[q]
  PROVE WellFormedTx'
  BY OthersTx DEF WellFormedTx

\* A handler that takes a step without changing a row keeps the invariant.
LEMMA TxInv ==
  ASSUME Inv, NEW p \in Procs, tx' \in [Procs -> Tx], answer' \in [Procs -> Outcome],
         WellFormed(tx[p])', \A q \in Procs : q # p => tx'[q] = tx[q],
         UNCHANGED <<clock, product, orders, payments, cards, trades>>
  PROVE Inv'
  <1>1. Grows
    BY DEF Grows
  <1>2. WellFormedTx'
    BY <1>1, SetTx
  <1>. QED
    BY <1>2 DEF Inv, TypeOK, RowsOfOrders, PaidIffCard, CardOnlyForMoney,
                TradeHasPaymentRow, Exists

LEMMA BeginCreateInv ==
  ASSUME Inv, NEW p \in Procs, NEW u \in Users, NEW r \in Reqs, BeginCreate(p, u, r)
  PROVE Inv'
  <1>1. CASE Reply(p, "EXISTING")
    BY <1>1, ReplyInv DEF Outcome
  <1>2. CASE ~Reply(p, "EXISTING")
    <2>. DEFINE t == [NoTx EXCEPT !.pc = "createStarted", !.user = u, !.request = r,
                                  !.purchased = Cardinality(Counted(u))]
    <2>1. Begin(p, t)
      BY <1>2 DEF BeginCreate
    <2>2. t \in Tx /\ t.pc = "createStarted" /\ t.user = u /\ t.request = r
      BY CountedType DEF NoTx, Tx, Mode
    <2>. HIDE DEF t
    <2>3. tx' = [tx EXCEPT ![p] = t] /\ answer' = [answer EXCEPT ![p] = "NONE"]
      BY <2>1 DEF Begin
    <2>4. tx' \in [Procs -> Tx] /\ answer' \in [Procs -> Outcome] /\ tx'[p] = t
      BY <2>2, <2>3 DEF Inv, TypeOK, Outcome
    <2>5. WellFormed(tx[p])'
      BY <2>2, <2>4 DEF WellFormed
    <2>. QED
      BY <2>1, <2>3, <2>4, <2>5, TxInv DEF Begin, Inv, TypeOK
  <1>. QED
    BY <1>1, <1>2

LEMMA CreateCheckInv ==
  ASSUME Inv, NEW p \in Procs, CreateCheck(p)
  PROVE Inv'
  <1>1. CASE Reply(p, "CARD_PRODUCT_NOT_ON_SALE") \/ Reply(p, "PURCHASE_LIMIT_REACHED")
    BY <1>1, ReplyInv DEF Outcome
  <1>2. CASE ~(Reply(p, "CARD_PRODUCT_NOT_ON_SALE") \/ Reply(p, "PURCHASE_LIMIT_REACHED"))
    <2>1. /\ tx' = [tx EXCEPT ![p].pc = "createChecked", ![p].mode = product.mode]
          /\ UNCHANGED <<clock, product, orders, payments, cards, trades, answer>>
      BY <1>2 DEF CreateCheck
    <2>2. tx[p] \in Tx /\ product.mode \in Mode /\ tx[p].user \in Users /\ tx[p].request \in Reqs
      BY DEF CreateCheck, Inv, TypeOK, WellFormedTx, WellFormed
    <2>3. tx' \in [Procs -> Tx]
      BY <2>1, <2>2 DEF Inv, TypeOK, Tx
    <2>4. tx'[p].pc = "createChecked" /\ tx'[p].user \in Users /\ tx'[p].request \in Reqs
      BY <2>1, <2>2 DEF Inv, TypeOK, Tx
    <2>5. WellFormed(tx[p])'
      BY <2>4 DEF WellFormed
    <2>. QED
      BY <2>1, <2>3, <2>5, TxInv DEF Inv, TypeOK
  <1>. QED
    BY <1>1, <1>2

LEMMA CreateInsertInv ==
  ASSUME Inv, NEW p \in Procs, CreateInsert(p)
  PROVE Inv'
  <1>1. CASE Reply(p, "EXISTING")
    BY <1>1, ReplyInv DEF Outcome
  <1>2. CASE ~Reply(p, "EXISTING")
    <2>. DEFINE row == [status |-> "PENDING", user |-> tx[p].user, request |-> tx[p].request,
                        expiresAt |-> clock + OrderTTL, mode |-> tx[p].mode]
    <2>1. PICK o \in Unborn : orders' = [orders EXCEPT ![o] = row]
      BY <1>2 DEF CreateInsert
    <2>2. Finish(p, "CREATED") /\ UNCHANGED <<clock, product, payments, cards, trades>>
      BY <1>2 DEF CreateInsert
    <2>3. tx[p] \in Tx /\ clock + OrderTTL \in Nat
      BY BoundsAssumption DEF Inv, TypeOK
    <2>4. row \in Order /\ row.status = "PENDING"
      BY <2>3 DEF Tx, Order, OrderStatus
    <2>. HIDE DEF row
    <2>5. o \in Orders /\ orders[o].status = "NONE"
      BY DEF Unborn, Exists
    <2>6. orders' \in [Orders -> Order]
      BY <2>1, <2>4, <2>5 DEF Inv, TypeOK
    <2>7. \A x \in Orders : orders'[x].status = IF x = o THEN "PENDING" ELSE orders[x].status
      BY <2>1, <2>4, <2>5 DEF Inv, TypeOK
    <2>8. Grows
      BY <2>2, <2>7 DEF Grows
    <2>9. tx' \in [Procs -> Tx] /\ answer' \in [Procs -> Outcome] /\ WellFormedTx'
      BY <2>2, <2>8, FinishWellFormed DEF Outcome
    <2>10. RowsOfOrders' /\ PaidIffCard'
      BY <2>2, <2>5, <2>7 DEF Inv, RowsOfOrders, PaidIffCard, Exists
    <2>. QED
      BY <2>2, <2>6, <2>9, <2>10 DEF Inv, TypeOK, CardOnlyForMoney, TradeHasPaymentRow
  <1>. QED
    BY <1>1, <1>2

\* Closing orders that were PENDING keeps the invariant, if the handlers stay well formed.
LEMMA CloseInv ==
  ASSUME Inv, orders' \in [Orders -> Order],
         \A o \in Orders : orders'[o].status = orders[o].status
                          \/ (orders[o].status = "PENDING" /\ orders'[o].status = "CLOSED"),
         UNCHANGED <<clock, product, payments, cards, trades>>,
         tx' \in [Procs -> Tx], answer' \in [Procs -> Outcome], WellFormedTx'
  PROVE Inv'
  <1>1. RowsOfOrders' /\ PaidIffCard'
    BY DEF Inv, RowsOfOrders, PaidIffCard, Exists
  <1>. QED
    BY <1>1 DEF Inv, TypeOK, CardOnlyForMoney, TradeHasPaymentRow

\* The effect of the UPDATE that closes an order.
LEMMA ClosedRow ==
  ASSUME NEW row \in Order
  PROVE [row EXCEPT !.status = "CLOSED"] \in Order /\ [row EXCEPT !.status = "CLOSED"].status = "CLOSED"
  BY DEF Order, OrderStatus

LEMMA CloseExpiredInv ==
  ASSUME Inv, NEW u \in Users, CloseExpired(u)
  PROVE Inv'
  <1>1. /\ DOMAIN orders' = Orders /\ orders' = [o \in Orders |-> orders'[o]]
        /\ \A o \in Orders : orders'[o] = orders[o]
             \/ (orders[o].status = "PENDING" /\ orders'[o] = [orders[o] EXCEPT !.status = "CLOSED"])
    BY DEF CloseExpired, Lapsed
  <1>2. \A o \in Orders : orders[o] \in Order
    BY DEF Inv, TypeOK
  <1>3. ASSUME NEW o \in Orders
        PROVE /\ orders'[o] \in Order
              /\ \/ orders'[o].status = orders[o].status
                 \/ orders[o].status = "PENDING" /\ orders'[o].status = "CLOSED"
    <2>1. CASE orders'[o] = orders[o]
      BY <1>2, <2>1
    <2>2. CASE orders[o].status = "PENDING" /\ orders'[o] = [orders[o] EXCEPT !.status = "CLOSED"]
      BY <1>2, <2>2, ClosedRow
    <2>. QED
      BY <1>1, <2>1, <2>2
  <1>4. orders' \in [Orders -> Order]
    BY <1>1, <1>3
  <1>5. Grows
    BY <1>3 DEF CloseExpired, Grows
  <1>6. WellFormedTx'
    BY <1>5, IdleWellFormed DEF CloseExpired
  <1>. QED
    BY <1>3, <1>4, <1>6, CloseInv DEF CloseExpired, Inv, TypeOK

LEMMA PrepareCloseInv ==
  ASSUME Inv, NEW p \in Procs, PrepareClose(p)
  PROVE Inv'
  <1>. DEFINE o == tx[p].order
  <1>1. o \in Orders
    BY DEF PrepareClose, Inv, WellFormedTx, WellFormed
  <1>2. /\ orders' = [orders EXCEPT ![o].status = IF @ = "PENDING" THEN "CLOSED" ELSE @]
        /\ Finish(p, "ORDER_NOT_PAYABLE")
        /\ UNCHANGED <<clock, product, payments, cards, trades>>
    BY DEF PrepareClose
  <1>. HIDE DEF o
  <1>3. orders[o] \in Order
    BY <1>1 DEF Inv, TypeOK
  <1>4. CASE orders[o].status # "PENDING"
    <2>1. orders' = orders
      BY <1>1, <1>2, <1>3, <1>4 DEF Inv, TypeOK, Order
    <2>. QED
      BY <1>2, <2>1, ReplyInv DEF Reply, Outcome
  <1>5. CASE orders[o].status = "PENDING"
    <2>1. orders' = [orders EXCEPT ![o] = [orders[o] EXCEPT !.status = "CLOSED"]]
      BY <1>2, <1>5
    <2>2. orders' \in [Orders -> Order]
      BY <1>1, <1>3, <2>1, ClosedRow DEF Inv, TypeOK
    <2>3. \A x \in Orders : orders'[x].status = orders[x].status
                          \/ (orders[x].status = "PENDING" /\ orders'[x].status = "CLOSED")
      BY <1>1, <1>3, <1>5, <2>1, ClosedRow DEF Inv, TypeOK
    <2>4. Grows
      BY <1>2, <2>3 DEF Grows
    <2>5. tx' \in [Procs -> Tx] /\ answer' \in [Procs -> Outcome] /\ WellFormedTx'
      BY <1>2, <2>4, FinishWellFormed DEF Outcome
    <2>. QED
      BY <1>2, <2>2, <2>3, <2>5, CloseInv
  <1>. QED
    BY <1>4, <1>5

\* Recording the payment of an order that exists.
LEMMA EnsurePaymentTransactionInv ==
  ASSUME Inv, NEW p \in Procs, EnsurePaymentTransaction(p)
  PROVE Inv'
  <1>. DEFINE o == tx[p].order
  <1>1. o \in Orders /\ Exists(o) /\ tx[p] \in Tx
    BY DEF EnsurePaymentTransaction, Inv, TypeOK, WellFormedTx, WellFormed
  <1>2. /\ payments' = [payments EXCEPT ![o] = IF @ = "NONE" THEN "CREATED" ELSE @]
        /\ tx' = [tx EXCEPT ![p].pc = "prepareRecorded"]
        /\ UNCHANGED <<clock, product, orders, cards, trades, answer>>
    BY DEF EnsurePaymentTransaction
  <1>3. tx' \in [Procs -> Tx] /\ tx'[p].pc = "prepareRecorded" /\ tx'[p].order = o
    BY <1>1, <1>2 DEF Inv, TypeOK, Tx
  <1>. HIDE DEF o
  <1>4. /\ payments' \in [Orders -> {"NONE", "CREATED", "SUCCEEDED"}]
        /\ \A x \in Orders : /\ payments'[x] = "SUCCEEDED" <=> payments[x] = "SUCCEEDED"
                             /\ payments[x] # "NONE" => payments'[x] # "NONE"
                             /\ x # o => payments'[x] = payments[x]
        /\ payments'[o] # "NONE"
    BY <1>1, <1>2 DEF Inv, TypeOK
  <1>5. Grows
    BY <1>2, <1>4 DEF Grows
  <1>6. WellFormed(tx[p])'
    BY <1>1, <1>2, <1>3, <1>4 DEF WellFormed, Exists
  <1>7. WellFormedTx'
    BY <1>2, <1>5, <1>6, SetTx DEF Inv, TypeOK
  <1>8. RowsOfOrders' /\ PaidIffCard'
    BY <1>1, <1>2, <1>4 DEF Inv, RowsOfOrders, PaidIffCard, Exists
  <1>9. TradeHasPaymentRow' /\ CardOnlyForMoney'
    BY <1>2, <1>4 DEF Inv, TradeHasPaymentRow, CardOnlyForMoney
  <1>. QED
    BY <1>2, <1>3, <1>4, <1>7, <1>8, <1>9 DEF Inv, TypeOK

\* WeChat's trades change, and money once received stays received.
LEMMA TradesInv ==
  ASSUME Inv, trades' \in [Orders -> {"NONE", "NOTPAY", "SUCCESS", "CLOSED"}],
         \A o \in Orders : trades[o] = "SUCCESS" => trades'[o] = "SUCCESS",
         \A o \in Orders : trades[o] = "NONE" /\ trades'[o] # "NONE" =>
           Exists(o) /\ payments[o] # "NONE",
         UNCHANGED <<clock, product, orders, payments, cards>>,
         tx' \in [Procs -> Tx], answer' \in [Procs -> Outcome], WellFormedTx'
  PROVE Inv'
  BY DEF Inv, TypeOK, RowsOfOrders, PaidIffCard, CardOnlyForMoney, TradeHasPaymentRow, Exists

LEMMA PrepayInv ==
  ASSUME Inv, NEW p \in Procs, Prepay(p)
  PROVE Inv'
  <1>. DEFINE o == tx[p].order
              opened == [trades EXCEPT ![o] = IF @ = "NONE" THEN "NOTPAY" ELSE @]
  <1>1. o \in Orders /\ Exists(o) /\ payments[o] # "NONE"
    BY DEF Prepay, Inv, WellFormedTx, WellFormed
  <1>2. /\ trades' \in {trades, opened}
        /\ UNCHANGED <<clock, product, orders, payments, cards>>
        /\ Finish(p, "PREPARED") \/ Finish(p, "WECHAT_PREPAY_FAILED")
    BY DEF Prepay
  <1>. HIDE DEF o
  <1>3. /\ trades' \in [Orders -> {"NONE", "NOTPAY", "SUCCESS", "CLOSED"}]
        /\ \A x \in Orders : trades[x] = "SUCCESS" => trades'[x] = "SUCCESS"
        /\ \A x \in Orders : x # o => trades'[x] = trades[x]
    BY <1>1, <1>2 DEF Inv, TypeOK
  <1>4. Grows
    BY <1>2, <1>3 DEF Grows
  <1>5. tx' \in [Procs -> Tx] /\ answer' \in [Procs -> Outcome] /\ WellFormedTx'
    BY <1>2, <1>4, FinishWellFormed DEF Outcome
  <1>. QED
    BY <1>1, <1>2, <1>3, <1>5, TradesInv

LEMMA EnvironmentTradesInv ==
  ASSUME Inv, NEW o \in Orders, Pay(o) \/ ExpireTrade(o)
  PROVE Inv'
  <1>1. /\ trades[o] = "NOTPAY" /\ trades' \in {[trades EXCEPT ![o] = "SUCCESS"], [trades EXCEPT ![o] = "CLOSED"]}
        /\ UNCHANGED <<clock, product, orders, payments, cards, tx, answer>>
    BY DEF Pay, ExpireTrade
  <1>2. /\ trades' \in [Orders -> {"NONE", "NOTPAY", "SUCCESS", "CLOSED"}]
        /\ \A x \in Orders : trades[x] = "SUCCESS" => trades'[x] = "SUCCESS"
        /\ \A x \in Orders : x # o => trades'[x] = trades[x]
    BY <1>1 DEF Inv, TypeOK
  <1>3. WellFormedTx'
    BY <1>1, <1>2, IdleWellFormed DEF Grows
  <1>. QED
    BY <1>1, <1>2, <1>3, TradesInv DEF Inv, TypeOK

LEMMA BeginPrepareInv ==
  ASSUME Inv, NEW p \in Procs, NEW o \in Orders, BeginPrepare(p, o)
  PROVE Inv'
  <1>. DEFINE t(pc) == [NoTx EXCEPT !.pc = pc, !.order = o]
  <1>1. CASE Reply(p, "ORDER_NOT_PAYABLE")
    BY <1>1, ReplyInv DEF Outcome
  <1>2. CASE ~Reply(p, "ORDER_NOT_PAYABLE")
    <2>1. PICK pc \in {"prepareLapsed", "prepareLoaded"} : Begin(p, t(pc))
      BY <1>2 DEF BeginPrepare
    <2>2. t(pc) \in Tx /\ t(pc).pc = pc /\ t(pc).order = o
      BY <2>1 DEF NoTx, Tx, Mode
    <2>. HIDE DEF t
    <2>3. /\ tx' = [tx EXCEPT ![p] = t(pc)] /\ answer' = [answer EXCEPT ![p] = "NONE"]
          /\ UNCHANGED <<clock, product, orders, payments, cards, trades>>
      BY <2>1 DEF Begin
    <2>4. tx' \in [Procs -> Tx] /\ answer' \in [Procs -> Outcome] /\ tx'[p] = t(pc)
      BY <2>2, <2>3 DEF Inv, TypeOK, Outcome
    <2>5. WellFormed(tx[p])'
      BY <2>1, <2>2, <2>3, <2>4 DEF WellFormed, BeginPrepare, Exists
    <2>. QED
      BY <2>3, <2>4, <2>5, TxInv DEF Inv, TypeOK
  <1>. QED
    BY <1>1, <1>2

LEMMA BeginSyncInv ==
  ASSUME Inv, NEW p \in Procs, NEW o \in Orders, BeginSync(p, o)
  PROVE Inv'
  <1>. DEFINE t == [NoTx EXCEPT !.pc = "syncPaid", !.order = o]
  <1>1. CASE Reply(p, "NOT_PAID_YET")
    BY <1>1, ReplyInv DEF Outcome
  <1>2. CASE ~Reply(p, "NOT_PAID_YET")
    <2>1. Begin(p, t) /\ Exists(o) /\ trades[o] = "SUCCESS"
      BY <1>2 DEF BeginSync
    <2>2. t \in Tx /\ t.pc = "syncPaid" /\ t.order = o
      BY DEF NoTx, Tx, Mode
    <2>. HIDE DEF t
    <2>3. /\ tx' = [tx EXCEPT ![p] = t] /\ answer' = [answer EXCEPT ![p] = "NONE"]
          /\ UNCHANGED <<clock, product, orders, payments, cards, trades>>
      BY <2>1 DEF Begin
    <2>4. tx' \in [Procs -> Tx] /\ answer' \in [Procs -> Outcome] /\ tx'[p] = t
      BY <2>2, <2>3 DEF Inv, TypeOK, Outcome
    <2>5. WellFormed(tx[p])'
      BY <2>1, <2>2, <2>3, <2>4 DEF WellFormed, Exists
    <2>. QED
      BY <2>3, <2>4, <2>5, TxInv DEF Inv, TypeOK
  <1>. QED
    BY <1>1, <1>2

\* settlePayment on an order that was open or closed, paid for and without a card.
LEMMA SettleRows ==
  ASSUME Inv, NEW o \in Orders, Settleable(o), Settle(o), trades[o] = "SUCCESS",
         tx' \in [Procs -> Tx], answer' \in [Procs -> Outcome],
         WellFormedTx'
  PROVE Inv'
  <1>1. orders[o] \in Order
    BY DEF Inv, TypeOK
  <1>2. /\ cards' = [cards EXCEPT ![o] = CardIssued(o)]
        /\ payments' = [payments EXCEPT ![o] = "SUCCEEDED"]
        /\ orders' = [orders EXCEPT ![o].status = "PAID"]
        /\ UNCHANGED <<clock, product, trades>>
    BY DEF Settle
  <1>3. CardIssued(o) \in Card /\ CardIssued(o).status # "NONE"
    BY DEF CardIssued, Card, CardStatus
  <1>4. orders' \in [Orders -> Order]
    BY <1>1, <1>2 DEF Inv, TypeOK, Order, OrderStatus
  <1>5. cards' \in [Orders -> Card] /\ payments' \in [Orders -> {"NONE", "CREATED", "SUCCEEDED"}]
    BY <1>2, <1>3 DEF Inv, TypeOK
  <1>6. /\ orders'[o].status = "PAID" /\ payments'[o] = "SUCCEEDED" /\ cards'[o].status # "NONE"
        /\ \A x \in Orders : x # o => /\ orders'[x] = orders[x] /\ payments'[x] = payments[x]
                                      /\ cards'[x] = cards[x]
    BY <1>1, <1>2, <1>3 DEF Inv, TypeOK, Order
  <1>7. PaidIffCard' /\ RowsOfOrders'
    BY <1>2, <1>6 DEF Inv, PaidIffCard, RowsOfOrders, Exists
  <1>8. CardOnlyForMoney' /\ TradeHasPaymentRow'
    BY <1>2, <1>6 DEF Inv, CardOnlyForMoney, TradeHasPaymentRow
  <1>. QED
    BY <1>2, <1>4, <1>5, <1>7, <1>8 DEF Inv, TypeOK

LEMMA SettleGrows ==
  ASSUME Inv, NEW o \in Orders, Settle(o)
  PROVE Grows
  <1>1. orders[o] \in Order
    BY DEF Inv, TypeOK
  <1>2. /\ payments' = [payments EXCEPT ![o] = "SUCCEEDED"]
        /\ orders' = [orders EXCEPT ![o].status = "PAID"]
        /\ UNCHANGED trades
    BY DEF Settle
  <1>3. /\ orders'[o].status = "PAID" /\ payments'[o] = "SUCCEEDED"
        /\ \A x \in Orders : x # o => orders'[x] = orders[x] /\ payments'[x] = payments[x]
    BY <1>1, <1>2 DEF Inv, TypeOK, Order
  <1>. QED
    BY <1>2, <1>3 DEF Grows

LEMMA SyncSettleInv ==
  ASSUME Inv, NEW p \in Procs, SyncSettle(p)
  PROVE Inv'
  <1>. DEFINE o == tx[p].order
  <1>1. o \in Orders /\ trades[o] = "SUCCESS"
    BY DEF SyncSettle, Inv, WellFormedTx, WellFormed
  <1>2. CASE Reply(p, "SETTLED") \/ Reply(p, "PAYMENT_SYNC_FAILED")
    BY <1>2, ReplyInv DEF Outcome
  <1>3. CASE Settleable(o) /\ Settle(o) /\ Finish(p, "SETTLED")
    BY <1>1, <1>3, SettleGrows, FinishWellFormed, SettleRows DEF Outcome
  <1>. QED
    BY <1>2, <1>3 DEF SyncSettle

LEMMA NotifyInv ==
  ASSUME Inv, NEW o \in Orders, Notify(o)
  PROVE Inv'
  BY SettleGrows, IdleWellFormed, SettleRows DEF Notify, Inv, TypeOK

\* The other actions touch nothing the invariant is about.
LEMMA QuietInv ==
  ASSUME Inv, UNCHANGED <<orders, payments, cards, trades, tx, answer>>,
         clock' \in Nat, product' \in [onSale : BOOLEAN, mode : Mode]
  PROVE Inv'
  <1>1. WellFormedTx'
    BY IdleWellFormed DEF Grows
  <1>. QED
    BY <1>1 DEF Inv, TypeOK, RowsOfOrders, PaidIffCard, CardOnlyForMoney, TradeHasPaymentRow, Exists

LEMMA InitInv == Init => Inv
  <1>. SUFFICES ASSUME Init PROVE Inv
    OBVIOUS
  <1>1. NoOrder \in Order /\ NoOrder.status = "NONE"
    BY DEF NoOrder, Order, OrderStatus, Mode
  <1>2. NoCard \in Card /\ NoCard.status = "NONE"
    BY DEF NoCard, Card, CardStatus
  <1>3. TypeOK
    BY <1>1, <1>2, NoTxType DEF Init, TypeOK, Outcome
  <1>4. WellFormedTx
    BY DEF Init, WellFormedTx, WellFormed, NoTx
  <1>. QED
    BY <1>1, <1>2, <1>3, <1>4
    DEF Init, Inv, RowsOfOrders, PaidIffCard, CardOnlyForMoney, TradeHasPaymentRow, Exists

LEMMA NextInv == Inv /\ [Next]_vars => Inv'
  <1>. SUFFICES ASSUME Inv, [Next]_vars PROVE Inv'
    OBVIOUS
  <1>1. ASSUME NEW p \in Procs, Request(p) PROVE Inv'
    BY <1>1, BeginCreateInv, BeginPrepareInv, BeginSyncInv DEF Request
  <1>2. ASSUME NEW p \in Procs, Step(p) PROVE Inv'
    BY <1>2, CreateCheckInv, CreateInsertInv, PrepareCloseInv, EnsurePaymentTransactionInv,
       PrepayInv, SyncSettleInv DEF Step
  <1>3. ASSUME NEW p \in Procs, Abort(p) PROVE Inv'
    BY <1>3, ReplyInv DEF Abort, Outcome
  <1>4. CASE Environment
    <2>1. ASSUME NEW u \in Users, CloseExpired(u) PROVE Inv'
      BY <2>1, CloseExpiredInv
    <2>2. ASSUME NEW o \in Orders, Notify(o) \/ Pay(o) \/ ExpireTrade(o) PROVE Inv'
      BY <2>2, NotifyInv, EnvironmentTradesInv
    <2>3. ASSUME NEW onSale \in BOOLEAN, NEW mode \in Mode,
                 ChangeProduct([onSale |-> onSale, mode |-> mode])
          PROVE Inv'
      BY <2>3, QuietInv DEF ChangeProduct, Inv, TypeOK
    <2>4. CASE Tick
      BY <2>4, QuietInv DEF Tick, Inv, TypeOK
    <2>. QED
      BY <1>4, <2>1, <2>2, <2>3, <2>4 DEF Environment
  <1>5. CASE UNCHANGED vars
    BY <1>5, QuietInv DEF vars, Inv, TypeOK
  <1>. QED
    BY <1>1, <1>2, <1>3, <1>4, <1>5 DEF Next

\* The invariant the theorems below are parts of.
LEMMA InvAlways == Spec => []Inv
  BY InitInv, NextInv, PTL DEF Spec

\* Every state of the purchase of cards is of the declared types.
THEOREM TypeCorrect == Spec => []TypeOK
  BY InvAlways, PTL DEF Inv

\* An order is paid for exactly when its card is out and its payment row says so,
\* however closing, settling and creating interleave (payment/handler.go:198-281).
THEOREM PaidExactlyWithCard == Spec => []PaidIffCard
  BY InvAlways, PTL DEF Inv

\* No card without WeChat's money (payment/handler.go:117-124, 126-146).
THEOREM NoCardWithoutMoney == Spec => []CardOnlyForMoney
  BY InvAlways, PTL DEF Inv

\* WeChat holds no trade that could not be settled for lack of a payment row
\* (payment/handler.go:190-196 before 82).
THEOREM TradesRecorded == Spec => []TradeHasPaymentRow
  BY InvAlways, PTL DEF Inv
-----------------------------------------------------------------------------
(* Orders are created only for a product on sale. *)

\* A step of one handler under an unchanged product keeps CheckedProduct if that
\* handler does not come to hold the shared lock.
LEMMA CheckedByOthers ==
  ASSUME CheckedProduct, UNCHANGED product, NEW p \in Procs, tx'[p].pc # "createChecked",
         \A q \in Procs : q # p => tx'[q] = tx[q]
  PROVE CheckedProduct'
  BY DEF CheckedProduct

LEMMA FinishChecked ==
  ASSUME Inv, CheckedProduct, NEW p \in Procs, NEW o \in Outcome, Finish(p, o), UNCHANGED product
  PROVE CheckedProduct'
  BY FinishTx, CheckedByOthers DEF NoTx

LEMMA ReplyChecked ==
  ASSUME Inv, CheckedProduct, NEW p \in Procs, NEW o \in Outcome, Reply(p, o)
  PROVE CheckedProduct'
  BY FinishChecked DEF Reply

LEMMA BeginChecked ==
  ASSUME Inv, CheckedProduct, NEW p \in Procs, NEW t, t.pc # "createChecked", Begin(p, t)
  PROVE CheckedProduct'
  <1>1. tx' = [tx EXCEPT ![p] = t] /\ UNCHANGED product
    BY DEF Begin
  <1>2. tx'[p].pc # "createChecked" /\ \A q \in Procs : q # p => tx'[q] = tx[q]
    BY <1>1 DEF Inv, TypeOK
  <1>. QED
    BY <1>1, <1>2, CheckedByOthers

LEMMA CreateCheckChecked ==
  ASSUME Inv, CheckedProduct, NEW p \in Procs, CreateCheck(p)
  PROVE CheckedProduct'
  <1>1. CASE Reply(p, "CARD_PRODUCT_NOT_ON_SALE") \/ Reply(p, "PURCHASE_LIMIT_REACHED")
    BY <1>1, ReplyChecked DEF Outcome
  <1>2. CASE ~(Reply(p, "CARD_PRODUCT_NOT_ON_SALE") \/ Reply(p, "PURCHASE_LIMIT_REACHED"))
    <2>1. /\ tx' = [tx EXCEPT ![p].pc = "createChecked", ![p].mode = product.mode]
          /\ UNCHANGED product /\ product.onSale
      BY <1>2 DEF CreateCheck
    <2>2. tx[p] \in Tx
      BY DEF Inv, TypeOK
    <2>3. tx'[p].mode = product.mode /\ \A q \in Procs : q # p => tx'[q] = tx[q]
      BY <2>1, <2>2 DEF Inv, TypeOK, Tx
    <2>. QED
      BY <2>1, <2>3 DEF CheckedProduct
  <1>. QED
    BY <1>1, <1>2

LEMMA StepChecked ==
  ASSUME Inv, CheckedProduct, NEW p \in Procs, Step(p)
  PROVE CheckedProduct'
  <1>1. CASE CreateCheck(p)
    BY <1>1, CreateCheckChecked
  <1>2. CASE CreateInsert(p)
    BY <1>2, ReplyChecked, FinishChecked DEF CreateInsert, Outcome
  <1>3. CASE PrepareClose(p)
    BY <1>3, FinishChecked DEF PrepareClose, Outcome
  <1>4. CASE EnsurePaymentTransaction(p)
    <2>1. tx' = [tx EXCEPT ![p].pc = "prepareRecorded"] /\ UNCHANGED product /\ tx[p] \in Tx
      BY <1>4 DEF EnsurePaymentTransaction, Inv, TypeOK
    <2>2. tx'[p].pc = "prepareRecorded" /\ \A q \in Procs : q # p => tx'[q] = tx[q]
      BY <2>1 DEF Inv, TypeOK, Tx
    <2>. QED
      BY <2>1, <2>2, CheckedByOthers
  <1>5. CASE Prepay(p)
    BY <1>5, FinishChecked DEF Prepay, Outcome
  <1>6. CASE SyncSettle(p)
    BY <1>6, ReplyChecked, FinishChecked DEF SyncSettle, Settle, Outcome
  <1>. QED
    BY <1>1, <1>2, <1>3, <1>4, <1>5, <1>6 DEF Step

LEMMA RequestChecked ==
  ASSUME Inv, CheckedProduct, NEW p \in Procs, Request(p)
  PROVE CheckedProduct'
  <1>1. ASSUME NEW u \in Users, NEW r \in Reqs, BeginCreate(p, u, r) PROVE CheckedProduct'
    <2>. DEFINE t == [NoTx EXCEPT !.pc = "createStarted", !.user = u, !.request = r,
                                  !.purchased = Cardinality(Counted(u))]
    <2>1. t.pc # "createChecked"
      BY DEF NoTx
    <2>2. Reply(p, "EXISTING") \/ Begin(p, t)
      BY <1>1 DEF BeginCreate
    <2>. QED
      BY <2>1, <2>2, ReplyChecked, BeginChecked DEF Outcome
  <1>2. ASSUME NEW o \in Orders, BeginPrepare(p, o) PROVE CheckedProduct'
    <2>. DEFINE t(pc) == [NoTx EXCEPT !.pc = pc, !.order = o]
    <2>1. t("prepareLapsed").pc # "createChecked" /\ t("prepareLoaded").pc # "createChecked"
      BY DEF NoTx
    <2>2. Reply(p, "ORDER_NOT_PAYABLE") \/ Begin(p, t("prepareLapsed")) \/ Begin(p, t("prepareLoaded"))
      BY <1>2 DEF BeginPrepare
    <2>. QED
      BY <2>1, <2>2, ReplyChecked, BeginChecked DEF Outcome
  <1>3. ASSUME NEW o \in Orders, BeginSync(p, o) PROVE CheckedProduct'
    <2>. DEFINE t == [NoTx EXCEPT !.pc = "syncPaid", !.order = o]
    <2>1. t.pc # "createChecked"
      BY DEF NoTx
    <2>2. Reply(p, "NOT_PAID_YET") \/ Begin(p, t)
      BY <1>3 DEF BeginSync
    <2>. QED
      BY <2>1, <2>2, ReplyChecked, BeginChecked DEF Outcome
  <1>. QED
    BY <1>1, <1>2, <1>3 DEF Request

LEMMA CheckedAlways == Spec => [](Inv /\ CheckedProduct)
  <1>1. Init => CheckedProduct
    BY DEF Init, CheckedProduct, NoTx
  <1>2. Inv /\ CheckedProduct /\ [Next]_vars => CheckedProduct'
    <2>. SUFFICES ASSUME Inv, CheckedProduct, [Next]_vars PROVE CheckedProduct'
      OBVIOUS
    <2>1. ASSUME NEW p \in Procs, Abort(p) PROVE CheckedProduct'
      BY <2>1, ReplyChecked DEF Abort, Outcome
    <2>2. CASE Environment
      <3>1. ASSUME NEW new \in [onSale : BOOLEAN, mode : Mode], ChangeProduct(new)
            PROVE CheckedProduct'
        BY <3>1 DEF ChangeProduct, ShareFree, CheckedProduct
      <3>2. CASE UNCHANGED <<product, tx>>
        BY <3>2 DEF CheckedProduct
      <3>. QED
        BY <2>2, <3>1, <3>2
        DEF Environment, CloseExpired, Notify, Settle, Pay, ExpireTrade, Tick
    <2>3. CASE UNCHANGED vars
      BY <2>3 DEF vars, CheckedProduct
    <2>. QED
      BY <2>1, <2>2, <2>3, RequestChecked, StepChecked DEF Next
  <1>. QED
    BY <1>1, <1>2, InitInv, NextInv, PTL DEF Spec

\* No order is created once the product is off sale, not even by a create that read
\* it before (order/handler.go:196).
THEOREM OnlyOnSale == Spec => OrdersOnlyOnSale
  <1>. DEFINE A == \A o \in Orders : ~Exists(o) /\ Exists(o)' =>
                     product.onSale /\ orders'[o].mode = product.mode
  <1>1. Inv /\ CheckedProduct /\ [Next]_vars => [A]_vars
    <2>. SUFFICES ASSUME Inv, CheckedProduct, Next PROVE A
      OBVIOUS
    <2>1. CASE \E p \in Procs : CreateInsert(p) /\ ~Reply(p, "EXISTING")
      <3>1. PICK p \in Procs : CreateInsert(p) /\ ~Reply(p, "EXISTING")
        BY <2>1
      <3>2. PICK o \in Unborn :
              orders' = [orders EXCEPT ![o] =
                [status |-> "PENDING", user |-> tx[p].user, request |-> tx[p].request,
                 expiresAt |-> clock + OrderTTL, mode |-> tx[p].mode]]
        BY <3>1 DEF CreateInsert
      <3>3. product.onSale /\ tx[p].mode = product.mode
        BY <3>1 DEF CreateInsert, CheckedProduct
      <3>. QED
        BY <3>2, <3>3 DEF Unborn, Exists, Inv, TypeOK
    <2>2. CASE ~\E p \in Procs : CreateInsert(p) /\ ~Reply(p, "EXISTING")
      <3>. SUFFICES ASSUME NEW o \in Orders, orders[o].status = "NONE"
                    PROVE orders'[o].status = "NONE"
        BY DEF Exists
      <3>1. CASE UNCHANGED orders
        BY <3>1
      <3>2. ASSUME NEW u \in Users, CloseExpired(u) PROVE orders'[o].status = "NONE"
        BY <3>2 DEF CloseExpired, Lapsed
      <3>3. ASSUME NEW p \in Procs, PrepareClose(p) PROVE orders'[o].status = "NONE"
        BY <3>3 DEF PrepareClose, Inv, TypeOK, Order
      <3>4. ASSUME NEW x \in Orders, Settleable(x), Settle(x) PROVE orders'[o].status = "NONE"
        BY <3>4 DEF Settleable, Settle, Inv, TypeOK
      <3>5. ASSUME NEW p \in Procs, SyncSettle(p) PROVE orders'[o].status = "NONE"
        BY <3>1, <3>4, <3>5 DEF SyncSettle, Reply, Inv, WellFormedTx, WellFormed
      <3>6. ASSUME NEW p \in Procs, Request(p) PROVE UNCHANGED orders
        BY <3>6 DEF Request, BeginCreate, BeginPrepare, BeginSync, Reply, Begin
      <3>7. ASSUME NEW p \in Procs, Step(p) PROVE orders'[o].status = "NONE"
        <4>1. CreateInsert(p) => Reply(p, "EXISTING")
          BY <2>2
        <4>2. CASE CreateCheck(p) \/ CreateInsert(p) \/ EnsurePaymentTransaction(p) \/ Prepay(p)
          BY <3>1, <4>1, <4>2 DEF CreateCheck, EnsurePaymentTransaction, Prepay, Reply
        <4>. QED
          BY <3>3, <3>5, <3>7, <4>2 DEF Step
      <3>8. CASE Environment
        BY <3>1, <3>2, <3>4, <3>8 DEF Environment, Notify, Pay, ExpireTrade, ChangeProduct, Tick
      <3>. QED
        BY <3>1, <3>6, <3>7, <3>8 DEF Next, Abort, Reply
    <2>. QED
      BY <2>1, <2>2
  <1>. QED
    BY <1>1, CheckedAlways, PTL DEF Spec, OrdersOnlyOnSale
=============================================================================
