------------------------- MODULE OrderLifecycle_proofs -------------------------
(* Proofs about purchase, use and refund together, for any number of handlers, *)
(* orders and requests.  Every action is reduced to what it does to the four   *)
(* rows of each order; what holds of them is then a matter of those few steps. *)
EXTENDS OrderLifecycle, FiniteSetTheorems, TLAPS

\* The rows of one order through a step.
KeepsRows(o) == orders'[o] = orders[o] /\ payments'[o] = payments[o] /\ refunds'[o] = refunds[o]
Rests(o) == KeepsRows(o) /\ cards'[o] = cards[o]

Opens(o) ==
  /\ orders[o].status = "NONE" /\ orders'[o].status = "PENDING"
  /\ payments'[o] = payments[o] /\ cards'[o] = cards[o] /\ refunds'[o] = refunds[o]
Closes(o) ==
  /\ orders[o].status = "PENDING" /\ orders'[o].status = "CLOSED"
  /\ payments'[o] = payments[o] /\ cards'[o] = cards[o] /\ refunds'[o] = refunds[o]
Records(o) ==
  /\ payments[o] = "NONE" /\ payments'[o] = "CREATED"
  /\ orders'[o] = orders[o] /\ cards'[o] = cards[o] /\ refunds'[o] = refunds[o]
Settles(o) ==
  /\ Buying!Settleable(o)
  /\ orders'[o].status = "PAID" /\ payments'[o] = "SUCCEEDED"
  /\ cards'[o] = Buying!CardIssued(o) /\ refunds'[o] = refunds[o]
Locks(o) ==
  /\ Refunding!Known(o) /\ Refunding!Allowed(o) /\ refunds[o].status = "NONE"
  /\ orders'[o].status = "REFUNDING" /\ payments'[o] = payments[o]
  /\ cards'[o] = [cards[o] EXCEPT !.status = "REFUND_LOCKED"]
  /\ refunds'[o].status = "CREATED"
Fails(o) ==
  /\ refunds[o].status \in Refunding!InProgress /\ refunds'[o].status = "FAILED"
  /\ orders'[o].status = IF orders[o].status = "REFUNDING" THEN "PAID" ELSE orders[o].status
  /\ payments'[o] = payments[o]
  /\ cards'[o] = [cards[o] EXCEPT !.status = IF @ = "REFUND_LOCKED" THEN Refunding!Restored(o) ELSE @]
Succeeds(o) ==
  /\ refunds[o].status \in Refunding!InProgress /\ refunds'[o].status = "SUCCEEDED"
  /\ orders'[o].status = IF orders[o].status \in {"REFUNDING", "REFUNDED"} THEN "REFUNDED"
                                                                        ELSE orders[o].status
  /\ payments'[o] = payments[o]
  /\ cards'[o] = [cards[o] EXCEPT !.status =
                    IF @ \in {"REFUND_LOCKED", "REFUNDED"} THEN "REFUNDED" ELSE @]
Marks(o) ==
  /\ refunds[o].status \in Refunding!InProgress /\ refunds'[o].status \in Refunding!InProgress
  /\ orders'[o] = orders[o] /\ payments'[o] = payments[o] /\ cards'[o] = cards[o]
Redeems(o) ==
  /\ KeepsRows(o)
  /\ cards[o].status \in {"ACTIVE", "PENDING_ACTIVATION"}
  /\ cards'[o] = [status |-> IF cards[o].uses + 1 = MaxUses THEN "USED_UP" ELSE "ACTIVE",
                  activated |-> TRUE, uses |-> cards[o].uses + 1]
Expires(o) ==
  KeepsRows(o) /\ cards[o].status = "ACTIVE" /\ cards'[o] = [cards[o] EXCEPT !.status = "EXPIRED"]

RowsStep(o) ==
  \/ Rests(o) \/ Opens(o) \/ Closes(o) \/ Records(o) \/ Settles(o)
  \/ Locks(o) \/ Fails(o) \/ Succeeds(o) \/ Marks(o) \/ Redeems(o) \/ Expires(o)
-----------------------------------------------------------------------------
(* Types under the steps of the purchase. *)

LEMMA NoTxType == Buying!NoTx \in Buying!Tx
  BY DEF Buying!NoTx, Buying!Tx, Buying!Mode

LEMMA FinishType ==
  ASSUME TypeOK, NEW p \in Procs, NEW o \in Buying!Outcome, Buying!Finish(p, o)
  PROVE tx' \in [Procs -> Buying!Tx] /\ answer' \in [Procs -> Buying!Outcome]
  BY NoTxType DEF TypeOK, Buying!TypeOK, Buying!Finish

LEMMA BeginType ==
  ASSUME TypeOK, NEW p \in Procs, NEW t \in Buying!Tx, Buying!Begin(p, t), UNCHANGED refunds
  PROVE TypeOK'
  BY DEF TypeOK, Buying!TypeOK, Buying!Begin, Buying!Outcome

LEMMA ReplyType ==
  ASSUME TypeOK, NEW p \in Procs, NEW o \in Buying!Outcome, Buying!Reply(p, o), UNCHANGED refunds
  PROVE TypeOK'
  BY FinishType DEF TypeOK, Buying!TypeOK, Buying!Reply

LEMMA CountedType == ASSUME NEW u PROVE Buying!Cardinality(Buying!Counted(u)) \in Nat
  <1>1. Buying!Counted(u) \subseteq Orders
    BY DEF Buying!Counted
  <1>2. Cardinality(Buying!Counted(u)) \in Nat
    BY <1>1, BoundsAssumption, FS_Subset, FS_CardinalityType
  <1>3. Buying!Cardinality(Buying!Counted(u)) = Cardinality(Buying!Counted(u))
    BY DEF Cardinality, Buying!Cardinality
  <1>. QED
    BY <1>2, <1>3

LEMMA RequestStep ==
  ASSUME TypeOK, NEW p \in Procs, Buying!Request(p), UNCHANGED refunds
  PROVE TypeOK' /\ \A o \in Orders : Rests(o)
  <1>1. ASSUME NEW u \in Users, NEW r \in Reqs, Buying!BeginCreate(p, u, r)
        PROVE TypeOK' /\ \A o \in Orders : Rests(o)
    <2>1. CASE Buying!Reply(p, "EXISTING")
      BY <2>1, ReplyType DEF Buying!Outcome, Buying!Reply, Rests, KeepsRows
    <2>2. CASE ~Buying!Reply(p, "EXISTING")
      <3>. DEFINE t == [Buying!NoTx EXCEPT !.pc = "createStarted", !.user = u, !.request = r,
                                           !.purchased = Buying!Cardinality(Buying!Counted(u))]
      <3>1. Buying!Begin(p, t)
        BY <1>1, <2>2 DEF Buying!BeginCreate
      <3>2. t \in Buying!Tx
        BY CountedType DEF Buying!NoTx, Buying!Tx, Buying!Mode
      <3>. HIDE DEF t
      <3>. QED
        BY <3>1, <3>2, BeginType DEF Buying!Begin, Rests, KeepsRows
    <2>. QED
      BY <2>1, <2>2
  <1>2. ASSUME NEW o \in Orders, Buying!BeginPrepare(p, o)
        PROVE TypeOK' /\ \A x \in Orders : Rests(x)
    <2>. DEFINE t(pc) == [Buying!NoTx EXCEPT !.pc = pc, !.order = o]
    <2>1. CASE Buying!Reply(p, "ORDER_NOT_PAYABLE")
      BY <2>1, ReplyType DEF Buying!Outcome, Buying!Reply, Rests, KeepsRows
    <2>2. ASSUME NEW pc \in {"prepareLapsed", "prepareLoaded"}, Buying!Begin(p, t(pc))
          PROVE TypeOK' /\ \A x \in Orders : Rests(x)
      <3>1. t(pc) \in Buying!Tx
        BY DEF Buying!NoTx, Buying!Tx, Buying!Mode
      <3>. HIDE DEF t
      <3>. QED
        BY <2>2, <3>1, BeginType DEF Buying!Begin, Rests, KeepsRows
    <2>. QED
      BY <1>2, <2>1, <2>2 DEF Buying!BeginPrepare
  <1>3. ASSUME NEW o \in Orders, Buying!BeginSync(p, o)
        PROVE TypeOK' /\ \A x \in Orders : Rests(x)
    <2>. DEFINE t == [Buying!NoTx EXCEPT !.pc = "syncPaid", !.order = o]
    <2>1. CASE Buying!Reply(p, "NOT_PAID_YET")
      BY <2>1, ReplyType DEF Buying!Outcome, Buying!Reply, Rests, KeepsRows
    <2>2. CASE Buying!Begin(p, t)
      <3>1. t \in Buying!Tx
        BY DEF Buying!NoTx, Buying!Tx, Buying!Mode
      <3>. HIDE DEF t
      <3>. QED
        BY <2>2, <3>1, BeginType DEF Buying!Begin, Rests, KeepsRows
    <2>. QED
      BY <1>3, <2>1, <2>2 DEF Buying!BeginSync
  <1>. QED
    BY <1>1, <1>2, <1>3 DEF Buying!Request

\* A closed order keeps everything but its status.
LEMMA ClosedRow ==
  ASSUME NEW row \in Buying!Order
  PROVE /\ [row EXCEPT !.status = "CLOSED"] \in Buying!Order
        /\ [row EXCEPT !.status = "CLOSED"].status = "CLOSED"
  BY DEF Buying!Order, Buying!OrderStatus
LEMMA StatusRow ==
  ASSUME NEW row \in Buying!Order, NEW st \in Buying!OrderStatus
  PROVE [row EXCEPT !.status = st] \in Buying!Order /\ [row EXCEPT !.status = st].status = st
  BY DEF Buying!Order

\* Settling writes the three rows of its order; a handler's order may be none.
LEMMA SettleStep ==
  ASSUME TypeOK, NEW o, Buying!Settleable(o), Buying!Settle(o), UNCHANGED refunds
  PROVE /\ orders' \in [Orders -> Buying!Order]
        /\ payments' \in [Orders -> {"NONE", "CREATED", "SUCCEEDED"}]
        /\ cards' \in [Orders -> Buying!Card]
        /\ UNCHANGED <<clock, product, trades>>
        /\ \A x \in Orders : RowsStep(x)
  <1>1. /\ orders' = [orders EXCEPT ![o].status = "PAID"]
        /\ payments' = [payments EXCEPT ![o] = "SUCCEEDED"]
        /\ cards' = [cards EXCEPT ![o] = Buying!CardIssued(o)]
        /\ UNCHANGED <<clock, product, trades>>
    BY DEF Buying!Settle
  <1>2. Buying!CardIssued(o) \in Buying!Card
    BY DEF Buying!CardIssued, Buying!Card, Buying!CardStatus
  <1>3. cards' \in [Orders -> Buying!Card]
        /\ payments' \in [Orders -> {"NONE", "CREATED", "SUCCEEDED"}]
    BY <1>1, <1>2 DEF TypeOK, Buying!TypeOK
  <1>4. \A x \in Orders : x # o => Rests(x)
    BY <1>1 DEF Rests, KeepsRows, TypeOK, Buying!TypeOK
  <1>5. CASE o \notin Orders
    <2>1. orders' = orders
      BY <1>1, <1>5 DEF TypeOK, Buying!TypeOK
    <2>. QED
      BY <1>1, <1>3, <1>4, <1>5, <2>1 DEF TypeOK, Buying!TypeOK, RowsStep
  <1>6. CASE o \in Orders
    <2>1. orders[o] \in Buying!Order
      BY <1>6 DEF TypeOK, Buying!TypeOK
    <2>2. orders' = [orders EXCEPT ![o] = [orders[o] EXCEPT !.status = "PAID"]]
      BY <1>1, <1>6 DEF TypeOK, Buying!TypeOK
    <2>3. /\ [orders[o] EXCEPT !.status = "PAID"] \in Buying!Order
          /\ [orders[o] EXCEPT !.status = "PAID"].status = "PAID"
      BY <2>1, StatusRow DEF Buying!OrderStatus
    <2>4. orders' \in [Orders -> Buying!Order] /\ orders'[o].status = "PAID"
      BY <1>6, <2>2, <2>3 DEF TypeOK, Buying!TypeOK
    <2>5. Settles(o)
      BY <1>1, <1>6, <2>4 DEF Settles, TypeOK, Buying!TypeOK
    <2>. QED
      BY <1>1, <1>3, <1>4, <2>4, <2>5 DEF RowsStep
  <1>. QED
    BY <1>5, <1>6

LEMMA CreateInsertStep ==
  ASSUME TypeOK, NEW p \in Procs, Buying!CreateInsert(p), UNCHANGED refunds
  PROVE TypeOK' /\ \A x \in Orders : RowsStep(x)
  <1>1. CASE Buying!Reply(p, "EXISTING")
    BY <1>1, ReplyType DEF Buying!Outcome, Buying!Reply, RowsStep, Rests, KeepsRows
  <1>2. CASE ~Buying!Reply(p, "EXISTING")
    <2>. DEFINE row == [status |-> "PENDING", user |-> tx[p].user, request |-> tx[p].request,
                        expiresAt |-> clock + OrderTTL, mode |-> tx[p].mode]
    <2>1. PICK o \in Buying!Unborn : orders' = [orders EXCEPT ![o] = row]
      BY <1>2 DEF Buying!CreateInsert
    <2>2. o \in Orders /\ orders[o].status = "NONE"
      BY DEF Buying!Unborn, Buying!Exists
    <2>3. Buying!Finish(p, "CREATED") /\ UNCHANGED <<clock, product, payments, cards, trades>>
      BY <1>2 DEF Buying!CreateInsert
    <2>4. row \in Buying!Order /\ row.status = "PENDING"
      <3>1. tx[p] \in Buying!Tx /\ clock + OrderTTL \in Nat
        BY BoundsAssumption DEF TypeOK, Buying!TypeOK
      <3>. QED
        BY <3>1 DEF Buying!Tx, Buying!Order, Buying!OrderStatus
    <2>. HIDE DEF row
    <2>5. orders' \in [Orders -> Buying!Order] /\ Opens(o) /\ \A x \in Orders : x # o => Rests(x)
      BY <2>1, <2>2, <2>3, <2>4 DEF TypeOK, Buying!TypeOK, Opens, Rests, KeepsRows
    <2>. QED
      BY <2>3, <2>5, FinishType DEF TypeOK, Buying!TypeOK, Buying!Outcome, RowsStep
  <1>. QED
    BY <1>1, <1>2

\* An order that is closed was PENDING up to then.
LEMMA CloseStep ==
  ASSUME TypeOK, orders' = [o \in Orders |-> orders'[o]],
         \A o \in Orders :
           \/ orders'[o] = orders[o]
           \/ orders[o].status = "PENDING" /\ orders'[o] = [orders[o] EXCEPT !.status = "CLOSED"],
         UNCHANGED <<payments, cards, refunds>>
  PROVE orders' \in [Orders -> Buying!Order] /\ \A o \in Orders : RowsStep(o)
  <1>1. ASSUME NEW o \in Orders PROVE orders'[o] \in Buying!Order /\ RowsStep(o)
    <2>1. orders[o] \in Buying!Order
      BY DEF TypeOK, Buying!TypeOK
    <2>2. CASE orders'[o] = orders[o]
      BY <2>1, <2>2 DEF RowsStep, Rests, KeepsRows
    <2>3. CASE orders[o].status = "PENDING" /\ orders'[o] = [orders[o] EXCEPT !.status = "CLOSED"]
      BY <2>1, <2>3, ClosedRow DEF RowsStep, Closes
    <2>. QED
      BY <2>2, <2>3
  <1>. QED
    BY <1>1

LEMMA PurchaseStep ==
  ASSUME TypeOK, NEW p \in Procs, Buying!Step(p), UNCHANGED refunds
  PROVE TypeOK' /\ \A x \in Orders : RowsStep(x)
  <1>1. CASE Buying!CreateCheck(p)
    <2>1. CASE \E o \in Buying!Outcome : Buying!Reply(p, o)
      BY <2>1, ReplyType DEF Buying!Reply, RowsStep, Rests, KeepsRows
    <2>2. CASE /\ tx' = [tx EXCEPT ![p].pc = "createChecked", ![p].mode = product.mode]
               /\ UNCHANGED <<clock, product, orders, payments, cards, trades, answer>>
      <3>1. tx' \in [Procs -> Buying!Tx]
        <4>1. tx[p] \in Buying!Tx /\ product.mode \in Buying!Mode
          BY DEF TypeOK, Buying!TypeOK
        <4>. QED
          BY <2>2, <4>1 DEF TypeOK, Buying!TypeOK, Buying!Tx
      <3>. QED
        BY <2>2, <3>1 DEF TypeOK, Buying!TypeOK, RowsStep, Rests, KeepsRows
    <2>. QED
      BY <1>1, <2>1, <2>2 DEF Buying!CreateCheck, Buying!Outcome
  <1>2. CASE Buying!CreateInsert(p)
    BY <1>2, CreateInsertStep
  <1>3. CASE Buying!PrepareClose(p)
    <2>. DEFINE o == tx[p].order
    <2>1. /\ orders' = [orders EXCEPT ![o].status = IF @ = "PENDING" THEN "CLOSED" ELSE @]
          /\ Buying!Finish(p, "ORDER_NOT_PAYABLE")
          /\ UNCHANGED <<clock, product, payments, cards, trades>>
      BY <1>3 DEF Buying!PrepareClose
    <2>2. orders' = [x \in Orders |-> orders'[x]]
          /\ \A x \in Orders : x # o => orders'[x] = orders[x]
      BY <2>1 DEF TypeOK, Buying!TypeOK
    <2>3. ASSUME o \in Orders
          PROVE \/ orders'[o] = orders[o]
                \/ /\ orders[o].status = "PENDING"
                   /\ orders'[o] = [orders[o] EXCEPT !.status = "CLOSED"]
      <3>1. orders[o] \in Buying!Order
        BY <2>3 DEF TypeOK, Buying!TypeOK
      <3>2. orders'[o] = [orders[o] EXCEPT !.status =
                            IF orders[o].status = "PENDING" THEN "CLOSED" ELSE orders[o].status]
        BY <2>1, <2>3 DEF TypeOK, Buying!TypeOK
      <3>3. orders[o].status # "PENDING" =>
              [orders[o] EXCEPT !.status = orders[o].status] = orders[o]
        BY <3>1 DEF Buying!Order
      <3>. QED
        BY <3>2, <3>3
    <2>4. orders' \in [Orders -> Buying!Order] /\ \A x \in Orders : RowsStep(x)
      BY <2>1, <2>2, <2>3, CloseStep
    <2>. QED
      BY <2>1, <2>4, FinishType DEF TypeOK, Buying!TypeOK, Buying!Outcome
  <1>4. CASE Buying!EnsurePaymentTransaction(p)
    <2>1. tx' \in [Procs -> Buying!Tx]
      BY <1>4 DEF Buying!EnsurePaymentTransaction, TypeOK, Buying!TypeOK, Buying!Tx
    <2>2. /\ payments' \in [Orders -> {"NONE", "CREATED", "SUCCEEDED"}]
          /\ \A x \in Orders : \/ payments'[x] = payments[x]
                               \/ payments[x] = "NONE" /\ payments'[x] = "CREATED"
      BY <1>4 DEF Buying!EnsurePaymentTransaction, TypeOK, Buying!TypeOK
    <2>3. UNCHANGED <<clock, product, orders, cards, trades, answer>>
      BY <1>4 DEF Buying!EnsurePaymentTransaction
    <2>. QED
      BY <2>1, <2>2, <2>3 DEF TypeOK, Buying!TypeOK, RowsStep, Rests, KeepsRows, Records
  <1>5. CASE Buying!Prepay(p)
    <2>1. /\ trades' \in [Orders -> {"NONE", "NOTPAY", "SUCCESS", "CLOSED"}]
          /\ UNCHANGED <<clock, product, orders, payments, cards>>
      BY <1>5 DEF Buying!Prepay, TypeOK, Buying!TypeOK
    <2>2. Buying!Finish(p, "PREPARED") \/ Buying!Finish(p, "WECHAT_PREPAY_FAILED")
      BY <1>5 DEF Buying!Prepay
    <2>. QED
      BY <2>1, <2>2, FinishType
      DEF TypeOK, Buying!TypeOK, Buying!Outcome, RowsStep, Rests, KeepsRows
  <1>6. CASE Buying!SyncSettle(p)
    <2>. DEFINE o == tx[p].order
    <2>1. CASE Buying!Reply(p, "SETTLED") \/ Buying!Reply(p, "PAYMENT_SYNC_FAILED")
      BY <2>1, ReplyType DEF Buying!Outcome, Buying!Reply, RowsStep, Rests, KeepsRows
    <2>2. CASE Buying!Settleable(o) /\ Buying!Settle(o) /\ Buying!Finish(p, "SETTLED")
      <3>. HIDE DEF o
      <3>. QED
        BY <2>2, SettleStep, FinishType DEF TypeOK, Buying!TypeOK, Buying!Outcome
    <2>. QED
      BY <1>6, <2>1, <2>2 DEF Buying!SyncSettle
  <1>. QED
    BY <1>1, <1>2, <1>3, <1>4, <1>5, <1>6 DEF Buying!Step

LEMMA BuyingStep ==
  ASSUME TypeOK, Buying!Next, UNCHANGED refunds
  PROVE TypeOK' /\ \A x \in Orders : RowsStep(x)
  <1>1. ASSUME NEW p \in Procs, Buying!Request(p) \/ Buying!Step(p) \/ Buying!Abort(p)
        PROVE TypeOK' /\ \A x \in Orders : RowsStep(x)
    <2>1. CASE Buying!Abort(p)
      BY <2>1, ReplyType
      DEF Buying!Abort, Buying!Outcome, Buying!Reply, RowsStep, Rests, KeepsRows
    <2>. QED
      BY <1>1, <2>1, RequestStep, PurchaseStep DEF RowsStep
  <1>2. ASSUME NEW u \in Users, Buying!CloseExpired(u)
        PROVE TypeOK' /\ \A x \in Orders : RowsStep(x)
    <2>1. /\ orders' = [o \in Orders |-> orders'[o]]
          /\ \A o \in Orders :
               \/ orders'[o] = orders[o]
               \/ orders[o].status = "PENDING" /\ orders'[o] = [orders[o] EXCEPT !.status = "CLOSED"]
          /\ UNCHANGED <<clock, product, payments, cards, trades, tx, answer>>
      BY <1>2 DEF Buying!CloseExpired, Buying!Lapsed
    <2>. QED
      BY <2>1, CloseStep DEF TypeOK, Buying!TypeOK
  <1>3. ASSUME NEW o \in Orders, Buying!Notify(o)
        PROVE TypeOK' /\ \A x \in Orders : RowsStep(x)
    BY <1>3, SettleStep DEF Buying!Notify, TypeOK, Buying!TypeOK
  <1>4. ASSUME NEW o \in Orders, Buying!Pay(o) \/ Buying!ExpireTrade(o)
        PROVE TypeOK' /\ \A x \in Orders : RowsStep(x)
    <2>1. /\ trades' \in [Orders -> {"NONE", "NOTPAY", "SUCCESS", "CLOSED"}]
          /\ UNCHANGED <<clock, product, orders, payments, cards, tx, answer>>
      BY <1>4 DEF Buying!Pay, Buying!ExpireTrade, TypeOK, Buying!TypeOK
    <2>. QED
      BY <2>1 DEF TypeOK, Buying!TypeOK, RowsStep, Rests, KeepsRows
  <1>5. ASSUME NEW onSale \in BOOLEAN, NEW mode \in Buying!Mode,
               Buying!ChangeProduct([onSale |-> onSale, mode |-> mode])
        PROVE TypeOK' /\ \A x \in Orders : RowsStep(x)
    BY <1>5 DEF Buying!ChangeProduct, TypeOK, Buying!TypeOK, RowsStep, Rests, KeepsRows
  <1>6. CASE Buying!Tick
    BY <1>6 DEF Buying!Tick, TypeOK, Buying!TypeOK, RowsStep, Rests, KeepsRows
  <1>. QED
    BY <1>1, <1>2, <1>3, <1>4, <1>5, <1>6 DEF Buying!Next, Buying!Environment
-----------------------------------------------------------------------------
(* The steps of the refund, and of the use of cards. *)

RowTypes ==
  /\ orders \in [Orders -> Buying!Order]
  /\ payments \in [Orders -> {"NONE", "CREATED", "SUCCEEDED"}]
  /\ cards \in [Orders -> Buying!Card]
  /\ refunds \in [Orders -> Refunding!Refund]

LEMMA Types == TypeOK => RowTypes
  BY DEF TypeOK, Buying!TypeOK, RowTypes

LEMMA TypesAgain == ASSUME TypeOK, RowTypes', UNCHANGED paymentVars PROVE TypeOK'
  BY DEF TypeOK, Buying!TypeOK, RowTypes, paymentVars

\* A row of a table changes its status: the tables keep their types, whether or
\* not the order a handler names is one.
LEMMA StatusTables ==
  ASSUME RowTypes, NEW o, NEW os \in Buying!OrderStatus, NEW cs \in Buying!CardStatus,
         orders' = [orders EXCEPT ![o].status = os], cards' = [cards EXCEPT ![o].status = cs]
  PROVE /\ orders' \in [Orders -> Buying!Order] /\ cards' \in [Orders -> Buying!Card]
        /\ o \in Orders => /\ orders'[o].status = os
                           /\ cards'[o] = [cards[o] EXCEPT !.status = cs]
        /\ \A x \in Orders : x # o => orders'[x] = orders[x] /\ cards'[x] = cards[x]
  <1>1. CASE o \notin Orders
    BY <1>1 DEF RowTypes
  <1>2. CASE o \in Orders
    <2>1. orders[o] \in Buying!Order /\ cards[o] \in Buying!Card
      BY <1>2 DEF RowTypes
    <2>2. /\ orders' = [orders EXCEPT ![o] = [orders[o] EXCEPT !.status = os]]
          /\ cards' = [cards EXCEPT ![o] = [cards[o] EXCEPT !.status = cs]]
      BY <1>2 DEF RowTypes
    <2>3. [cards[o] EXCEPT !.status = cs] \in Buying!Card
      BY <2>1 DEF Buying!Card
    <2>4. /\ [orders[o] EXCEPT !.status = os] \in Buying!Order
          /\ [orders[o] EXCEPT !.status = os].status = os
      BY <2>1, StatusRow
    <2>. QED
      BY <1>2, <2>2, <2>3, <2>4 DEF RowTypes
  <1>. QED
    BY <1>1, <1>2

LEMMA RefundTable ==
  ASSUME RowTypes, NEW o, NEW rs \in Refunding!RefundStatus,
         refunds' = [refunds EXCEPT ![o].status = rs]
  PROVE /\ refunds' \in [Orders -> Refunding!Refund]
        /\ o \in Orders => refunds'[o].status = rs
        /\ \A x \in Orders : x # o => refunds'[x] = refunds[x]
  <1>1. CASE o \notin Orders
    BY <1>1 DEF RowTypes
  <1>2. CASE o \in Orders
    <2>1. refunds[o] \in Refunding!Refund
      BY <1>2 DEF RowTypes
    <2>2. refunds' = [refunds EXCEPT ![o] = [refunds[o] EXCEPT !.status = rs]]
      BY <1>2 DEF RowTypes
    <2>3. /\ [refunds[o] EXCEPT !.status = rs] \in Refunding!Refund
          /\ [refunds[o] EXCEPT !.status = rs].status = rs
      BY <2>1 DEF Refunding!Refund
    <2>. QED
      BY <1>2, <2>2, <2>3 DEF RowTypes
  <1>. QED
    BY <1>1, <1>2

LEMMA LockStep ==
  ASSUME RowTypes, NEW p \in Clerks, NEW o \in Orders, NEW a \in Admins, NEW r \in Reqs,
         Refunding!Lock(p, o, a, r)
  PROVE RowTypes' /\ \A x \in Orders : RowsStep(x)
  <1>. DEFINE new == [status |-> "CREATED", operator |-> a, request |-> r]
  <1>1. /\ orders' = [orders EXCEPT ![o].status = "REFUNDING"]
        /\ cards' = [cards EXCEPT ![o].status = "REFUND_LOCKED"]
        /\ refunds' = [refunds EXCEPT ![o] = new] /\ payments' = payments
        /\ Refunding!Known(o) /\ Refunding!Allowed(o) /\ refunds[o].status = "NONE"
    BY DEF Refunding!Lock, Refunding!LockedRows
  <1>2. new \in Refunding!Refund /\ new.status = "CREATED"
    BY DEF Refunding!Refund, Refunding!RefundStatus
  <1>. HIDE DEF new
  <1>3. /\ refunds' \in [Orders -> Refunding!Refund] /\ refunds'[o].status = "CREATED"
        /\ \A x \in Orders : x # o => refunds'[x] = refunds[x]
    BY <1>1, <1>2 DEF RowTypes
  <1>4. "REFUNDING" \in Buying!OrderStatus /\ "REFUND_LOCKED" \in Buying!CardStatus
    BY DEF Buying!OrderStatus, Buying!CardStatus
  <1>5. /\ orders' \in [Orders -> Buying!Order] /\ cards' \in [Orders -> Buying!Card]
        /\ orders'[o].status = "REFUNDING"
        /\ cards'[o] = [cards[o] EXCEPT !.status = "REFUND_LOCKED"]
        /\ \A x \in Orders : x # o => orders'[x] = orders[x] /\ cards'[x] = cards[x]
    BY <1>1, <1>4, StatusTables
  <1>. QED
    BY <1>1, <1>3, <1>5 DEF RowTypes, RowsStep, Locks, Rests, KeepsRows

LEMMA FailedStep ==
  ASSUME RowTypes, NEW o, refunds[o].status \in Refunding!InProgress, Refunding!Failed(o)
  PROVE RowTypes' /\ \A x \in Orders : RowsStep(x)
  <1>. DEFINE os == IF orders[o].status = "REFUNDING" THEN "PAID" ELSE orders[o].status
              cs == IF cards[o].status = "REFUND_LOCKED" THEN Refunding!Restored(o)
                                                         ELSE cards[o].status
  <1>1. /\ orders' = [orders EXCEPT ![o].status = os] /\ cards' = [cards EXCEPT ![o].status = cs]
        /\ refunds' = [refunds EXCEPT ![o].status = "FAILED"] /\ payments' = payments
    BY DEF Refunding!Failed
  <1>2. /\ refunds' \in [Orders -> Refunding!Refund]
        /\ o \in Orders => refunds'[o].status = "FAILED"
        /\ \A x \in Orders : x # o => refunds'[x] = refunds[x]
    BY <1>1, RefundTable DEF Refunding!RefundStatus
  <1>3. CASE o \notin Orders
    BY <1>1, <1>2, <1>3 DEF RowTypes, RowsStep, Rests, KeepsRows
  <1>4. CASE o \in Orders
    <2>1. os \in Buying!OrderStatus /\ cs \in Buying!CardStatus
      BY <1>4 DEF RowTypes, Buying!Order, Buying!OrderStatus, Buying!Card, Buying!CardStatus,
                  Refunding!Restored
    <2>2. /\ orders' \in [Orders -> Buying!Order] /\ cards' \in [Orders -> Buying!Card]
          /\ orders'[o].status = os /\ cards'[o] = [cards[o] EXCEPT !.status = cs]
          /\ \A x \in Orders : x # o => orders'[x] = orders[x] /\ cards'[x] = cards[x]
      <3>. HIDE DEF os, cs
      <3>. QED
        BY <1>1, <1>4, <2>1, StatusTables
    <2>3. Fails(o)
      BY <1>1, <1>2, <1>4, <2>2 DEF Fails
    <2>4. \A x \in Orders : x # o => Rests(x)
      BY <1>1, <1>2, <2>2 DEF Rests, KeepsRows
    <2>. QED
      BY <1>1, <1>2, <2>2, <2>3, <2>4 DEF RowTypes, RowsStep
  <1>. QED
    BY <1>3, <1>4

LEMMA SucceededStep ==
  ASSUME RowTypes, NEW o, refunds[o].status \in Refunding!InProgress, Refunding!Succeeded(o)
  PROVE RowTypes' /\ \A x \in Orders : RowsStep(x)
  <1>. DEFINE os == IF orders[o].status \in {"REFUNDING", "REFUNDED"} THEN "REFUNDED"
                                                                     ELSE orders[o].status
              cs == IF cards[o].status \in {"REFUND_LOCKED", "REFUNDED"} THEN "REFUNDED"
                                                                        ELSE cards[o].status
  <1>1. /\ orders' = [orders EXCEPT ![o].status = os] /\ cards' = [cards EXCEPT ![o].status = cs]
        /\ refunds' = [refunds EXCEPT ![o].status = "SUCCEEDED"] /\ payments' = payments
    BY DEF Refunding!Succeeded
  <1>2. /\ refunds' \in [Orders -> Refunding!Refund]
        /\ o \in Orders => refunds'[o].status = "SUCCEEDED"
        /\ \A x \in Orders : x # o => refunds'[x] = refunds[x]
    BY <1>1, RefundTable DEF Refunding!RefundStatus
  <1>3. CASE o \notin Orders
    BY <1>1, <1>2, <1>3 DEF RowTypes, RowsStep, Rests, KeepsRows
  <1>4. CASE o \in Orders
    <2>1. os \in Buying!OrderStatus /\ cs \in Buying!CardStatus
      BY <1>4 DEF RowTypes, Buying!Order, Buying!OrderStatus, Buying!Card, Buying!CardStatus
    <2>2. /\ orders' \in [Orders -> Buying!Order] /\ cards' \in [Orders -> Buying!Card]
          /\ orders'[o].status = os /\ cards'[o] = [cards[o] EXCEPT !.status = cs]
          /\ \A x \in Orders : x # o => orders'[x] = orders[x] /\ cards'[x] = cards[x]
      <3>. HIDE DEF os, cs
      <3>. QED
        BY <1>1, <1>4, <2>1, StatusTables
    <2>3. Succeeds(o)
      BY <1>1, <1>2, <1>4, <2>2 DEF Succeeds
    <2>4. \A x \in Orders : x # o => Rests(x)
      BY <1>1, <1>2, <2>2 DEF Rests, KeepsRows
    <2>. QED
      BY <1>1, <1>2, <2>2, <2>3, <2>4 DEF RowTypes, RowsStep
  <1>. QED
    BY <1>3, <1>4

LEMMA RestStep ==
  ASSUME RowTypes, UNCHANGED <<orders, payments, cards, refunds>>
  PROVE RowTypes' /\ \A x \in Orders : RowsStep(x)
  BY DEF RowTypes, RowsStep, Rests, KeepsRows

LEMMA ApplyStep ==
  ASSUME RowTypes, NEW o, NEW result, Refunding!ApplyRefundResult(o, result)
  PROVE RowTypes' /\ \A x \in Orders : RowsStep(x)
  <1>1. CASE UNCHANGED Refunding!rows
    BY <1>1, RestStep DEF Refunding!rows
  <1>2. CASE refunds[o].status \in Refunding!InProgress /\ Refunding!Succeeded(o)
    BY <1>2, SucceededStep
  <1>3. CASE refunds[o].status \in Refunding!InProgress /\ Refunding!Failed(o)
    BY <1>3, FailedStep
  <1>4. ASSUME NEW st \in {"PROCESSING", "ABNORMAL"},
               refunds[o].status \in Refunding!InProgress, Refunding!Marked(o, st)
        PROVE RowTypes' /\ \A x \in Orders : RowsStep(x)
    <2>1. /\ refunds' = [refunds EXCEPT ![o].status = st]
          /\ UNCHANGED <<orders, payments, cards>>
      BY <1>4 DEF Refunding!Marked
    <2>2. /\ refunds' \in [Orders -> Refunding!Refund]
          /\ o \in Orders => refunds'[o].status = st
          /\ \A x \in Orders : x # o => refunds'[x] = refunds[x]
      BY <2>1, RefundTable DEF Refunding!RefundStatus
    <2>. QED
      BY <1>4, <2>1, <2>2
      DEF RowTypes, RowsStep, Rests, KeepsRows, Marks, Refunding!InProgress
  <1>. QED
    BY <1>1, <1>2, <1>3, <1>4 DEF Refunding!ApplyRefundResult

LEMMA RedeemStep ==
  ASSUME RowTypes, NEW o \in Orders, Refunding!Redeem(o)
  PROVE RowTypes' /\ \A x \in Orders : RowsStep(x)
  <1>. DEFINE new == [status |-> IF cards[o].uses + 1 = MaxUses THEN "USED_UP" ELSE "ACTIVE",
                      activated |-> TRUE, uses |-> cards[o].uses + 1]
  <1>1. new \in Buying!Card
    BY DEF RowTypes, Buying!Card, Buying!CardStatus
  <1>2. /\ cards' = [cards EXCEPT ![o] = new] /\ UNCHANGED <<orders, payments, refunds>>
        /\ cards[o].status \in {"ACTIVE", "PENDING_ACTIVATION"}
    BY DEF Refunding!Redeem
  <1>3. cards'[o] = new /\ \A x \in Orders : x # o => cards'[x] = cards[x]
    BY <1>2 DEF RowTypes
  <1>4. Redeems(o)
    BY <1>2, <1>3 DEF Redeems, KeepsRows
  <1>. HIDE DEF new
  <1>. QED
    BY <1>1, <1>2, <1>3, <1>4 DEF RowTypes, RowsStep, Rests, KeepsRows

LEMMA ExpireStep ==
  ASSUME RowTypes, NEW o \in Orders, Refunding!ExpireCard(o)
  PROVE RowTypes' /\ \A x \in Orders : RowsStep(x)
  <1>1. cards' = [cards EXCEPT ![o].status = "EXPIRED"] /\ UNCHANGED <<orders, payments, refunds>>
    BY DEF Refunding!ExpireCard
  <1>2. cards' \in [Orders -> Buying!Card]
    BY <1>1 DEF RowTypes, Buying!Card, Buying!CardStatus
  <1>. QED
    BY <1>1, <1>2 DEF Refunding!ExpireCard, RowTypes, RowsStep, Rests, KeepsRows, Expires

LEMMA RefundingStep ==
  ASSUME RowTypes, Refunding!Next
  PROVE RowTypes' /\ \A x \in Orders : RowsStep(x)
  <1>1. ASSUME NEW p \in Clerks, Refunding!Request(p)
        PROVE RowTypes' /\ \A x \in Orders : RowsStep(x)
    <2>1. CASE UNCHANGED Refunding!rows
      BY <2>1, RestStep DEF Refunding!rows
    <2>. QED
      BY <1>1, <2>1, LockStep
      DEF Refunding!Request, Refunding!Resume, Refunding!Refuse, Refunding!Sync, Refunding!Answer
  <1>2. ASSUME NEW p \in Clerks, Refunding!Step(p)
        PROVE RowTypes' /\ \A x \in Orders : RowsStep(x)
    <2>1. CASE UNCHANGED Refunding!rows
      BY <2>1, RestStep DEF Refunding!rows
    <2>2. CASE Refunding!ApplyAnswer(p)
      BY <2>2, ApplyStep DEF Refunding!ApplyAnswer
    <2>3. CASE Refunding!FailRefundRequest(p)
      BY <2>1, <2>3, FailedStep DEF Refunding!FailRefundRequest, Refunding!InProgress
    <2>. QED
      BY <1>2, <2>1, <2>2, <2>3
      DEF Refunding!Step, Refunding!CallAccepted, Refunding!CallRejected, Refunding!CallUnknown
  <1>3. ASSUME NEW p \in Clerks, Refunding!Abort(p)
        PROVE RowTypes' /\ \A x \in Orders : RowsStep(x)
    BY <1>3, RestStep DEF Refunding!Abort, Refunding!Answer, Refunding!rows
  <1>4. CASE Refunding!Wechat
    <2>1. CASE UNCHANGED Refunding!rows
      BY <2>1, RestStep DEF Refunding!rows
    <2>. QED
      BY <1>4, <2>1, ApplyStep
      DEF Refunding!Wechat, Refunding!Progress, Refunding!LateArrival, Refunding!RefundNotify
  <1>5. CASE Refunding!UseOfCards
    BY <1>5, RedeemStep, ExpireStep DEF Refunding!UseOfCards
  <1>. QED
    BY <1>1, <1>2, <1>3, <1>4, <1>5 DEF Refunding!Next

LEMMA NextRows ==
  ASSUME TypeOK, [Next]_vars
  PROVE TypeOK' /\ \A o \in Orders : RowsStep(o)
  <1>1. CASE Buying!Next /\ UNCHANGED refundVars
    BY <1>1, BuyingStep DEF refundVars
  <1>2. CASE Refunding!Next /\ UNCHANGED paymentVars
    BY <1>2, Types, TypesAgain, RefundingStep
  <1>3. CASE UNCHANGED vars
    BY <1>3, Types, TypesAgain, RestStep DEF vars, refundVars
  <1>. QED
    BY <1>1, <1>2, <1>3 DEF Next
-----------------------------------------------------------------------------
(* Inv, one order at a time. *)

RowInv(o) ==
  /\ orders[o].status \in {"PAID", "REFUNDING", "REFUNDED"} <=> cards[o].status # "NONE"
  /\ payments[o] = "SUCCEEDED" <=> cards[o].status # "NONE"
  /\ refunds[o].status \in Refunding!InProgress <=> orders[o].status = "REFUNDING"
  /\ refunds[o].status \in Refunding!InProgress <=> cards[o].status = "REFUND_LOCKED"
  /\ refunds[o].status = "SUCCEEDED" <=> orders[o].status = "REFUNDED"
  /\ refunds[o].status = "SUCCEEDED" <=> cards[o].status = "REFUNDED"
  /\ refunds[o].status # "NONE" => cards[o].status # "NONE"
  /\ cards[o].status \in {"REFUND_LOCKED", "REFUNDED"} => cards[o].uses = 0
  /\ cards[o].status \in {"ACTIVE", "PENDING_ACTIVATION"} =>
       (cards[o].status = "PENDING_ACTIVATION" <=> ~cards[o].activated)
  /\ cards[o].status \in {"ACTIVE", "PENDING_ACTIVATION", "REFUND_LOCKED"} =>
       cards[o].uses < MaxUses

LEMMA Standings ==
  ASSUME NEW status \in Buying!CardStatus
  PROVE /\ StandingOf(status) = "good" <=> status \in {"ACTIVE", "PENDING_ACTIVATION"}
        /\ StandingOf(status) = "held" <=> status = "REFUND_LOCKED"
        /\ StandingOf(status) = "over" <=> status \in {"USED_UP", "EXPIRED"}
        /\ StandingOf(status) = "refunded" <=> status = "REFUNDED"
        /\ StandingOf(status) = "none" <=> status = "NONE"
  BY DEF StandingOf, Buying!CardStatus

LEMMA RowTypesOf ==
  ASSUME RowTypes, NEW o \in Orders
  PROVE /\ orders[o].status \in Buying!OrderStatus /\ cards[o] \in Buying!Card
        /\ refunds[o].status \in Refunding!RefundStatus
        /\ cards[o].status \in Buying!CardStatus /\ cards[o].uses \in Nat
  BY DEF RowTypes, Buying!Order, Buying!Card, Refunding!Refund

LEMMA InvRows == Inv <=> TypeOK /\ \A o \in Orders : RowInv(o)
  <1>1. ASSUME TypeOK, NEW o \in Orders
        PROVE StandingOf(cards[o].status) \in {"good", "held"} <=>
                cards[o].status \in {"ACTIVE", "PENDING_ACTIVATION", "REFUND_LOCKED"}
    BY <1>1, Types, RowTypesOf, Standings
  <1>. QED
    BY <1>1
    DEF Inv, RowInv, RefundHasCard, UseLeft, Buying!PaidIffCard, Refunding!RefundStatesAgree,
        Refunding!RefundedCardUnused, Refunding!ActivationKept, Refunding!Refundable

LEMMA RowStepInv ==
  ASSUME RowTypes, RowTypes', NEW o \in Orders, RowInv(o), RowsStep(o)
  PROVE RowInv(o)'
  <1>1. /\ orders[o].status \in Buying!OrderStatus /\ cards[o] \in Buying!Card
        /\ refunds[o].status \in Refunding!RefundStatus
        /\ cards[o].status \in Buying!CardStatus /\ cards[o].uses \in Nat
        /\ cards[o].activated \in BOOLEAN
    BY RowTypesOf DEF Buying!Card
  <1>2. CASE Rests(o) \/ Opens(o) \/ Closes(o) \/ Records(o)
    BY <1>1, <1>2 DEF Rests, Opens, Closes, Records, KeepsRows, RowInv, Refunding!InProgress
  <1>3. CASE Settles(o)
    <2>1. /\ cards'[o].status \in {"ACTIVE", "PENDING_ACTIVATION"} /\ cards'[o].uses = 0
          /\ cards'[o].status = "PENDING_ACTIVATION" <=> ~cards'[o].activated
      <3>1. cards'[o] = Buying!CardIssued(o)
        BY <1>3 DEF Settles
      <3>2. /\ cards'[o].status = IF orders[o].mode = "PURCHASE" THEN "ACTIVE"
                                                            ELSE "PENDING_ACTIVATION"
            /\ cards'[o].uses = 0
        BY <3>1 DEF Buying!CardIssued
      <3>3. cards'[o].activated = (orders[o].mode = "PURCHASE")
        BY <3>1 DEF Buying!CardIssued
      <3>. QED
        BY <3>2, <3>3
    <2>2. refunds[o].status = "NONE"
      BY <1>3 DEF Settles, Buying!Settleable, RowInv
    <2>. QED
      BY <1>3, <2>1, <2>2, BoundsAssumption DEF Settles, RowInv, Refunding!InProgress
  <1>4. CASE Locks(o)
    <2>1. /\ cards'[o].status = "REFUND_LOCKED" /\ cards'[o].uses = 0
      BY <1>1, <1>4 DEF Locks, Refunding!Allowed, Buying!Card
    <2>. QED
      BY <1>4, <2>1, BoundsAssumption DEF Locks, Refunding!Known, RowInv, Refunding!InProgress
  <1>5. CASE Fails(o)
    <2>1. /\ cards[o].status = "REFUND_LOCKED" /\ orders[o].status = "REFUNDING"
      BY <1>5 DEF Fails, RowInv
    <2>2. /\ cards'[o].status = Refunding!Restored(o) /\ cards'[o].uses = cards[o].uses
          /\ cards'[o].activated = cards[o].activated
      BY <1>1, <1>5, <2>1 DEF Fails, Buying!Card
    <2>. QED
      BY <1>1, <1>5, <2>1, <2>2 DEF Fails, RowInv, Refunding!InProgress, Refunding!Restored
  <1>6. CASE Succeeds(o)
    <2>1. /\ cards[o].status = "REFUND_LOCKED" /\ orders[o].status = "REFUNDING"
      BY <1>6 DEF Succeeds, RowInv
    <2>2. cards'[o].status = "REFUNDED" /\ cards'[o].uses = cards[o].uses
      BY <1>1, <1>6, <2>1 DEF Succeeds, Buying!Card
    <2>. QED
      BY <1>1, <1>6, <2>1, <2>2 DEF Succeeds, RowInv, Refunding!InProgress
  <1>7. CASE Marks(o)
    BY <1>7 DEF Marks, RowInv, Refunding!InProgress
  <1>8. CASE Redeems(o)
    <2>1. /\ cards'[o].status = IF cards[o].uses + 1 = MaxUses THEN "USED_UP" ELSE "ACTIVE"
          /\ cards'[o].uses = cards[o].uses + 1 /\ cards'[o].activated = TRUE
      BY <1>8 DEF Redeems
    <2>. QED
      BY <1>1, <1>8, <2>1, BoundsAssumption DEF Redeems, KeepsRows, RowInv
  <1>9. CASE Expires(o)
    <2>1. cards'[o].status = "EXPIRED"
      BY <1>1, <1>9 DEF Expires, Buying!Card
    <2>. QED
      BY <1>9, <2>1 DEF Expires, KeepsRows, RowInv
  <1>. QED
    BY <1>2, <1>3, <1>4, <1>5, <1>6, <1>7, <1>8, <1>9 DEF RowsStep

LEMMA InitTypes == Init => TypeOK
  <1>. SUFFICES ASSUME Init PROVE TypeOK
    OBVIOUS
  <1>1. Buying!NoOrder \in Buying!Order
    BY DEF Buying!NoOrder, Buying!Order, Buying!OrderStatus, Buying!Mode
  <1>2. Buying!NoCard \in Buying!Card
    BY DEF Buying!NoCard, Buying!Card, Buying!CardStatus
  <1>3. Refunding!NoRefund \in Refunding!Refund
    BY DEF Refunding!NoRefund, Refunding!Refund, Refunding!RefundStatus
  <1>. QED
    BY <1>1, <1>2, <1>3, NoTxType
    DEF Init, Buying!Init, TypeOK, Buying!TypeOK, Buying!Outcome

LEMMA InitInv == Init => Inv
  <1>. SUFFICES ASSUME Init PROVE TypeOK /\ \A o \in Orders : RowInv(o)
    BY InvRows
  <1>1. ASSUME NEW o \in Orders PROVE RowInv(o)
    <2>1. /\ orders[o].status = "NONE" /\ payments[o] = "NONE"
          /\ cards[o].status = "NONE" /\ refunds[o].status = "NONE"
      BY DEF Init, Buying!Init, Buying!NoOrder, Buying!NoCard, Refunding!NoRefund
    <2>. QED
      BY <2>1 DEF RowInv, Refunding!InProgress
  <1>. QED
    BY <1>1, InitTypes

LEMMA NextInv == Inv /\ [Next]_vars => Inv'
  <1>. SUFFICES ASSUME Inv, [Next]_vars PROVE Inv'
    OBVIOUS
  <1>1. TypeOK /\ RowTypes /\ \A o \in Orders : RowInv(o)
    BY InvRows, Types
  <1>2. TypeOK' /\ \A o \in Orders : RowsStep(o)
    BY <1>1, NextRows
  <1>3. RowTypes'
    BY <1>2 DEF TypeOK, Buying!TypeOK, RowTypes
  <1>4. \A o \in Orders : RowInv(o)'
    BY <1>1, <1>2, <1>3, RowStepInv
  <1>5. ASSUME NEW o \in Orders
        PROVE StandingOf(cards'[o].status) \in {"good", "held"} <=>
                cards'[o].status \in {"ACTIVE", "PENDING_ACTIVATION", "REFUND_LOCKED"}
    <2>1. cards'[o].status \in Buying!CardStatus
      BY <1>3 DEF RowTypes, Buying!Card
    <2>. QED
      BY <2>1, Standings
  <1>. QED
    BY <1>2, <1>4, <1>5
    DEF Inv, RowInv, RefundHasCard, UseLeft, Buying!PaidIffCard, Refunding!RefundStatesAgree,
        Refunding!RefundedCardUnused, Refunding!ActivationKept, Refunding!Refundable

LEMMA AlwaysInv == Spec => []Inv
  BY InitInv, NextInv, PTL DEF Spec

\* What Payment and Refund each promise of the rows they share holds of both
\* together: a card is out exactly for a paid order, is locked exactly while its
\* refund is under way, and only if it was never used.
THEOREM SharedRows ==
  Spec => [](/\ Buying!PaidIffCard /\ Refunding!RefundStatesAgree
             /\ Refunding!RefundedCardUnused /\ Refunding!ActivationKept)
  BY AlwaysInv, PTL DEF Inv

\* However handlers and late notices of payment and refund interleave, the
\* statuses of order, payment, card and refund fit together at every moment.
THEOREM RowsAlwaysAgree == Spec => []RowsAgree
  <1>1. Inv => RowsAgree
    <2>. SUFFICES ASSUME Inv, NEW o \in Orders
                  PROVE LET row == [order |-> orders[o].status, refund |-> refunds[o].status] IN
                    /\ row.order \in {"NONE", "PENDING", "CLOSED"} =>
                         payments[o] # "SUCCEEDED" /\ cards[o].status = "NONE" /\ row.refund = "NONE"
                    /\ row.order = "PAID" =>
                         /\ payments[o] = "SUCCEEDED" /\ row.refund \in {"NONE", "FAILED"}
                         /\ StandingOf(cards[o].status) \in {"good", "over"}
                    /\ row.order = "REFUNDING" =>
                         row.refund \in Refunding!InProgress /\ cards[o].status = "REFUND_LOCKED"
                    /\ row.order = "REFUNDED" =>
                         row.refund = "SUCCEEDED" /\ cards[o].status = "REFUNDED"
                           /\ payments[o] = "SUCCEEDED"
      BY DEF RowsAgree
    <2>1. /\ RowInv(o) /\ cards[o].status \in Buying!CardStatus
          /\ refunds[o].status \in Refunding!RefundStatus
      BY InvRows, Types, RowTypesOf
    <2>2. StandingOf(cards[o].status) \in {"good", "over"} <=>
            cards[o].status \in {"ACTIVE", "PENDING_ACTIVATION", "USED_UP", "EXPIRED"}
      BY <2>1, Standings
    <2>. QED
      BY <2>1, <2>2
      DEF RowInv, Refunding!InProgress, Refunding!RefundStatus, Buying!CardStatus
  <1>. QED
    BY <1>1, AlwaysInv, PTL

\* A card that is out is not issued anew nor given its uses back, by no notice of
\* its payment however late, not even after a refund.
THEOREM UsesKept == Spec => KeepsItsUses
  <1>1. ASSUME Inv, [Next]_vars, NEW o \in Orders, cards[o].status # "NONE"
        PROVE cards'[o].status # "NONE" /\ cards'[o].uses >= cards[o].uses
    <2>1. RowInv(o) /\ RowsStep(o) /\ cards[o] \in Buying!Card
      BY <1>1, InvRows, Types, RowTypesOf, NextRows
    <2>2. ~Settles(o)
      BY <1>1 DEF Settles, Buying!Settleable
    <2>. QED
      BY <1>1, <2>1, <2>2
      DEF RowsStep, Rests, Opens, Closes, Records, Locks, Fails, Succeeds, Marks, Redeems,
          Expires, KeepsRows, Refunding!Restored, Buying!Card
  <1>2. Inv /\ [Next]_vars =>
          [\A o \in Orders : cards[o].status # "NONE" =>
             cards'[o].status # "NONE" /\ cards'[o].uses >= cards[o].uses]_vars
    BY <1>1
  <1>. QED
    BY <1>2, AlwaysInv, PTL DEF Spec, KeepsItsUses
-----------------------------------------------------------------------------
(* Purchase, use and refund together implement CardContract. *)

LEMMA InitContract == Init => Contract!Init
  <1>. SUFFICES ASSUME Init, NEW o \in Orders PROVE StandingOf(cards[o].status) = "none"
    BY DEF Contract!Init
  <1>. QED
    BY Standings DEF Init, Buying!Init, Buying!NoCard, Buying!CardStatus

LEMMA ContractStep ==
  ASSUME RowTypes, RowTypes', NEW o \in Orders, RowInv(o), RowsStep(o)
  PROVE \/ Contract!Issue(o) \/ Contract!Use(o) \/ Contract!Expire(o)
        \/ Contract!Hold(o) \/ Contract!Release(o) \/ Contract!Refund(o) \/ Contract!Rest(o)
  <1>1. /\ cards[o] \in Buying!Card /\ cards'[o] \in Buying!Card
        /\ cards[o].status \in Buying!CardStatus /\ cards'[o].status \in Buying!CardStatus
        /\ cards[o].uses \in Nat
    BY DEF RowTypes, Buying!Card
  <1>2. CASE cards'[o] = cards[o]
    BY <1>2 DEF Contract!Rest
  <1>3. CASE Settles(o)
    <2>1. /\ cards[o].status = "NONE"
          /\ cards'[o].status \in {"ACTIVE", "PENDING_ACTIVATION"} /\ cards'[o].uses = 0
      BY <1>3 DEF Settles, Buying!Settleable, Buying!CardIssued
    <2>. QED
      BY <1>1, <2>1, Standings, BoundsAssumption DEF Contract!Issue
  <1>4. CASE Locks(o)
    <2>1. /\ cards[o].status \in {"ACTIVE", "PENDING_ACTIVATION"} /\ cards[o].uses = 0
          /\ cards'[o].status = "REFUND_LOCKED" /\ cards'[o].uses = 0
      BY <1>1, <1>4 DEF Locks, Refunding!Allowed, Refunding!Refundable, Buying!Card
    <2>. QED
      BY <1>1, <2>1, Standings, BoundsAssumption DEF Contract!Hold
  <1>5. CASE Fails(o)
    <2>1. /\ cards[o].status = "REFUND_LOCKED" /\ cards'[o].uses = cards[o].uses
          /\ cards'[o].status \in {"ACTIVE", "PENDING_ACTIVATION"}
      BY <1>1, <1>5 DEF Fails, RowInv, Refunding!Restored, Buying!Card
    <2>. QED
      BY <1>1, <2>1, Standings DEF Contract!Release
  <1>6. CASE Succeeds(o)
    <2>1. /\ cards[o].status = "REFUND_LOCKED" /\ cards'[o].uses = cards[o].uses
          /\ cards'[o].status = "REFUNDED"
      BY <1>1, <1>6 DEF Succeeds, RowInv, Buying!Card
    <2>. QED
      BY <1>1, <2>1, Standings DEF Contract!Refund
  <1>7. CASE Redeems(o)
    <2>1. /\ cards[o].status \in {"ACTIVE", "PENDING_ACTIVATION"} /\ cards[o].uses < MaxUses
          /\ cards'[o].uses = cards[o].uses + 1
          /\ cards'[o].status = IF cards[o].uses + 1 = MaxUses THEN "USED_UP" ELSE "ACTIVE"
      BY <1>7 DEF Redeems, RowInv
    <2>2. StandingOf(cards[o].status) = "good"
      BY <1>1, <2>1, Standings
    <2>3. StandingOf(cards'[o].status) = IF MaxUses - cards[o].uses = 1 THEN "over" ELSE "good"
      BY <1>1, <2>1, Standings, BoundsAssumption
    <2>4. MaxUses - cards[o].uses > 0 /\ MaxUses - cards'[o].uses = MaxUses - cards[o].uses - 1
      BY <1>1, <2>1, BoundsAssumption
    <2>. QED
      BY <2>2, <2>3, <2>4 DEF Contract!Use
  <1>8. CASE Expires(o)
    <2>1. /\ cards[o].status = "ACTIVE" /\ cards'[o].uses = cards[o].uses
          /\ cards'[o].status = "EXPIRED"
      BY <1>1, <1>8 DEF Expires, Buying!Card
    <2>. QED
      BY <1>1, <2>1, Standings DEF Contract!Expire
  <1>. QED
    BY <1>2, <1>3, <1>4, <1>5, <1>6, <1>7, <1>8
    DEF RowsStep, Rests, Opens, Closes, Records, Marks

\* Purchase, use and refund implement the contract of the card: it is issued once,
\* used while it stands good and as often as it was sold for, taken out of service
\* before it is refunded, and neither comes back nor is issued anew afterwards.
THEOREM KeepsContract == Spec => CardsKeepContract
  <1>1. Inv /\ [Next]_vars => Contract!Next
    <2>. SUFFICES ASSUME Inv, [Next]_vars PROVE Contract!Next
      OBVIOUS
    <2>1. TypeOK /\ RowTypes /\ \A o \in Orders : RowInv(o)
      BY InvRows, Types
    <2>2. TypeOK' /\ \A o \in Orders : RowsStep(o)
      BY <2>1, NextRows
    <2>3. RowTypes'
      BY <2>2 DEF TypeOK, Buying!TypeOK, RowTypes
    <2>. QED
      BY <2>1, <2>2, <2>3, ContractStep DEF Contract!Next
  <1>. QED
    BY <1>1, InitContract, AlwaysInv, PTL DEF Spec, CardsKeepContract, Contract!Spec
=============================================================================
