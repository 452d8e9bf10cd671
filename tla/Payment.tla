------------------------------- MODULE Payment -------------------------------
(***************************************************************************)
(* Buying a card: internal/order/handler.go (create, the lazy closing of   *)
(* expired orders) and internal/payment/handler.go (prepare, sync, notify, *)
(* settle), against a WeChat Pay whose success notices may be delayed,     *)
(* repeated and overtaken by everything else.                              *)
(*                                                                         *)
(* One product is on offer.  A process is one handler goroutine; prepare   *)
(* and sync are several statements and remote calls, each a step of its    *)
(* own.  settlePayment opens its transaction with the FOR UPDATE read of   *)
(* the order row and holds that lock to the commit: it is one step.        *)
(***************************************************************************)
EXTENDS Integers, FiniteSets

CONSTANTS
  Procs,         \* handler goroutines
  Users,         \* members
  Reqs,          \* Idempotency-Key values
  Orders,        \* rows orders may come to hold
  PurchaseLimit, \* card_products.purchase_limit; 0 stands for NULL
  OrderTTL,      \* clock units an order stays payable
  MaxClock,      \* bound on the clock
  None

ASSUME BoundsAssumption ==
  PurchaseLimit \in Nat /\ OrderTTL \in Nat \ {0} /\ MaxClock \in Nat
ASSUME OrdersAssumption == IsFiniteSet(Orders)
ASSUME NoneAssumption == None \notin Users \cup Reqs \cup Orders

VARIABLES
  clock,     \* the time of the server and the database
  product,   \* card_products
  orders,    \* orders, with the activation mode of their snapshot
  payments,  \* payment_transactions, one per order
  cards,     \* member_cards, by source_order_id
  trades,    \* WeChat's transaction of every order
  tx,        \* what every handler is doing
  answer     \* what every handler answered last

vars == <<clock, product, orders, payments, cards, trades, tx, answer>>
-----------------------------------------------------------------------------
Mode == {"PURCHASE", "FIRST_USE"}
OrderStatus == {"NONE", "PENDING", "PAID", "CLOSED", "REFUNDING", "REFUNDED"}
Order == [status : OrderStatus, user : Users \cup {None}, request : Reqs \cup {None},
          expiresAt : Nat, mode : Mode]
NoOrder == [status |-> "NONE", user |-> None, request |-> None, expiresAt |-> 0,
            mode |-> "PURCHASE"]
CardStatus == {"NONE", "PENDING_ACTIVATION", "ACTIVE", "USED_UP", "EXPIRED",
               "REFUND_LOCKED", "REFUNDED"}
Card == [status : CardStatus, activated : BOOLEAN, uses : Nat]
NoCard == [status |-> "NONE", activated |-> FALSE, uses |-> 0]
Tx == [pc : {"done", "createStarted", "createChecked", "prepareLapsed", "prepareLoaded",
             "prepareRecorded", "syncPaid"},
       user : Users \cup {None}, request : Reqs \cup {None}, order : Orders \cup {None},
       mode : Mode, purchased : Nat]
Outcome == {"NONE", "CREATED", "EXISTING", "CARD_PRODUCT_NOT_ON_SALE",
            "PURCHASE_LIMIT_REACHED", "ORDER_NOT_PAYABLE", "PREPARED",
            "WECHAT_PREPAY_FAILED", "NOT_PAID_YET", "SETTLED", "PAYMENT_SYNC_FAILED",
            "INTERNAL_ERROR"}
NoTx == [pc |-> "done", user |-> None, request |-> None, order |-> None,
         mode |-> "PURCHASE", purchased |-> 0]

TypeOK ==
  /\ clock \in Nat
  /\ product \in [onSale : BOOLEAN, mode : Mode]
  /\ orders \in [Orders -> Order]
  /\ payments \in [Orders -> {"NONE", "CREATED", "SUCCEEDED"}]
  /\ cards \in [Orders -> Card]
  /\ trades \in [Orders -> {"NONE", "NOTPAY", "SUCCESS", "CLOSED"}]
  /\ tx \in [Procs -> Tx]
  /\ answer \in [Procs -> Outcome]
-----------------------------------------------------------------------------
Exists(o) == orders[o].status # "NONE"
Unborn == {o \in Orders : ~Exists(o)}
Creating == {p \in Procs : tx[p].pc \in {"createStarted", "createChecked"}}

\* Orders that hold one of the user's places under the purchase limit.
Counted(u) ==
  {o \in Orders : orders[o].user = u /\ orders[o].status \in {"PENDING", "PAID", "REFUNDING"}}
OrderOf(u, r) == {o \in Orders : Exists(o) /\ orders[o].user = u /\ orders[o].request = r}

Finish(p, outcome) ==
  /\ tx' = [tx EXCEPT ![p] = NoTx]
  /\ answer' = [answer EXCEPT ![p] = outcome]
Reply(p, outcome) ==
  /\ Finish(p, outcome)
  /\ UNCHANGED <<clock, product, orders, payments, cards, trades>>
Begin(p, t) ==
  /\ tx' = [tx EXCEPT ![p] = t]
  /\ answer' = [answer EXCEPT ![p] = "NONE"]
  /\ UNCHANGED <<clock, product, orders, payments, cards, trades>>
Advance(p, pc) ==
  /\ tx' = [tx EXCEPT ![p].pc = pc]
  /\ UNCHANGED <<clock, product, orders, payments, cards, trades, answer>>
-----------------------------------------------------------------------------
(* create *)

\* The first SELECT fixes the snapshot, and with it the number of orders counted
\* against the limit.  Bound: Orders has a row left.
BeginCreate(p, u, r) ==
  /\ tx[p].pc = "done"
  /\ IF OrderOf(u, r) # {}
       THEN Reply(p, "EXISTING")
       ELSE /\ Cardinality(Unborn) > Cardinality(Creating)
            /\ Begin(p, [NoTx EXCEPT !.pc = "createStarted", !.user = u, !.request = r,
                                     !.purchased = Cardinality(Counted(u))])

\* SELECT .. FROM card_products FOR SHARE reads the committed product and keeps
\* it from changing; the COUNT under the limit reads the snapshot.
CreateCheck(p) ==
  /\ tx[p].pc = "createStarted"
  /\ \/ ~product.onSale /\ Reply(p, "CARD_PRODUCT_NOT_ON_SALE")
     \/ /\ product.onSale
        /\ IF PurchaseLimit > 0 /\ tx[p].purchased >= PurchaseLimit
             THEN Reply(p, "PURCHASE_LIMIT_REACHED")
             ELSE /\ tx' = [tx EXCEPT ![p].pc = "createChecked", ![p].mode = product.mode]
                  /\ UNCHANGED <<clock, product, orders, payments, cards, trades, answer>>

\* uk_orders_user_request turns the second insert of a key into a read of the first.
CreateInsert(p) ==
  /\ tx[p].pc = "createChecked"
  /\ \/ /\ OrderOf(tx[p].user, tx[p].request) # {}
        /\ Reply(p, "EXISTING")
     \/ /\ OrderOf(tx[p].user, tx[p].request) = {}
        /\ \E o \in Unborn :
             orders' = [orders EXCEPT ![o] =
               [status |-> "PENDING", user |-> tx[p].user, request |-> tx[p].request,
                expiresAt |-> clock + OrderTTL, mode |-> tx[p].mode]]
        /\ Finish(p, "CREATED")
        /\ UNCHANGED <<clock, product, payments, cards, trades>>

Lapsed(o) == orders[o].status = "PENDING" /\ orders[o].expiresAt <= clock

\* List and Get of a member.
CloseExpired(u) ==
  /\ \E o \in Orders : orders[o].user = u /\ Lapsed(o)
  /\ orders' = [o \in Orders |->
       IF orders[o].user = u /\ Lapsed(o) THEN [orders[o] EXCEPT !.status = "CLOSED"]
                                          ELSE orders[o]]
  /\ UNCHANGED <<clock, product, payments, cards, trades, tx, answer>>
-----------------------------------------------------------------------------
(* Prepare *)

BeginPrepare(p, o) ==
  /\ tx[p].pc = "done" /\ Exists(o)
  /\ \/ orders[o].status # "PENDING" /\ Reply(p, "ORDER_NOT_PAYABLE")
     \/ Lapsed(o) /\ Begin(p, [NoTx EXCEPT !.pc = "prepareLapsed", !.order = o])
     \/ /\ orders[o].status = "PENDING" /\ ~Lapsed(o)
        /\ Begin(p, [NoTx EXCEPT !.pc = "prepareLoaded", !.order = o])

\* Mutant: the UPDATE that closes the order does not test its status.
PrepareClosesAnyway(p) ==
  /\ tx[p].pc = "prepareLapsed"
  /\ orders' = [orders EXCEPT ![tx[p].order].status = "CLOSED"]
  /\ Finish(p, "ORDER_NOT_PAYABLE")
  /\ UNCHANGED <<clock, product, payments, cards, trades>>
\* The order may have been paid since it was read.
PrepareClose(p) ==
  LET o == tx[p].order IN
  /\ tx[p].pc = "prepareLapsed"
  /\ orders' = [orders EXCEPT ![o].status = IF @ = "PENDING" THEN "CLOSED" ELSE @]
  /\ Finish(p, "ORDER_NOT_PAYABLE")
  /\ UNCHANGED <<clock, product, payments, cards, trades>>

\* Mutant: nothing is recorded before WeChat is asked.
EnsureNothing(p) == tx[p].pc = "prepareLoaded" /\ Advance(p, "prepareRecorded")
\* Mutant: the payment starts in a status the column does not have.
EnsurePending(p) ==
  /\ tx[p].pc = "prepareLoaded"
  /\ payments' = [payments EXCEPT ![tx[p].order] = IF @ = "NONE" THEN "PENDING" ELSE @]
  /\ tx' = [tx EXCEPT ![p].pc = "prepareRecorded"]
  /\ UNCHANGED <<clock, product, orders, cards, trades, answer>>
EnsurePaymentTransaction(p) ==
  LET o == tx[p].order IN
  /\ tx[p].pc = "prepareLoaded"
  /\ payments' = [payments EXCEPT ![o] = IF @ = "NONE" THEN "CREATED" ELSE @]
  /\ tx' = [tx EXCEPT ![p].pc = "prepareRecorded"]
  /\ UNCHANGED <<clock, product, orders, cards, trades, answer>>

\* A failed or unanswered call may have reached WeChat all the same.
Prepay(p) ==
  LET o == tx[p].order
      opened == [trades EXCEPT ![o] = IF @ = "NONE" THEN "NOTPAY" ELSE @]
  IN /\ tx[p].pc = "prepareRecorded"
     /\ \/ /\ trades[o] \in {"NONE", "NOTPAY"}
           /\ trades' = opened
           /\ Finish(p, "PREPARED")
        \/ /\ trades' \in {trades, opened}
           /\ Finish(p, "WECHAT_PREPAY_FAILED")
     /\ UNCHANGED <<clock, product, orders, payments, cards>>
-----------------------------------------------------------------------------
(* settlePayment, which Sync and Notify call. *)

CardIssued(o) ==
  [status |-> IF orders[o].mode = "PURCHASE" THEN "ACTIVE" ELSE "PENDING_ACTIVATION",
   activated |-> orders[o].mode = "PURCHASE", uses |-> 0]

AlreadySettled(o) ==
  orders[o].status = "PAID" /\ payments[o] = "SUCCEEDED" /\ cards[o].status # "NONE"

\* Mutant: an order that was closed meanwhile is not settled.
SettleableIfPending(o) ==
  orders[o].status = "PENDING" /\ payments[o] # "NONE" /\ cards[o].status = "NONE"
\* Mutant: a settled order is settled again when its notice is repeated.
SettleableAgain(o) == orders[o].status \in {"PENDING", "CLOSED", "PAID"} /\ payments[o] # "NONE"
\* uk_member_card_source_order lets an order have a single card.
Settleable(o) ==
  /\ orders[o].status \in {"PENDING", "CLOSED"}
  /\ payments[o] # "NONE"
  /\ cards[o].status = "NONE"

Settle(o) ==
  /\ cards' = [cards EXCEPT ![o] = CardIssued(o)]
  /\ payments' = [payments EXCEPT ![o] = "SUCCEEDED"]
  /\ orders' = [orders EXCEPT ![o].status = "PAID"]
  /\ UNCHANGED <<clock, product, trades>>

\* Mutant: any trade state is taken for a success.
BeginSyncAnyState(p, o) ==
  /\ tx[p].pc = "done" /\ Exists(o) /\ trades[o] # "NONE"
  /\ Begin(p, [NoTx EXCEPT !.pc = "syncPaid", !.order = o])
BeginSync(p, o) ==
  /\ tx[p].pc = "done" /\ Exists(o)
  /\ IF trades[o] = "SUCCESS"
       THEN Begin(p, [NoTx EXCEPT !.pc = "syncPaid", !.order = o])
       ELSE Reply(p, "NOT_PAID_YET")

SyncSettle(p) ==
  LET o == tx[p].order IN
  /\ tx[p].pc = "syncPaid"
  /\ \/ AlreadySettled(o) /\ Reply(p, "SETTLED")
     \/ Settleable(o) /\ Settle(o) /\ Finish(p, "SETTLED")
     \/ ~AlreadySettled(o) /\ ~Settleable(o) /\ Reply(p, "PAYMENT_SYNC_FAILED")

\* A success notice arrives.  One that finds nothing to settle changes nothing,
\* whether it is acknowledged (AlreadySettled) or refused.
Notify(o) ==
  /\ trades[o] = "SUCCESS"
  /\ Settleable(o)
  /\ Settle(o)
  /\ UNCHANGED <<tx, answer>>

\* The client went away, a statement failed or the server stopped.
Abort(p) == tx[p].pc # "done" /\ Reply(p, "INTERNAL_ERROR")
-----------------------------------------------------------------------------
(* The administrator and WeChat. *)

\* Mutant: create reads the product without FOR SHARE.
ShareFreeUnlocked == TRUE
ShareFree == \A p \in Procs : tx[p].pc # "createChecked"

\* ChangeStatus and Update of admincard wait for the shared locks on the product.
ChangeProduct(new) ==
  /\ new # product
  /\ ShareFree
  /\ product' = new
  /\ UNCHANGED <<clock, orders, payments, cards, trades, tx, answer>>

\* The member pays before the time_expire WeChat was given with the trade; WeChat
\* closes the trade at some time after it.
Pay(o) ==
  /\ trades[o] = "NOTPAY" /\ clock < orders[o].expiresAt
  /\ trades' = [trades EXCEPT ![o] = "SUCCESS"]
  /\ UNCHANGED <<clock, product, orders, payments, cards, tx, answer>>
ExpireTrade(o) ==
  /\ trades[o] = "NOTPAY" /\ clock >= orders[o].expiresAt
  /\ trades' = [trades EXCEPT ![o] = "CLOSED"]
  /\ UNCHANGED <<clock, product, orders, payments, cards, tx, answer>>

Tick ==
  /\ clock < MaxClock
  /\ clock' = clock + 1
  /\ UNCHANGED <<product, orders, payments, cards, trades, tx, answer>>
-----------------------------------------------------------------------------
Init ==
  /\ clock = 0
  /\ product \in [onSale : {TRUE}, mode : Mode]
  /\ orders = [o \in Orders |-> NoOrder]
  /\ payments = [o \in Orders |-> "NONE"]
  /\ cards = [o \in Orders |-> NoCard]
  /\ trades = [o \in Orders |-> "NONE"]
  /\ tx = [p \in Procs |-> NoTx]
  /\ answer = [p \in Procs |-> "NONE"]

Request(p) ==
  \/ \E u \in Users, r \in Reqs : BeginCreate(p, u, r)
  \/ \E o \in Orders : BeginPrepare(p, o) \/ BeginSync(p, o)
Step(p) ==
  \/ CreateCheck(p) \/ CreateInsert(p)
  \/ PrepareClose(p) \/ EnsurePaymentTransaction(p) \/ Prepay(p)
  \/ SyncSettle(p)
Environment ==
  \/ \E u \in Users : CloseExpired(u)
  \/ \E o \in Orders : Notify(o) \/ Pay(o) \/ ExpireTrade(o)
  \/ \E onSale \in BOOLEAN, mode \in Mode : ChangeProduct([onSale |-> onSale, mode |-> mode])
  \/ Tick
Next ==
  \/ \E p \in Procs : Request(p) \/ Step(p) \/ Abort(p)
  \/ Environment

Spec == Init /\ [][Next]_vars

\* WeChat repeats a success notice until it is acknowledged, and some repetition
\* finds the database working.
Fairness == \A o \in Orders : WF_vars(Notify(o))
FairSpec == Spec /\ Fairness
-----------------------------------------------------------------------------
(* Properties. *)

\* An order is paid for exactly when its card is out and its payment row says so,
\* however the closing of expired orders and repeated settlements interleave
\* (order/handler.go:248, payment/handler.go:180 against 198-281).
PaidIffCard ==
  \A o \in Orders :
    /\ orders[o].status \in {"PAID", "REFUNDING", "REFUNDED"} <=> cards[o].status # "NONE"
    /\ payments[o] = "SUCCEEDED" <=> cards[o].status # "NONE"

\* Nobody gets a card WeChat has not been paid for.
CardOnlyForMoney == \A o \in Orders : cards[o].status # "NONE" => trades[o] = "SUCCESS"

\* WeChat never holds a trade the payment table does not know of, so that a
\* payment whose Prepare died half-way can still be settled (190-196 before 82).
TradeHasPaymentRow == \A o \in Orders : trades[o] # "NONE" => payments[o] # "NONE"

\* No order is created once an administrator has taken the product off sale, not
\* even by a create that read it before; and the order keeps the product's mode.
OrdersOnlyOnSale ==
  [][\A o \in Orders : ~Exists(o) /\ Exists(o)' =>
       product.onSale /\ orders'[o].mode = product.mode]_vars

\* The money of every paid trade becomes a card, also of an order closed meanwhile.
PaymentSettles == \A o \in Orders : trades[o] = "SUCCESS" ~> cards[o].status # "NONE"

\* No member holds more orders, open or paid, than the product's limit.
WithinPurchaseLimit ==
  PurchaseLimit > 0 => \A u \in Users : Cardinality(Counted(u)) <= PurchaseLimit
-----------------------------------------------------------------------------
\* A handler works on an order that exists.
WellFormed(t) ==
  /\ t.pc \in {"prepareLapsed", "prepareLoaded", "prepareRecorded", "syncPaid"} =>
       t.order \in Orders /\ Exists(t.order)
  /\ t.pc \in {"createStarted", "createChecked"} => t.user \in Users /\ t.request \in Reqs
  /\ t.pc = "prepareRecorded" => payments[t.order] # "NONE"
  /\ t.pc = "syncPaid" => trades[t.order] = "SUCCESS"
WellFormedTx == \A p \in Procs : WellFormed(tx[p])

\* Rows of payments and trades belong to orders.
RowsOfOrders == \A o \in Orders : ~Exists(o) => payments[o] = "NONE" /\ trades[o] = "NONE"

\* The shared lock of a create that is about to insert holds its product as read.
CheckedProduct ==
  \A p \in Procs : tx[p].pc = "createChecked" => product.onSale /\ tx[p].mode = product.mode

Inv ==
  /\ TypeOK /\ WellFormedTx /\ RowsOfOrders
  /\ PaidIffCard /\ CardOnlyForMoney /\ TradeHasPaymentRow
=============================================================================
