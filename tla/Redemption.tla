------------------------------ MODULE Redemption ------------------------------
(***************************************************************************)
(* Redeeming a membership card: internal/redemption/handler.go, together   *)
(* with the statements of other packages that touch the rows it reads.     *)
(*                                                                         *)
(* A process is one HTTP handler goroutine with at most one open MySQL     *)
(* transaction (InnoDB, REPEATABLE READ).  A plain SELECT inside the       *)
(* transaction reads the snapshot of its first plain SELECT; SELECT ..     *)
(* FOR UPDATE and UPDATE read the committed rows and keep their row locks  *)
(* until commit or rollback.  A transaction is split where it may wait:    *)
(* one step up to the first lock, one per lock that another transaction    *)
(* can hold.  What follows the last lock runs, commits and answers in one  *)
(* step, since no other transaction sees a row between its update and the  *)
(* commit.                                                                 *)
(***************************************************************************)
EXTENDS Integers, FiniteSets

CONSTANTS
  Procs,       \* handler goroutines
  Users,       \* rows of users
  Staff,       \* the users whose role is STAFF or ADMIN
  Cards,       \* rows of member_cards
  Tokens,      \* rows redemption_tokens may come to hold
  Codes,       \* rows of checkin_codes
  Reqs,        \* Idempotency-Key values
  Products,    \* rows of card_products
  Settings,    \* [validity, dailyLimit] pairs an administrator may give a product
  Owner,       \* member_cards.user_id
  Kind,        \* member_cards.product_type
  Total,       \* member_cards.total_times; 0 stands for the NULL of a TIME_PASS
  Product,     \* member_cards.product_id
  Sold,        \* the settings of every product when the cards were sold
  DayLength,   \* clock units in a day of Asia/Shanghai
  TokenTTL,    \* clock units a redemption token lives
  MaxClock,    \* bound on the clock
  MaxVersion,  \* bound on checkin_codes.version
  None         \* SQL NULL, or an unused field

ASSUME RolesAssumption == Staff \subseteq Users
ASSUME CardsAssumption ==
  /\ Owner \in [Cards -> Users]
  /\ Kind \in [Cards -> {"COUNT_CARD", "TIME_PASS"}]
  /\ Product \in [Cards -> Products]
  /\ Total \in [Cards -> Nat]
  /\ \A c \in Cards : Kind[c] = "COUNT_CARD" => Total[c] > 0
ASSUME SettingsAssumption ==
  /\ Settings \subseteq [validity : Nat \ {0}, dailyLimit : Nat \ {0}]
  /\ Sold \in [Products -> Settings]
ASSUME TimeAssumption ==
  DayLength \in Nat \ {0} /\ TokenTTL \in Nat \ {0} /\ MaxClock \in Nat
ASSUME NoneAssumption == None \notin Users \cup Cards \cup Tokens \cup Codes \cup Reqs

VARIABLES
  clock,       \* the server's clock
  cards,       \* member_cards
  product,     \* card_products: the settings in force now
  tokens,      \* redemption_tokens
  codes,       \* checkin_codes; qr is the generation of the printed token_hash
  records,     \* redemption_records
  tx,          \* the open transaction of every process
  answer       \* what every process answered last; NONE while it works

vars == <<clock, cards, product, tokens, codes, records, tx, answer>>
-----------------------------------------------------------------------------
(* Types. *)

NoTime == -1
CardStatus == {"PENDING_ACTIVATION", "ACTIVE", "USED_UP", "EXPIRED", "REFUND_LOCKED", "REFUNDED"}
Card == [status : CardStatus, remaining : Int,
         activatedAt : Nat \cup {NoTime}, expiresAt : Nat \cup {NoTime}]
TokenStatus == {"NONE", "ACTIVE", "USED", "EXPIRED", "REVOKED"}
Token == [status : TokenStatus, card : Cards \cup {None}, expiresAt : Nat]
Code == [status : {"ACTIVE", "INACTIVE"}, version : Nat, qr : Nat]
Record == [operator : Users, request : Reqs, mode : {"STAFF_SCAN", "MEMBER_SELF_SCAN"},
           card : Cards, token : Tokens \cup {None}, code : Codes \cup {None},
           before : Int, after : Int, at : Nat]
Tx == [op : {"none", "confirm", "checkin", "createToken"},
       pc : {"done", "started", "gotToken", "gotCode", "gotCard"},
       user : Users \cup {None}, request : Reqs \cup {None},
       token : Tokens \cup {None}, card : Cards \cup {None},
       code : Codes \cup {None}, qr : Nat,
       now : Nat, snapshot : SUBSET Record]
NoTx == [op |-> "none", pc |-> "done", user |-> None, request |-> None,
         token |-> None, card |-> None, code |-> None, qr |-> 0,
         now |-> 0, snapshot |-> {}]
CardVerdict == {"CARD_NOT_FOUND", "CARD_EXPIRED", "CARD_USED_UP", "CARD_NOT_ACTIVE",
                "DAILY_USE_LIMIT_REACHED"}
Outcome == CardVerdict \cup
  {"NONE", "OK", "REPLAYED", "TOKEN_CREATED", "TOKEN_INVALID", "TOKEN_EXPIRED",
   "TOKEN_ALREADY_USED", "CHECKIN_CODE_INVALID", "CHECKIN_CODE_INACTIVE", "INTERNAL_ERROR"}

TypeOK ==
  /\ clock \in Nat
  /\ cards \in [Cards -> Card]
  /\ product \in [Products -> Settings]
  /\ tokens \in [Tokens -> Token]
  /\ codes \in [Codes -> Code]
  /\ records \subseteq Record
  /\ tx \in [Procs -> Tx]
  /\ answer \in [Procs -> Outcome]
-----------------------------------------------------------------------------
(* Row locks, read off the transactions that hold them. *)

HoldsToken(q, t) == tx[q].pc = "gotToken" /\ tx[q].token = t

\* Mutant: the check-in code is read without FOR UPDATE.
HoldsCodeUnlocked(q, k) == FALSE
HoldsCode(q, k) == tx[q].pc = "gotCode" /\ tx[q].code = k

\* SELECT .. FROM member_cards JOIN card_products .. FOR UPDATE locks both rows.
HoldsProduct(q, pr) == tx[q].pc = "gotCard" /\ Product[tx[q].card] = pr
HoldsCard(q, c) == tx[q].pc = "gotCard" /\ tx[q].card = c

\* The locking lookup that found no record keeps a gap lock on the missing key.
\* InnoDB locks the whole gap around it, so other keys' inserts may wait as well and
\* be rolled back; of that only the roll-back is modelled, by Abort.
HoldsGap(q, u, r) == tx[q].pc = "gotCode" /\ tx[q].user = u /\ tx[q].request = r

\* Mutant: the token is read without FOR UPDATE.
TokenFreeUnlocked(p, t) == TRUE
TokenFree(p, t) == \A q \in Procs \ {p} : ~HoldsToken(q, t)
CodeFree(p, k) == \A q \in Procs \ {p} : ~HoldsCode(q, k)
CardFree(p, c) == \A q \in Procs \ {p} : ~HoldsProduct(q, Product[c])
KeyFree(p) == \A q \in Procs \ {p} : ~HoldsGap(q, tx[p].user, tx[p].request)
-----------------------------------------------------------------------------
(* Helpers. *)

Day(t) == t \div DayLength

ByKey(recs, u, r) == {rec \in recs : rec.operator = u /\ rec.request = r}
SelfScans(recs) == {rec \in recs : rec.mode = "MEMBER_SELF_SCAN"}
RecordsOf(c) == {rec \in records : rec.card = c}

UsesOnDay(recs, c, d) == Cardinality({rec \in recs : rec.card = c /\ Day(rec.at) = d})

\* Mutant: the card may still be used at the instant it expires.
ExpiryReachedLate(c, now) ==
  cards[c].status = "EXPIRED" \/ (cards[c].status = "ACTIVE" /\ cards[c].expiresAt < now)
ExpiryReached(c, now) ==
  cards[c].status = "EXPIRED" \/ (cards[c].status = "ACTIVE" /\ cards[c].expiresAt <= now)

\* Mutant: the expiry is judged by the clock alone, not by the stored status.
SimpleVerdictByClock(c, now) ==
  LET k == cards[c] IN
  CASE k.status \in {"ACTIVE", "EXPIRED"} /\ k.expiresAt <= now -> "CARD_EXPIRED"
    [] k.status = "USED_UP" -> "CARD_USED_UP"
    [] k.status \in {"REFUND_LOCKED", "REFUNDED"} -> "CARD_NOT_ACTIVE"
    [] OTHER -> "OK"
SimpleVerdict(c, now) ==
  LET k == cards[c] IN
  IF ExpiryReached(c, now) THEN "CARD_EXPIRED"
  ELSE IF k.status = "USED_UP" \/ (Kind[c] = "COUNT_CARD" /\ k.remaining <= 0)
    THEN "CARD_USED_UP"
  ELSE IF k.status \notin {"ACTIVE", "PENDING_ACTIVATION"}
    THEN "CARD_NOT_ACTIVE"
  ELSE "OK"

DailyLimitReached(c, recs, now) ==
  /\ Kind[c] = "TIME_PASS" /\ cards[c].status = "ACTIVE"
  /\ UsesOnDay(recs, c, Day(now)) >= product[Product[c]].dailyLimit

\* The card row is read under its lock; today's uses are counted in recs.
Verdict(c, u, recs, now) ==
  IF Owner[c] # u THEN "CARD_NOT_FOUND"
  ELSE IF SimpleVerdict(c, now) # "OK" THEN SimpleVerdict(c, now)
  ELSE IF DailyLimitReached(c, recs, now) THEN "DAILY_USE_LIMIT_REACHED"
  ELSE "OK"

Remaining(c) == IF Kind[c] = "COUNT_CARD" THEN cards[c].remaining - 1 ELSE cards[c].remaining

Redeemed(c, now) ==
  LET first == cards[c].status = "PENDING_ACTIVATION" IN
  [status |-> IF Kind[c] = "COUNT_CARD" /\ Remaining(c) = 0 THEN "USED_UP" ELSE "ACTIVE",
   remaining |-> Remaining(c),
   activatedAt |-> IF first THEN now ELSE cards[c].activatedAt,
   expiresAt |-> IF first THEN now + product[Product[c]].validity * DayLength
                          ELSE cards[c].expiresAt]

Finish(p, outcome) ==
  /\ tx' = [tx EXCEPT ![p] = NoTx]
  /\ answer' = [answer EXCEPT ![p] = outcome]

\* Answer without having changed a row.
Reply(p, outcome) ==
  /\ Finish(p, outcome)
  /\ UNCHANGED <<clock, cards, product, tokens, codes, records>>

Begin(p, t) ==
  /\ tx' = [tx EXCEPT ![p] = t]
  /\ answer' = [answer EXCEPT ![p] = "NONE"]
  /\ UNCHANGED <<clock, cards, product, tokens, codes, records>>

Advance(p, pc) ==
  /\ tx' = [tx EXCEPT ![p].pc = pc]
  /\ UNCHANGED <<clock, cards, product, tokens, codes, records, answer>>

\* Update the card, insert the record, use up the token if there is one, commit.
\* uk_redemption_operator_request and uk_redemption_token make the insert fail.
\* Mutant: the card is read without FOR UPDATE, so its balance is the snapshot's.
WriteRedemptionUnlocked(p, c, now, mode) ==
  LET t == tx[p]
      read == Total[c] - Cardinality({rec \in t.snapshot : rec.card = c})
      rec == [operator |-> t.user, request |-> t.request, mode |-> mode, card |-> c,
              token |-> t.token, code |-> t.code,
              before |-> read, after |-> read - 1, at |-> now]
  IN IF ByKey(records, t.user, t.request) # {}
       THEN Reply(p, "INTERNAL_ERROR")
       ELSE /\ cards' = [cards EXCEPT ![c] = [Redeemed(c, now) EXCEPT !.remaining = read - 1]]
            /\ records' = records \cup {rec}
            /\ tokens' = IF t.token = None THEN tokens
                         ELSE [tokens EXCEPT ![t.token].status = "USED"]
            /\ Finish(p, "OK")
            /\ UNCHANGED <<clock, product, codes>>
WriteRedemption(p, c, now, mode) ==
  LET t == tx[p]
      rec == [operator |-> t.user, request |-> t.request, mode |-> mode, card |-> c,
              token |-> t.token, code |-> t.code,
              before |-> cards[c].remaining, after |-> Remaining(c), at |-> now]
  IN IF \/ ByKey(records, t.user, t.request) # {}
        \/ t.token # None /\ \E r \in records : r.token = t.token
       THEN Reply(p, "INTERNAL_ERROR")
       ELSE /\ cards' = [cards EXCEPT ![c] = Redeemed(c, now)]
            /\ records' = records \cup {rec}
            /\ tokens' = IF t.token = None \/ tokens[t.token].status # "ACTIVE" THEN tokens
                         ELSE [tokens EXCEPT ![t.token].status = "USED"]
            /\ Finish(p, "OK")
            /\ UNCHANGED <<clock, product, codes>>
-----------------------------------------------------------------------------
(* confirm: a member of staff redeems with the token the card holder shows. *)

BeginConfirm(p, u, r, t) ==
  /\ tx[p].pc = "done"
  /\ u \in Staff
  /\ IF ByKey(records, u, r) # {}
       THEN Reply(p, "REPLAYED")
       ELSE Begin(p, [NoTx EXCEPT !.op = "confirm", !.pc = "started", !.user = u,
                                  !.request = r, !.token = t,
                                  !.now = clock, !.snapshot = records])

ConfirmLockToken(p) ==
  LET t == tx[p].token  k == tokens[t] IN
  /\ tx[p].op = "confirm" /\ tx[p].pc = "started"
  /\ TokenFree(p, t)
  /\ \/ /\ k.status = "NONE"
        /\ Reply(p, "TOKEN_INVALID")
     \/ /\ k.status \notin {"NONE", "ACTIVE"}
        /\ IF ByKey(tx[p].snapshot, tx[p].user, tx[p].request) # {}
             THEN Reply(p, "REPLAYED")
             ELSE Reply(p, "TOKEN_ALREADY_USED")
     \/ /\ k.status = "ACTIVE" /\ k.expiresAt <= tx[p].now
        /\ tokens' = [tokens EXCEPT ![t].status = "EXPIRED"]
        /\ Finish(p, "TOKEN_EXPIRED")
        /\ UNCHANGED <<clock, cards, product, codes, records>>
     \/ /\ k.status = "ACTIVE" /\ k.expiresAt > tx[p].now
        /\ Advance(p, "gotToken")

ConfirmCard(p) ==
  LET c == tokens[tx[p].token].card
      v == Verdict(c, Owner[c], tx[p].snapshot, tx[p].now)
  IN /\ tx[p].pc = "gotToken"
     /\ CardFree(p, c)
     /\ \/ v # "OK" /\ Reply(p, v)
        \/ v = "OK" /\ KeyFree(p) /\ WriteRedemption(p, c, tx[p].now, "STAFF_SCAN")
-----------------------------------------------------------------------------
(* checkinConfirm: a member redeems a card at a code printed in the gym. *)

BeginCheckin(p, u, r, c, k, g) ==
  /\ tx[p].pc = "done"
  /\ IF ByKey(SelfScans(records), u, r) # {}
       THEN Reply(p, "REPLAYED")
       ELSE Begin(p, [NoTx EXCEPT !.op = "checkin", !.pc = "started", !.user = u,
                                  !.request = r, !.card = c, !.code = k, !.qr = g,
                                  !.snapshot = records])

\* Mutant: the second lookup is a plain SELECT, which reads the snapshot.
FirstCheckinStale(p) == ByKey(SelfScans(tx[p].snapshot), tx[p].user, tx[p].request)
FirstCheckin(p) == ByKey(SelfScans(records), tx[p].user, tx[p].request)

\* Mutant: a code that has been stopped leaves the check-in without an answer.
CheckinLockCodeHangs(p) ==
  LET k == codes[tx[p].code]  first == FirstCheckin(p)
  IN /\ tx[p].op = "checkin" /\ tx[p].pc = "started"
     /\ CodeFree(p, tx[p].code)
     /\ \/ k.qr # tx[p].qr /\ Reply(p, "CHECKIN_CODE_INVALID")
        \/ /\ k.qr = tx[p].qr /\ k.status = "ACTIVE"
           /\ IF first # {} THEN Reply(p, "REPLAYED") ELSE Advance(p, "gotCode")
CheckinLockCode(p) ==
  LET k == codes[tx[p].code]  first == FirstCheckin(p)
  IN /\ tx[p].op = "checkin" /\ tx[p].pc = "started"
     /\ CodeFree(p, tx[p].code)
     /\ \/ k.qr # tx[p].qr /\ Reply(p, "CHECKIN_CODE_INVALID")
        \/ /\ k.qr = tx[p].qr /\ k.status # "ACTIVE"
           /\ Reply(p, "CHECKIN_CODE_INACTIVE")
        \/ /\ k.qr = tx[p].qr /\ k.status = "ACTIVE"
           /\ IF first # {}
                THEN /\ \A rec \in first : CardFree(p, rec.card) /\ CodeFree(p, rec.code)
                     /\ Reply(p, "REPLAYED")
                ELSE Advance(p, "gotCode")

CheckinCard(p) ==
  LET c == tx[p].card
      v == Verdict(c, tx[p].user, tx[p].snapshot, clock)
  IN /\ tx[p].pc = "gotCode"
     /\ CardFree(p, c)
     /\ \/ v # "OK" /\ Reply(p, v)
        \/ v = "OK" /\ KeyFree(p) /\ WriteRedemption(p, c, clock, "MEMBER_SELF_SCAN")
-----------------------------------------------------------------------------
(* createToken and preview. *)

Unborn == {t \in Tokens : tokens[t].status = "NONE"}
Creating == {p \in Procs : tx[p].op = "createToken"}

\* Bound: a request is taken only while the finite Tokens has a row left for it.
BeginCreateToken(p, u, c) ==
  /\ tx[p].pc = "done"
  /\ Cardinality(Unborn) > Cardinality(Creating)
  /\ Begin(p, [NoTx EXCEPT !.op = "createToken", !.pc = "started", !.user = u,
                           !.card = c, !.now = clock])

\* The count of today's uses is this transaction's first plain SELECT: it is fresh.
CreateTokenLockCard(p) ==
  LET c == tx[p].card
      v == Verdict(c, tx[p].user, records, tx[p].now)
  IN /\ tx[p].op = "createToken" /\ tx[p].pc = "started"
     /\ CardFree(p, c)
     /\ IF v # "OK" THEN Reply(p, v) ELSE Advance(p, "gotCard")

\* The UPDATE that ends the card's earlier tokens.
\* Mutant: only those past their time.
SupersededIfLapsed(t, c, now) ==
  IF tokens[t].card = c /\ tokens[t].status = "ACTIVE" /\ tokens[t].expiresAt <= now
    THEN [tokens[t] EXCEPT !.status = "EXPIRED"] ELSE tokens[t]
Superseded(t, c, now) ==
  IF tokens[t].card = c /\ tokens[t].status = "ACTIVE"
    THEN [tokens[t] EXCEPT !.status =
            IF tokens[t].expiresAt <= now THEN "EXPIRED" ELSE "REVOKED"]
    ELSE tokens[t]

CreateTokenCommit(p) ==
  LET c == tx[p].card  now == tx[p].now IN
  /\ tx[p].pc = "gotCard"
  /\ \A t \in Tokens : tokens[t].card = c => TokenFree(p, t)
  /\ \E new \in Unborn :
       tokens' = [t \in Tokens |->
         IF t = new
           THEN [status |-> "ACTIVE", card |-> c, expiresAt |-> now + TokenTTL]
           ELSE Superseded(t, c, now)]
  /\ Finish(p, "TOKEN_CREATED")
  /\ UNCHANGED <<clock, cards, product, codes, records>>

\* Mutant: preview drops the token it finds expired.
PreviewDrops(t) ==
  /\ tokens[t].status = "ACTIVE" /\ tokens[t].expiresAt <= clock
  /\ tokens' = [tokens EXCEPT ![t] = None]
  /\ UNCHANGED <<clock, cards, product, codes, records, tx, answer>>
\* preview marks the token it finds expired.
PreviewExpires(t) ==
  /\ tokens[t].status = "ACTIVE" /\ tokens[t].expiresAt <= clock
  /\ \A q \in Procs : ~HoldsToken(q, t)
  /\ tokens' = [tokens EXCEPT ![t].status = "EXPIRED"]
  /\ UNCHANGED <<clock, cards, product, codes, records, tx, answer>>
-----------------------------------------------------------------------------
(* Other writers of the same rows. *)

\* A member opens the card list.
\* Mutant: the sweep does not look at the status.
LapsedAnyStatus(c) == cards[c].expiresAt # NoTime /\ cards[c].expiresAt <= clock
Lapsed(c) == cards[c].status = "ACTIVE" /\ cards[c].expiresAt <= clock
ExpireCards(u) ==
  LET mine == {c \in Cards : Owner[c] = u /\ Lapsed(c)} IN
  /\ mine # {}
  /\ \A c \in mine, q \in Procs : ~HoldsCard(q, c)
  /\ cards' = [c \in Cards |-> IF c \in mine THEN [cards[c] EXCEPT !.status = "EXPIRED"]
                                             ELSE cards[c]]
  /\ UNCHANGED <<clock, product, tokens, codes, records, tx, answer>>

\* The refund of a card takes it out of service, puts it back or ends it; whether
\* and how often it does is the business of Refund.
SetCardStatus(c, s) ==
  /\ \A q \in Procs : ~HoldsCard(q, c)
  /\ cards' = [cards EXCEPT ![c].status = s]
  /\ UNCHANGED <<clock, product, tokens, codes, records, tx, answer>>
LockForRefund(c) ==
  /\ cards[c].status \in {"ACTIVE", "PENDING_ACTIVATION"}
  /\ RecordsOf(c) = {}
  /\ SetCardStatus(c, "REFUND_LOCKED")
RestoreCard(c) ==
  /\ cards[c].status = "REFUND_LOCKED"
  /\ SetCardStatus(c, IF cards[c].activatedAt = NoTime THEN "PENDING_ACTIVATION" ELSE "ACTIVE")
RefundCard(c) == cards[c].status = "REFUND_LOCKED" /\ SetCardStatus(c, "REFUNDED")

\* An administrator stops, starts or replaces a check-in code; an edit that
\* names an old version changes nothing.
CodeUnlocked(k) == \A q \in Procs : ~HoldsCode(q, k)
ChangeCodeStatus(k, s) ==
  /\ codes[k].version < MaxVersion
  /\ CodeUnlocked(k)
  /\ codes' = [codes EXCEPT ![k].status = s, ![k].version = @ + 1]
  /\ UNCHANGED <<clock, cards, product, tokens, records, tx, answer>>
RegenerateCode(k) ==
  /\ codes[k].version < MaxVersion
  /\ CodeUnlocked(k)
  /\ codes' = [codes EXCEPT ![k].qr = @ + 1, ![k].version = @ + 1]
  /\ UNCHANGED <<clock, cards, product, tokens, records, tx, answer>>

\* An administrator edits the product.
UpdateProduct(pr, s) ==
  /\ s # product[pr]
  /\ \A q \in Procs : ~HoldsProduct(q, pr)
  /\ product' = [product EXCEPT ![pr] = s]
  /\ UNCHANGED <<clock, cards, tokens, codes, records, tx, answer>>

Tick ==
  /\ clock < MaxClock
  /\ clock' = clock + 1
  /\ UNCHANGED <<cards, product, tokens, codes, records, tx, answer>>

(* A transaction rolls back: the client went away, a lock wait timed out or *)
(* the server stopped (Abort); InnoDB chose it to break a deadlock.         *)

Rollback(p) == tx[p].pc # "done" /\ Reply(p, "INTERNAL_ERROR")
Abort(p) == Rollback(p)

WaitsFor(p, q) ==
  LET t == tx[p] IN
  /\ p # q
  /\ \/ t.pc \in {"gotToken", "gotCode"} /\ HoldsGap(q, t.user, t.request)
     \/ t.pc = "gotToken" /\ HoldsProduct(q, Product[tokens[t.token].card])
     \/ t.pc = "gotCode" /\ HoldsProduct(q, Product[t.card])
     \/ t.pc = "gotCard" /\ \E k \in Tokens : HoldsToken(q, k) /\ tokens[k].card = t.card
InCycle(p) ==
  \E S \in SUBSET Procs :
    /\ p \in S
    /\ \A q \in S : \E w, v \in S : WaitsFor(q, w) /\ WaitsFor(v, q)
DeadlockVictim(p) == InCycle(p) /\ Rollback(p)
-----------------------------------------------------------------------------
Init ==
  /\ clock = 0
  /\ product = Sold
  /\ \E firstUse \in {S \in SUBSET Cards : \A c \in Cards : Kind[c] = "TIME_PASS" => c \in S} :
       cards = [c \in Cards |->
         [status |-> IF c \in firstUse THEN "PENDING_ACTIVATION" ELSE "ACTIVE",
          remaining |-> Total[c],
          activatedAt |-> IF c \in firstUse THEN NoTime ELSE 0,
          expiresAt |-> IF c \in firstUse THEN NoTime
                        ELSE Sold[Product[c]].validity * DayLength]]
  /\ tokens = [t \in Tokens |-> [status |-> "NONE", card |-> None, expiresAt |-> 0]]
  /\ codes = [k \in Codes |-> [status |-> "ACTIVE", version |-> 1, qr |-> 1]]
  /\ records = {}
  /\ tx = [p \in Procs |-> NoTx]
  /\ answer = [p \in Procs |-> "NONE"]

Request(p) ==
  \/ \E u \in Users, r \in Reqs, t \in Tokens : BeginConfirm(p, u, r, t)
  \/ \E u \in Users, r \in Reqs, c \in Cards, k \in Codes :
       \E g \in 1..codes[k].qr : BeginCheckin(p, u, r, c, k, g)
  \/ \E u \in Users, c \in Cards : BeginCreateToken(p, u, c)

Step(p) ==
  \/ ConfirmLockToken(p) \/ ConfirmCard(p)
  \/ CheckinLockCode(p) \/ CheckinCard(p)
  \/ CreateTokenLockCard(p) \/ CreateTokenCommit(p)

Environment ==
  \/ \E t \in Tokens : PreviewExpires(t)
  \/ \E u \in Users : ExpireCards(u)
  \/ \E c \in Cards : LockForRefund(c) \/ RestoreCard(c) \/ RefundCard(c)
  \/ \E k \in Codes : \/ \E s \in {"ACTIVE", "INACTIVE"} : ChangeCodeStatus(k, s)
                      \/ RegenerateCode(k)
  \/ \E pr \in Products, s \in Settings : UpdateProduct(pr, s)
  \/ Tick

Next ==
  \/ \E p \in Procs : Request(p) \/ Step(p) \/ Abort(p) \/ DeadlockVictim(p)
  \/ Environment

Spec == Init /\ [][Next]_vars

\* InnoDB grants a lock in arrival order and its detector breaks every deadlock;
\* a goroutine whose lock is granted keeps running.
Fairness == \A p \in Procs : SF_vars(Step(p)) /\ WF_vars(DeadlockVictim(p))
FairSpec == Spec /\ Fairness
-----------------------------------------------------------------------------
(* Properties. *)

\* No lost or double use: the records of a COUNT_CARD are exactly one per use
\* taken off total_times, each one step further down (handler.go:361-374, 560-574).
BalanceChain ==
  \A c \in Cards : Kind[c] = "COUNT_CARD" =>
    /\ \A rec \in RecordsOf(c) :
         /\ cards[c].remaining < rec.before /\ rec.before <= Total[c]
         /\ rec.after = rec.before - 1
    /\ \A n \in (cards[c].remaining + 1)..Total[c] : \E rec \in RecordsOf(c) : rec.before = n
    /\ \A r1, r2 \in RecordsOf(c) : r1.before = r2.before => r1 = r2

\* A token is USED exactly when one record spent it, and that record is of the
\* token's card: neither a revoked, expired nor unborn token ever paid for a use.
TokenSpentOnce ==
  \A t \in Tokens :
    LET spent == {rec \in records : rec.token = t} IN
    /\ tokens[t].status = "USED" <=> spent # {}
    /\ \A r1, r2 \in spent : r1 = r2
    /\ \A rec \in spent : rec.card = tokens[t].card /\ rec.mode = "STAFF_SCAN"

\* createToken leaves the card with a single live token, whatever confirms and
\* other createTokens run meanwhile (handler.go:447-456).
OneActiveToken ==
  \A t1, t2 \in Tokens :
    tokens[t1].status = "ACTIVE" /\ tokens[t2].status = "ACTIVE"
      /\ tokens[t1].card = tokens[t2].card => t1 = t2

\* A card's row tells its history: USED_UP exactly at balance zero; waiting for its
\* first use only while it has no activation, no expiry and no record; activated by
\* one of its records unless it was by the sale, at time 0; expiring a validity of its
\* product after that, and EXPIRED only once that time has come; in a refund, or
\* refunded, only if it was never used.
RowTellsHistory(c) ==
  LET k == cards[c] IN
  /\ k.status = "USED_UP" <=> Kind[c] = "COUNT_CARD" /\ k.remaining = 0
  /\ k.status = "PENDING_ACTIVATION" => k.activatedAt = NoTime
  /\ k.status \in {"ACTIVE", "USED_UP", "EXPIRED"} => k.activatedAt # NoTime
  /\ k.activatedAt = NoTime => k.expiresAt = NoTime /\ RecordsOf(c) = {}
  /\ k.activatedAt # NoTime =>
       \E set \in Settings : k.expiresAt = k.activatedAt + set.validity * DayLength
  /\ k.activatedAt > 0 => \E rec \in RecordsOf(c) : rec.at = k.activatedAt
  /\ k.status = "EXPIRED" => k.expiresAt <= clock
  /\ k.status \in {"REFUND_LOCKED", "REFUNDED"} => RecordsOf(c) = {}
StatusMatchesHistory == \A c \in Cards : RowTellsHistory(c)

\* The time recorded of every use lies before the card's expiry and, for a staff scan,
\* before the token's.  It is the time a confirm began: the locks may be granted later.
UsesBeforeExpiry ==
  \A rec \in records :
    /\ rec.at < cards[rec.card].expiresAt
    /\ rec.token # None => rec.at < tokens[rec.token].expiresAt

\* A check-in that got past the locking lookup still has its key to itself: its
\* duplicate cannot be refused for what the first one did to the card.
CheckinKeyReserved ==
  \A p \in Procs : tx[p].pc = "gotCode" =>
    ByKey(SelfScans(records), tx[p].user, tx[p].request) = {}

\* A self check-in is recorded only under a code that is ACTIVE at that moment and
\* of the generation the member scanned: stopping or replacing a code takes effect
\* at once, for check-ins already under way too.
OnlyCurrentCodeRecords ==
  [][\A rec \in records' \ records : rec.mode = "MEMBER_SELF_SCAN" =>
       /\ codes[rec.code].status = "ACTIVE"
       /\ \E p \in Procs : /\ tx[p].code = rec.code /\ tx[p].qr = codes[rec.code].qr
                           /\ tx[p].request = rec.request]_vars

\* Every request is answered, in spite of the opposite lock orders of confirm
\* (token, card) and createToken (card, token).
EveryRequestAnswered == \A p \in Procs : tx[p].pc # "done" ~> tx[p].pc = "done"

\* At most the product's daily uses of a TIME_PASS fall on one Shanghai day.
DailyLimit ==
  \A c \in Cards : Kind[c] = "TIME_PASS" =>
    \A rec \in RecordsOf(c) :
      UsesOnDay(records, c, Day(rec.at)) <= product[Product[c]].dailyLimit

\* A repeated confirm of a request that already redeemed this token is answered
\* with that first result, never with TOKEN_ALREADY_USED.
DuplicateConfirmReplays ==
  [][\A p \in Procs :
       tx[p].op = "confirm" /\ tx[p].pc = "started" /\ answer'[p] = "TOKEN_ALREADY_USED" =>
         ~\E rec \in ByKey(records, tx[p].user, tx[p].request) : rec.token = tx[p].token]_vars

\* Every card keeps to CardContract: no use of a card that is over or in a refund,
\* none beyond what it was sold for, also when its expiry is recorded, or its refund
\* begun, after `now' was read and the token locked.
Contract ==
  INSTANCE CardContract WITH
    standing <- [c \in Cards |->
      CASE cards[c].status \in {"PENDING_ACTIVATION", "ACTIVE"} -> "good"
        [] cards[c].status = "REFUND_LOCKED" -> "held"
        [] cards[c].status = "REFUNDED" -> "refunded"
        [] OTHER -> "over"],
    left <- [c \in Cards |-> cards[c].remaining]
CardsKeepContract == Contract!Spec
-----------------------------------------------------------------------------
(* What the properties rest on, state by state. *)

\* A transaction carries the fields its operation read from the request.
WellFormedTx ==
  \A p \in Procs :
    /\ tx[p].op = "none" => tx[p].pc = "done"
    /\ tx[p].op = "confirm" =>
         /\ tx[p].pc \in {"started", "gotToken"}
         /\ tx[p].user \in Users /\ tx[p].request \in Reqs
         /\ tx[p].token \in Tokens /\ tx[p].code = None
    /\ tx[p].op = "checkin" =>
         /\ tx[p].pc \in {"started", "gotCode"}
         /\ tx[p].user \in Users /\ tx[p].request \in Reqs
         /\ tx[p].card \in Cards /\ tx[p].code \in Codes /\ tx[p].token = None
    /\ tx[p].op = "createToken" =>
         /\ tx[p].pc \in {"started", "gotCard"}
         /\ tx[p].user \in Users /\ tx[p].card \in Cards

\* Every token row belongs to a card.
BornTokens == \A t \in Tokens : tokens[t].status # "NONE" => tokens[t].card \in Cards

\* The token a confirm has locked stays ACTIVE, and only one confirm has it.
LockedTokens ==
  /\ \A p \in Procs : tx[p].pc = "gotToken" => tokens[tx[p].token].status = "ACTIVE"
  /\ \A p, q \in Procs :
       tx[p].pc = "gotToken" /\ tx[q].pc = "gotToken" /\ tx[p].token = tx[q].token => p = q

\* A confirm that holds its token took it before the token's time was up; a
\* check-in that holds its code took it ACTIVE and of the generation scanned.
FreshTokens ==
  \A p \in Procs : tx[p].pc = "gotToken" => tx[p].now < tokens[tx[p].token].expiresAt
HeldCodes ==
  \A p \in Procs : tx[p].pc = "gotCode" =>
    codes[tx[p].code].status = "ACTIVE" /\ codes[tx[p].code].qr = tx[p].qr

\* The balance never leaves 0..total_times; that of a TIME_PASS is not touched.
NoOverdraft ==
  \A c \in Cards :
    IF Kind[c] = "COUNT_CARD" THEN cards[c].remaining \in 0..Total[c]
                              ELSE cards[c].remaining = Total[c]

Inv ==
  /\ TypeOK /\ WellFormedTx /\ BornTokens /\ LockedTokens
  /\ NoOverdraft /\ BalanceChain /\ TokenSpentOnce
  /\ OneActiveToken /\ StatusMatchesHistory
  /\ FreshTokens /\ UsesBeforeExpiry
  /\ HeldCodes /\ CheckinKeyReserved
=============================================================================
