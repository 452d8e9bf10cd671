# A TLA+ model of URockClimbing

URockClimbing sells membership cards of a climbing gym in a WeChat mini program
and redeems them at the counter or at a printed code. The server is a Go program
(`src/backend`) on MySQL 8.4 (InnoDB, REPEATABLE READ); WeChat Pay takes and
returns the money. Everything that can go wrong with a card, an order or a refund
goes wrong between handlers that run at once on the same rows, or between the
server and WeChat; the same is true of the members' accounts and of the pages with
which administrators edit them. That is what the modules here describe, check and prove.

## 1. Inventory

Paths are below `src/backend/internal`.

| component | state | operations | modelled |
|---|---|---|---|
| `redemption` | redemption_tokens, redemption_records; writes member_cards | CreateToken, Preview, Confirm (staff), CheckinPreview, CheckinConfirm (member), Today | Redemption |
| `order` | orders | Create, List, Get (both close expired orders first) | Payment |
| `payment` | payment_transactions; issues member_cards | Prepare, Sync, Notify | Payment |
| `adminorder` | refund_transactions; writes orders, member_cards | Refund, SyncRefund, RefundNotify; List, Get | Refund; what it does to a card being redeemed in Redemption |
| `membercard` | expires member_cards | List, Get, redemption lists | Redemption, Refund |
| `admincheckin` | checkin_codes, audit_logs | List, Get, Create, ChangeStatus, Regenerate | Catalog; its races with check-ins in Redemption |
| `admincard` | card_products, audit_logs | List, Create, Update, ChangeStatus | Catalog; its races with redemption and purchase in Redemption and Payment |
| `platform/wechat` | none; WeChat's own trades and refunds | Prepay, Query, ParseNotification, CreateRefund, QueryRefund | as environment of Payment, Refund, Membership |
| `auth` | users, wechat_identities, member_profiles, refresh_tokens | Login, Refresh, Logout, Authenticate | Membership |
| `member` | users, member_profiles | Update (nickname), RegisterPhone; Get | Membership |
| `adminmember` | users, member_profiles, audit_logs | Update; List, Get | Membership |
| `adminops` | users, audit_logs | ChangeRole; lists of staff, redemptions, audit rows | Membership |
| `adminauth` | admin_credentials, admin_sessions | Login, ChangePassword, Logout, authorize | no |
| `card`, `config`, `httpserver`, `middleware`, `respond`, `securefield`, `cmd` | none of the business's | reads, routing, formatting, start-up | no |
| admin-web, miniprogram, deploy | clients and containers | | no |

How they interact. There is no queue and no background job: every step is an HTTP
request, of a member, a member of staff, an administrator or WeChat. Components meet in
the database only, above all in the rows of `orders` and `member_cards`, which four
packages write, and in those of `users` and `member_profiles`, which another four write. Shared rows are protected by `SELECT .. FOR UPDATE`, by conditional
`UPDATE .. WHERE status=..`, and by unique keys (`uk_orders_user_request`,
`uk_member_card_source_order`, `uk_redemption_operator_request`,
`uk_redemption_token`, `uk_refund_operator_request`, `uk_wechat_appid_openid`). Calls of WeChat are made outside
of transactions; its notices may be late, repeated and out of order.

What makes this hard, and what correctness means:

- *redemption*: plain reads of a transaction come from a snapshot that may be older than
  the locks it holds; locks are taken in opposite orders; the clock is read before a lock is
  waited for; requests are repeated with the same Idempotency-Key. No use may be lost or
  doubled, no token pay twice, a stopped code must not be good any longer, and every request must
  be answered.
- *order, payment*: an order is closed lazily by whoever looks at it, while its
  trade may be paid. Money must become exactly one card, and a card needs money.
- *refund*: three rows change together around a remote call with an unknown outcome. The
  card must be out of service while money may flow back, and must return if it will not.
- *accounts*: two first logins of one identity find no account and both want to make it; two
  refreshes, or a refresh and a logout, come with one token; a member is disabled while a
  request of theirs is on its way. One identity must have one account, one login one usable token,
  and what an administrator has decided must stand.
- *administrators' pages*: a page shows a row as it was; others save meanwhile. No version, status or
  terms of a product may be overwritten unseen, and the audit log, whose before-image some handlers read outside the transaction
  of the change, must be an account of what happened.

The hazards of each component are listed, with their lines, in `PROJECT.json`.

## 2. Modules

| module | models | composed with |
|---|---|---|
| `CardContract` | what is promised about a card, abstractly | implemented by Redemption and OrderLifecycle |
| `Redemption` | redemption, expiry of cards, edits of codes and products, a refund as seen from the card | |
| `Payment` | order, payment | instantiated by OrderLifecycle |
| `Refund` | refund, with use and expiry of the card reduced to what it reads | instantiated by OrderLifecycle |
| `OrderLifecycle` | Payment and Refund on the same orders, payments and cards | |
| `Membership` | auth, member, and the two administrator pages that edit members | |
| `AuditedRow` | what is promised about a row that administrators edit, abstractly | implemented by Catalog |
| `Catalog` | admincard, admincheckin: products, check-in codes, pages and audit rows | |
| `*_proofs` | theorems on Redemption (its rows, and what they tell of the past), Payment, Refund, OrderLifecycle (its rows, and the money behind them), Membership, Catalog | |
| `MC*` | constants for TLC: operators of constants, symmetry | |

### Steps and transactions

A process is one handler goroutine. A row lock taken by one transaction makes others wait;
a row it has written is not seen before its commit. So a transaction is split into steps only
where something can come between: one step up to its first lock, one more
for each later lock that another transaction may hold, and everything after the last lock is one
step with the commit and the answer. A transaction whose first statement is a locking
read (`settlePayment`, `lockForRefund`, `applyRefundResult`, `failRefundRequest`) is
one step. `Abort` rolls an open transaction back at any point: the client went away, a
statement failed, the server stopped.

### Redemption

`tx[p]` holds what the transaction of handler p has read: `now` (the clock as the code
read it, for confirm and createToken before waiting for locks; check-ins read it after the
code is locked, so there it is the clock of the last step) and `snapshot`, the records as
of its first plain SELECT. `pc` says which locks it holds:

| pc | holds | reached by |
|---|---|---|
| started | nothing | the first plain SELECT (`getResult`, `getCheckinResult`) |
| gotToken | the token row | `ConfirmLockToken` |
| gotCode | the code row and the gap of the missing record | `CheckinLockCode` |
| gotCard | the card and product rows | `CreateTokenLockCard` |

Locks are read off these (`HoldsToken`, `HoldsCode`, `HoldsProduct`, `HoldsCard`, `HoldsGap`). `UsesOnDay`
counts in `tx[p].snapshot` for confirm and check-in, but in `records` for createToken, where the
COUNT is the first plain SELECT. The wait of an insert for a gap lock is folded into the step that
locks the card. A deadlock is a cycle of `WaitsFor`; `DeadlockVictim` rolls one
member back. The gap lock is that of the missing key alone: InnoDB locks the whole gap, so that inserts of
other keys may wait too and be rolled back, of which `Abort` covers the roll-back.
`LockForRefund`, `RestoreCard` and `RefundCard` are what the refund's transactions do to the card row, under its lock and
with the conditions of their UPDATEs; whether a refund may start, end or start again is the business of Refund, and
here a card may be locked and restored any number of times. A token of 32 random bytes is a model value; a QR code is the generation of the
code's token, so that a replaced code's old print is a smaller number.

### Payment

`BeginCreate` is the lookup of the Idempotency-Key with the snapshot and the number of
orders it shows, `CreateCheck` the read of the product FOR SHARE with the checks, `CreateInsert`
the insert. Prepare is three steps: load (`BeginPrepare`, and `PrepareClose` for an expired
order), `EnsurePaymentTransaction`, `Prepay`; Sync is the query and `SyncSettle`. `Settle` is
`settlePayment`. `Notify` is enabled as long as it has something to settle; a repeated notice that
finds the order settled changes nothing. WeChat keeps one trade per order, which can be paid before
the order's expiry (the `time_expire` it was given) and is closed some time afterwards. A Sync of a
trade WeChat does not know is answered as one not paid yet.

### Refund

An order starts paid for, its card ACTIVE or PENDING_ACTIVATION. `Lock`, `Resume` and `Refuse` are the
outcomes of `lockForRefund`; `CallAccepted`, `CallRejected`, `CallUnknown` those of CreateRefund; a call of
unknown outcome may still be on its way (`late`) and reach WeChat later (`LateArrival`).
WeChat's CreateRefund is idempotent by refund number, and it is assumed that WeChat does not reject the repetition of a
refund it has accepted: `CallRejected` is possible only while WeChat holds no refund. `Progress` is WeChat carrying the refund out and
putting a notice into `notices`, from which `RefundNotify` may deliver it any number of times in any order.
The age of a payment is not kept: `Refuse` may answer REFUND_NOT_ALLOWED for any order.
`Redeem` and `ExpireCard` are Redemption seen from the card row.

### OrderLifecycle

`Buying == INSTANCE Payment` and `Refunding == INSTANCE Refund` share `orders`, `payments` and
`cards`; every step is a step of one of them that leaves the other's own variables
alone. This is where an old payment notice can meet a refunded order.

### Membership

`tx[p]` is a request between two of its statements, with its locals:

| step | holds | has done | goes on by |
|---|---|---|---|
| newcomer | the gap of the missing identity | Login's locking read | `LoginCreate`: user, identity, profile, token, commit |
| refresh | token row and users row | Refresh's JOIN .. FOR UPDATE | `RefreshWrite`: successor, revocation, commit |
| rename | nothing | authentication | `RenameWrite`: the versioned UPDATE |
| phone | nothing | authentication, WeChat's answer | `PhoneLock`: the profile FOR UPDATE |
| phoneHeld | the profile row | second look at the profile | `PhoneWrite`: profile, then users row |
| edit | nothing | adminmember's read of the row for the audit log | `EditWrite`: versioned UPDATE, profile, audit row |
| role | users row, waits for the profile row | the first half of ChangeRole's locking join | `RoleWrite`: versioned UPDATE, audit row |

Locks are read off these (`UserFree`, `ProfileFree`, `TokenFree`, `GapFree`). Gap locks of one missing
identity do not exclude each other, so two first logins both pass the read and each keeps the other from
inserting: a deadlock, as there is between ChangeRole (users row, then profile) and RegisterPhone (profile, then
users row). `Victim` is InnoDB's way out, `Abort` the deferred rollback. `uk_wechat_appid_openid` stands behind the
gap lock and is never reached. EditWrite is one step although it writes users and member_profiles: only a
registered member can be edited and no registration holds the profile of one.

A refresh token is LIVE, LAPSED (thirty days passed), or REVOKED with its successor, if it has one. Access tokens
are not kept: a request that comes with an expired one is refused on arrival, and any other is authenticated when
it begins. A page sends the version it was loaded with (`Loaded`: any version up to the present one; the client
does not invent later ones). The primary keys of new rows are the next unused ones; `RoomForUser` and `RoomForToken`
keep a request from starting that would find none. Left out: tags and note of a member (written by one page only,
under the same version), last_login_at, the unionid, the avatar, and users who are administrators, whom none of these
pages lists.

### Catalog and AuditedRow

`page[a][r]` is what administrator a's page shows of row r: the list or form (`Load`), or the answer to a save, which is
read again after the commit and may show a later save (`Reread`). `job[a]` is the request on its way.
The two packages guard a row differently. admincard reads the before-image first and lets
`UPDATE .. WHERE version=? AND status=?` decide (`BeginSave`, `Save`). admincheckin locks the row and compares
the version itself; its UPDATE names the version again, but the number of rows it changed is never
looked at, and the audit row is written in any case (`LockCode`, `WriteCode`, with the lock held between them). Regenerate answers with the token it made, whatever the
row holds by then. `AuditedRow` is what both are for: row and log change together, each entry the change of the row that was there.
Products and codes are created by the page, with their first status; terms and names are one value, `Contents`. The log of a
code is kept without its token, which `scanCode` does not read and admincheckin does not log (`WithoutToken`, `ToLog`; `Secret` in AuditedRow).

## 3. Runs

Clock units: `DayLength` units make a Shanghai day, a token lives `TokenTTL`, an order `OrderTTL`.

| run | instance | checks | result |
|---|---|---|---|
| count | 2 handlers, 2 tokens, 1 code, 2 keys, a COUNT_CARD of 2 uses, clock 0..2, days of 2 | TypeOK, BalanceChain, TokenSpentOnce, OneActiveToken, StatusMatchesHistory, CardsKeepContract | pass, 435,752 states |
| pass | a TIME_PASS, days of 1, clock 0..3, product edited between 1 and 2 days | UsesBeforeExpiry | pass, 519,988 |
| checkin | one member of staff who owns the card, 2 codes of 2 versions, 2 tokens, 1 key, fairness | CheckinKeyReserved, OnlyCurrentCodeRecords, EveryRequestAnswered | pass, 130,824 |
| daily | 2 handlers, a TIME_PASS of 2 days, 3 keys | DailyLimit | violated (finding) |
| duplicate | 2 handlers, 1 key | DuplicateConfirmReplays | violated (finding) |
| settle | 2 handlers, 2 orders, 2 keys, limit 2, clock 0..2 | TypeOK, PaidIffCard, CardOnlyForMoney, TradeHasPaymentRow, OrdersOnlyOnSale | pass, 813,850 |
| limit | 2 orders, limit 1 | WithinPurchaseLimit | violated (finding) |
| states | 2 handlers, 2 administrators, a card of 2 uses | TypeOK, RefundStatesAgree, RefundedCardUnused, SucceededIsPaidOut, ActivationKept, FinalRefundKept, RestoredOnWechatsWord | pass, 19,884 |
| late | 2 handlers, 1 key | FailedIsNotPaidOut | violated (finding) |
| rows | 1 order, 1 buyer's and 1 clerk's handler, a card of 2 uses, fairness | RowsAgree, MoneyBehindRows, KeepsItsUses, CardsKeepContract, MoneyAccountedFor | pass, 143,356 |
| members | 1 identity, room for 2 users and 3 tokens, 2 requests, 2 phone numbers, 1 nickname, versions 1..3, fairness | TypeOK, OneAccountPerIdentity, OneLivePerLogin, TokensOnlyForActive, PhonesAgree, PhoneKept, DisabledFrozen, AuditExplains, EveryRequestAnswered | pass, 174,228 |
| edits | 1 product, 1 code, 2 administrators, 2 contents, versions 1..3 | TypeOK, RowsAudited, SeenBeforeSaved, VersionNamesContent | pass, 843,098 |

What the passing runs show: *count*, that no mixture of tokens, check-ins, repeated keys, roll-backs
and deadlocks loses or doubles a use, that the row of a card tells its history, and that the code implements `CardContract`
while refunds lock, return and end cards; *pass*, that no use of a pass is recorded with a time at or after the expiry its first
use gave it (the lock may be granted later than that time); *checkin*, that stopping or replacing
a code is effective at once, that one key makes one record, and that lock conflicts never leave a
request unanswered; *settle*, that money and cards go together; *states*, that a refund and its card
do, whatever WeChat does; *rows*, that they still do when purchase, use and refund share their
rows, that every card was paid for and every refunded order paid back, and that every payment and every refund WeChat has concluded arrives in the books; *members*, that
first logins, refreshes, registrations and the administrators' edits of one member leave one account with one number,
one usable token per login, an audit log that adds up, and no request unanswered in spite of two kinds of deadlock; *edits*,
that both ways of guarding a row implement `AuditedRow`, and that nobody overwrites a version, a status or the terms of a
product that their page did not show (of the tokens of codes this is false, see section 4).

Bounds. Every conflict in this code is between two transactions on one row, so two handlers,
two tokens and two keys show each of them; a third handler only repeats what the second can do. Two
uses are the fewest with a first, a last and a refused one. Two units of clock let a token, a
card or an order expire before, during and after a request; three show a pass on several days.
`MaxClock`, `MaxVersion`, the finite `Tokens` and `Orders` bound the state space and appear only as guards of
Tick, of the edits of codes, products and members, and of the requests that need a new row. In *members* one
identity is enough, as rows of different identities meet in nothing but their primary keys; the second users row is the
one a lost race would leave behind; three tokens are a login, its refresh and a second login or refresh. Symmetry is used for handlers, tokens, orders,
keys, administrators and contents in runs of safety properties, never with liveness.

Deadlock of the model is checked in every run: the handlers always have a next request to take, so
no run switches it off.

Fairness. Redemption: a goroutine whose lock is granted goes on, and InnoDB grants locks in order
of arrival, so a step that is enabled again and again is taken (SF), and its detector rolls a
deadlock back (WF). A handler is never assumed to be asked anything. Payment and Refund: WeChat
repeats a notice until it is acknowledged, so its delivery is weakly fair; no client is assumed
to return, no refund to be asked for again, no WeChat refund to make progress. Membership: as Redemption,
the next statement of a request that is let through again and again is taken (SF), and a deadlock is
broken (WF); nobody is assumed to log in, and a refused or rolled-back request counts as answered.

## 4. What the runs found

Each is a run with expected violation; `PROJECT.json` quotes the documents.

1. *daily*: a pass can be used twice on a day: the count is read in a snapshot older than the card lock
   (`redemption/handler.go:624`).
2. *duplicate*: of two overlapping copies of a confirm the second is told TOKEN_ALREADY_USED (`:523`).
3. *limit*: two overlapping creates pass the purchase limit (`order/handler.go:206`).
4. *late*: after an unknown outcome, a repeated refund that is rejected gives the card back while the
   first may still be paid out (`adminorder/refund.go:88`, `:136`, `:308`).

Three more differences from PRD.md were met that need no interleaving and so have no run: the days a card
runs are those of the product at its first use (`redemption/handler.go:539`), where PRD.md:103 and 813 fix them at the
sale; a failed refund bars every later one (`adminorder/refund.go:246`), where PRD.md:161 forbids it only
while one is under way; and a failed refund restores a card that was never activated to PENDING_ACTIVATION
(`adminorder/refund.go:149`, `:333`), where PRD.md:165 ("会员卡恢复为 `ACTIVE`") and the state machine at PRD.md:286 (REFUND_LOCKED
-> ACTIVE) have it ACTIVE. In the last case the document disagrees with itself, as PRD.md:640 asks for the original status. The models
do as the code does, so ActivationKept, which *states* checks and Refund_proofs proves, is what PRD.md:640 says and not what
PRD.md:165 says; its mutant RestoredActive is what PRD.md:165 says.

No document speaks of a further one: the answer to the creation or the replacement of a check-in code pairs the request's own token with a
version read after the commit (`admincheckin/handler.go:156`, `:279`). If another administrator has replaced the token in between,
the page shows the present version with a dead token, and saving from it replaces a token it never showed. So
VersionNamesContent and the content clause of SeenBeforeSaved are stated of products only.

*late* does not depend on the assumption named in section 2: its counterexample rejects a request while WeChat holds no refund. Were
WeChat to reject the repetition of a refund it has accepted, that would be a second way to give the card back with the money; the
properties of *states* and *rows* hold without the assumption as well.

A late payment reopens a closed order (`payment/handler.go:236`). `Settle` models it, PaidIffCard
allows it, and MoneyAccountedFor would fail without it: money that came in must become a card.

## 5. What is proved

`tlapm` checks all of it, for any number of handlers, members, administrators, cards, tokens, codes,
keys and orders, and any values of the other constants that satisfy the assumptions named in the
modules: the bounds are natural numbers (`BoundsAssumption`), `None` is none of the other values
(`NoneAssumption`), and the orders of Payment, which its handlers count, are finite
(`OrdersAssumption`; in OrderLifecycle part of `BoundsAssumption`); in Redemption staff are users, cards have an owner, a kind, a total and a
product, products have settings, and the time units are positive (`RolesAssumption`, `CardsAssumption`,
`SettingsAssumption`, `TimeAssumption`); in Membership `Nobody` is no key, number or name (`NullAssumption`),
in Catalog products and codes are different rows (`RowsAssumption`), and `MaxVersion` is a natural number in both
(`MaxVersionAssumption`). TLC evaluates them on every instance.

| module | theorems |
|---|---|
| `Redemption_proofs` | TypeCorrect, TokenSpent, BalanceKept |
| `Redemption_history_proofs` | OneTokenLive, StatusTellsHistory, KeepsContract, KeyReserved, CurrentCodes, UsedInTime, AlwaysInv |
| `Payment_proofs` | TypeCorrect, PaidExactlyWithCard, NoCardWithoutMoney, TradesRecorded, OnlyOnSale |
| `Refund_proofs` | TypeCorrect, RefundRowsAgree, RefundsOnlyUnused, PaidOutIfSucceeded, ActivationRestored, FinalKept, CardRestored |
| `OrderLifecycle_proofs` | SharedRows, RowsAlwaysAgree, UsesKept, KeepsContract |
| `OrderLifecycle_money_proofs` | MoneyStands, FinalKept, CardRestored |
| `Membership_proofs` | TypeCorrect, OneAccount, OneLive, PhonesMatch, AuditAdds, Issued, Kept, Frozen |
| `Catalog_proofs` | TypeCorrect, VersionsName, SeenFirst, Audited |

Each module ends in an invariant `Inv`, the properties with what makes them inductive (OrderLifecycle has a
second, `MoneyInv`). The proofs have one lemma per action or group of actions; that the parts of `Inv` hold in every
state gives the theorems.

- *Redemption*. TokenSpentOnce is not inductive: nothing in it keeps a confirm from spending a
  token that another has meanwhile spent. LockedTokens adds what a transaction knows while it holds the token's lock
  (the token exists and is as it read it), WellFormedTx what each `pc` says about the rest of `tx[p]`, BornTokens that a
  token not yet made has no record. BalanceChain needs NoOverdraft: the balance written is one less
  than the balance read under the card lock, and never below zero.
- *Redemption, its history*. Here the steps are first reduced to what they do to a row: a token ends or one is issued
  (`TokensStep`), cards rest, expire or move in a refund, or one is redeemed with its record (`CardsStep`), a handler takes a lock or keeps
  it (`LocksStep`). OneActiveToken then follows because issuing ends every other ACTIVE token of
  the card; StatusMatchesHistory card by card, for each thing that may happen to a row: a redemption writes card and record together
(`RedeemTells`), only ACTIVE cards past their expiry expire, and a refund takes only cards without a record (`MoveTells`); that such a card has all
its uses left, which the contract demands of a held one, is BalanceChain with NoOverdraft (`UnusedIsWhole`). Neither
  UsesBeforeExpiry nor OnlyCurrentCodeRecords follows from the state a record is written in: a confirm read the clock
  before it waited, a check-in the code before it locked the card. FreshTokens keeps for the one that the token had time left
  then, HeldCodes for the other that the code is as scanned, which the row lock protects from edits. CheckinKeyReserved rests on
  the gap lock: a record with the key can only be written by the one that holds it. The refinement of CardContract maps an
  unused step to Expire, Hold, Release, Refund or Rest of each card, a redemption to Use.
- *Payment*. A Sync settles an order on the strength of a query made earlier, so WellFormedTx says that
  a handler on its way to settle has seen money that does not go away, and one on its way to Prepay has
  its payment row; RowsOfOrders that a new order starts without either. OnlyOnSale
  needs CheckedProduct: the shared lock a create holds freezes the product it has read.
- *Refund*. A CLOSED or SUCCESS in the hands of a handler, or in a notice, may be old. `Honest` says that it is
  nevertheless WeChat's present word, since WeChat never goes back on it (`Settled` in the proofs). This gives
  SucceededIsPaidOut and CardRestored; the other parts follow from the statuses each UPDATE
  names together with RefundStatesAgree. The two action properties are proved from the same Inv.
- *OrderLifecycle*. The theorems about Payment and Refund cannot be cited for their instances, nor would they
  do: neither module makes the other's steps. Instead every step of either is shown to be one of eleven steps of
  the rows of each order (`RowsStep`: opens, closes, settles, locks, fails, ...), and `RowInv`, Inv seen from one
  order, to survive each. It holds what neither part says alone: a refund has a card (RefundHasCard), so an order
  without one cannot be refunded and settled afterwards; a card in service has a use left (UseLeft), which
  the contract demands of a released card. The refinement of CardContract is then read off `RowsStep`, and so is that
  a final refund is kept.
- *OrderLifecycle, the money*. MoneyBehindRows relates the rows to WeChat, which tells of itself by answers
  and notices. `MoneyInv` says what they are worth when they arrive: a Sync on its way has seen the trade paid
  (PaidSyncs), a result in the hands of a handler or a notice is WeChat's present word if it is final (Honest), and
  every call, also a late one, has its refund row (RefundsBooked). `PaidStep` and `RefundMoney` say what a step of either part
  leaves true of it. FinalKept and CardRestored repeat for both parts together what Refund_proofs shows of Refund alone.
- *Membership*. None of the properties survives a step that acts on what an earlier statement read. RequestsStand
  says what a request may rely on between two statements: a newcomer's identity is still missing, a
  refresh's token is its own, not revoked, and its member ACTIVE, a registration's profile still open, an edit's
  before-image the row's status as long as the version is the same. OneHolder, that locks exclude, keeps it so.
  The steps are proved by what they change: `MoveInv` (nothing but the request), `AccountInv` (one account), `TokenInv`
  (tokens). The three action properties are read off the same invariant: a token is stored by steps whose member is
  ACTIVE, a number is written where none was, and a disabled member is registered (DisabledRegistered), so no
  registration is pending, and has another version than any rename on its way.
- *Catalog*. A page and a before-image are the row as it is or as it once was (`Behind`); JobsPending says this of a
  request on its way, and OneWriter that the lock of a code excludes. So the version a save finds decides that its
  page and its before-image are the row (of a code, its version and status), and each step of Catalog is a step of AuditedRow or leaves row and log
  alone: the refinement RowsAudited is proved for every instance, not only checked.

With this every invariant and action property of the passing runs, and every refinement, is a theorem. Only
model-checked is what holds under fairness: both EveryRequestAnswered and MoneyAccountedFor, which need ENABLED and
are out of the prover's reach. The properties of section 4, which the code violates, have their counterexamples.

## 6. What is not modelled, and the plan

Left out for good: formatting, JSON, encryption, signatures, amounts of money (one price per
order, always matching), the audit rows of redemptions, orders and refunds, which repeat what the rows say (those of
products, codes and members are modelled), the list and report queries, the connection pool, start-up, and
the clients. Left out as well is `adminauth`: passwords, sessions and the lock-out counter
guard against abuse and no business row depends on them; its counter is read, incremented and written back
without a lock (`adminauth/handler.go:107`), which is listed among the hazards. The modules take an
authorized administrator as given.

The plan, in order of importance; what is done is marked.

1. Redemption with locks and snapshots, MC runs, types and safety, proofs of TypeOK, TokenSpentOnce,
   BalanceChain (done).
2. Payment, Refund and their composition OrderLifecycle, CardContract as the abstract specification
   of both sides (done).
3. Proofs for Payment and Refund (done).
4. Membership: accounts, sessions, phone numbers and the pages that edit members, with proofs of its safety
   properties (done).
5. Catalog: versioned edits of products and codes with their audit rows, as an implementation of
   AuditedRow, with the proof (done).
6. Proofs for Redemption of StatusMatchesHistory, OneActiveToken, UsesBeforeExpiry, CheckinKeyReserved,
   OnlyCurrentCodeRecords and of the refinement of CardContract; for OrderLifecycle of RowsAgree, KeepsItsUses,
   MoneyBehindRows and the refinement (done).
7. For the composition, what Payment says of the sale: that no order is made of a product off sale, and that every trade
   has its payment row, are proved of Payment alone, whose steps OrderLifecycle makes unchanged.
