-------------------------- MODULE Redemption_proofs --------------------------
(* Proofs about Redemption for any number of handlers, users, cards, tokens, *)
(* codes and requests.                                                       *)
EXTENDS Redemption, TLAPS

USE DEF NoTime

\* What every transaction step relies on: types, request fields, token owners.
Base == TypeOK /\ WellFormedTx /\ BornTokens

LEMMA InitBase == Init => Base
  <1>. SUFFICES ASSUME Init PROVE Base
    OBVIOUS
  <1>1. cards \in [Cards -> Card]
    BY CardsAssumption, SettingsAssumption, TimeAssumption DEF Init, Card, CardStatus
  <1>2. tokens \in [Tokens -> Token]
    BY DEF Init, Token, TokenStatus
  <1>3. codes \in [Codes -> Code]
    BY DEF Init, Code
  <1>4. NoTx \in Tx
    BY DEF NoTx, Tx
  <1>5. tx \in [Procs -> Tx] /\ answer \in [Procs -> Outcome]
    BY <1>4 DEF Init, Outcome
  <1>6. WellFormedTx
    BY DEF Init, WellFormedTx, NoTx
  <1>7. BornTokens
    BY DEF Init, BornTokens
  <1>. QED
    BY <1>1, <1>2, <1>3, <1>5, <1>6, <1>7, SettingsAssumption DEF Init, Base, TypeOK

\* The end of a transaction keeps Base as far as tx and answer go.
LEMMA FinishBase ==
  ASSUME Base, NEW p \in Procs, NEW o \in Outcome, Finish(p, o)
  PROVE /\ tx' \in [Procs -> Tx] /\ answer' \in [Procs -> Outcome]
        /\ WellFormedTx'
  BY NoneAssumption DEF Finish, Base, TypeOK, WellFormedTx, Tx, NoTx

LEMMA ReplyBase ==
  ASSUME Base, NEW p \in Procs, NEW o \in Outcome, Reply(p, o)
  PROVE Base'
  BY FinishBase DEF Reply, Base, TypeOK, BornTokens

LEMMA AdvanceBase ==
  ASSUME Base, NEW p \in Procs,
         NEW pc \in {"gotToken", "gotCode", "gotCard"}, Advance(p, pc),
         pc = "gotToken" => tx[p].op = "confirm",
         pc = "gotCode" => tx[p].op = "checkin",
         pc = "gotCard" => tx[p].op = "createToken"
  PROVE Base'
  <1>. DEFINE t == [tx[p] EXCEPT !.pc = pc]
  <1>1. tx' = [tx EXCEPT ![p] = t] /\ UNCHANGED <<clock, cards, product, tokens, codes, records, answer>>
    BY DEF Advance
  <1>2. tx[p] \in Tx
    BY DEF Base, TypeOK
  <1>3. /\ t \in Tx /\ t.op = tx[p].op /\ t.pc = pc /\ t.user = tx[p].user
        /\ t.request = tx[p].request /\ t.token = tx[p].token /\ t.card = tx[p].card
        /\ t.code = tx[p].code
    BY <1>2 DEF Tx
  <1>. HIDE DEF t
  <1>4. tx' \in [Procs -> Tx]
    BY <1>1, <1>3 DEF Base, TypeOK
  <1>5. WellFormedTx'
    BY <1>1, <1>3 DEF Base, TypeOK, WellFormedTx
  <1>. QED
    BY <1>1, <1>4, <1>5 DEF Base, TypeOK, BornTokens

\* A verdict of OK on a card under its lock: it is live and has a use left.
LEMMA VerdictOK ==
  ASSUME NEW c \in Cards, NEW u, NEW recs, NEW now, Verdict(c, u, recs, now) = "OK"
  PROVE /\ cards[c].status \in {"ACTIVE", "PENDING_ACTIVATION"}
        /\ Owner[c] = u
        /\ Kind[c] = "COUNT_CARD" => ~(cards[c].remaining <= 0)
        /\ cards[c].status = "ACTIVE" => ~(cards[c].expiresAt <= now)
  BY DEF Verdict, SimpleVerdict, ExpiryReached

LEMMA VerdictType ==
  ASSUME NEW c, NEW u, NEW recs, NEW now
  PROVE Verdict(c, u, recs, now) \in Outcome
  BY DEF Verdict, SimpleVerdict, ExpiryReached, Outcome, CardVerdict

LEMMA RedeemedType ==
  ASSUME Base, NEW c \in Cards, NEW now \in Nat
  PROVE Redeemed(c, now) \in Card
  <1>1. cards[c] \in Card /\ product[Product[c]] \in Settings
    BY CardsAssumption DEF Base, TypeOK
  <1>2. product[Product[c]].validity \in Nat
    BY <1>1, SettingsAssumption
  <1>3. product[Product[c]].validity * DayLength \in Nat
    BY <1>2, TimeAssumption
  <1>4. now + product[Product[c]].validity * DayLength \in Nat
    BY <1>3
  <1>. QED
    BY <1>1, <1>4 DEF Redeemed, Remaining, Card, CardStatus

LEMMA WriteBase ==
  ASSUME Base, NEW p \in Procs, NEW c \in Cards, NEW now \in Nat,
         NEW mode \in {"STAFF_SCAN", "MEMBER_SELF_SCAN"},
         tx[p].op \in {"confirm", "checkin"},
         tx[p].token # None => tokens[tx[p].token].card \in Cards,
         WriteRedemption(p, c, now, mode)
  PROVE Base'
  <1>1. CASE Reply(p, "INTERNAL_ERROR")
    BY <1>1, ReplyBase DEF Outcome
  <1>2. CASE ~Reply(p, "INTERNAL_ERROR")
    <2>1. Finish(p, "OK") /\ UNCHANGED <<clock, product, codes>>
      BY <1>2 DEF WriteRedemption
    <2>2. records' \subseteq Record
      BY <1>2, CardsAssumption DEF WriteRedemption, Base, TypeOK, WellFormedTx, Record, Remaining, Card, Tx
    <2>3. cards' \in [Cards -> Card]
      BY <1>2, RedeemedType DEF WriteRedemption, Base, TypeOK
    <2>4. CASE tx[p].token = None
      <3>1. tokens' = tokens
        BY <1>2, <2>4 DEF WriteRedemption
      <3>. QED
        BY <2>1, <2>2, <2>3, <3>1, FinishBase DEF Outcome, Base, TypeOK, BornTokens
    <2>5. CASE tx[p].token # None /\ tokens[tx[p].token].status # "ACTIVE"
      BY <1>2, <2>1, <2>2, <2>3, <2>5, FinishBase
      DEF WriteRedemption, Outcome, Base, TypeOK, BornTokens
    <2>6. CASE tx[p].token # None /\ tokens[tx[p].token].status = "ACTIVE"
      <3>1. tokens' = [tokens EXCEPT ![tx[p].token].status = "USED"]
        BY <1>2, <2>6 DEF WriteRedemption
      <3>2. tx[p].token \in Tokens
        BY <2>6 DEF Base, TypeOK, Tx
      <3>3. tokens' \in [Tokens -> Token] /\ \A k \in Tokens : tokens'[k].card = tokens[k].card
        BY <3>1, <3>2 DEF Base, TypeOK, Token, TokenStatus
      <3>4. BornTokens'
        BY <2>6, <3>1, <3>2, <3>3 DEF Base, TypeOK, BornTokens
      <3>. QED
        BY <2>1, <2>2, <2>3, <3>3, <3>4, FinishBase DEF Outcome, Base, TypeOK
    <2>. QED
      BY <2>4, <2>5, <2>6
  <1>. QED
    BY <1>1, <1>2

\* One row of redemption_tokens changes its status, its card stays.
LEMMA TokenBase ==
  ASSUME Base, NEW t \in Tokens, NEW st \in TokenStatus, tokens[t].status # "NONE",
         tokens' = [tokens EXCEPT ![t].status = st]
  PROVE tokens' \in [Tokens -> Token] /\ BornTokens'
  BY DEF Base, TypeOK, BornTokens, Token

LEMMA BeginBase ==
  ASSUME Base, NEW p \in Procs, NEW t \in Tx, Begin(p, t),
         t.op # "none", t.pc = "started",
         t.op \in {"confirm", "checkin"} => t.user \in Users /\ t.request \in Reqs,
         t.op = "confirm" => t.token \in Tokens /\ t.code = None,
         t.op = "checkin" => t.card \in Cards /\ t.code \in Codes /\ t.token = None,
         t.op = "createToken" => t.user \in Users /\ t.card \in Cards
  PROVE Base'
  BY DEF Begin, Base, TypeOK, WellFormedTx, BornTokens, Outcome

LEMMA RequestBase ==
  ASSUME Base, NEW p \in Procs, Request(p)
  PROVE Base'
  <1>1. ASSUME NEW u \in Users, NEW r \in Reqs, NEW t \in Tokens, BeginConfirm(p, u, r, t)
        PROVE Base'
    <2>. DEFINE new == [NoTx EXCEPT !.op = "confirm", !.pc = "started", !.user = u,
                            !.request = r, !.token = t, !.now = clock, !.snapshot = records]
    <2>1. new \in Tx /\ new.op = "confirm" /\ new.pc = "started" /\ new.user = u
          /\ new.request = r /\ new.token = t /\ new.code = None
      BY DEF Tx, NoTx, Base, TypeOK
    <2>2. CASE Reply(p, "REPLAYED")
      BY <2>2, ReplyBase DEF Outcome
    <2>3. CASE Begin(p, new)
      <3>. HIDE DEF new
      <3>. QED  BY <2>1, <2>3, BeginBase
    <2>. QED
      BY <1>1, <2>2, <2>3 DEF BeginConfirm
  <1>2. ASSUME NEW u \in Users, NEW r \in Reqs, NEW c \in Cards, NEW k \in Codes,
               NEW g \in 1..codes[k].qr, BeginCheckin(p, u, r, c, k, g)
        PROVE Base'
    <2>. DEFINE new == [NoTx EXCEPT !.op = "checkin", !.pc = "started", !.user = u,
                            !.request = r, !.card = c, !.code = k, !.qr = g,
                            !.snapshot = records]
    <2>0. g \in Nat
      BY DEF Base, TypeOK, Code
    <2>1. new \in Tx /\ new.op = "checkin" /\ new.pc = "started" /\ new.user = u
          /\ new.request = r /\ new.card = c /\ new.code = k /\ new.token = None
      BY <2>0 DEF Tx, NoTx, Base, TypeOK
    <2>2. CASE Reply(p, "REPLAYED")
      BY <2>2, ReplyBase DEF Outcome
    <2>3. CASE Begin(p, new)
      <3>. HIDE DEF new
      <3>. QED  BY <2>1, <2>3, BeginBase
    <2>. QED
      BY <1>2, <2>2, <2>3 DEF BeginCheckin
  <1>3. ASSUME NEW u \in Users, NEW c \in Cards, BeginCreateToken(p, u, c)
        PROVE Base'
    <2>. DEFINE new == [NoTx EXCEPT !.op = "createToken", !.pc = "started", !.user = u,
                            !.card = c, !.now = clock]
    <2>1. new \in Tx /\ new.op = "createToken" /\ new.pc = "started" /\ new.user = u
          /\ new.card = c
      BY DEF Tx, NoTx, Base, TypeOK
    <2>2. Begin(p, new)
      BY <1>3 DEF BeginCreateToken
    <2>. HIDE DEF new
    <2>. QED
      BY <2>1, <2>2, BeginBase
  <1>. QED
    BY <1>1, <1>2, <1>3 DEF Request

LEMMA LockedCard ==
  ASSUME Base, LockedTokens, NEW p \in Procs, tx[p].pc = "gotToken"
  PROVE /\ tx[p].op = "confirm" /\ tx[p].token \in Tokens
        /\ tokens[tx[p].token].status = "ACTIVE"
        /\ tokens[tx[p].token].card \in Cards
  BY DEF Base, TypeOK, WellFormedTx, BornTokens, LockedTokens, Tx

LEMMA CheckinFields ==
  ASSUME Base, NEW p \in Procs, tx[p].pc = "gotCode"
  PROVE /\ tx[p].op = "checkin" /\ tx[p].token = None /\ tx[p].card \in Cards
        /\ tx[p].code \in Codes
  BY DEF Base, TypeOK, WellFormedTx, Tx

LEMMA CreatorFields ==
  ASSUME Base, NEW p \in Procs, tx[p].pc = "gotCard"
  PROVE tx[p].op = "createToken" /\ tx[p].card \in Cards
  BY DEF Base, TypeOK, WellFormedTx, Tx

LEMMA StepBase ==
  ASSUME Base, LockedTokens, NEW p \in Procs, Step(p)
  PROVE Base'
  <1>0. tx[p] \in Tx /\ clock \in Nat
    BY DEF Base, TypeOK
  <1>1. CASE ConfirmLockToken(p)
    <2>. DEFINE t == tx[p].token
    <2>1. t \in Tokens /\ tx[p].op = "confirm"
      BY <1>1 DEF ConfirmLockToken, Base, WellFormedTx
    <2>2. CASE \E o \in Outcome : Reply(p, o)
      BY <2>2, ReplyBase
    <2>3. CASE /\ tokens[t].status = "ACTIVE"
               /\ tokens' = [tokens EXCEPT ![t].status = "EXPIRED"]
               /\ Finish(p, "TOKEN_EXPIRED")
               /\ UNCHANGED <<clock, cards, product, codes, records>>
      BY <2>1, <2>3, FinishBase, TokenBase DEF Outcome, TokenStatus, Base, TypeOK
    <2>4. CASE Advance(p, "gotToken")
      BY <2>1, <2>4, AdvanceBase
    <2>. QED
      BY <1>1, <2>2, <2>3, <2>4 DEF ConfirmLockToken, Outcome
  <1>2. CASE ConfirmCard(p)
    <2>. DEFINE c == tokens[tx[p].token].card
    <2>1. c \in Cards /\ tx[p].op = "confirm"
      BY <1>2, LockedCard DEF ConfirmCard
    <2>2. CASE Reply(p, Verdict(c, Owner[c], tx[p].snapshot, tx[p].now))
      BY <2>2, ReplyBase, VerdictType
    <2>3. CASE WriteRedemption(p, c, tx[p].now, "STAFF_SCAN")
      BY <1>0, <2>1, <2>3, WriteBase DEF Tx
    <2>. QED
      BY <1>2, <2>2, <2>3 DEF ConfirmCard
  <1>3. CASE CheckinLockCode(p)
    <2>1. tx[p].op = "checkin"
      BY <1>3 DEF CheckinLockCode
    <2>2. CASE \E o \in Outcome : Reply(p, o)
      BY <2>2, ReplyBase
    <2>3. CASE Advance(p, "gotCode")
      BY <2>1, <2>3, AdvanceBase
    <2>. QED
      BY <1>3, <2>2, <2>3 DEF CheckinLockCode, Outcome
  <1>4. CASE CheckinCard(p)
    <2>. DEFINE c == tx[p].card
    <2>1. c \in Cards /\ tx[p].op = "checkin" /\ tx[p].token = None
      BY <1>4, CheckinFields DEF CheckinCard
    <2>2. CASE Reply(p, Verdict(c, tx[p].user, tx[p].snapshot, clock))
      BY <2>2, ReplyBase, VerdictType
    <2>3. CASE WriteRedemption(p, c, clock, "MEMBER_SELF_SCAN")
      BY <1>0, <2>1, <2>3, WriteBase
    <2>. QED
      BY <1>4, <2>2, <2>3 DEF CheckinCard
  <1>5. CASE CreateTokenLockCard(p)
    <2>1. tx[p].op = "createToken"
      BY <1>5 DEF CreateTokenLockCard
    <2>2. CASE Reply(p, Verdict(tx[p].card, tx[p].user, records, tx[p].now))
      BY <2>2, ReplyBase, VerdictType
    <2>3. CASE Advance(p, "gotCard")
      BY <2>1, <2>3, AdvanceBase
    <2>. QED
      BY <1>5, <2>2, <2>3 DEF CreateTokenLockCard
  <1>6. CASE CreateTokenCommit(p)
    <2>. DEFINE c == tx[p].card  now == tx[p].now
    <2>1. c \in Cards /\ now + TokenTTL \in Nat
      BY <1>0, <1>6, CreatorFields, TimeAssumption DEF CreateTokenCommit, Tx
    <2>2. PICK new \in Unborn :
            tokens' = [t \in Tokens |->
              IF t = new
                THEN [status |-> "ACTIVE", card |-> c, expiresAt |-> now + TokenTTL]
              ELSE IF tokens[t].card = c /\ tokens[t].status = "ACTIVE"
                THEN [tokens[t] EXCEPT !.status =
                        IF tokens[t].expiresAt <= now THEN "EXPIRED" ELSE "REVOKED"]
              ELSE tokens[t]]
      BY <1>6 DEF CreateTokenCommit, Superseded
    <2>. HIDE DEF now
    <2>3. tokens' \in [Tokens -> Token]
      BY <2>1, <2>2 DEF Base, TypeOK, Token, TokenStatus
    <2>4. BornTokens'
      BY <2>1, <2>2 DEF Base, TypeOK, BornTokens, Token
    <2>. QED
      BY <1>6, <2>3, <2>4, FinishBase DEF CreateTokenCommit, Outcome, Base, TypeOK
  <1>. QED
    BY <1>1, <1>2, <1>3, <1>4, <1>5, <1>6 DEF Step

LEMMA EnvironmentBase ==
  ASSUME Base, Environment
  PROVE Base'
  <1>1. ASSUME NEW t \in Tokens, PreviewExpires(t) PROVE Base'
    <2>1. tokens' \in [Tokens -> Token] /\ BornTokens'
      BY <1>1, TokenBase DEF PreviewExpires, TokenStatus
    <2>. QED
      BY <1>1, <2>1 DEF PreviewExpires, Base, TypeOK, WellFormedTx
  <1>2. ASSUME NEW u \in Users, ExpireCards(u) PROVE Base'
    <2>1. cards' \in [Cards -> Card]
      BY <1>2 DEF ExpireCards, Base, TypeOK, Card, CardStatus
    <2>. QED
      BY <1>2, <2>1 DEF ExpireCards, Base, TypeOK, WellFormedTx, BornTokens
  <1>3. ASSUME NEW k \in Codes, NEW s \in {"ACTIVE", "INACTIVE"}, ChangeCodeStatus(k, s)
        PROVE Base'
    <2>1. codes' \in [Codes -> Code]
      BY <1>3 DEF ChangeCodeStatus, Base, TypeOK, Code
    <2>. QED
      BY <1>3, <2>1 DEF ChangeCodeStatus, Base, TypeOK, WellFormedTx, BornTokens
  <1>4. ASSUME NEW k \in Codes, RegenerateCode(k) PROVE Base'
    <2>1. codes' \in [Codes -> Code]
      BY <1>4 DEF RegenerateCode, Base, TypeOK, Code
    <2>. QED
      BY <1>4, <2>1 DEF RegenerateCode, Base, TypeOK, WellFormedTx, BornTokens
  <1>5. ASSUME NEW pr \in Products, NEW s \in Settings, UpdateProduct(pr, s) PROVE Base'
    BY <1>5 DEF UpdateProduct, Base, TypeOK, WellFormedTx, BornTokens
  <1>6. CASE Tick
    BY <1>6 DEF Tick, Base, TypeOK, WellFormedTx, BornTokens
  <1>7. ASSUME NEW c \in Cards, NEW s \in CardStatus, SetCardStatus(c, s) PROVE Base'
    <2>1. cards' \in [Cards -> Card]
      BY <1>7 DEF SetCardStatus, Base, TypeOK, Card
    <2>. QED
      BY <1>7, <2>1 DEF SetCardStatus, Base, TypeOK, WellFormedTx, BornTokens
  <1>8. ASSUME NEW c \in Cards, LockForRefund(c) \/ RestoreCard(c) \/ RefundCard(c)
        PROVE Base'
    BY <1>7, <1>8 DEF LockForRefund, RestoreCard, RefundCard, CardStatus
  <1>. QED
    BY <1>1, <1>2, <1>3, <1>4, <1>5, <1>6, <1>8 DEF Environment

LEMMA NextBase ==
  ASSUME Base, LockedTokens, [Next]_vars
  PROVE Base'
  <1>1. ASSUME NEW p \in Procs, Abort(p) \/ DeadlockVictim(p) PROVE Base'
    BY <1>1, ReplyBase DEF Abort, DeadlockVictim, Rollback, Outcome
  <1>2. CASE UNCHANGED vars
    BY <1>2 DEF vars, Base, TypeOK, WellFormedTx, BornTokens
  <1>. QED
    BY <1>1, <1>2, RequestBase, StepBase, EnvironmentBase DEF Next
-----------------------------------------------------------------------------
(* The token lock of a confirm. *)

\* Who ends a transaction, opens one, or takes another lock keeps LockedTokens
\* as long as no token in use elsewhere leaves ACTIVE.
LEMMA OthersLocked ==
  ASSUME Base, LockedTokens, NEW p \in Procs,
         tx'[p].pc # "gotToken", tx' = [tx EXCEPT ![p] = tx'[p]],
         \A q \in Procs \ {p} : tx[q].pc = "gotToken" =>
           tokens'[tx[q].token].status = "ACTIVE"
  PROVE LockedTokens'
  <1>1. \A q \in Procs \ {p} : tx'[q] = tx[q]
    BY DEF Base, TypeOK
  <1>. QED
    BY <1>1 DEF LockedTokens

LEMMA FinishLocked ==
  ASSUME Base, NEW p \in Procs, NEW o, Finish(p, o)
  PROVE tx'[p].pc = "done" /\ tx' = [tx EXCEPT ![p] = tx'[p]]
  BY DEF Finish, NoTx, Base, TypeOK

LEMMA ReplyLocked ==
  ASSUME Base, LockedTokens, NEW p \in Procs, NEW o, Reply(p, o)
  PROVE LockedTokens'
  BY FinishLocked, OthersLocked DEF Reply, LockedTokens

\* The token a confirm holds can be written by that confirm alone.
LEMMA FinishWithToken ==
  ASSUME Base, LockedTokens, NEW p \in Procs, NEW o, Finish(p, o),
         NEW t \in Tokens, NEW st, TokenFree(p, t),
         tokens' = [tokens EXCEPT ![t].status = st]
  PROVE LockedTokens'
  <1>1. \A q \in Procs \ {p} : tx[q].pc = "gotToken" => tx[q].token # t
    BY DEF TokenFree, HoldsToken
  <1>2. \A q \in Procs \ {p} : tx[q].pc = "gotToken" => tokens'[tx[q].token].status = "ACTIVE"
    BY <1>1, LockedCard DEF LockedTokens, Base, TypeOK
  <1>. QED
    BY <1>2, FinishLocked, OthersLocked

LEMMA WriteLocked ==
  ASSUME Base, LockedTokens, NEW p \in Procs, NEW c, NEW now, NEW mode,
         tx[p].pc = "gotToken" \/ tx[p].token = None,
         WriteRedemption(p, c, now, mode)
  PROVE LockedTokens'
  <1>1. CASE Reply(p, "INTERNAL_ERROR")
    BY <1>1, ReplyLocked
  <1>2. CASE ~Reply(p, "INTERNAL_ERROR") /\ tx[p].token = None
    <2>1. Finish(p, "OK") /\ tokens' = tokens
      BY <1>2 DEF WriteRedemption
    <2>. QED
      BY <2>1, FinishLocked, OthersLocked DEF LockedTokens
  <1>3. CASE ~Reply(p, "INTERNAL_ERROR") /\ tx[p].token # None
    <2>1. Finish(p, "OK") /\ tokens' = [tokens EXCEPT ![tx[p].token].status = "USED"]
      BY <1>3, LockedCard DEF WriteRedemption, LockedTokens
    <2>2. tx[p].pc = "gotToken" /\ tx[p].token \in Tokens
      BY <1>3, LockedCard
    <2>3. TokenFree(p, tx[p].token)
      BY <2>2 DEF TokenFree, HoldsToken, LockedTokens
    <2>. QED
      BY <2>1, <2>2, <2>3, FinishWithToken
  <1>. QED
    BY <1>1, <1>2, <1>3

LEMMA AdvanceLocked ==
  ASSUME Base, LockedTokens, NEW p \in Procs,
         NEW pc \in {"gotToken", "gotCode", "gotCard"}, Advance(p, pc),
         pc = "gotToken" => /\ tokens[tx[p].token].status = "ACTIVE"
                            /\ TokenFree(p, tx[p].token)
  PROVE LockedTokens'
  <1>1. \A q \in Procs : q # p => tx'[q] = tx[q]
    BY DEF Advance, Base, TypeOK
  <1>2. tx'[p].pc = pc /\ tx'[p].token = tx[p].token /\ tokens' = tokens
    BY DEF Advance, Base, TypeOK, Tx
  <1>. QED
    BY <1>1, <1>2 DEF LockedTokens, TokenFree, HoldsToken

LEMMA StepLocked ==
  ASSUME Base, LockedTokens, NEW p \in Procs, Step(p)
  PROVE LockedTokens'
  <1>1. CASE ConfirmLockToken(p)
    <2>. DEFINE t == tx[p].token
    <2>1. t \in Tokens
      BY <1>1 DEF ConfirmLockToken, Base, WellFormedTx
    <2>2. CASE \E o \in Outcome : Reply(p, o)
      BY <2>2, ReplyLocked
    <2>3. CASE tokens' = [tokens EXCEPT ![t].status = "EXPIRED"] /\ Finish(p, "TOKEN_EXPIRED")
      BY <1>1, <2>1, <2>3, FinishWithToken DEF ConfirmLockToken
    <2>4. CASE tokens[t].status = "ACTIVE" /\ Advance(p, "gotToken")
      BY <1>1, <2>4, AdvanceLocked DEF ConfirmLockToken
    <2>. QED
      BY <1>1, <2>2, <2>3, <2>4 DEF ConfirmLockToken, Outcome
  <1>2. CASE ConfirmCard(p)
    BY <1>2, ReplyLocked, WriteLocked DEF ConfirmCard
  <1>3. CASE CheckinLockCode(p)
    BY <1>3, ReplyLocked, AdvanceLocked DEF CheckinLockCode
  <1>4. CASE CheckinCard(p)
    BY <1>4, CheckinFields, ReplyLocked, WriteLocked DEF CheckinCard
  <1>5. CASE CreateTokenLockCard(p)
    BY <1>5, ReplyLocked, AdvanceLocked DEF CreateTokenLockCard
  <1>6. CASE CreateTokenCommit(p)
    <2>1. ASSUME NEW q \in Procs \ {p}, tx[q].pc = "gotToken"
          PROVE tokens'[tx[q].token] = tokens[tx[q].token]
      <3>1. tx[q].token \in Tokens \ Unborn
        BY <2>1, LockedCard DEF Unborn
      <3>2. tokens[tx[q].token].card # tx[p].card
        BY <1>6, <2>1, <3>1 DEF CreateTokenCommit, TokenFree, HoldsToken
      <3>. QED
        BY <1>6, <3>1, <3>2 DEF CreateTokenCommit, Superseded
    <2>2. Finish(p, "TOKEN_CREATED")
      BY <1>6 DEF CreateTokenCommit
    <2>. QED
      BY <2>1, <2>2, FinishLocked, OthersLocked DEF LockedTokens
  <1>. QED
    BY <1>1, <1>2, <1>3, <1>4, <1>5, <1>6 DEF Step

LEMMA NextLocked ==
  ASSUME Base, LockedTokens, [Next]_vars
  PROVE LockedTokens'
  <1>1. ASSUME NEW p \in Procs, Request(p) PROVE LockedTokens'
    <2>1. ASSUME NEW t, t.pc = "started", Begin(p, t) PROVE LockedTokens'
      <3>1. tx'[p] = t /\ tx' = [tx EXCEPT ![p] = tx'[p]] /\ tokens' = tokens
        BY <2>1 DEF Begin, Base, TypeOK
      <3>. QED
        BY <2>1, <3>1, OthersLocked DEF LockedTokens
    <2>. QED
      BY <1>1, <2>1, ReplyLocked DEF Request, BeginConfirm, BeginCheckin, BeginCreateToken, NoTx
  <1>2. ASSUME NEW p \in Procs, Abort(p) \/ DeadlockVictim(p) PROVE LockedTokens'
    BY <1>2, ReplyLocked DEF Abort, DeadlockVictim, Rollback
  <1>3. CASE Environment
    <2>1. ASSUME NEW t \in Tokens, PreviewExpires(t) PROVE LockedTokens'
      <3>1. \A q \in Procs : tx[q].pc = "gotToken" => tx[q].token # t
        BY <2>1 DEF PreviewExpires, HoldsToken
      <3>. QED
        BY <2>1, <3>1, LockedCard DEF PreviewExpires, LockedTokens, Base, TypeOK
    <2>2. CASE UNCHANGED <<tokens, tx>>
      BY <2>2 DEF LockedTokens
    <2>. QED
      BY <1>3, <2>1, <2>2 DEF Environment, ExpireCards, ChangeCodeStatus, RegenerateCode,
        UpdateProduct, Tick, LockForRefund, RestoreCard, RefundCard, SetCardStatus
  <1>4. CASE UNCHANGED vars
    BY <1>4 DEF vars, LockedTokens
  <1>. QED
    BY <1>1, <1>2, <1>3, <1>4, StepLocked DEF Next

LEMMA SpecBase == Spec => [](Base /\ LockedTokens)
  <1>1. Init => Base /\ LockedTokens
    <2>1. Init => LockedTokens
      BY DEF Init, LockedTokens, NoTx
    <2>. QED
      BY <2>1, InitBase
  <1>2. Base /\ LockedTokens /\ [Next]_vars => (Base /\ LockedTokens)'
    BY NextBase, NextLocked
  <1>. QED
    BY <1>1, <1>2, PTL DEF Spec

\* Every row and every transaction keeps its type under all interleavings.
THEOREM TypeCorrect == Spec => []TypeOK
  <1>1. Base => TypeOK
    BY DEF Base
  <1>. QED
    BY <1>1, SpecBase, PTL
-----------------------------------------------------------------------------
(* A step either leaves the uses alone or adds one. *)

NewRecord(p, c, now, mode) ==
  [operator |-> tx[p].user, request |-> tx[p].request, mode |-> mode, card |-> c,
   token |-> tx[p].token, code |-> tx[p].code,
   before |-> cards[c].remaining, after |-> Remaining(c), at |-> now]

Idle ==
  /\ records' = records
  /\ \A c \in Cards : cards'[c].remaining = cards[c].remaining
  /\ \A t \in Tokens : tokens[t].status = "USED" => tokens'[t] = tokens[t]
  /\ \A t \in Tokens : tokens'[t].status = "USED" => tokens[t].status = "USED"

Uses(p, c, now, mode) ==
  /\ records' = records \cup {NewRecord(p, c, now, mode)}
  /\ cards' = [cards EXCEPT ![c] = Redeemed(c, now)]
  /\ Kind[c] = "COUNT_CARD" => cards[c].remaining > 0
  /\ \/ tx[p].token = None /\ tokens' = tokens
     \/ /\ tx[p].token \in Tokens /\ mode = "STAFF_SCAN"
        /\ tokens[tx[p].token].status = "ACTIVE" /\ tokens[tx[p].token].card = c
        /\ tokens' = [tokens EXCEPT ![tx[p].token].status = "USED"]

Mode == {"STAFF_SCAN", "MEMBER_SELF_SCAN"}

LEMMA WriteUses ==
  ASSUME Base, NEW p \in Procs, NEW c \in Cards, NEW now \in Nat, NEW mode \in Mode,
         NEW u, NEW recs, Verdict(c, u, recs, now) = "OK",
         tx[p].token # None => /\ tx[p].token \in Tokens /\ mode = "STAFF_SCAN"
                               /\ tokens[tx[p].token].status = "ACTIVE"
                               /\ tokens[tx[p].token].card = c,
         WriteRedemption(p, c, now, mode)
  PROVE Idle \/ Uses(p, c, now, mode)
  <1>1. CASE Reply(p, "INTERNAL_ERROR")
    BY <1>1 DEF Reply, Idle
  <1>2. CASE ~Reply(p, "INTERNAL_ERROR")
    <2>1. cards[c].remaining \in Int
      BY DEF Base, TypeOK, Card
    <2>. QED
      BY <1>2, <2>1, VerdictOK DEF WriteRedemption, Uses, NewRecord
  <1>. QED
    BY <1>1, <1>2

LEMMA NextUses ==
  ASSUME Base, LockedTokens, [Next]_vars
  PROVE Idle \/ \E p \in Procs, c \in Cards, now \in Nat, mode \in Mode : Uses(p, c, now, mode)
  <1>1. CASE records' = records /\ cards' = cards /\ tokens' = tokens
    BY <1>1 DEF Idle
  <1>r. ASSUME NEW p \in Procs, NEW o, Reply(p, o) PROVE Idle
    BY <1>r DEF Idle, Reply
  <1>a. ASSUME NEW p \in Procs, NEW pc, Advance(p, pc) PROVE Idle
    BY <1>a DEF Idle, Advance
  <1>b. ASSUME NEW p \in Procs, NEW t, Begin(p, t) PROVE Idle
    BY <1>b DEF Idle, Begin
  <1>2. ASSUME NEW p \in Procs, ConfirmLockToken(p) PROVE Idle
    <2>. DEFINE t == tx[p].token
    <2>2. CASE /\ tokens[t].status = "ACTIVE"
               /\ tokens' = [tokens EXCEPT ![t].status = "EXPIRED"]
               /\ UNCHANGED <<records, cards>>
      <3>1. t \in Tokens
        BY <1>2 DEF ConfirmLockToken, Base, WellFormedTx
      <3>. QED
        BY <2>2, <3>1 DEF Idle, Base, TypeOK, Token
    <2>. QED
      BY <1>2, <1>r, <1>a, <2>2 DEF ConfirmLockToken
  <1>3. ASSUME NEW p \in Procs, ConfirmCard(p)
        PROVE Idle \/ \E c \in Cards, now \in Nat, mode \in Mode : Uses(p, c, now, mode)
    <2>. DEFINE c == tokens[tx[p].token].card  now == tx[p].now
    <2>1. c \in Cards /\ now \in Nat
      BY <1>3, LockedCard DEF ConfirmCard, Base, TypeOK, Tx
    <2>2. CASE Reply(p, Verdict(c, Owner[c], tx[p].snapshot, now))
      BY <2>2 DEF Reply, Idle
    <2>3. CASE WriteRedemption(p, c, now, "STAFF_SCAN")
               /\ Verdict(c, Owner[c], tx[p].snapshot, now) = "OK"
      <3>1. tx[p].token \in Tokens /\ tokens[tx[p].token].status = "ACTIVE"
        BY <1>3, LockedCard DEF ConfirmCard
      <3>2. Idle \/ Uses(p, c, now, "STAFF_SCAN")
        BY <2>1, <2>3, <3>1, WriteUses DEF Mode
      <3>. QED
        BY <2>1, <3>2 DEF Mode
    <2>. QED
      BY <1>3, <2>2, <2>3 DEF ConfirmCard
  <1>4. ASSUME NEW p \in Procs, CheckinCard(p)
        PROVE Idle \/ \E c \in Cards, now \in Nat, mode \in Mode : Uses(p, c, now, mode)
    <2>. DEFINE c == tx[p].card
    <2>1. c \in Cards /\ clock \in Nat /\ tx[p].token = None
      BY <1>4, CheckinFields DEF CheckinCard, Base, TypeOK
    <2>2. CASE Reply(p, Verdict(c, tx[p].user, tx[p].snapshot, clock))
      BY <2>2 DEF Reply, Idle
    <2>3. CASE WriteRedemption(p, c, clock, "MEMBER_SELF_SCAN")
               /\ Verdict(c, tx[p].user, tx[p].snapshot, clock) = "OK"
      <3>1. Idle \/ Uses(p, c, clock, "MEMBER_SELF_SCAN")
        BY <2>1, <2>3, WriteUses DEF Mode
      <3>. QED
        BY <2>1, <3>1 DEF Mode
    <2>. QED
      BY <1>4, <2>2, <2>3 DEF CheckinCard
  <1>5. ASSUME NEW p \in Procs, CreateTokenCommit(p) PROVE Idle
    BY <1>5 DEF CreateTokenCommit, Superseded, Idle, Unborn, Base, TypeOK, Token
  <1>6. ASSUME NEW t \in Tokens, PreviewExpires(t) PROVE Idle
    BY <1>6 DEF PreviewExpires, Idle, Base, TypeOK, Token
  <1>7. ASSUME NEW u \in Users, ExpireCards(u) PROVE Idle
    BY <1>7 DEF ExpireCards, Idle, Base, TypeOK, Card
  <1>8. ASSUME NEW p \in Procs, Request(p) PROVE Idle
    BY <1>8, <1>r, <1>b DEF Request, BeginConfirm, BeginCheckin, BeginCreateToken
  <1>9. ASSUME NEW p \in Procs,
               CheckinLockCode(p) \/ CreateTokenLockCard(p) \/ Abort(p) \/ DeadlockVictim(p)
        PROVE Idle
    BY <1>9, <1>r, <1>a
    DEF CheckinLockCode, CreateTokenLockCard, Abort, DeadlockVictim, Rollback
  <1>13. ASSUME NEW c \in Cards, LockForRefund(c) \/ RestoreCard(c) \/ RefundCard(c)
         PROVE Idle
    <2>1. PICK s : SetCardStatus(c, s)
      BY <1>13 DEF LockForRefund, RestoreCard, RefundCard
    <2>. QED
      BY <2>1 DEF SetCardStatus, Idle, Base, TypeOK, Card
  <1>10. CASE Environment
    BY <1>1, <1>6, <1>7, <1>10, <1>13
    DEF Environment, ChangeCodeStatus, RegenerateCode, UpdateProduct, Tick
  <1>11. CASE UNCHANGED vars
    BY <1>1, <1>11 DEF vars
  <1>12. ASSUME NEW p \in Procs, Step(p)
         PROVE Idle \/ \E c \in Cards, now \in Nat, mode \in Mode : Uses(p, c, now, mode)
    BY <1>2, <1>3, <1>4, <1>5, <1>9, <1>12 DEF Step
  <1>. QED
    BY <1>8, <1>9, <1>10, <1>11, <1>12 DEF Next
-----------------------------------------------------------------------------
(* Every token pays for at most one use. *)

LEMMA TokenSpentStep ==
  ASSUME Base, LockedTokens, TokenSpentOnce, [Next]_vars
  PROVE TokenSpentOnce'
  <1>1. CASE Idle
    BY <1>1 DEF Idle, TokenSpentOnce
  <1>2. ASSUME NEW p \in Procs, NEW c \in Cards, NEW now \in Nat, NEW mode \in Mode,
               Uses(p, c, now, mode)
        PROVE TokenSpentOnce'
    <2>. DEFINE rec == NewRecord(p, c, now, mode)
    <2>1. records' = records \cup {rec} /\ rec.token = tx[p].token
          /\ rec.card = c /\ rec.mode = mode
      BY <1>2 DEF Uses, NewRecord
    <2>. HIDE DEF rec
    <2>2. CASE tx[p].token = None /\ tokens' = tokens
      BY <2>1, <2>2, NoneAssumption DEF TokenSpentOnce
    <2>3. CASE /\ tx[p].token \in Tokens /\ mode = "STAFF_SCAN"
               /\ tokens[tx[p].token].status = "ACTIVE" /\ tokens[tx[p].token].card = c
               /\ tokens' = [tokens EXCEPT ![tx[p].token].status = "USED"]
      <3>1. \A r \in records : r.token # tx[p].token
        BY <2>3 DEF TokenSpentOnce
      <3>2. /\ tokens'[tx[p].token].status = "USED" /\ tokens'[tx[p].token].card = c
            /\ \A t \in Tokens : t # tx[p].token => tokens'[t] = tokens[t]
        BY <2>3 DEF Base, TypeOK, Token
      <3>. QED
        BY <2>1, <2>3, <3>1, <3>2 DEF TokenSpentOnce
    <2>. QED
      BY <1>2, <2>2, <2>3 DEF Uses
  <1>. QED
    BY <1>1, <1>2, NextUses

\* However confirms, createTokens, previews and rollbacks interleave, a token is
\* USED exactly when one record of its own card spent it.
THEOREM TokenSpent == Spec => []TokenSpentOnce
  <1>1. Init => TokenSpentOnce
    BY DEF Init, TokenSpentOnce
  <1>2. Base /\ LockedTokens /\ TokenSpentOnce /\ [Next]_vars => TokenSpentOnce'
    BY TokenSpentStep
  <1>. QED
    BY <1>1, <1>2, SpecBase, PTL DEF Spec
-----------------------------------------------------------------------------
(* The balance of a COUNT_CARD and its records. *)

LEMMA BalanceStep ==
  ASSUME Base, LockedTokens, NoOverdraft, BalanceChain, [Next]_vars
  PROVE NoOverdraft' /\ BalanceChain'
  <1>1. CASE Idle
    BY <1>1 DEF Idle, NoOverdraft, BalanceChain, RecordsOf
  <1>2. ASSUME NEW p \in Procs, NEW c \in Cards, NEW now \in Nat, NEW mode \in Mode,
               Uses(p, c, now, mode)
        PROVE NoOverdraft' /\ BalanceChain'
    <2>. DEFINE rec == NewRecord(p, c, now, mode)
    <2>1. records' = records \cup {rec} /\ rec.card = c
          /\ rec.before = cards[c].remaining /\ rec.after = Remaining(c)
      BY <1>2 DEF Uses, NewRecord
    <2>. HIDE DEF rec
    <2>2. /\ \A d \in Cards : d # c => cards'[d] = cards[d]
          /\ cards'[c].remaining = Remaining(c)
      BY <1>2 DEF Uses, Redeemed, Base, TypeOK
    <2>3. \A d \in Cards : d # c => RecordsOf(d)' = RecordsOf(d)
      BY <2>1 DEF RecordsOf
    <2>4. RecordsOf(c)' = RecordsOf(c) \cup {rec}
      BY <2>1 DEF RecordsOf
    <2>5. \A d \in Cards : cards[d].remaining \in Int /\ Total[d] \in Nat
      BY CardsAssumption DEF Base, TypeOK, Card
    <2>6. CASE Kind[c] = "COUNT_CARD"
      <3>1. cards[c].remaining > 0 /\ Remaining(c) = cards[c].remaining - 1
        BY <1>2, <2>6 DEF Uses, Remaining
      <3>2. NoOverdraft'
        BY <2>2, <2>5, <2>6, <3>1 DEF NoOverdraft
      <3>3. /\ \A r \in RecordsOf(c)' :
                 /\ cards'[c].remaining < r.before /\ r.before <= Total[c]
                 /\ r.after = r.before - 1
            /\ \A r1, r2 \in RecordsOf(c)' : r1.before = r2.before => r1 = r2
        <4>1. \A r \in RecordsOf(c) : r.before \in Int
          BY DEF RecordsOf, Base, TypeOK, Record
        <4>. QED
          BY <2>1, <2>2, <2>4, <2>5, <2>6, <3>1, <4>1 DEF BalanceChain, NoOverdraft
      <3>4. \A n \in (cards'[c].remaining + 1)..Total[c] :
              \E r \in RecordsOf(c)' : r.before = n
        BY <2>1, <2>2, <2>4, <2>5, <2>6, <3>1 DEF BalanceChain
      <3>. QED
        BY <2>2, <2>3, <3>2, <3>3, <3>4 DEF BalanceChain
    <2>7. CASE Kind[c] # "COUNT_CARD"
      BY <2>2, <2>3, <2>7 DEF BalanceChain, NoOverdraft, Remaining
    <2>. QED
      BY <2>6, <2>7
  <1>. QED
    BY <1>1, <1>2, NextUses

\* No interleaving of staff scans, self check-ins and retries loses a use of a
\* COUNT_CARD or takes one twice: the records count down from total_times to the
\* balance, each value once, and the balance never goes below zero.
THEOREM BalanceKept == Spec => [](BalanceChain /\ NoOverdraft)
  <1>1. Init => NoOverdraft /\ BalanceChain
    <2>. SUFFICES ASSUME Init PROVE NoOverdraft /\ BalanceChain
      OBVIOUS
    <2>1. \A c \in Cards : cards[c].remaining = Total[c] /\ Total[c] \in Nat /\ RecordsOf(c) = {}
      BY CardsAssumption DEF Init, RecordsOf
    <2>. QED
      BY <2>1 DEF NoOverdraft, BalanceChain
  <1>2. Base /\ LockedTokens /\ NoOverdraft /\ BalanceChain /\ [Next]_vars
          => (NoOverdraft /\ BalanceChain)'
    BY BalanceStep
  <1>. QED
    BY <1>1, <1>2, SpecBase, PTL DEF Spec
=============================================================================
