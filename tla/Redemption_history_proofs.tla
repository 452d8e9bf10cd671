----------------------- MODULE Redemption_history_proofs -----------------------
(* Proofs about the life of tokens, cards and check-ins in Redemption, on top  *)
(* of the types, locks and balances of Redemption_proofs.                      *)
EXTENDS Redemption_proofs

USE DEF NoTime


(* Tokens: what a step does to each row. *)

\* A token stays as it is or leaves ACTIVE for good.
Ends(t) ==
  \/ tokens'[t] = tokens[t]
  \/ /\ tokens[t].status = "ACTIVE" /\ tokens'[t].status \in {"USED", "EXPIRED", "REVOKED"}
     /\ tokens'[t].card = tokens[t].card /\ tokens'[t].expiresAt = tokens[t].expiresAt

\* A new token of the card is live and no other of its tokens is any more.
Issues(new, c) ==
  /\ tokens'[new].status = "ACTIVE" /\ tokens'[new].card = c
  /\ \A t \in Tokens \ {new} :
       Ends(t) /\ ~(tokens'[t].status = "ACTIVE" /\ tokens'[t].card = c)
  /\ records' = records

TokensStep == (\A t \in Tokens : Ends(t)) \/ (\E new \in Unborn, c \in Cards : Issues(new, c))

LEMMA StatusEnds ==
  ASSUME Base, NEW t \in Tokens, tokens[t].status = "ACTIVE",
         NEW st \in {"USED", "EXPIRED", "REVOKED"},
         tokens' = [tokens EXCEPT ![t].status = st]
  PROVE \A k \in Tokens : Ends(k)
  BY DEF Base, TypeOK, Token, Ends

LEMMA WriteEnds ==
  ASSUME Base, NEW p \in Procs, NEW c, NEW now, NEW mode, WriteRedemption(p, c, now, mode)
  PROVE \A k \in Tokens : Ends(k)
  <1>1. CASE tokens' = tokens
    BY <1>1 DEF Ends
  <1>2. CASE tokens' # tokens
    <2>1. /\ tx[p].token # None /\ tokens[tx[p].token].status = "ACTIVE"
          /\ tokens' = [tokens EXCEPT ![tx[p].token].status = "USED"]
      BY <1>2 DEF WriteRedemption, Reply
    <2>2. tx[p].token \in Tokens
      BY <2>1 DEF Base, TypeOK, Tx
    <2>. QED
      BY <2>1, <2>2, StatusEnds
  <1>. QED
    BY <1>1, <1>2

LEMMA NextTokens ==
  ASSUME Base, LockedTokens, [Next]_vars
  PROVE TokensStep
  <1>1. CASE tokens' = tokens
    BY <1>1 DEF TokensStep, Ends
  <1>2. ASSUME NEW p \in Procs, ConfirmLockToken(p), tokens' # tokens PROVE TokensStep
    <2>1. /\ tx[p].token \in Tokens /\ tokens[tx[p].token].status = "ACTIVE"
          /\ tokens' = [tokens EXCEPT ![tx[p].token].status = "EXPIRED"]
      BY <1>2 DEF ConfirmLockToken, Reply, Advance, Base, WellFormedTx
    <2>. QED
      BY <2>1, StatusEnds DEF TokensStep
  <1>3. ASSUME NEW p \in Procs, ConfirmCard(p) \/ CheckinCard(p), tokens' # tokens
        PROVE TokensStep
    BY <1>3, WriteEnds DEF ConfirmCard, CheckinCard, Reply, TokensStep
  <1>4. ASSUME NEW p \in Procs, CreateTokenCommit(p) PROVE TokensStep
    <2>. DEFINE c == tx[p].card  now == tx[p].now
    <2>1. c \in Cards
      BY <1>4, CreatorFields DEF CreateTokenCommit
    <2>2. PICK new \in Unborn :
            tokens' = [t \in Tokens |->
              IF t = new
                THEN [status |-> "ACTIVE", card |-> c, expiresAt |-> now + TokenTTL]
                ELSE Superseded(t, c, now)]
      BY <1>4 DEF CreateTokenCommit
    <2>. HIDE DEF c, now
    <2>3. ASSUME NEW t \in Tokens \ {new}
          PROVE Ends(t) /\ ~(tokens'[t].status = "ACTIVE" /\ tokens'[t].card = c)
      <3>1. tokens[t] \in Token /\ tokens'[t] = Superseded(t, c, now)
        BY <2>2 DEF Base, TypeOK
      <3>. QED
        BY <3>1 DEF Superseded, Ends, Token
    <2>4. Issues(new, c)
      BY <1>4, <2>2, <2>3 DEF Issues, Unborn, CreateTokenCommit
    <2>. QED
      BY <2>1, <2>4 DEF TokensStep
  <1>5. ASSUME NEW t \in Tokens, PreviewExpires(t) PROVE TokensStep
    BY <1>5, StatusEnds DEF PreviewExpires, TokensStep
  <1>6. ASSUME NEW p \in Procs, Request(p) PROVE TokensStep
    BY <1>1, <1>6 DEF Request, BeginConfirm, BeginCheckin, BeginCreateToken, Reply, Begin
  <1>7. ASSUME NEW p \in Procs,
               CheckinLockCode(p) \/ CreateTokenLockCard(p) \/ Abort(p) \/ DeadlockVictim(p)
        PROVE TokensStep
    BY <1>1, <1>7
    DEF CheckinLockCode, CreateTokenLockCard, Abort, DeadlockVictim, Rollback, Reply, Advance
  <1>8. CASE Environment
    BY <1>1, <1>5, <1>8
    DEF Environment, ExpireCards, ChangeCodeStatus, RegenerateCode, UpdateProduct, Tick,
        LockForRefund, RestoreCard, RefundCard, SetCardStatus
  <1>9. CASE UNCHANGED vars
    BY <1>1, <1>9 DEF vars
  <1>. QED
    BY <1>1, <1>2, <1>3, <1>4, <1>6, <1>7, <1>8, <1>9 DEF Next, Step

LEMMA OneActiveStep ==
  ASSUME Base, LockedTokens, OneActiveToken, [Next]_vars
  PROVE OneActiveToken'
  <1>1. CASE \A t \in Tokens : Ends(t)
    BY <1>1 DEF OneActiveToken, Ends
  <1>2. ASSUME NEW new \in Unborn, NEW c \in Cards, Issues(new, c) PROVE OneActiveToken'
    BY <1>2 DEF OneActiveToken, Issues, Ends
  <1>. QED
    BY <1>1, <1>2, NextTokens DEF TokensStep

\* However createTokens, confirms, previews and rollbacks interleave, a card
\* never has two tokens that could be redeemed.
THEOREM OneTokenLive == Spec => []OneActiveToken
  <1>1. Init => OneActiveToken
    BY DEF Init, OneActiveToken
  <1>2. Base /\ LockedTokens /\ OneActiveToken /\ [Next]_vars => OneActiveToken'
    BY OneActiveStep
  <1>. QED
    BY <1>1, <1>2, SpecBase, PTL DEF Spec
-----------------------------------------------------------------------------
(* Cards and their records: a step moves cards without a use, or redeems one. *)

MovesTo(c, s) == cards'[c] = [cards[c] EXCEPT !.status = s]
Expires(c) == cards[c].status = "ACTIVE" /\ cards[c].expiresAt <= clock /\ MovesTo(c, "EXPIRED")
Holds(c) ==
  /\ cards[c].status \in {"ACTIVE", "PENDING_ACTIVATION"} /\ RecordsOf(c) = {}
  /\ MovesTo(c, "REFUND_LOCKED")
Returns(c) ==
  /\ cards[c].status = "REFUND_LOCKED"
  /\ MovesTo(c, IF cards[c].activatedAt = NoTime THEN "PENDING_ACTIVATION" ELSE "ACTIVE")
Refunds(c) == cards[c].status = "REFUND_LOCKED" /\ MovesTo(c, "REFUNDED")

RestsOrMoves(c) ==
  cards'[c] = cards[c] \/ Expires(c) \/ Holds(c) \/ Returns(c) \/ Refunds(c)

Unused == records' = records /\ \A c \in Cards : RestsOrMoves(c)

\* What WriteRedemption does and what its caller has made sure of.
Redeems(p, c, now, mode) ==
  /\ Uses(p, c, now, mode)
  /\ cards[c].status \in {"ACTIVE", "PENDING_ACTIVATION"}
  /\ cards[c].status = "ACTIVE" => now < cards[c].expiresAt
  /\ mode = "STAFF_SCAN" => tx[p].pc = "gotToken" /\ now = tx[p].now
  /\ mode = "MEMBER_SELF_SCAN" => tx[p].pc = "gotCode" /\ tx[p].token = None
  /\ KeyFree(p)
  /\ Finish(p, "OK")

LEMMA WriteRedeems ==
  ASSUME Base, NEW p \in Procs, NEW c \in Cards, NEW now \in Nat, NEW mode \in Mode,
         NEW u, NEW recs, Verdict(c, u, recs, now) = "OK", KeyFree(p),
         mode = "STAFF_SCAN" =>
           /\ tx[p].pc = "gotToken" /\ now = tx[p].now /\ tx[p].token \in Tokens
           /\ tokens[tx[p].token].status = "ACTIVE" /\ tokens[tx[p].token].card = c,
         mode = "MEMBER_SELF_SCAN" => tx[p].pc = "gotCode" /\ tx[p].token = None,
         WriteRedemption(p, c, now, mode), ~Reply(p, "INTERNAL_ERROR")
  PROVE Redeems(p, c, now, mode)
  <1>1. cards[c].remaining \in Int /\ cards[c].expiresAt \in Int
    BY DEF Base, TypeOK, Card
  <1>2. Uses(p, c, now, mode)
    <2>1. /\ cards' = [cards EXCEPT ![c] = Redeemed(c, now)]
          /\ records' = records \cup {NewRecord(p, c, now, mode)}
          /\ tokens' = IF tx[p].token = None \/ tokens[tx[p].token].status # "ACTIVE" THEN tokens
                       ELSE [tokens EXCEPT ![tx[p].token].status = "USED"]
      BY DEF WriteRedemption, NewRecord
    <2>2. Kind[c] = "COUNT_CARD" => cards[c].remaining > 0
      BY <1>1, VerdictOK
    <2>. QED
      BY <2>1, <2>2, NoneAssumption DEF Uses, Mode
  <1>3. Finish(p, "OK")
    BY DEF WriteRedemption
  <1>. QED
    BY <1>1, <1>2, <1>3, VerdictOK DEF Redeems

CardsStep ==
  Unused \/ \E p \in Procs, c \in Cards, now \in Nat, mode \in Mode : Redeems(p, c, now, mode)

LEMMA NextCards ==
  ASSUME Base, LockedTokens, [Next]_vars
  PROVE CardsStep
  <1>1. CASE UNCHANGED <<cards, records>>
    BY <1>1 DEF CardsStep, Unused, RestsOrMoves
  <1>2. ASSUME NEW p \in Procs, ConfirmCard(p) PROVE CardsStep
    <2>. DEFINE c == tokens[tx[p].token].card  now == tx[p].now
    <2>1. /\ c \in Cards /\ now \in Nat
          /\ tx[p].token \in Tokens /\ tokens[tx[p].token].status = "ACTIVE"
          /\ tx[p].pc = "gotToken"
      BY <1>2, LockedCard DEF ConfirmCard, Base, TypeOK, Tx
    <2>2. CASE \E o : Reply(p, o)
      BY <1>1, <2>2 DEF Reply
    <2>3. CASE ~\E o : Reply(p, o)
      <3>1. /\ Verdict(c, Owner[c], tx[p].snapshot, now) = "OK" /\ KeyFree(p)
            /\ WriteRedemption(p, c, now, "STAFF_SCAN")
        BY <1>2, <2>3 DEF ConfirmCard
      <3>2. "STAFF_SCAN" \in Mode /\ "STAFF_SCAN" # "MEMBER_SELF_SCAN"
        BY DEF Mode
      <3>. HIDE DEF c, now
      <3>3. tokens[tx[p].token].card = c /\ now = tx[p].now
        BY DEF c, now
      <3>4. Redeems(p, c, now, "STAFF_SCAN")
        BY <2>1, <2>3, <3>1, <3>2, <3>3, WriteRedeems
      <3>. QED
        BY <2>1, <3>2, <3>4 DEF CardsStep
    <2>. QED
      BY <2>2, <2>3
  <1>3. ASSUME NEW p \in Procs, CheckinCard(p) PROVE CardsStep
    <2>. DEFINE c == tx[p].card
    <2>1. c \in Cards /\ clock \in Nat /\ tx[p].token = None /\ tx[p].pc = "gotCode"
      BY <1>3, CheckinFields DEF CheckinCard, Base, TypeOK
    <2>2. CASE \E o : Reply(p, o)
      BY <1>1, <2>2 DEF Reply
    <2>3. CASE ~\E o : Reply(p, o)
      <3>1. /\ Verdict(c, tx[p].user, tx[p].snapshot, clock) = "OK" /\ KeyFree(p)
            /\ WriteRedemption(p, c, clock, "MEMBER_SELF_SCAN")
        BY <1>3, <2>3 DEF CheckinCard
      <3>2. "MEMBER_SELF_SCAN" \in Mode /\ "STAFF_SCAN" # "MEMBER_SELF_SCAN"
        BY DEF Mode
      <3>. HIDE DEF c
      <3>4. Redeems(p, c, clock, "MEMBER_SELF_SCAN")
        BY <2>1, <2>3, <3>1, <3>2, WriteRedeems
      <3>. QED
        BY <2>1, <3>2, <3>4 DEF CardsStep
    <2>. QED
      BY <2>2, <2>3
  <1>4. ASSUME NEW u \in Users, ExpireCards(u) PROVE CardsStep
    BY <1>4 DEF ExpireCards, Lapsed, CardsStep, Unused, RestsOrMoves, Expires, MovesTo
  <1>9. ASSUME NEW c \in Cards, LockForRefund(c) \/ RestoreCard(c) \/ RefundCard(c)
        PROVE CardsStep
    <2>1. Holds(c) \/ Returns(c) \/ Refunds(c)
      BY <1>9 DEF LockForRefund, RestoreCard, RefundCard, SetCardStatus, Holds, Returns,
        Refunds, MovesTo, Base, TypeOK
    <2>2. records' = records /\ \A d \in Cards : d # c => cards'[d] = cards[d]
      BY <1>9 DEF LockForRefund, RestoreCard, RefundCard, SetCardStatus, Base, TypeOK
    <2>. QED
      BY <2>1, <2>2 DEF CardsStep, Unused, RestsOrMoves
  <1>5. ASSUME NEW p \in Procs, Request(p) PROVE CardsStep
    BY <1>1, <1>5 DEF Request, BeginConfirm, BeginCheckin, BeginCreateToken, Reply, Begin
  <1>6. ASSUME NEW p \in Procs,
               \/ ConfirmLockToken(p) \/ CheckinLockCode(p) \/ CreateTokenLockCard(p)
               \/ CreateTokenCommit(p) \/ Abort(p) \/ DeadlockVictim(p)
        PROVE CardsStep
    BY <1>1, <1>6
    DEF ConfirmLockToken, CheckinLockCode, CreateTokenLockCard, CreateTokenCommit,
        Abort, DeadlockVictim, Rollback, Reply, Advance
  <1>7. CASE Environment
    BY <1>1, <1>4, <1>7, <1>9
    DEF Environment, PreviewExpires, ChangeCodeStatus, RegenerateCode, UpdateProduct, Tick
  <1>8. CASE UNCHANGED vars
    BY <1>1, <1>8 DEF vars
  <1>. QED
    BY <1>2, <1>3, <1>5, <1>6, <1>7, <1>8 DEF Next, Step

\* The rows a redemption leaves behind.
LEMMA RedeemsRows ==
  ASSUME Base, NEW p \in Procs, NEW c \in Cards, NEW now \in Nat, NEW mode \in Mode,
         Redeems(p, c, now, mode)
  PROVE /\ records' = records \cup {NewRecord(p, c, now, mode)}
        /\ cards'[c] = Redeemed(c, now)
        /\ \A d \in Cards : d # c => cards'[d] = cards[d] /\ RecordsOf(d)' = RecordsOf(d)
        /\ RecordsOf(c)' = RecordsOf(c) \cup {NewRecord(p, c, now, mode)}
        /\ \A q \in Procs : q # p => tx'[q] = tx[q]
        /\ tx'[p].pc = "done"
  <1>1. NewRecord(p, c, now, mode).card = c
    BY DEF NewRecord
  <1>2. /\ records' = records \cup {NewRecord(p, c, now, mode)}
        /\ cards' = [cards EXCEPT ![c] = Redeemed(c, now)]
        /\ tx' = [tx EXCEPT ![p] = NoTx]
    BY DEF Redeems, Uses, Finish
  <1>3. /\ \A d \in Cards : d # c => RecordsOf(d)' = RecordsOf(d)
        /\ RecordsOf(c)' = RecordsOf(c) \cup {NewRecord(p, c, now, mode)}
    BY <1>1, <1>2 DEF RecordsOf
  <1>. QED
    BY <1>2, <1>3 DEF Base, TypeOK, NoTx

\* Time does not run backwards.
LEMMA ClockStep == ASSUME Base, [Next]_vars PROVE clock \in Nat /\ clock' \in Nat /\ clock <= clock'
  <1>1. clock \in Nat
    BY DEF Base, TypeOK
  <1>2. clock' = clock \/ clock' = clock + 1
    <2>1. ASSUME NEW p \in Procs, Request(p) \/ Step(p) \/ Abort(p) \/ DeadlockVictim(p)
          PROVE clock' = clock
      BY <2>1 DEF Request, BeginConfirm, BeginCheckin, BeginCreateToken, Begin, Step,
        ConfirmLockToken, ConfirmCard, CheckinLockCode, CheckinCard, CreateTokenLockCard,
        CreateTokenCommit, WriteRedemption, Advance, Reply, Abort, DeadlockVictim, Rollback
    <2>2. CASE Environment
      BY <2>2 DEF Environment, PreviewExpires, ExpireCards, ChangeCodeStatus, RegenerateCode,
        UpdateProduct, Tick, LockForRefund, RestoreCard, RefundCard, SetCardStatus
    <2>. QED
      BY <2>1, <2>2 DEF Next, vars
  <1>. QED
    BY <1>1, <1>2

\* A row that stays while time passes and its records stay tells the same.
LEMMA RestTells ==
  ASSUME NEW c \in Cards, RowTellsHistory(c), cards[c] \in Card,
         clock \in Nat, clock' \in Nat, clock <= clock',
         cards'[c] = cards[c], RecordsOf(c)' = RecordsOf(c)
  PROVE RowTellsHistory(c)'
  <1>1. cards[c].expiresAt \in Int
    BY DEF Card
  <1>. QED
    BY <1>1 DEF RowTellsHistory

LEMMA MoveTells ==
  ASSUME NEW c \in Cards, RowTellsHistory(c), cards[c] \in Card,
         clock \in Nat, clock' \in Nat, clock <= clock',
         RestsOrMoves(c), RecordsOf(c)' = RecordsOf(c)
  PROVE RowTellsHistory(c)'
  <1>1. CASE cards'[c] = cards[c]
    BY <1>1, RestTells
  <1>. DEFINE k == cards[c]  s == cards'[c].status
  <1>2. ASSUME Expires(c) \/ Holds(c) \/ Returns(c) \/ Refunds(c)
        PROVE /\ cards'[c].remaining = k.remaining /\ cards'[c].activatedAt = k.activatedAt
              /\ cards'[c].expiresAt = k.expiresAt
              /\ \/ k.status = "ACTIVE" /\ k.expiresAt <= clock /\ s = "EXPIRED"
                 \/ /\ k.status \in {"ACTIVE", "PENDING_ACTIVATION"} /\ RecordsOf(c) = {}
                    /\ s = "REFUND_LOCKED"
                 \/ k.status = "REFUND_LOCKED" /\ k.activatedAt = NoTime /\ s = "PENDING_ACTIVATION"
                 \/ k.status = "REFUND_LOCKED" /\ k.activatedAt # NoTime /\ s = "ACTIVE"
                 \/ k.status = "REFUND_LOCKED" /\ s = "REFUNDED"
    BY <1>2 DEF Expires, Holds, Returns, Refunds, MovesTo, Card
  <1>3. CASE Expires(c) \/ Holds(c) \/ Returns(c) \/ Refunds(c)
    <2>1. k.expiresAt \in Int
      BY DEF Card
    <2>. QED
      BY <1>2, <1>3, <2>1 DEF RowTellsHistory
  <1>. QED
    BY <1>1, <1>3 DEF RestsOrMoves

\* A first use fixes activation and expiry, a later one leaves them.
LEMMA RedeemTells ==
  ASSUME Base, NEW p \in Procs, NEW c \in Cards, NEW now \in Nat, NEW mode \in Mode,
         Redeems(p, c, now, mode), RowTellsHistory(c)
  PROVE RowTellsHistory(c)'
  <1>. DEFINE rec == NewRecord(p, c, now, mode)  set == product[Product[c]]
  <1>1. rec \in RecordsOf(c)' /\ RecordsOf(c) \subseteq RecordsOf(c)' /\ cards'[c] = Redeemed(c, now)
    BY RedeemsRows
  <1>2. rec.at = now
    BY DEF NewRecord
  <1>3. cards[c] \in Card /\ cards[c].status \in {"ACTIVE", "PENDING_ACTIVATION"}
    BY DEF Redeems, Base, TypeOK
  <1>4. set \in Settings /\ set.validity * DayLength \in Nat
    <2>1. set \in Settings
      BY CardsAssumption DEF Base, TypeOK
    <2>2. set.validity \in Nat
      BY <2>1, SettingsAssumption
    <2>. QED
      BY <2>1, <2>2, TimeAssumption
  <1>5. /\ cards'[c].status =
             IF Kind[c] = "COUNT_CARD" /\ Remaining(c) = 0 THEN "USED_UP" ELSE "ACTIVE"
        /\ cards'[c].remaining = Remaining(c)
        /\ cards'[c].activatedAt =
             IF cards[c].status = "PENDING_ACTIVATION" THEN now ELSE cards[c].activatedAt
        /\ cards'[c].expiresAt =
             IF cards[c].status = "PENDING_ACTIVATION" THEN now + set.validity * DayLength
                                                       ELSE cards[c].expiresAt
    BY <1>1 DEF Redeemed
  <1>. HIDE DEF rec, set
  <1>6. cards'[c].activatedAt # NoTime
    BY <1>3, <1>5 DEF RowTellsHistory
  <1>7. \E s \in Settings : cards'[c].expiresAt = cards'[c].activatedAt + s.validity * DayLength
    BY <1>3, <1>4, <1>5 DEF RowTellsHistory
  <1>8. cards'[c].activatedAt > 0 => \E r \in RecordsOf(c)' : r.at = cards'[c].activatedAt
    BY <1>1, <1>2, <1>3, <1>5 DEF RowTellsHistory
  <1>. QED
    BY <1>3, <1>5, <1>6, <1>7, <1>8 DEF RowTellsHistory

LEMMA StatusStep ==
  ASSUME Base, LockedTokens, StatusMatchesHistory, [Next]_vars
  PROVE StatusMatchesHistory'
  <1>. SUFFICES ASSUME NEW d \in Cards PROVE RowTellsHistory(d)'
    BY DEF StatusMatchesHistory
  <1>1. RowTellsHistory(d) /\ cards[d] \in Card
    BY DEF StatusMatchesHistory, Base, TypeOK
  <1>2. CASE Unused
    <2>1. RecordsOf(d)' = RecordsOf(d) /\ RestsOrMoves(d)
      BY <1>2 DEF Unused, RecordsOf
    <2>. QED
      BY <1>1, <2>1, ClockStep, MoveTells
  <1>3. ASSUME NEW p \in Procs, NEW c \in Cards, NEW now \in Nat, NEW mode \in Mode,
               Redeems(p, c, now, mode)
        PROVE RowTellsHistory(d)'
    <2>1. CASE d = c
      BY <1>1, <1>3, <2>1, RedeemTells
    <2>2. CASE d # c
      BY <1>1, <1>3, <2>2, RedeemsRows, ClockStep, RestTells
    <2>. QED
      BY <2>1, <2>2
  <1>. QED
    BY <1>2, <1>3, NextCards DEF CardsStep

\* However uses, expiries, refunds and rollbacks interleave, the row of a card tells
\* its history: USED_UP exactly at balance zero, activated by the sale or by one of its
\* records, expiring a validity of its product later and EXPIRED only once that time
\* has come, and in a refund only without a record.
THEOREM StatusTellsHistory == Spec => []StatusMatchesHistory
  <1>1. Init => StatusMatchesHistory
    <2>. SUFFICES ASSUME Init, NEW c \in Cards PROVE RowTellsHistory(c)
      BY DEF StatusMatchesHistory
    <2>. DEFINE set == Sold[Product[c]]
    <2>1. /\ cards[c].status \in {"PENDING_ACTIVATION", "ACTIVE"}
          /\ cards[c].remaining = Total[c] /\ RecordsOf(c) = {}
          /\ cards[c].activatedAt =
               IF cards[c].status = "PENDING_ACTIVATION" THEN NoTime ELSE 0
          /\ cards[c].expiresAt =
               IF cards[c].status = "PENDING_ACTIVATION" THEN NoTime ELSE set.validity * DayLength
      BY DEF Init, RecordsOf
    <2>2. set \in Settings /\ set.validity * DayLength \in Nat
      <3>1. set \in Settings
        BY CardsAssumption, SettingsAssumption
      <3>2. set.validity \in Nat
        BY <3>1, SettingsAssumption
      <3>. QED
        BY <3>1, <3>2, TimeAssumption
    <2>. HIDE DEF set
    <2>3. \E s \in Settings : set.validity * DayLength = 0 + s.validity * DayLength
      BY <2>2
    <2>. QED
      BY <2>1, <2>3, CardsAssumption DEF RowTellsHistory
  <1>2. Base /\ LockedTokens /\ StatusMatchesHistory /\ [Next]_vars => StatusMatchesHistory'
    BY StatusStep
  <1>. QED
    BY <1>1, <1>2, SpecBase, PTL DEF Spec
-----------------------------------------------------------------------------
(* Redemption implements CardContract. *)

LEMMA InitContract == Init => Contract!Init
  BY DEF Init, Contract!Init

\* A card without a record still has all it was sold for.
LEMMA UnusedIsWhole ==
  ASSUME Base, NoOverdraft, BalanceChain, NEW c \in Cards, RecordsOf(c) = {}
  PROVE cards[c].remaining = Total[c]
  <1>1. cards[c].remaining \in Int /\ Total[c] \in Nat
    BY CardsAssumption DEF Base, TypeOK, Card
  <1>2. CASE Kind[c] = "COUNT_CARD"
    <2>1. cards[c].remaining \in 0..Total[c] /\ (cards[c].remaining + 1)..Total[c] = {}
      BY <1>2 DEF NoOverdraft, BalanceChain
    <2>. QED
      BY <1>1, <2>1
  <1>. QED
    BY <1>2 DEF NoOverdraft

LEMMA ContractStep ==
  ASSUME Base, LockedTokens, NoOverdraft, BalanceChain, [Next]_vars
  PROVE Contract!Next
  <1>0. /\ \A c \in Cards : cards[c] \in Card
        /\ \A c \in Cards : cards'[c] \in Card
    BY NextBase DEF Base, TypeOK
  <1>1. CASE Unused
    <2>1. ASSUME NEW c \in Cards
          PROVE \/ Contract!Expire(c) \/ Contract!Hold(c) \/ Contract!Release(c)
                \/ Contract!Refund(c) \/ Contract!Rest(c)
      <3>1. CASE cards'[c] = cards[c]
        BY <3>1 DEF Contract!Rest
      <3>2. CASE Expires(c)
        BY <1>0, <3>2 DEF Expires, MovesTo, Contract!Expire, Card
      <3>3. CASE Holds(c)
        BY <1>0, <3>3, UnusedIsWhole DEF Holds, MovesTo, Contract!Hold, Card
      <3>4. CASE Returns(c)
        BY <1>0, <3>4 DEF Returns, MovesTo, Contract!Release, Card
      <3>5. CASE Refunds(c)
        BY <1>0, <3>5 DEF Refunds, MovesTo, Contract!Refund, Card
      <3>. QED
        BY <1>1, <3>1, <3>2, <3>3, <3>4, <3>5 DEF Unused, RestsOrMoves
    <2>. QED
      BY <2>1 DEF Contract!Next
  <1>2. ASSUME NEW p \in Procs, NEW c \in Cards, NEW now \in Nat, NEW mode \in Mode,
               Redeems(p, c, now, mode)
        PROVE Contract!Next
    <2>1. Contract!Use(c)
      <3>1. /\ cards'[c].status =
                 IF Kind[c] = "COUNT_CARD" /\ Remaining(c) = 0 THEN "USED_UP" ELSE "ACTIVE"
            /\ cards'[c].remaining = Remaining(c)
        <4>1. cards'[c] = Redeemed(c, now)
          BY <1>2, RedeemsRows
        <4>. QED
          BY <4>1 DEF Redeemed
      <3>2. /\ cards[c].status \in {"ACTIVE", "PENDING_ACTIVATION"}
            /\ Kind[c] = "COUNT_CARD" => cards[c].remaining > 0
        BY <1>2 DEF Redeems, Uses
      <3>3. cards[c].remaining \in Int
        BY <1>0 DEF Card
      <3>4. CASE Kind[c] = "COUNT_CARD"
        BY <3>1, <3>2, <3>3, <3>4 DEF Contract!Use, Remaining
      <3>5. CASE Kind[c] # "COUNT_CARD"
        BY <3>1, <3>2, <3>5 DEF Contract!Use, Remaining
      <3>. QED
        BY <3>4, <3>5
    <2>2. \A d \in Cards : d # c => Contract!Rest(d)
      BY <1>2, RedeemsRows DEF Contract!Rest
    <2>. QED
      BY <2>1, <2>2 DEF Contract!Next
  <1>. QED
    BY <1>1, <1>2, NextCards DEF CardsStep

\* Redeeming implements the contract of the card: no use of a card that is over or
\* in a refund, none beyond what it was sold for, only an unused card is taken back,
\* and one that is over or refunded stays so.
THEOREM KeepsContract == Spec => CardsKeepContract
  <1>1. Base /\ LockedTokens /\ NoOverdraft /\ BalanceChain /\ [Next]_vars => Contract!Next
    BY ContractStep
  <1>. QED
    BY <1>1, InitContract, SpecBase, BalanceKept, PTL DEF Spec, CardsKeepContract, Contract!Spec
-----------------------------------------------------------------------------
(* Locks of tokens and codes: who holds one took it in a fit state. *)

TakesToken(q) ==
  /\ tokens[tx[q].token].status = "ACTIVE" /\ tx[q].now < tokens[tx[q].token].expiresAt
  /\ tx[q].token \in Tokens /\ tokens' = tokens
TakesCode(q) ==
  /\ codes[tx[q].code].status = "ACTIVE" /\ codes[tx[q].code].qr = tx[q].qr
  /\ ByKey(SelfScans(records), tx[q].user, tx[q].request) = {}
  /\ codes' = codes /\ records' = records
SameFields(q) ==
  /\ tx'[q].user = tx[q].user /\ tx'[q].request = tx[q].request
  /\ tx'[q].token = tx[q].token /\ tx'[q].code = tx[q].code
  /\ tx'[q].qr = tx[q].qr /\ tx'[q].now = tx[q].now

\* A handler that holds a lock after a step held it before, or took it in the step.
LocksStep ==
  \A q \in Procs :
    /\ tx'[q].pc \in {"gotToken", "gotCode"} => SameFields(q)
    /\ tx'[q].pc = "gotToken" => tx[q].pc = "gotToken" \/ TakesToken(q)
    /\ tx'[q].pc = "gotCode" => tx[q].pc = "gotCode" \/ TakesCode(q)

LEMMA OwnStep ==
  ASSUME Base, NEW p \in Procs, NEW t, tx' = [tx EXCEPT ![p] = t],
         t.pc \notin {"gotToken", "gotCode"}
  PROVE LocksStep
  BY DEF LocksStep, SameFields, Base, TypeOK

LEMMA AdvanceStep ==
  ASSUME Base, NEW p \in Procs, NEW pc, Advance(p, pc),
         pc = "gotToken" => TakesToken(p), pc = "gotCode" => TakesCode(p)
  PROVE LocksStep
  <1>1. tx'[p] = [tx[p] EXCEPT !.pc = pc] /\ \A q \in Procs : q # p => tx'[q] = tx[q]
    BY DEF Advance, Base, TypeOK
  <1>2. SameFields(p) /\ tx'[p].pc = pc
    BY <1>1 DEF SameFields, Base, TypeOK, Tx
  <1>. QED
    BY <1>1, <1>2 DEF LocksStep, SameFields

LEMMA NextLocks ==
  ASSUME Base, LockedTokens, [Next]_vars
  PROVE LocksStep
  <1>1. CASE tx' = tx
    BY <1>1 DEF LocksStep, SameFields
  <1>2. ASSUME NEW p \in Procs, NEW o, Finish(p, o) PROVE LocksStep
    BY <1>2, OwnStep DEF Finish, NoTx
  <1>3. ASSUME NEW p \in Procs, Request(p) PROVE LocksStep
    <2>1. ASSUME NEW t, t.pc = "started", Begin(p, t) PROVE LocksStep
      BY <2>1, OwnStep DEF Begin
    <2>. QED
      BY <1>2, <1>3, <2>1 DEF Request, BeginConfirm, BeginCheckin, BeginCreateToken, Reply, NoTx
  <1>4. ASSUME NEW p \in Procs, ConfirmLockToken(p) PROVE LocksStep
    <2>1. CASE Advance(p, "gotToken") /\ tokens[tx[p].token].status = "ACTIVE"
               /\ tokens[tx[p].token].expiresAt > tx[p].now
      <3>1. tx[p].token \in Tokens /\ tx[p].now \in Nat /\ tokens[tx[p].token].expiresAt \in Nat
        BY <1>4 DEF ConfirmLockToken, Base, WellFormedTx, TypeOK, Tx, Token
      <3>2. TakesToken(p)
        BY <2>1, <3>1 DEF TakesToken, Advance
      <3>. QED
        BY <2>1, <3>2, AdvanceStep
    <2>. QED
      BY <1>2, <1>4, <2>1 DEF ConfirmLockToken, Reply
  <1>5. ASSUME NEW p \in Procs, CheckinLockCode(p) PROVE LocksStep
    <2>1. CASE Advance(p, "gotCode") /\ codes[tx[p].code].status = "ACTIVE"
               /\ codes[tx[p].code].qr = tx[p].qr /\ FirstCheckin(p) = {}
      <3>2. TakesCode(p)
        BY <2>1 DEF TakesCode, Advance, FirstCheckin
      <3>. QED
        BY <2>1, <3>2, AdvanceStep
    <2>. QED
      BY <1>2, <1>5, <2>1 DEF CheckinLockCode, Reply
  <1>6. ASSUME NEW p \in Procs, ConfirmCard(p) \/ CheckinCard(p) \/ CreateTokenCommit(p)
        PROVE LocksStep
    BY <1>2, <1>6 DEF ConfirmCard, CheckinCard, CreateTokenCommit, WriteRedemption, Reply
  <1>7. ASSUME NEW p \in Procs, CreateTokenLockCard(p) PROVE LocksStep
    BY <1>2, <1>7, AdvanceStep DEF CreateTokenLockCard, Reply
  <1>8. ASSUME NEW p \in Procs, Abort(p) \/ DeadlockVictim(p) PROVE LocksStep
    BY <1>2, <1>8 DEF Abort, DeadlockVictim, Rollback, Reply
  <1>9. CASE Environment
    BY <1>1, <1>9
    DEF Environment, PreviewExpires, ExpireCards, ChangeCodeStatus, RegenerateCode,
        UpdateProduct, Tick, LockForRefund, RestoreCard, RefundCard, SetCardStatus
  <1>10. CASE UNCHANGED vars
    BY <1>1, <1>10 DEF vars
  <1>. QED
    BY <1>3, <1>4, <1>5, <1>6, <1>7, <1>8, <1>9, <1>10 DEF Next, Step
-----------------------------------------------------------------------------
(* Self check-ins: the code and the key of one that is about to write. *)

\* Only an administrator changes a code, and not while a check-in holds it.
LEMMA HeldCodesKept ==
  ASSUME Base, [Next]_vars, NEW q \in Procs, tx[q].pc = "gotCode"
  PROVE codes'[tx[q].code] = codes[tx[q].code]
  <1>1. CASE codes' = codes
    BY <1>1
  <1>2. ASSUME NEW k \in Codes, NEW s, ChangeCodeStatus(k, s)
        PROVE codes'[tx[q].code] = codes[tx[q].code]
    <2>1. k # tx[q].code /\ tx[q].code \in Codes
      BY <1>2, CheckinFields DEF ChangeCodeStatus, CodeUnlocked, HoldsCode
    <2>. QED
      BY <1>2, <2>1 DEF ChangeCodeStatus, Base, TypeOK
  <1>3. ASSUME NEW k \in Codes, RegenerateCode(k)
        PROVE codes'[tx[q].code] = codes[tx[q].code]
    <2>1. k # tx[q].code /\ tx[q].code \in Codes
      BY <1>3, CheckinFields DEF RegenerateCode, CodeUnlocked, HoldsCode
    <2>. QED
      BY <1>3, <2>1 DEF RegenerateCode, Base, TypeOK
  <1>4. CASE Environment
    BY <1>1, <1>2, <1>3, <1>4 DEF Environment, PreviewExpires, ExpireCards, UpdateProduct, Tick,
      LockForRefund, RestoreCard, RefundCard, SetCardStatus
  <1>5. ASSUME NEW p \in Procs, Request(p) \/ Step(p) \/ Abort(p) \/ DeadlockVictim(p)
        PROVE codes' = codes
    BY <1>5 DEF Request, BeginConfirm, BeginCheckin, BeginCreateToken, Begin, Step,
      ConfirmLockToken, ConfirmCard, CheckinLockCode, CheckinCard, CreateTokenLockCard,
      CreateTokenCommit, WriteRedemption, Advance, Reply, Abort, DeadlockVictim, Rollback
  <1>. QED
    BY <1>1, <1>4, <1>5 DEF Next, vars

LEMMA HeldCodesStep ==
  ASSUME Base, LockedTokens, HeldCodes, [Next]_vars
  PROVE HeldCodes'
  <1>. SUFFICES ASSUME NEW q \in Procs, tx'[q].pc = "gotCode"
                PROVE codes'[tx'[q].code].status = "ACTIVE" /\ codes'[tx'[q].code].qr = tx'[q].qr
    BY DEF HeldCodes
  <1>1. SameFields(q) /\ (tx[q].pc = "gotCode" \/ TakesCode(q))
    BY NextLocks DEF LocksStep
  <1>2. CASE TakesCode(q)
    BY <1>1, <1>2 DEF TakesCode, SameFields
  <1>3. CASE tx[q].pc = "gotCode"
    BY <1>1, <1>3, HeldCodesKept DEF HeldCodes, SameFields
  <1>. QED
    BY <1>1, <1>2, <1>3

LEMMA KeyReservedStep ==
  ASSUME Base, LockedTokens, CheckinKeyReserved, [Next]_vars
  PROVE CheckinKeyReserved'
  <1>. SUFFICES ASSUME NEW q \in Procs, tx'[q].pc = "gotCode"
                PROVE ByKey(SelfScans(records'), tx'[q].user, tx'[q].request) = {}
    BY DEF CheckinKeyReserved, ByKey, SelfScans
  <1>1. SameFields(q) /\ (tx[q].pc = "gotCode" \/ TakesCode(q))
    BY NextLocks DEF LocksStep
  <1>2. ByKey(SelfScans(records), tx'[q].user, tx'[q].request) = {}
    BY <1>1 DEF TakesCode, SameFields, CheckinKeyReserved
  <1>3. CASE records' = records
    BY <1>2, <1>3
  <1>4. ASSUME NEW p \in Procs, NEW c \in Cards, NEW now \in Nat, NEW mode \in Mode,
               Redeems(p, c, now, mode), records' # records
        PROVE ByKey(SelfScans(records'), tx'[q].user, tx'[q].request) = {}
    <2>. DEFINE rec == NewRecord(p, c, now, mode)
    <2>1. /\ records' = records \cup {rec} /\ rec.operator = tx[p].user
          /\ rec.request = tx[p].request /\ q # p /\ tx'[q] = tx[q]
      BY <1>4, RedeemsRows DEF NewRecord
    <2>. HIDE DEF rec
    <2>2. ~HoldsGap(q, tx[p].user, tx[p].request)
      BY <1>4, <2>1 DEF Redeems, KeyFree
    <2>3. ~(rec.operator = tx'[q].user /\ rec.request = tx'[q].request)
      BY <2>1, <2>2 DEF HoldsGap
    <2>. QED
      BY <1>2, <2>1, <2>3 DEF ByKey, SelfScans
  <1>. QED
    BY <1>3, <1>4, NextCards DEF CardsStep, Unused

LEMMA SpecCheckins == Spec => [](Base /\ LockedTokens /\ HeldCodes /\ CheckinKeyReserved)
  <1>1. Init => HeldCodes /\ CheckinKeyReserved
    BY DEF Init, HeldCodes, CheckinKeyReserved, NoTx
  <1>2. Base /\ LockedTokens /\ HeldCodes /\ CheckinKeyReserved /\ [Next]_vars
          => (HeldCodes /\ CheckinKeyReserved)'
    BY HeldCodesStep, KeyReservedStep
  <1>. QED
    BY <1>1, <1>2, SpecBase, PTL DEF Spec

\* The gap lock of the locking lookup keeps a check-in's key to itself: no other
\* transaction can record a self check-in with the same user and request before it.
THEOREM KeyReserved == Spec => []CheckinKeyReserved
  BY SpecCheckins, PTL

CurrentCode(rec) ==
  rec.mode = "MEMBER_SELF_SCAN" =>
    /\ codes[rec.code].status = "ACTIVE"
    /\ \E p \in Procs : /\ tx[p].code = rec.code /\ tx[p].qr = codes[rec.code].qr
                        /\ tx[p].request = rec.request

\* Stopping or replacing a code takes effect at once: no check-in is recorded
\* under a code that is not ACTIVE or not of the generation scanned.
THEOREM CurrentCodes == Spec => OnlyCurrentCodeRecords
  <1>1. ASSUME Base, LockedTokens, HeldCodes, [Next]_vars
        PROVE \A rec \in records' \ records : CurrentCode(rec)
    <2>1. ASSUME NEW p \in Procs, NEW c \in Cards, NEW now \in Nat, NEW mode \in Mode,
                 Redeems(p, c, now, mode), NEW rec \in records' \ records,
                 rec.mode = "MEMBER_SELF_SCAN"
          PROVE CurrentCode(rec)
      <3>1. rec.mode = mode /\ rec.code = tx[p].code /\ rec.request = tx[p].request
        BY <1>1, <2>1, RedeemsRows DEF NewRecord
      <3>. QED
        BY <1>1, <2>1, <3>1 DEF Redeems, HeldCodes, CurrentCode
    <2>. QED
      BY <1>1, <2>1, NextCards DEF CardsStep, Unused, CurrentCode
  <1>2. Base /\ LockedTokens /\ HeldCodes /\ [Next]_vars
          => [\A rec \in records' \ records : CurrentCode(rec)]_vars
    BY <1>1
  <1>. QED
    BY <1>2, SpecCheckins, PTL DEF Spec, OnlyCurrentCodeRecords, CurrentCode
-----------------------------------------------------------------------------
(* Uses lie before the expiry of card and token. *)

LEMMA FreshStep ==
  ASSUME Base, LockedTokens, FreshTokens, [Next]_vars
  PROVE FreshTokens'
  <1>. SUFFICES ASSUME NEW q \in Procs, tx'[q].pc = "gotToken"
                PROVE tx'[q].now < tokens'[tx'[q].token].expiresAt
    BY DEF FreshTokens
  <1>1. SameFields(q) /\ (tx[q].pc = "gotToken" \/ TakesToken(q))
    BY NextLocks DEF LocksStep
  <1>2. CASE TakesToken(q)
    BY <1>1, <1>2 DEF TakesToken, SameFields
  <1>3. CASE tx[q].pc = "gotToken"
    <2>1. tx[q].token \in Tokens \ Unborn
      BY <1>3, LockedCard DEF Unborn
    <2>2. tokens'[tx[q].token].expiresAt = tokens[tx[q].token].expiresAt
      BY <2>1, NextTokens DEF TokensStep, Issues, Ends
    <2>. QED
      BY <1>1, <1>3, <2>2 DEF FreshTokens, SameFields
  <1>. QED
    BY <1>1, <1>2, <1>3

\* A record of the card, or of the token, made before the expiry.
InTime(rec) ==
  /\ rec.at < cards[rec.card].expiresAt
  /\ rec.token # None => rec.at < tokens[rec.token].expiresAt

\* The expiry of a spent token stands.
LEMMA SpentTokenKept ==
  ASSUME Base, LockedTokens, TokenSpentOnce, [Next]_vars,
         NEW rec \in records, rec.token # None
  PROVE tokens'[rec.token].expiresAt = tokens[rec.token].expiresAt
  <1>1. rec.token \in Tokens
    BY DEF Base, TypeOK, Record
  <1>2. tokens[rec.token].status = "USED"
    BY <1>1 DEF TokenSpentOnce
  <1>. QED
    BY <1>1, <1>2, NextTokens DEF TokensStep, Issues, Ends, Unborn

LEMMA InTimeStep ==
  ASSUME Base, LockedTokens, TokenSpentOnce, StatusMatchesHistory, FreshTokens,
         UsesBeforeExpiry, [Next]_vars
  PROVE UsesBeforeExpiry'
  <1>. SUFFICES ASSUME NEW rec \in records' PROVE InTime(rec)'
    BY DEF UsesBeforeExpiry, InTime
  <1>1. ASSUME rec \in records, cards'[rec.card].expiresAt = cards[rec.card].expiresAt
        PROVE InTime(rec)'
    BY <1>1, SpentTokenKept DEF UsesBeforeExpiry, InTime
  <1>2. CASE Unused
    <2>1. rec \in records /\ rec.card \in Cards
      BY <1>2 DEF Unused, Base, TypeOK, Record
    <2>2. cards'[rec.card].expiresAt = cards[rec.card].expiresAt
      <3>1. cards[rec.card] \in Card /\ RestsOrMoves(rec.card)
        BY <1>2, <2>1 DEF Unused, Base, TypeOK
      <3>. QED
        BY <3>1 DEF RestsOrMoves, Expires, Holds, Returns, Refunds, MovesTo, Card
    <2>. QED
      BY <1>1, <2>1, <2>2
  <1>3. ASSUME NEW p \in Procs, NEW c \in Cards, NEW now \in Nat, NEW mode \in Mode,
               Redeems(p, c, now, mode)
        PROVE InTime(rec)'
    <2>. DEFINE new == NewRecord(p, c, now, mode)
    <2>1. records' = records \cup {new} /\ cards'[c] = Redeemed(c, now)
          /\ \A d \in Cards : d # c => cards'[d] = cards[d]
      BY <1>3, RedeemsRows
    <2>2. new.card = c /\ new.at = now /\ new.token = tx[p].token
      BY DEF NewRecord
    <2>. HIDE DEF new
    <2>3. CASE rec \in records
      <3>1. rec.card \in Cards
        BY <2>3 DEF Base, TypeOK, Record
      <3>2. cards[rec.card].status # "PENDING_ACTIVATION"
        BY <2>3, <3>1 DEF StatusMatchesHistory, RowTellsHistory, RecordsOf
      <3>. QED
        BY <1>1, <2>1, <2>3, <3>1, <3>2 DEF Redeemed
    <2>4. CASE rec = new
      <3>1. now < cards'[c].expiresAt
        <4>1. product[Product[c]].validity * DayLength \in Nat \ {0}
          <5>1. product[Product[c]].validity \in Nat \ {0} /\ DayLength \in Nat \ {0}
            BY CardsAssumption, SettingsAssumption, TimeAssumption DEF Base, TypeOK
          <5>. QED
            BY <5>1
        <4>2. CASE cards[c].status = "PENDING_ACTIVATION"
          BY <2>1, <4>1, <4>2 DEF Redeemed
        <4>3. CASE cards[c].status # "PENDING_ACTIVATION"
          BY <1>3, <2>1, <4>3 DEF Redeemed, Redeems
        <4>. QED
          BY <4>2, <4>3
      <3>2. ASSUME tx[p].token # None PROVE now < tokens'[tx[p].token].expiresAt
        <4>1. tx[p].pc = "gotToken" /\ now = tx[p].now /\ tx[p].token \in Tokens \ Unborn
          BY <1>3, <3>2, LockedCard DEF Redeems, Mode, Unborn
        <4>2. tokens'[tx[p].token].expiresAt = tokens[tx[p].token].expiresAt
          BY <4>1, NextTokens DEF TokensStep, Issues, Ends
        <4>. QED
          BY <4>1, <4>2 DEF FreshTokens
      <3>. QED
        BY <2>2, <2>4, <3>1, <3>2 DEF InTime
    <2>. QED
      BY <2>1, <2>3, <2>4
  <1>. QED
    BY <1>2, <1>3, NextCards DEF CardsStep

LEMMA SpecInTime == Spec => [](FreshTokens /\ UsesBeforeExpiry)
  <1>1. Init => FreshTokens /\ UsesBeforeExpiry
    BY DEF Init, FreshTokens, UsesBeforeExpiry, NoTx
  <1>2. Base /\ LockedTokens /\ TokenSpentOnce /\ StatusMatchesHistory
          /\ FreshTokens /\ UsesBeforeExpiry /\ [Next]_vars => (FreshTokens /\ UsesBeforeExpiry)'
    BY FreshStep, InTimeStep
  <1>. QED
    BY <1>1, <1>2, SpecBase, TokenSpent, StatusTellsHistory, PTL DEF Spec

\* No use is recorded with a time at or after the expiry of its card or of its token;
\* the time of a confirm is the one it read before it waited for its locks.
THEOREM UsedInTime == Spec => []UsesBeforeExpiry
  BY SpecInTime, PTL
-----------------------------------------------------------------------------
\* All of it together: whatever redemptions, expiries and edits do to cards,
\* tokens, codes and records, every part of Inv holds in every state.
THEOREM AlwaysInv == Spec => []Inv
  <1>1. Base /\ LockedTokens /\ NoOverdraft /\ BalanceChain /\ TokenSpentOnce
          /\ OneActiveToken /\ StatusMatchesHistory /\ FreshTokens /\ UsesBeforeExpiry
          /\ HeldCodes /\ CheckinKeyReserved => Inv
    BY DEF Inv, Base
  <1>. QED
    BY <1>1, SpecBase, TokenSpent, BalanceKept, OneTokenLive, StatusTellsHistory,
       SpecInTime, SpecCheckins, PTL
=============================================================================
