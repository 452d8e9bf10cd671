--------------------------- MODULE Membership_proofs ---------------------------
(* Proofs about Membership for any number of identities, members, tokens,    *)
(* numbers and requests, and any bound on the versions.                      *)
EXTENDS Membership, SequenceTheorems, TLAPS

-----------------------------------------------------------------------------
(* Data *)

LEMMA RequestFields ==
  ASSUME NEW t \in Request
  PROVE /\ t.step = "newcomer" => t.who \in OpenIDs
        /\ t.step = "refresh" => t.user \in Users /\ t.token \in Tokens
        /\ t.step = "rename" => t.user \in Users /\ t.seen \in Nat \ {0} /\ t.name \in Names
        /\ t.step \in {"phone", "phoneHeld"} => t.user \in Users /\ t.phone \in Phones
        /\ t.step = "edit" => /\ t.user \in Users /\ t.seen \in Nat \ {0}
                              /\ t.before \in Statuses /\ t.status \in Statuses
        /\ t.step = "role" => t.user \in Users /\ t.seen \in Nat \ {0} /\ t.role \in Roles
        /\ t # Idle => t.step \in {"newcomer", "refresh", "rename", "phone", "phoneHeld", "edit", "role"}
        /\ t.step = "idle" => t = Idle
  BY MaxVersionAssumption DEF Request, Idle, Versions

LEMMA IdleStep == Idle \in Request /\ Idle.step = "idle"
  BY DEF Idle, Request

LEMMA UserFields ==
  ASSUME NEW row \in UserRow \cup {NoUser}
  PROVE /\ row.version \in Nat
        /\ row.status \in Statuses \cup {"NONE"}
        /\ row.role \in Roles
        /\ row.name \in Names \cup {Nobody}
        /\ row.phone \in Phones \cup {Nobody}
        /\ row # NoUser => row.version \in Nat \ {0} /\ row.status \in Statuses
        /\ row = NoUser => row.version = 0 /\ row.status = "NONE" /\ row.phone = Nobody
  BY DEF UserRow, NoUser, Statuses, Roles

LEMMA ProfileFields ==
  ASSUME NEW row \in ProfileRow \cup {NoProfile}
  PROVE /\ row.phone \in Phones \cup {Nobody}
        /\ row # NoProfile => row.state \in {"OPEN", "REGISTERED"}
        /\ row = NoProfile => row.state = "NONE" /\ row.phone = Nobody
  BY DEF ProfileRow, NoProfile

LEMMA TokenFields ==
  ASSUME NEW row \in TokenRow \cup {NoToken}
  PROVE /\ row.next \in Tokens \cup {Nobody}
        /\ row # NoToken => row.state \in {"LIVE", "LAPSED", "REVOKED"} /\ row.user \in Users
        /\ row = NoToken => row.state = "NONE" /\ row.user = Nobody /\ row.next = Nobody
        /\ row.user \in Users => row # NoToken
  BY NullAssumption DEF TokenRow, NoToken

LEMMA ExistingUser ==
  ASSUME Inv, NEW u \in Users
  PROVE /\ users[u] \in UserRow \cup {NoUser}
        /\ profiles[u] \in ProfileRow \cup {NoProfile}
        /\ users[u].status \in Statuses => users[u] # NoUser
        /\ users[u].version # 0 => users[u] # NoUser
        /\ (users[u] = NoUser) <=> (profiles[u] = NoProfile)
        /\ profiles[u].state \in {"OPEN", "REGISTERED"} => users[u] # NoUser
  BY UserFields, ProfileFields DEF Inv, TypeOK, OneAccountPerIdentity, NoUser, NoProfile, Statuses

\* An explained log stays explained when the next change starts where it ends.
LEMMA ExplainsNext ==
  ASSUME NEW S, NEW first \in S, NEW last \in S, NEW to \in S, NEW log \in Seq(Change(S)),
         Explains(log, first, last)
  PROVE /\ Append(log, [from |-> last, to |-> to]) \in Seq(Change(S))
        /\ Explains(Append(log, [from |-> last, to |-> to]), first, to)
  <1>. DEFINE e == [from |-> last, to |-> to]
              next == Append(log, e)
  <1>. SUFFICES next \in Seq(Change(S)) /\ Explains(next, first, to)
    OBVIOUS
  <1>1. e \in Change(S) /\ e.from = last /\ e.to = to
    BY DEF Change
  <1>. HIDE DEF e
  <1>2. /\ next \in Seq(Change(S)) /\ next # <<>>
        /\ Len(next) = Len(log) + 1
        /\ \A i \in 1..Len(log) : next[i] = log[i]
        /\ next[Len(log) + 1] = e
    BY <1>1, AppendProperties
  <1>3. Len(log) \in Nat
    BY LenProperties
  <1>. HIDE DEF next
  <1>4. CASE log = <<>>
    <2>1. Len(log) = 0 /\ last = first
      BY <1>4 DEF Explains
    <2>2. Len(next) = 1 /\ next[1] = e
      BY <1>2, <2>1
    <2>. QED
      BY <1>1, <1>2, <2>1, <2>2 DEF Explains
  <1>5. CASE log # <<>>
    <2>1. Len(log) > 0
      BY <1>3, <1>5, EmptySeq
    <2>2. /\ log[1].from = first /\ log[Len(log)].to = last
          /\ \A i \in 1..(Len(log) - 1) : log[i].to = log[i + 1].from
      BY <1>5 DEF Explains
    <2>3. next[1].from = first /\ next[Len(next)].to = to
      BY <1>1, <1>2, <1>3, <2>1, <2>2
    <2>4. ASSUME NEW i \in 1..(Len(next) - 1) PROVE next[i].to = next[i + 1].from
      <3>1. CASE i = Len(log)
        BY <1>1, <1>2, <1>3, <2>1, <2>2, <3>1
      <3>2. CASE i # Len(log)
        <4>1. i \in 1..(Len(log) - 1) /\ i \in 1..Len(log) /\ i + 1 \in 1..Len(log)
          BY <1>2, <1>3, <3>2
        <4>. QED
          BY <1>2, <2>2, <4>1
      <3>. QED
        BY <3>1, <3>2
    <2>. QED
      BY <1>2, <2>3, <2>4 DEF Explains
  <1>. QED
    BY <1>2, <1>4, <1>5

-----------------------------------------------------------------------------
(* Requests *)

\* No account and no registration is ever taken back, and a status changes with the
\* version only.
Grows ==
  \A u \in Users :
    /\ users[u] # NoUser =>
         /\ users'[u] # NoUser
         /\ users'[u].version \in Nat /\ users'[u].version >= users[u].version
         /\ users'[u].version = users[u].version => users'[u].status = users[u].status
    /\ profiles[u].state = "REGISTERED" => profiles'[u].state = "REGISTERED"

\* The rows whose lock q holds are as it left them.
Undisturbed(q) ==
  LET t == tx[q] IN
  /\ t.step = "newcomer" => identity'[t.who] = identity[t.who]
  /\ t.step = "refresh" =>
       /\ tokens'[t.token].state \in {tokens[t.token].state, "LAPSED"}
       /\ tokens'[t.token].user = tokens[t.token].user
       /\ users'[t.user].status = users[t.user].status
  /\ t.step = "phoneHeld" => profiles'[t.user] = profiles[t.user]

LEMMA StandsOn ==
  ASSUME Inv, Grows, NEW q \in Procs, Undisturbed(q), tx'[q] = tx[q]
  PROVE Standing(q)'
  <1>. DEFINE t == tx[q]
  <1>1. t \in Request
    BY DEF Inv, TypeOK
  <1>2. Standing(q)
    BY DEF Inv, RequestsStand
  <1>3. t.step \in {"refresh", "rename", "phone", "phoneHeld", "edit", "role"} =>
          t.user \in Users /\ users[t.user].version \in Nat
    BY <1>1, RequestFields, UserFields DEF Inv, TypeOK
  <1>4. t.step \in {"rename", "edit"} => t.seen \in Nat
    BY <1>1, RequestFields
  <1>5. (t.step = "newcomer" => identity'[t.who] = Nobody)
    BY <1>2 DEF Standing, Undisturbed
  <1>6. t.step \in {"refresh", "rename", "phone", "phoneHeld", "edit", "role"} =>
          users'[t.user] # NoUser
    BY <1>2, <1>3 DEF Standing, Grows
  <1>7. t.step = "refresh" =>
          /\ tokens'[t.token].state \in {"LIVE", "LAPSED"}
          /\ tokens'[t.token].user = t.user
          /\ users'[t.user].status = "ACTIVE"
    BY <1>2 DEF Standing, Undisturbed
  <1>8. t.step = "rename" =>
          /\ t.seen <= users'[t.user].version
          /\ t.seen = users'[t.user].version => users'[t.user].status = "ACTIVE"
    BY <1>2, <1>3, <1>4 DEF Standing, Grows
  <1>9. t.step = "phoneHeld" => profiles'[t.user].state # "REGISTERED"
    BY <1>2 DEF Standing, Undisturbed
  <1>10. t.step = "edit" =>
          /\ profiles'[t.user].state = "REGISTERED"
          /\ t.seen <= users'[t.user].version
          /\ t.seen = users'[t.user].version => users'[t.user].status = t.before
    BY <1>2, <1>3, <1>4 DEF Standing, Grows
  <1>11. tx'[q] = t
    OBVIOUS
  <1>. HIDE DEF t
  <1>. QED
    BY <1>5, <1>6, <1>7, <1>8, <1>9, <1>10, <1>11 DEF Standing

\* The end of a request: what remains are the others.
LEMMA FinishStands ==
  ASSUME Inv, Grows, NEW p \in Procs, Finish(p),
         \A q \in Procs \ {p} : Undisturbed(q)
  PROVE /\ tx' \in [Procs -> Request]
        /\ RequestsStand'
        /\ OneHolder'
  <1>1. \A q \in Procs : tx'[q] = IF q = p THEN Idle ELSE tx[q]
    BY DEF Finish, Inv, TypeOK
  <1>2. tx' \in [Procs -> Request]
    BY IdleStep DEF Finish, Inv, TypeOK
  <1>3. RequestsStand'
    <2>. SUFFICES ASSUME NEW q \in Procs PROVE Standing(q)'
      BY DEF RequestsStand
    <2>1. CASE q = p
      BY <1>1, <2>1, IdleStep DEF Standing
    <2>2. CASE q # p
      BY <1>1, <2>2, StandsOn
    <2>. QED
      BY <2>1, <2>2
  <1>4. OneHolder'
    BY <1>1, IdleStep DEF Inv, OneHolder, At
  <1>. QED
    BY <1>2, <1>3, <1>4

\* A step that only moves p on.
LEMMA MoveInv ==
  ASSUME Inv, UNCHANGED <<users, identity, profiles, tokens, memberAudit, roleAudit>>,
         NEW p \in Procs, NEW k \in Request, tx' = [tx EXCEPT ![p] = k],
         Standing(p)',
         k.step = "refresh" => TokenFree(k.token, p),
         k.step = "phoneHeld" => ProfileFree(k.user, p)
  PROVE Inv'
  <1>1. \A q \in Procs : tx'[q] = IF q = p THEN k ELSE tx[q]
    BY DEF Inv, TypeOK
  <1>2. TypeOK'
    BY DEF Inv, TypeOK
  <1>3. RequestsStand'
    <2>. SUFFICES ASSUME NEW q \in Procs, q # p PROVE Standing(q)'
      BY DEF RequestsStand
    <2>1. tx'[q] = tx[q]
      BY <1>1
    <2>. QED
      BY <2>1 DEF Inv, RequestsStand, Standing
  <1>4. OneHolder'
    BY <1>1 DEF Inv, OneHolder, At, TokenFree, ProfileFree, Others
  <1>5. OneAccountPerIdentity' /\ OneLivePerLogin' /\ PhonesAgree' /\ DisabledRegistered'
    BY DEF Inv, OneAccountPerIdentity, OneLivePerLogin, PhonesAgree, DisabledRegistered
  <1>6. AuditExplains'
    BY DEF Inv, AuditExplains
  <1>. QED
    BY <1>2, <1>3, <1>4, <1>5, <1>6 DEF Inv

LEMMA FinishInv ==
  ASSUME Inv, UNCHANGED <<users, identity, profiles, tokens, memberAudit, roleAudit>>,
         NEW p \in Procs, Finish(p)
  PROVE Inv'
  <1>1. tx'[p] = Idle
    BY DEF Finish, Inv, TypeOK
  <1>2. Standing(p)'
    BY <1>1, IdleStep DEF Standing
  <1>. QED
    BY <1>2, IdleStep, MoveInv DEF Finish

\* A step that changes one account, and perhaps its profile, and ends its request.
LEMMA AccountInv ==
  ASSUME Inv, NEW p \in Procs, NEW u \in Users, NEW row \in UserRow, NEW profile \in ProfileRow,
         users[u] # NoUser,
         users' = [users EXCEPT ![u] = row],
         profiles' = [profiles EXCEPT ![u] = profile],
         UNCHANGED <<identity, tokens>>,
         Finish(p),
         row.version >= users[u].version,
         row.version = users[u].version => row.status = users[u].status,
         row.status # users[u].status => UserFree(u, p),
         row.phone = profile.phone,
         (profile.state = "REGISTERED") <=> (profile.phone # Nobody),
         profiles[u].state = "REGISTERED" => profile = profiles[u],
         profile # profiles[u] => ProfileFree(u, p),
         row.status = "DISABLED" => profile.state = "REGISTERED",
         memberAudit' \in [Users -> Seq(Change(Statuses))],
         roleAudit' \in [Users -> Seq(Change(Roles))],
         \A v \in Users : v # u => memberAudit'[v] = memberAudit[v] /\ roleAudit'[v] = roleAudit[v],
         Explains(memberAudit'[u], "ACTIVE", row.status),
         Explains(roleAudit'[u], "MEMBER", row.role)
  PROVE Inv'
  <1>1. \A v \in Users : users'[v] = IF v = u THEN row ELSE users[v]
    BY DEF Inv, TypeOK
  <1>2. \A v \in Users : profiles'[v] = IF v = u THEN profile ELSE profiles[v]
    BY DEF Inv, TypeOK
  <1>3. row # NoUser /\ profile # NoProfile /\ profiles[u] # NoProfile
    BY ExistingUser DEF UserRow, NoUser, Statuses, ProfileRow, NoProfile
  <1>4. \A v \in Users : users[v].version \in Nat
    BY UserFields DEF Inv, TypeOK
  <1>5. row.version \in Nat
    BY UserFields
  <1>6. Grows
    BY <1>1, <1>2, <1>3, <1>4, <1>5 DEF Grows
  <1>7. ASSUME NEW q \in Procs \ {p} PROVE Undisturbed(q)
    <2>. DEFINE t == tx[q]
    <2>1. t.step = "refresh" => t.user \in Users
      BY RequestFields DEF Inv, TypeOK
    <2>2. t.step = "phoneHeld" => t.user \in Users
      BY RequestFields DEF Inv, TypeOK
    <2>3. t.step = "refresh" => users'[t.user].status = users[t.user].status
      BY <1>1, <2>1 DEF UserFree, Others
    <2>4. t.step = "phoneHeld" => profiles'[t.user] = profiles[t.user]
      BY <1>2, <2>2 DEF ProfileFree, Others
    <2>. QED
      BY <2>3, <2>4 DEF Undisturbed
  <1>8. tx' \in [Procs -> Request] /\ RequestsStand' /\ OneHolder'
    BY <1>6, <1>7, FinishStands
  <1>9. TypeOK'
    BY <1>8 DEF Inv, TypeOK
  <1>10. OneAccountPerIdentity'
    BY <1>1, <1>2, <1>3 DEF Inv, OneAccountPerIdentity
  <1>11. OneLivePerLogin'
    BY DEF Inv, OneLivePerLogin
  <1>12. PhonesAgree'
    BY <1>1, <1>2 DEF Inv, PhonesAgree
  <1>13. AuditExplains'
    <2>. SUFFICES ASSUME NEW v \in Users
                  PROVE IF users'[v] = NoUser
                        THEN memberAudit'[v] = <<>> /\ roleAudit'[v] = <<>>
                        ELSE /\ Explains(memberAudit'[v], "ACTIVE", users'[v].status)
                             /\ Explains(roleAudit'[v], "MEMBER", users'[v].role)
      BY DEF AuditExplains
    <2>1. CASE v = u
      <3>1. users'[v] = row
        BY <1>1, <2>1
      <3>. QED
        BY <1>3, <2>1, <3>1
    <2>2. CASE v # u
      <3>1. users'[v] = users[v] /\ memberAudit'[v] = memberAudit[v] /\ roleAudit'[v] = roleAudit[v]
        BY <1>1, <2>2
      <3>. QED
        BY <3>1 DEF Inv, AuditExplains
    <2>. QED
      BY <2>1, <2>2
  <1>14. DisabledRegistered'
    BY <1>1, <1>2 DEF Inv, DisabledRegistered
  <1>. QED
    BY <1>8, <1>9, <1>10, <1>11, <1>12, <1>13, <1>14 DEF Inv

\* A step that changes tokens only.
LEMMA TokenInv ==
  ASSUME Inv, UNCHANGED <<users, identity, profiles, memberAudit, roleAudit>>,
         tokens' \in [Tokens -> TokenRow \cup {NoToken}],
         tx' \in [Procs -> Request], OneLivePerLogin', RequestsStand', OneHolder'
  PROVE Inv'
  <1>1. TypeOK'
    BY DEF Inv, TypeOK
  <1>2. OneAccountPerIdentity' /\ PhonesAgree' /\ DisabledRegistered'
    BY DEF Inv, OneAccountPerIdentity, PhonesAgree, DisabledRegistered
  <1>3. AuditExplains'
    BY DEF Inv, AuditExplains
  <1>. QED
    BY <1>1, <1>2, <1>3 DEF Inv

\* Nothing of an account changes.
LEMMA NoGrowth == ASSUME Inv, UNCHANGED <<users, profiles>> PROVE Grows
  BY UserFields DEF Grows, Inv, TypeOK

LEMMA UnusedIsUnused ==
  /\ UnusedTokens # {} => NextToken \in Tokens /\ tokens[NextToken] = NoToken
  /\ UnusedUsers # {} => NextUser \in Users /\ users[NextUser] = NoUser
  <1>1. UnusedTokens # {} => NextToken \in UnusedTokens
    BY DEF NextToken
  <1>2. UnusedUsers # {} => NextUser \in UnusedUsers
    BY DEF NextUser
  <1>. QED
    BY <1>1, <1>2 DEF UnusedTokens, UnusedUsers

LEMMA LiveTokenType == \A u \in Users : LiveToken(u) \in TokenRow
  BY DEF LiveToken, TokenRow

\* A new token, which nobody's successor can be, leaves the chains as they are.
LEMMA NewTokenChains ==
  ASSUME Inv, NEW n \in Tokens, tokens[n] = NoToken, NEW u \in Users,
         tokens' = [tokens EXCEPT ![n] = LiveToken(u)]
  PROVE OneLivePerLogin'
  <1>1. \A t \in Tokens : tokens'[t] = IF t = n THEN LiveToken(u) ELSE tokens[t]
    BY DEF Inv, TypeOK
  <1>2. LiveToken(u).next = Nobody
    BY DEF LiveToken
  <1>3. \A t \in Tokens : tokens[t] \in TokenRow \cup {NoToken}
    BY DEF Inv, TypeOK
  <1>4. \A t \in Tokens : tokens[t].next # Nobody => tokens[t].next \in Tokens /\ tokens[t].next # n
    <2>. SUFFICES ASSUME NEW t \in Tokens, tokens[t].next # Nobody, tokens[t].next = n PROVE FALSE
      BY <1>3, TokenFields
    <2>1. tokens[n].user = tokens[t].user /\ tokens[n].user = Nobody
      BY <1>3, TokenFields DEF Inv, OneLivePerLogin
    <2>2. tokens[t].user \in Users
      BY <1>3, TokenFields
    <2>. QED
      BY <2>1, <2>2, NullAssumption
  <1>. QED
    BY <1>1, <1>2, <1>4 DEF Inv, OneLivePerLogin

-----------------------------------------------------------------------------
(* Sessions *)

LEMMA LoginInv ==
  ASSUME Inv, NEW p \in Procs, NEW w \in OpenIDs, Login(p, w) PROVE Inv'
  <1>. DEFINE u == identity[w]
              n == NextToken
  <1>1. u \in Users
    BY DEF Login, Inv, TypeOK
  <1>2. n \in Tokens /\ tokens[n] = NoToken
    BY UnusedIsUnused DEF Login, RoomForToken
  <1>3. tokens' = [tokens EXCEPT ![n] = LiveToken(u)]
        /\ UNCHANGED <<users, identity, profiles, memberAudit, roleAudit, tx>>
    BY DEF Login
  <1>. HIDE DEF u, n
  <1>4. OneLivePerLogin'
    BY <1>1, <1>2, <1>3, NewTokenChains
  <1>5. tokens' \in [Tokens -> TokenRow \cup {NoToken}]
    BY <1>1, <1>3, LiveTokenType DEF Inv, TypeOK
  <1>6. RequestsStand'
    <2>. SUFFICES ASSUME NEW q \in Procs PROVE Standing(q)'
      BY DEF RequestsStand
    <2>1. tx[q].step = "refresh" => tx[q].token \in Tokens /\ tx[q].token # n
      BY <1>2, RequestFields, TokenFields DEF Inv, TypeOK, RequestsStand, Standing, NoToken
    <2>2. Undisturbed(q)
      BY <1>2, <1>3, <2>1 DEF Undisturbed, Inv, TypeOK
    <2>. QED
      BY <1>3, <2>2, NoGrowth, StandsOn
  <1>7. OneHolder'
    BY <1>3 DEF Inv, OneHolder, At
  <1>. QED
    BY <1>3, <1>4, <1>5, <1>6, <1>7, TokenInv DEF Inv, TypeOK

LEMMA LoginMissInv ==
  ASSUME Inv, NEW p \in Procs, NEW w \in OpenIDs, LoginMiss(p, w) PROVE Inv'
  <1>. DEFINE k == [step |-> "newcomer", who |-> w]
  <1>1. k \in Request /\ k.step = "newcomer"
    BY DEF Request
  <1>2. tx'[p] = k
    BY DEF LoginMiss, Begin, Inv, TypeOK
  <1>3. Standing(p)'
    BY <1>2 DEF LoginMiss, Standing
  <1>. QED
    BY <1>1, <1>3, MoveInv DEF LoginMiss, Begin

LEMMA LoginCreateInv == ASSUME Inv, NEW p \in Procs, LoginCreate(p) PROVE Inv'
  <1>. DEFINE u == NextUser
              n == NextToken
              w == tx[p].who
              profile == [state |-> "OPEN", phone |-> Nobody]
  <1>1. u \in Users /\ users[u] = NoUser /\ n \in Tokens /\ tokens[n] = NoToken
    BY UnusedIsUnused DEF LoginCreate
  <1>2. w \in OpenIDs /\ identity[w] = Nobody
    BY RequestFields DEF LoginCreate, At, Inv, TypeOK, RequestsStand, Standing
  <1>3. /\ users' = [users EXCEPT ![u] = NewUser]
        /\ identity' = [identity EXCEPT ![w] = u]
        /\ profiles' = [profiles EXCEPT ![u] = profile]
        /\ tokens' = [tokens EXCEPT ![n] = LiveToken(u)]
        /\ Finish(p) /\ GapFree(w, p) /\ UNCHANGED <<memberAudit, roleAudit>>
    BY DEF LoginCreate
  <1>4. NewUser \in UserRow /\ NewUser # NoUser /\ NewUser.phone = Nobody
        /\ NewUser.status = "ACTIVE" /\ NewUser.role = "MEMBER"
    BY DEF NewUser, UserRow, NoUser, Statuses, Roles
  <1>5. profile \in ProfileRow /\ profile # NoProfile /\ profile.phone = Nobody
        /\ profile.state # "REGISTERED"
    BY DEF ProfileRow, NoProfile
  <1>. HIDE DEF u, n, w, profile
  <1>6. \A v \in Users : /\ users'[v] = IF v = u THEN NewUser ELSE users[v]
                         /\ profiles'[v] = IF v = u THEN profile ELSE profiles[v]
    BY <1>3 DEF Inv, TypeOK
  <1>7. \A x \in OpenIDs : identity'[x] = IF x = w THEN u ELSE identity[x]
    BY <1>3 DEF Inv, TypeOK
  <1>8. profiles[u] = NoProfile /\ profiles[u].state = "NONE"
    BY <1>1, ExistingUser DEF NoProfile
  <1>9. Grows
    <2>1. \A v \in Users : users[v].version \in Nat
      BY UserFields DEF Inv, TypeOK
    <2>2. \A v \in Users : users[v] # NoUser => users'[v] = users[v]
      BY <1>1, <1>6
    <2>3. \A v \in Users : profiles[v].state = "REGISTERED" => profiles'[v] = profiles[v]
      BY <1>6, <1>8
    <2>. QED
      BY <2>1, <2>2, <2>3 DEF Grows
  <1>10. ASSUME NEW q \in Procs \ {p} PROVE Undisturbed(q)
    <2>. DEFINE t == tx[q]
    <2>1. t \in Request /\ Standing(q)
      BY DEF Inv, TypeOK, RequestsStand
    <2>2. t.step = "newcomer" => identity'[t.who] = identity[t.who]
      BY <1>3, <1>7, <2>1, RequestFields DEF GapFree, Others
    <2>3. t.step \in {"refresh", "phoneHeld"} => t.user \in Users /\ t.user # u
      BY <1>1, <2>1, RequestFields DEF Standing
    <2>4. t.step = "refresh" => t.token \in Tokens /\ t.token # n
      BY <1>1, <2>1, RequestFields DEF Standing, NoToken
    <2>5. t.step = "refresh" => tokens'[t.token] = tokens[t.token]
      BY <1>3, <2>4 DEF Inv, TypeOK
    <2>. QED
      BY <1>6, <2>2, <2>3, <2>5 DEF Undisturbed
  <1>11. tx' \in [Procs -> Request] /\ RequestsStand' /\ OneHolder'
    BY <1>3, <1>9, <1>10, FinishStands
  <1>12. TypeOK'
    <2>1. users' \in [Users -> UserRow \cup {NoUser}]
      BY <1>3, <1>4 DEF Inv, TypeOK
    <2>2. identity' \in [OpenIDs -> Users \cup {Nobody}]
      BY <1>1, <1>3 DEF Inv, TypeOK
    <2>3. profiles' \in [Users -> ProfileRow \cup {NoProfile}]
      BY <1>3, <1>5 DEF Inv, TypeOK
    <2>4. tokens' \in [Tokens -> TokenRow \cup {NoToken}]
      BY <1>1, <1>3, LiveTokenType DEF Inv, TypeOK
    <2>. QED
      BY <1>3, <1>11, <2>1, <2>2, <2>3, <2>4 DEF Inv, TypeOK
  <1>13. OneAccountPerIdentity'
    <2>1. \A x \in OpenIDs : identity[x] # u
      BY <1>1 DEF Inv, OneAccountPerIdentity
    <2>. SUFFICES ASSUME NEW v \in Users
                  PROVE LET owners == {x \in OpenIDs : identity'[x] = v} IN
                        /\ (users'[v] = NoUser) <=> (owners = {})
                        /\ (users'[v] = NoUser) <=> (profiles'[v] = NoProfile)
                        /\ \A w1, w2 \in owners : w1 = w2
      BY DEF OneAccountPerIdentity
    <2>2. CASE v = u
      BY <1>2, <1>4, <1>5, <1>6, <1>7, <2>1, <2>2
    <2>3. CASE v # u
      <3>1. \A x \in OpenIDs : (identity'[x] = v) <=> (identity[x] = v)
        BY <1>2, <1>7, <2>3, NullAssumption
      <3>2. users'[v] = users[v] /\ profiles'[v] = profiles[v]
        BY <1>6, <2>3
      <3>. QED
        BY <3>1, <3>2 DEF Inv, OneAccountPerIdentity
    <2>. QED
      BY <2>2, <2>3
  <1>14. OneLivePerLogin'
    BY <1>1, <1>3, NewTokenChains
  <1>15. PhonesAgree'
    BY <1>4, <1>5, <1>6 DEF Inv, PhonesAgree
  <1>16. AuditExplains'
    <2>. SUFFICES ASSUME NEW v \in Users
                  PROVE IF users'[v] = NoUser
                        THEN memberAudit[v] = <<>> /\ roleAudit[v] = <<>>
                        ELSE /\ Explains(memberAudit[v], "ACTIVE", users'[v].status)
                             /\ Explains(roleAudit[v], "MEMBER", users'[v].role)
      BY <1>3 DEF AuditExplains
    <2>1. CASE v = u
      <3>1. memberAudit[v] = <<>> /\ roleAudit[v] = <<>>
        BY <1>1, <2>1 DEF Inv, AuditExplains
      <3>2. Explains(memberAudit[v], "ACTIVE", "ACTIVE") /\ Explains(roleAudit[v], "MEMBER", "MEMBER")
        BY <3>1 DEF Explains
      <3>3. users'[v] = NewUser
        BY <1>6, <2>1
      <3>. QED
        BY <1>4, <3>2, <3>3
    <2>2. CASE v # u
      <3>1. users'[v] = users[v]
        BY <1>6, <2>2
      <3>. QED
        BY <3>1 DEF Inv, AuditExplains
    <2>. QED
      BY <2>1, <2>2
  <1>17. DisabledRegistered'
    BY <1>4, <1>6 DEF Inv, DisabledRegistered
  <1>. QED
    BY <1>11, <1>12, <1>13, <1>14, <1>15, <1>16, <1>17 DEF Inv

LEMMA RefreshReadInv ==
  ASSUME Inv, NEW p \in Procs, NEW t \in Tokens, RefreshRead(p, t) PROVE Inv'
  <1>. DEFINE u == tokens[t].user
              k == [step |-> "refresh", user |-> u, token |-> t]
  <1>1. tokens[t] # NoToken /\ u \in Users
    BY TokenFields DEF RefreshRead, NoToken, Inv, TypeOK
  <1>2. k \in Request /\ k.step = "refresh" /\ k.token = t /\ k.user = u
    BY <1>1 DEF Request
  <1>3. tx'[p] = k
    BY DEF RefreshRead, Begin, Inv, TypeOK
  <1>4. users[u] # NoUser
    BY <1>1, ExistingUser DEF RefreshRead, Statuses
  <1>5. Standing(p)'
    BY <1>2, <1>3, <1>4 DEF RefreshRead, Standing
  <1>6. tx' = [tx EXCEPT ![p] = k] /\ TokenFree(t, p)
        /\ UNCHANGED <<users, identity, profiles, tokens, memberAudit, roleAudit>>
    BY DEF RefreshRead, Begin
  <1>. HIDE DEF k
  <1>. QED
    BY <1>2, <1>5, <1>6, MoveInv

\* A token is revoked, or runs out, without a successor.
LEMMA EndTokenChains ==
  ASSUME Inv, NEW t \in Tokens, NEW ended \in TokenRow,
         tokens[t].state # "REVOKED", ended.user = tokens[t].user, ended.next = Nobody,
         tokens' = [tokens EXCEPT ![t] = ended]
  PROVE OneLivePerLogin'
  <1>1. \A s \in Tokens : tokens'[s] = IF s = t THEN ended ELSE tokens[s]
    BY DEF Inv, TypeOK
  <1>2. \A s \in Tokens : tokens'[s].user = tokens[s].user
    BY <1>1
  <1>3. \A s \in Tokens : tokens[s].next \in Tokens \cup {Nobody}
    BY TokenFields DEF Inv, TypeOK
  <1>4. \A s \in Tokens : tokens'[s].next # Nobody => s # t /\ tokens'[s] = tokens[s]
    BY <1>1
  <1>. SUFFICES ASSUME NEW s \in Tokens, tokens'[s].next # Nobody
                PROVE /\ tokens'[s].state = "REVOKED"
                      /\ tokens'[tokens'[s].next].user = tokens'[s].user
                      /\ \A r \in Tokens : tokens'[r].next = tokens'[s].next => r = s
    BY DEF OneLivePerLogin
  <1>5. tokens'[s] = tokens[s] /\ tokens[s].next \in Tokens
    BY <1>3, <1>4
  <1>6. tokens'[tokens[s].next].user = tokens[s].user
    BY <1>2, <1>5 DEF Inv, OneLivePerLogin
  <1>. QED
    BY <1>4, <1>5, <1>6 DEF Inv, OneLivePerLogin

\* A revoked token gets a new successor.
LEMMA SuccessorChains ==
  ASSUME Inv, NEW t \in Tokens, NEW n \in Tokens, NEW u \in Users,
         tokens[t].state \in {"LIVE", "LAPSED"}, tokens[t].user = u, tokens[n] = NoToken,
         tokens' = [tokens EXCEPT ![n] = LiveToken(u),
                                  ![t] = [state |-> "REVOKED", user |-> u, next |-> n]]
  PROVE OneLivePerLogin'
  <1>1. n # t
    BY DEF NoToken
  <1>2. /\ tokens'[n] = LiveToken(u)
        /\ tokens'[t] = [state |-> "REVOKED", user |-> u, next |-> n]
        /\ \A s \in Tokens \ {n, t} : tokens'[s] = tokens[s]
    BY <1>1 DEF Inv, TypeOK
  <1>3. LiveToken(u).next = Nobody /\ LiveToken(u).user = u
    BY DEF LiveToken
  <1>4. \A s \in Tokens : tokens[s].next \in Tokens \cup {Nobody}
    BY TokenFields DEF Inv, TypeOK
  <1>5. ASSUME NEW s \in Tokens PROVE tokens[s].next # n
    <2>. SUFFICES ASSUME tokens[s].next = n PROVE FALSE
      OBVIOUS
    <2>1. n # Nobody
      BY NullAssumption
    <2>2. tokens[n].user = tokens[s].user /\ tokens[n].user = Nobody /\ tokens[s].state = "REVOKED"
      BY <2>1 DEF Inv, OneLivePerLogin, NoToken
    <2>3. tokens[s].user \in Users
      BY <2>2, TokenFields DEF Inv, TypeOK, NoToken
    <2>. QED
      BY <2>2, <2>3, NullAssumption
  <1>6. \A s \in Tokens \ {t} : tokens'[s].next # Nobody => s # n /\ tokens'[s] = tokens[s]
    BY <1>2, <1>3
  <1>7. \A s \in Tokens : tokens[s].next # Nobody => tokens[s].next # n
    BY <1>5
  <1>8. tokens'[t].user = u /\ tokens'[t].next = n /\ tokens'[t].state = "REVOKED"
    BY <1>2
  <1>9. ASSUME NEW s \in Tokens \ {n} PROVE tokens'[s].user = tokens[s].user
    BY <1>2, <1>8
  <1>. SUFFICES ASSUME NEW s \in Tokens, tokens'[s].next # Nobody
                PROVE /\ tokens'[s].state = "REVOKED"
                      /\ tokens'[tokens'[s].next].user = tokens'[s].user
                      /\ \A r \in Tokens : tokens'[r].next = tokens'[s].next => r = s
    BY DEF OneLivePerLogin
  <1>10. CASE s = t
    <2>1. ASSUME NEW r \in Tokens, tokens'[r].next = n PROVE r = t
      <3>1. tokens'[r].next # Nobody
        BY <2>1, NullAssumption
      <3>. QED
        BY <1>5, <1>6, <2>1, <3>1
    <2>2. tokens'[n].user = u
      BY <1>2, <1>3
    <2>3. tokens'[s].state = "REVOKED" /\ tokens'[s].user = u /\ tokens'[s].next = n
      BY <1>8, <1>10
    <2>. QED
      BY <1>10, <2>1, <2>2, <2>3
  <1>11. CASE s # t
    <2>1. s # n /\ tokens'[s] = tokens[s]
      BY <1>6, <1>11
    <2>2. tokens[s].next \in Tokens \ {n}
      BY <1>4, <1>5, <2>1
    <2>3. tokens[s].next # Nobody
      BY <2>1
    <2>4. /\ tokens[s].state = "REVOKED"
          /\ tokens[tokens[s].next].user = tokens[s].user
          /\ \A r \in Tokens : tokens[r].next = tokens[s].next => r = s
      BY <2>3 DEF Inv, OneLivePerLogin
    <2>5. tokens'[tokens[s].next].user = tokens[s].user
      BY <1>9, <2>2, <2>4
    <2>6. ASSUME NEW r \in Tokens, tokens'[r].next = tokens[s].next PROVE r = s
      <3>1. r # t
        BY <1>8, <2>2, <2>6
      <3>2. tokens'[r] = tokens[r]
        BY <1>6, <2>3, <2>6, <3>1
      <3>. QED
        BY <2>4, <2>6, <3>2
    <2>. QED
      BY <2>1, <2>4, <2>5, <2>6
  <1>. QED
    BY <1>10, <1>11

LEMMA RefreshWriteInv == ASSUME Inv, NEW p \in Procs, RefreshWrite(p) PROVE Inv'
  <1>. DEFINE t == tx[p].token
              u == tx[p].user
              n == NextToken
              revoked == [state |-> "REVOKED", user |-> u, next |-> n]
  <1>1. n \in Tokens /\ tokens[n] = NoToken
    BY UnusedIsUnused DEF RefreshWrite
  <1>2. t \in Tokens /\ u \in Users
    BY RequestFields DEF RefreshWrite, At, Inv, TypeOK
  <1>3. tokens[t].state \in {"LIVE", "LAPSED"} /\ tokens[t].user = u
    BY DEF RefreshWrite, At, Inv, RequestsStand, Standing
  <1>4. tokens' = [tokens EXCEPT ![n] = LiveToken(u), ![t] = revoked]
    BY <1>3 DEF RefreshWrite
  <1>5. Finish(p) /\ UNCHANGED <<users, identity, profiles, memberAudit, roleAudit>> /\ At(p, "refresh")
    BY DEF RefreshWrite
  <1>6. revoked \in TokenRow
    BY <1>1, <1>2 DEF TokenRow
  <1>7. OneLivePerLogin'
    BY <1>1, <1>2, <1>3, <1>4, SuccessorChains
  <1>8. ASSUME NEW q \in Procs \ {p} PROVE Undisturbed(q)
    <2>1. tx[q] \in Request /\ Standing(q)
      BY DEF Inv, TypeOK, RequestsStand
    <2>2. tx[q].step = "refresh" => /\ tx[q].token \in Tokens /\ tx[q].token # n
                                    /\ tx[q].token # t
      BY <1>1, <1>5, <2>1, RequestFields DEF Standing, NoToken, Inv, OneHolder, At
    <2>3. tx[q].step = "refresh" => tokens'[tx[q].token] = tokens[tx[q].token]
      BY <1>4, <2>2 DEF Inv, TypeOK
    <2>. QED
      BY <1>5, <2>3 DEF Undisturbed
  <1>. HIDE DEF t, u, n, revoked
  <1>9. tokens' \in [Tokens -> TokenRow \cup {NoToken}]
    BY <1>2, <1>4, <1>6, LiveTokenType DEF Inv, TypeOK
  <1>. QED
    BY <1>5, <1>7, <1>8, <1>9, NoGrowth, FinishStands, TokenInv

\* A token ends while no refresh holds it, or merely runs out.
LEMMA EndTokenInv ==
  ASSUME Inv, NEW t \in Tokens, NEW state \in {"LAPSED", "REVOKED"},
         tokens[t] # NoToken, tokens[t].state # "REVOKED",
         tokens' = [tokens EXCEPT ![t] = [state |-> state, user |-> tokens[t].user, next |-> Nobody]],
         UNCHANGED <<users, identity, profiles, memberAudit, roleAudit, tx>>,
         state = "REVOKED" => \A q \in Procs : tx[q].step = "refresh" => tx[q].token # t
  PROVE Inv'
  <1>. DEFINE ended == [state |-> state, user |-> tokens[t].user, next |-> Nobody]
  <1>1. ended \in TokenRow
    BY TokenFields DEF TokenRow, Inv, TypeOK
  <1>2. ended.user = tokens[t].user /\ ended.next = Nobody /\ ended.state = state
    OBVIOUS
  <1>. HIDE DEF ended
  <1>3. tokens' = [tokens EXCEPT ![t] = ended]
    BY DEF ended
  <1>4. OneLivePerLogin'
    BY <1>1, <1>2, <1>3, EndTokenChains
  <1>5. tokens' \in [Tokens -> TokenRow \cup {NoToken}]
    BY <1>1, <1>3 DEF Inv, TypeOK
  <1>6. RequestsStand'
    <2>. SUFFICES ASSUME NEW q \in Procs PROVE Standing(q)'
      BY DEF RequestsStand
    <2>1. tx[q].step = "refresh" => tx[q].token \in Tokens
      BY RequestFields DEF Inv, TypeOK
    <2>2. Undisturbed(q)
      BY <1>2, <1>3, <2>1 DEF Undisturbed, Inv, TypeOK
    <2>. QED
      BY <2>2, NoGrowth, StandsOn
  <1>7. OneHolder'
    BY DEF Inv, OneHolder, At
  <1>8. tx' \in [Procs -> Request]
    BY DEF Inv, TypeOK
  <1>. QED
    BY <1>4, <1>5, <1>6, <1>7, <1>8, TokenInv

LEMMA LogoutInv == ASSUME Inv, NEW p \in Procs, NEW t \in Tokens, Logout(p, t) PROVE Inv'
  <1>1. tokens[t] # NoToken /\ TokenFree(t, p) /\ tx[p] = Idle
        /\ UNCHANGED <<users, identity, profiles, memberAudit, roleAudit, tx>>
    BY DEF Logout
  <1>2. CASE tokens[t].state = "REVOKED"
    <2>1. tokens' = tokens
      BY <1>2 DEF Logout
    <2>2. tx' = [tx EXCEPT ![p] = Idle]
      BY <1>1 DEF Inv, TypeOK
    <2>. QED
      BY <1>1, <2>1, <2>2, FinishInv DEF Finish
  <1>3. CASE tokens[t].state # "REVOKED"
    <2>1. tokens' = [tokens EXCEPT ![t] = [state |-> "REVOKED", user |-> tokens[t].user, next |-> Nobody]]
      BY <1>3 DEF Logout
    <2>2. ASSUME NEW q \in Procs, tx[q].step = "refresh" PROVE tx[q].token # t
      <3>1. q # p
        BY <1>1, <2>2, IdleStep
      <3>. QED
        BY <1>1, <2>2, <3>1 DEF TokenFree, Others
    <2>. QED
      BY <1>1, <1>3, <2>1, <2>2, EndTokenInv
  <1>. QED
    BY <1>2, <1>3

LEMMA TokenLapseInv == ASSUME Inv, NEW t \in Tokens, TokenLapse(t) PROVE Inv'
  <1>1. tokens[t] # NoToken /\ tokens[t].state # "REVOKED"
    BY DEF TokenLapse, NoToken
  <1>. QED
    BY <1>1, EndTokenInv DEF TokenLapse

-----------------------------------------------------------------------------
(* The member's own edits *)

LEMMA RenameInv ==
  ASSUME Inv, NEW p \in Procs, NEW u \in Users, NEW v \in Versions, NEW n \in Names, Rename(p, u, v, n)
  PROVE Inv'
  <1>. DEFINE k == [step |-> "rename", user |-> u, seen |-> v, name |-> n]
  <1>1. k \in Request /\ k.step = "rename" /\ k.user = u /\ k.seen = v
    BY DEF Request
  <1>2. tx' = [tx EXCEPT ![p] = k] /\ users[u].status = "ACTIVE" /\ v <= users[u].version
        /\ UNCHANGED <<users, identity, profiles, tokens, memberAudit, roleAudit>>
    BY DEF Rename, Begin, Authenticated, Loaded
  <1>3. users[u] # NoUser
    BY <1>2 DEF NoUser
  <1>. HIDE DEF k
  <1>4. tx'[p] = k
    BY <1>2 DEF Inv, TypeOK
  <1>5. Standing(p)'
    BY <1>1, <1>2, <1>3, <1>4 DEF Standing
  <1>. QED
    BY <1>1, <1>2, <1>5, MoveInv

LEMMA RenameWriteInv == ASSUME Inv, NEW p \in Procs, RenameWrite(p) PROVE Inv'
  <1>. DEFINE u == tx[p].user
              old == users[u]
              row == [status |-> old.status, role |-> old.role, version |-> old.version + 1,
                      name |-> tx[p].name, phone |-> old.phone]
  <1>1. CASE old.version = tx[p].seen
    <2>1. u \in Users /\ tx[p].name \in Names /\ old # NoUser
      BY RequestFields DEF RenameWrite, At, Inv, TypeOK, RequestsStand, Standing
    <2>2. old \in UserRow /\ profiles[u] \in ProfileRow
      BY <2>1, ExistingUser
    <2>3. /\ old.version \in Nat \ {0} /\ old.status \in Statuses /\ old.role \in Roles
          /\ old.phone \in Phones \cup {Nobody}
      BY <2>1, <2>2, UserFields
    <2>4. row \in UserRow
      BY <2>1, <2>3 DEF UserRow
    <2>5. users' = [users EXCEPT ![u] = row] /\ profiles' = [profiles EXCEPT ![u] = profiles[u]]
          /\ UNCHANGED <<identity, tokens, memberAudit, roleAudit>> /\ Finish(p)
      BY <1>1 DEF RenameWrite, Inv, TypeOK
    <2>6. /\ row.version > old.version /\ row.status = old.status /\ row.role = old.role
          /\ row.phone = old.phone /\ row.version >= old.version /\ row.version # old.version
      BY <2>3
    <2>7. /\ old.phone = profiles[u].phone
          /\ (profiles[u].state = "REGISTERED") <=> (profiles[u].phone # Nobody)
          /\ old.status = "DISABLED" => profiles[u].state = "REGISTERED"
          /\ Explains(memberAudit[u], "ACTIVE", old.status)
          /\ Explains(roleAudit[u], "MEMBER", old.role)
      BY <2>1 DEF Inv, PhonesAgree, DisabledRegistered, AuditExplains
    <2>8. memberAudit \in [Users -> Seq(Change(Statuses))] /\ roleAudit \in [Users -> Seq(Change(Roles))]
      BY DEF Inv, TypeOK
    <2>. HIDE DEF u, row
    <2>. QED
      BY <2>1, <2>2, <2>4, <2>5, <2>6, <2>7, <2>8, AccountInv
  <1>2. CASE old.version # tx[p].seen
    BY <1>2, FinishInv DEF RenameWrite
  <1>. QED
    BY <1>1, <1>2

LEMMA RegisterPhoneInv ==
  ASSUME Inv, NEW p \in Procs, NEW u \in Users, NEW f \in Phones, RegisterPhone(p, u, f)
  PROVE Inv'
  <1>. DEFINE k == [step |-> "phone", user |-> u, phone |-> f]
  <1>1. k \in Request /\ k.step = "phone" /\ k.user = u
    BY DEF Request
  <1>2. tx' = [tx EXCEPT ![p] = k] /\ users[u].status = "ACTIVE"
        /\ UNCHANGED <<users, identity, profiles, tokens, memberAudit, roleAudit>>
    BY DEF RegisterPhone, Begin, Authenticated
  <1>3. users[u] # NoUser
    BY <1>2 DEF NoUser
  <1>. HIDE DEF k
  <1>4. tx'[p] = k
    BY <1>2 DEF Inv, TypeOK
  <1>5. Standing(p)'
    BY <1>1, <1>2, <1>3, <1>4 DEF Standing
  <1>. QED
    BY <1>1, <1>2, <1>5, MoveInv

LEMMA PhoneLockInv == ASSUME Inv, NEW p \in Procs, PhoneLock(p) PROVE Inv'
  <1>. DEFINE u == tx[p].user
              k == [step |-> "phoneHeld", user |-> u, phone |-> tx[p].phone]
  <1>1. u \in Users /\ tx[p].phone \in Phones /\ users[u] # NoUser
    BY RequestFields DEF PhoneLock, At, Inv, TypeOK, RequestsStand, Standing
  <1>2. ProfileFree(u, p) /\ UNCHANGED <<users, identity, profiles, tokens, memberAudit, roleAudit>>
    BY DEF PhoneLock
  <1>3. CASE profiles[u].state = "REGISTERED"
    BY <1>2, <1>3, FinishInv DEF PhoneLock
  <1>4. CASE profiles[u].state # "REGISTERED"
    <2>1. k \in Request /\ k.step = "phoneHeld" /\ k.user = u
      BY <1>1 DEF Request
    <2>2. tx' = [tx EXCEPT ![p] = k]
      BY <1>4 DEF PhoneLock
    <2>. HIDE DEF k, u
    <2>3. tx'[p] = k
      BY <2>2 DEF Inv, TypeOK
    <2>4. Standing(p)'
      BY <1>1, <1>2, <1>4, <2>1, <2>3 DEF Standing
    <2>. QED
      BY <1>2, <2>1, <2>2, <2>4, MoveInv
  <1>. QED
    BY <1>3, <1>4

LEMMA PhoneWriteInv == ASSUME Inv, NEW p \in Procs, PhoneWrite(p) PROVE Inv'
  <1>. DEFINE u == tx[p].user
              f == tx[p].phone
              old == users[u]
              row == [status |-> old.status, role |-> old.role, version |-> old.version,
                      name |-> old.name, phone |-> f]
              profile == [state |-> "REGISTERED", phone |-> f]
  <1>1. u \in Users /\ f \in Phones /\ old # NoUser /\ profiles[u].state # "REGISTERED"
    BY RequestFields DEF PhoneWrite, At, Inv, TypeOK, RequestsStand, Standing
  <1>2. old \in UserRow
    BY <1>1, ExistingUser
  <1>3. /\ old.version \in Nat \ {0} /\ old.status \in Statuses /\ old.role \in Roles
        /\ old.name \in Names \cup {Nobody}
    BY <1>1, <1>2, UserFields
  <1>4. row \in UserRow /\ profile \in ProfileRow
    BY <1>1, <1>3 DEF UserRow, ProfileRow
  <1>5. users' = [users EXCEPT ![u] = row] /\ profiles' = [profiles EXCEPT ![u] = profile]
        /\ UNCHANGED <<identity, tokens, memberAudit, roleAudit>> /\ Finish(p)
    BY DEF PhoneWrite
  <1>6. row.version >= old.version /\ row.status = old.status /\ row.role = old.role /\ row.phone = f
    BY <1>3
  <1>7. profile.state = "REGISTERED" /\ profile.phone = f /\ f # Nobody
    BY <1>1, NullAssumption
  <1>8. Explains(memberAudit[u], "ACTIVE", old.status) /\ Explains(roleAudit[u], "MEMBER", old.role)
    BY <1>1 DEF Inv, AuditExplains
  <1>9. ProfileFree(u, p)
    BY DEF ProfileFree, Others, PhoneWrite, At, Inv, OneHolder
  <1>10. memberAudit \in [Users -> Seq(Change(Statuses))] /\ roleAudit \in [Users -> Seq(Change(Roles))]
    BY DEF Inv, TypeOK
  <1>. HIDE DEF u, f, row, profile
  <1>. QED
    BY <1>1, <1>4, <1>5, <1>6, <1>7, <1>8, <1>9, <1>10, AccountInv

-----------------------------------------------------------------------------
(* The administrator's pages *)

LEMMA EditInv ==
  ASSUME Inv, NEW p \in Procs, NEW u \in Users, NEW v \in Versions, NEW s \in Statuses, Edit(p, u, v, s)
  PROVE Inv'
  <1>. DEFINE k == [step |-> "edit", user |-> u, seen |-> v, before |-> users[u].status, status |-> s]
  <1>1. /\ tx' = [tx EXCEPT ![p] = k] /\ v <= users[u].version /\ profiles[u].state = "REGISTERED"
        /\ UNCHANGED <<users, identity, profiles, tokens, memberAudit, roleAudit>>
    BY DEF Edit, Begin, Listed, Loaded
  <1>2. users[u] # NoUser
    BY <1>1, ExistingUser
  <1>3. users[u].status \in Statuses
    BY <1>2, ExistingUser, UserFields
  <1>4. k \in Request /\ k.step = "edit" /\ k.user = u /\ k.seen = v /\ k.before = users[u].status
    BY <1>3 DEF Request
  <1>. HIDE DEF k
  <1>5. tx'[p] = k
    BY <1>1 DEF Inv, TypeOK
  <1>6. Standing(p)'
    BY <1>1, <1>2, <1>4, <1>5 DEF Standing
  <1>. QED
    BY <1>1, <1>4, <1>6, MoveInv

LEMMA EditWriteInv == ASSUME Inv, NEW p \in Procs, EditWrite(p) PROVE Inv'
  <1>. DEFINE u == tx[p].user
              s == tx[p].status
              old == users[u]
              row == [status |-> s, role |-> old.role, version |-> old.version + 1,
                      name |-> old.name, phone |-> old.phone]
              entry == [from |-> tx[p].before, to |-> s]
  <1>1. CASE EditMatches(p)
    <2>1. u \in Users /\ s \in Statuses /\ old # NoUser /\ profiles[u].state = "REGISTERED"
          /\ tx[p].before = old.status
      BY <1>1, RequestFields DEF EditWrite, EditMatches, At, Inv, TypeOK, RequestsStand, Standing
    <2>2. old \in UserRow /\ profiles[u] \in ProfileRow
      BY <2>1, ExistingUser
    <2>3. /\ old.version \in Nat \ {0} /\ old.status \in Statuses /\ old.role \in Roles
          /\ old.phone \in Phones \cup {Nobody} /\ old.name \in Names \cup {Nobody}
      BY <2>1, <2>2, UserFields
    <2>4. row \in UserRow
      BY <2>1, <2>3 DEF UserRow
    <2>5. users' = [users EXCEPT ![u] = row] /\ profiles' = [profiles EXCEPT ![u] = profiles[u]]
          /\ UNCHANGED <<identity, tokens, roleAudit>> /\ Finish(p) /\ UserFree(u, p)
          /\ memberAudit' = [memberAudit EXCEPT ![u] = Append(memberAudit[u], entry)]
      BY <1>1 DEF EditWrite, Inv, TypeOK
    <2>6. /\ row.status = s /\ row.role = old.role /\ row.phone = old.phone
          /\ row.version >= old.version /\ row.version # old.version
      BY <2>3
    <2>7. /\ old.phone = profiles[u].phone
          /\ (profiles[u].state = "REGISTERED") <=> (profiles[u].phone # Nobody)
          /\ Explains(memberAudit[u], "ACTIVE", old.status)
          /\ Explains(roleAudit[u], "MEMBER", old.role)
      BY <2>1 DEF Inv, PhonesAgree, AuditExplains
    <2>8. memberAudit \in [Users -> Seq(Change(Statuses))] /\ roleAudit \in [Users -> Seq(Change(Roles))]
      BY DEF Inv, TypeOK
    <2>9. /\ Append(memberAudit[u], entry) \in Seq(Change(Statuses))
          /\ Explains(Append(memberAudit[u], entry), "ACTIVE", s)
      <3>1. memberAudit[u] \in Seq(Change(Statuses)) /\ "ACTIVE" \in Statuses
        BY <2>1, <2>8 DEF Statuses
      <3>. QED
        BY <2>1, <2>3, <2>7, <3>1, ExplainsNext
    <2>. HIDE DEF u, s, row, entry
    <2>10. /\ memberAudit' \in [Users -> Seq(Change(Statuses))]
           /\ memberAudit'[u] = Append(memberAudit[u], entry)
           /\ \A v \in Users : v # u => memberAudit'[v] = memberAudit[v]
      BY <2>1, <2>5, <2>8, <2>9
    <2>. QED
      BY <2>1, <2>2, <2>4, <2>5, <2>6, <2>7, <2>8, <2>9, <2>10, AccountInv
  <1>2. CASE ~EditMatches(p)
    BY <1>2, FinishInv DEF EditWrite
  <1>. QED
    BY <1>1, <1>2

LEMMA ChangeRoleInv ==
  ASSUME Inv, NEW p \in Procs, NEW u \in Users, NEW v \in Versions, NEW r \in Roles, ChangeRole(p, u, v, r)
  PROVE Inv'
  <1>. DEFINE k == [step |-> "role", user |-> u, seen |-> v, role |-> r]
  <1>1. k \in Request /\ k.step = "role" /\ k.user = u
    BY DEF Request
  <1>2. tx' = [tx EXCEPT ![p] = k] /\ users[u] # NoUser
        /\ UNCHANGED <<users, identity, profiles, tokens, memberAudit, roleAudit>>
    BY DEF ChangeRole, Begin
  <1>. HIDE DEF k
  <1>3. tx'[p] = k
    BY <1>2 DEF Inv, TypeOK
  <1>4. Standing(p)'
    BY <1>1, <1>2, <1>3 DEF Standing
  <1>. QED
    BY <1>1, <1>2, <1>4, MoveInv

LEMMA RoleWriteInv == ASSUME Inv, NEW p \in Procs, RoleWrite(p) PROVE Inv'
  <1>. DEFINE u == tx[p].user
              r == tx[p].role
              old == users[u]
              row == [status |-> old.status, role |-> r, version |-> old.version + 1,
                      name |-> old.name, phone |-> old.phone]
              entry == [from |-> old.role, to |-> r]
              matches == profiles[u].state = "REGISTERED" /\ old.version = tx[p].seen
  <1>1. CASE matches
    <2>1. u \in Users /\ r \in Roles /\ old # NoUser
      BY RequestFields DEF RoleWrite, At, Inv, TypeOK, RequestsStand, Standing
    <2>2. old \in UserRow /\ profiles[u] \in ProfileRow
      BY <2>1, ExistingUser
    <2>3. /\ old.version \in Nat \ {0} /\ old.status \in Statuses /\ old.role \in Roles
          /\ old.phone \in Phones \cup {Nobody} /\ old.name \in Names \cup {Nobody}
      BY <2>1, <2>2, UserFields
    <2>4. row \in UserRow
      BY <2>1, <2>3 DEF UserRow
    <2>5. users' = [users EXCEPT ![u] = row] /\ profiles' = [profiles EXCEPT ![u] = profiles[u]]
          /\ UNCHANGED <<identity, tokens, memberAudit>> /\ Finish(p)
          /\ roleAudit' = [roleAudit EXCEPT ![u] = Append(roleAudit[u], entry)]
      BY <1>1 DEF RoleWrite, Inv, TypeOK
    <2>6. /\ row.status = old.status /\ row.role = r /\ row.phone = old.phone
          /\ row.version >= old.version /\ row.version # old.version
      BY <2>3
    <2>7. /\ old.phone = profiles[u].phone
          /\ (profiles[u].state = "REGISTERED") <=> (profiles[u].phone # Nobody)
          /\ old.status = "DISABLED" => profiles[u].state = "REGISTERED"
          /\ Explains(memberAudit[u], "ACTIVE", old.status)
          /\ Explains(roleAudit[u], "MEMBER", old.role)
      BY <2>1 DEF Inv, PhonesAgree, DisabledRegistered, AuditExplains
    <2>8. memberAudit \in [Users -> Seq(Change(Statuses))] /\ roleAudit \in [Users -> Seq(Change(Roles))]
      BY DEF Inv, TypeOK
    <2>9. /\ Append(roleAudit[u], entry) \in Seq(Change(Roles))
          /\ Explains(Append(roleAudit[u], entry), "MEMBER", r)
      <3>1. roleAudit[u] \in Seq(Change(Roles)) /\ "MEMBER" \in Roles
        BY <2>1, <2>8 DEF Roles
      <3>. QED
        BY <2>1, <2>3, <2>7, <3>1, ExplainsNext
    <2>. HIDE DEF u, r, row, entry
    <2>10. /\ roleAudit' \in [Users -> Seq(Change(Roles))]
           /\ roleAudit'[u] = Append(roleAudit[u], entry)
           /\ \A v \in Users : v # u => roleAudit'[v] = roleAudit[v]
      BY <2>1, <2>5, <2>8, <2>9
    <2>. QED
      BY <2>1, <2>2, <2>4, <2>5, <2>6, <2>7, <2>8, <2>9, <2>10, AccountInv
  <1>2. CASE ~matches
    BY <1>2, FinishInv DEF RoleWrite
  <1>. QED
    BY <1>1, <1>2

-----------------------------------------------------------------------------
(* The invariant *)

LEMMA InitInv == Init => Inv
  <1>. SUFFICES ASSUME Init PROVE Inv
    OBVIOUS
  <1>1. TypeOK
    BY IdleStep, EmptySeq DEF Init, TypeOK
  <1>2. OneAccountPerIdentity
    <2>1. ASSUME NEW u \in Users PROVE {w \in OpenIDs : identity[w] = u} = {}
      BY NullAssumption DEF Init
    <2>. QED
      BY <2>1 DEF Init, OneAccountPerIdentity
  <1>3. OneLivePerLogin
    BY DEF Init, OneLivePerLogin, NoToken
  <1>4. PhonesAgree /\ DisabledRegistered
    BY DEF Init, PhonesAgree, DisabledRegistered, NoUser, NoProfile
  <1>5. AuditExplains
    BY DEF Init, AuditExplains
  <1>6. RequestsStand
    BY IdleStep DEF Init, RequestsStand, Standing
  <1>7. OneHolder
    BY IdleStep DEF Init, OneHolder, At
  <1>. QED
    BY <1>1, <1>2, <1>3, <1>4, <1>5, <1>6, <1>7 DEF Inv

LEMMA NextInv == Inv /\ [Next]_vars => Inv'
  <1>. SUFFICES ASSUME Inv, [Next]_vars PROVE Inv'
    OBVIOUS
  <1>1. ASSUME NEW t \in Tokens, TokenLapse(t) PROVE Inv'
    BY <1>1, TokenLapseInv
  <1>2. ASSUME NEW p \in Procs, Start(p) PROVE Inv'
    <2>1. ASSUME NEW w \in OpenIDs, Login(p, w) \/ LoginMiss(p, w) PROVE Inv'
      BY <2>1, LoginInv, LoginMissInv
    <2>2. ASSUME NEW t \in Tokens, RefreshRead(p, t) \/ Logout(p, t) PROVE Inv'
      BY <2>2, RefreshReadInv, LogoutInv
    <2>3. ASSUME NEW u \in Users, NEW f \in Phones, RegisterPhone(p, u, f) PROVE Inv'
      BY <2>3, RegisterPhoneInv
    <2>4. ASSUME NEW u \in Users, NEW v \in Versions, NEW n \in Names, Rename(p, u, v, n) PROVE Inv'
      BY <2>4, RenameInv
    <2>5. ASSUME NEW u \in Users, NEW v \in Versions, NEW s \in Statuses, Edit(p, u, v, s) PROVE Inv'
      BY <2>5, EditInv
    <2>6. ASSUME NEW u \in Users, NEW v \in Versions, NEW r \in Roles, ChangeRole(p, u, v, r) PROVE Inv'
      BY <2>6, ChangeRoleInv
    <2>. QED
      BY <1>2, <2>1, <2>2, <2>3, <2>4, <2>5, <2>6 DEF Start
  <1>3. ASSUME NEW p \in Procs, Advance(p) PROVE Inv'
    BY <1>3, LoginCreateInv, RefreshWriteInv, RenameWriteInv, PhoneLockInv, PhoneWriteInv,
       EditWriteInv, RoleWriteInv DEF Advance
  <1>4. ASSUME NEW p \in Procs, Victim(p) \/ Abort(p) PROVE Inv'
    BY <1>4, FinishInv DEF Victim, Abort
  <1>5. CASE UNCHANGED vars
    BY <1>5 DEF vars, Inv, TypeOK, OneAccountPerIdentity, OneLivePerLogin, PhonesAgree,
                AuditExplains, RequestsStand, Standing, OneHolder, At, DisabledRegistered
  <1>. QED
    BY <1>1, <1>2, <1>3, <1>4, <1>5 DEF Next

LEMMA AlwaysInv == Spec => []Inv
  BY InitInv, NextInv, PTL DEF Spec

\* Rows, logs and requests keep their shape.
THEOREM TypeCorrect == Spec => []TypeOK
  <1>1. Inv => TypeOK
    BY DEF Inv
  <1>. QED
    BY <1>1, AlwaysInv, PTL

\* Racing first logins leave one account per identity: the locking read of the
\* missing identity and the single transaction of its insert (auth/handler.go).
THEOREM OneAccount == Spec => []OneAccountPerIdentity
  <1>1. Inv => OneAccountPerIdentity
    BY DEF Inv
  <1>. QED
    BY <1>1, AlwaysInv, PTL

\* The refresh tokens of a login form a chain of which the last alone is usable:
\* the refresh's row lock and its revocation with the successor (auth/handler.go).
THEOREM OneLive == Spec => []OneLivePerLogin
  <1>1. Inv => OneLivePerLogin
    BY DEF Inv
  <1>. QED
    BY <1>1, AlwaysInv, PTL

\* The two copies of a phone number agree (member/handler.go's registration).
THEOREM PhonesMatch == Spec => []PhonesAgree
  <1>1. Inv => PhonesAgree
    BY DEF Inv
  <1>. QED
    BY <1>1, AlwaysInv, PTL

\* The audit log adds up to the row, although the member page's before-image is read
\* outside the transaction (adminmember/handler.go, adminops/handler.go).
THEOREM AuditAdds == Spec => []AuditExplains
  <1>1. Inv => AuditExplains
    BY DEF Inv
  <1>. QED
    BY <1>1, AlwaysInv, PTL

-----------------------------------------------------------------------------
(* What a step may never do *)

LEMMA StepIssues ==
  ASSUME Inv, [Next]_vars, NEW t \in Tokens, tokens[t] = NoToken, tokens'[t] # NoToken
  PROVE users'[tokens'[t].user].status = "ACTIVE"
  <1>1. ASSUME NEW p \in Procs, NEW w \in OpenIDs, Login(p, w)
        PROVE users'[tokens'[t].user].status = "ACTIVE"
    <2>1. t = NextToken /\ tokens'[t] = LiveToken(identity[w]) /\ users' = users
      BY <1>1 DEF Login, Inv, TypeOK
    <2>. QED
      BY <1>1, <2>1 DEF Login, LiveToken
  <1>2. ASSUME NEW p \in Procs, LoginCreate(p) PROVE users'[tokens'[t].user].status = "ACTIVE"
    <2>1. NextUser \in Users
      BY <1>2, UnusedIsUnused DEF LoginCreate
    <2>2. tokens'[t] = LiveToken(NextUser) /\ users'[NextUser] = NewUser
      BY <1>2, <2>1 DEF LoginCreate, Inv, TypeOK
    <2>. QED
      BY <2>2 DEF LiveToken, NewUser
  <1>3. ASSUME NEW p \in Procs, RefreshWrite(p) PROVE users'[tokens'[t].user].status = "ACTIVE"
    <2>1. /\ tokens[tx[p].token].state \in {"LIVE", "LAPSED"}
          /\ users[tx[p].user].status = "ACTIVE"
      BY <1>3 DEF RefreshWrite, At, Inv, RequestsStand, Standing
    <2>2. t # tx[p].token /\ users' = users
      BY <1>3, <2>1 DEF RefreshWrite, NoToken
    <2>3. tokens'[t].user = tx[p].user
      BY <1>3, <2>1, <2>2 DEF RefreshWrite, LiveToken, Inv, TypeOK
    <2>. QED
      BY <2>1, <2>2, <2>3
  <1>4. ASSUME NEW s \in Tokens, tokens[s] # NoToken, NEW row,
               tokens' = [tokens EXCEPT ![s] = row]
        PROVE FALSE
    BY <1>4 DEF Inv, TypeOK
  <1>5. ASSUME NEW s \in Tokens, TokenLapse(s) PROVE FALSE
    <2>1. tokens[s] # NoToken
      BY <1>5 DEF TokenLapse, NoToken
    <2>. QED
      BY <1>4, <1>5, <2>1 DEF TokenLapse
  <1>6. ASSUME NEW p \in Procs, NEW s \in Tokens, Logout(p, s) PROVE FALSE
    BY <1>4, <1>6 DEF Logout
  <1>7. CASE tokens' = tokens
    BY <1>7
  <1>8. CASE UNCHANGED vars
    BY <1>7, <1>8 DEF vars
  <1>9. ASSUME NEW p \in Procs, Start(p) PROVE users'[tokens'[t].user].status = "ACTIVE"
    <2>1. \/ \E w \in OpenIDs : Login(p, w)
          \/ \E s \in Tokens : Logout(p, s)
          \/ tokens' = tokens
      BY <1>9 DEF Start, LoginMiss, RefreshRead, RegisterPhone, Rename, Edit, ChangeRole
    <2>. QED
      BY <1>1, <1>6, <1>7, <2>1
  <1>10. ASSUME NEW p \in Procs, Advance(p) PROVE users'[tokens'[t].user].status = "ACTIVE"
    <2>1. LoginCreate(p) \/ RefreshWrite(p) \/ tokens' = tokens
      BY <1>10 DEF Advance, RenameWrite, PhoneLock, PhoneWrite, EditWrite, RoleWrite
    <2>. QED
      BY <1>2, <1>3, <1>7, <2>1
  <1>11. ASSUME NEW p \in Procs, Victim(p) \/ Abort(p) PROVE users'[tokens'[t].user].status = "ACTIVE"
    BY <1>7, <1>11 DEF Victim, Abort
  <1>. QED
    BY <1>5, <1>8, <1>9, <1>10, <1>11 DEF Next

\* A refresh token is issued to an ACTIVE member only: the refresh's JOIN locks the
\* users row with the token until the token is stored (auth/handler.go).
THEOREM Issued == Spec => TokensOnlyForActive
  <1>1. Inv /\ [Next]_vars =>
          [\A t \in Tokens :
             (tokens[t] = NoToken /\ tokens'[t] # NoToken) => users'[tokens'[t].user].status = "ACTIVE"]_vars
    BY StepIssues
  <1>. QED
    BY <1>1, AlwaysInv, PTL DEF Spec, TokensOnlyForActive

\* The steps that change no number and no nickname, and those that do.
LEMMA WhoWrites ==
  ASSUME Inv, [Next]_vars
  PROVE \/ \A u \in Users : users[u] # NoUser =>
             /\ profiles'[u] = profiles[u]
             /\ users'[u].phone = users[u].phone
             /\ users'[u].name = users[u].name
        \/ \E p \in Procs : RenameWrite(p) \/ PhoneWrite(p)
  <1>. DEFINE Untouched == \A u \in Users : users[u] # NoUser =>
                        /\ profiles'[u] = profiles[u]
                        /\ users'[u].phone = users[u].phone
                        /\ users'[u].name = users[u].name
  <1>1. ASSUME users' = users, profiles' = profiles PROVE Untouched
    BY <1>1
  <1>2. ASSUME NEW p \in Procs, LoginCreate(p) PROVE Untouched
    <2>1. NextUser \in Users /\ users[NextUser] = NoUser
      BY <1>2, UnusedIsUnused DEF LoginCreate
    <2>2. \A u \in Users : u # NextUser => users'[u] = users[u] /\ profiles'[u] = profiles[u]
      BY <1>2, <2>1 DEF LoginCreate, Inv, TypeOK
    <2>. QED
      BY <2>1, <2>2
  <1>3. ASSUME NEW p \in Procs, EditWrite(p) \/ RoleWrite(p) PROVE Untouched
    <2>1. profiles' = profiles
      BY <1>3 DEF EditWrite, RoleWrite
    <2>2. \A u \in Users : users'[u].phone = users[u].phone /\ users'[u].name = users[u].name
      <3>. DEFINE v == tx[p].user
      <3>. SUFFICES ASSUME NEW u \in Users
                    PROVE users'[u].phone = users[u].phone /\ users'[u].name = users[u].name
        OBVIOUS
      <3>1. users \in [Users -> UserRow \cup {NoUser}]
        BY DEF Inv, TypeOK
      <3>2. CASE EditWrite(p)
        <4>1. \/ users' = users
              \/ users' = [users EXCEPT ![v] = [status |-> tx[p].status, role |-> users[v].role,
                     version |-> users[v].version + 1, name |-> users[v].name, phone |-> users[v].phone]]
          BY <3>2 DEF EditWrite
        <4>. QED
          BY <3>1, <4>1
      <3>3. CASE RoleWrite(p)
        <4>1. \/ users' = users
              \/ users' = [users EXCEPT ![v] = [status |-> users[v].status, role |-> tx[p].role,
                     version |-> users[v].version + 1, name |-> users[v].name, phone |-> users[v].phone]]
          BY <3>3 DEF RoleWrite
        <4>. QED
          BY <3>1, <4>1
      <3>. QED
        BY <1>3, <3>2, <3>3
    <2>. QED
      BY <2>1, <2>2
  <1>4. ASSUME NEW p \in Procs, Start(p) PROVE users' = users /\ profiles' = profiles
    BY <1>4 DEF Start, Login, LoginMiss, RefreshRead, Logout, RegisterPhone, Rename, Edit, ChangeRole
  <1>5. ASSUME NEW p \in Procs, Advance(p)
        PROVE Untouched \/ RenameWrite(p) \/ PhoneWrite(p)
    <2>1. CASE RefreshWrite(p) \/ PhoneLock(p)
      BY <1>1, <2>1 DEF RefreshWrite, PhoneLock
    <2>. QED
      BY <1>2, <1>3, <1>5, <2>1 DEF Advance
  <1>6. ASSUME NEW p \in Procs, Victim(p) \/ Abort(p) PROVE Untouched
    BY <1>1, <1>6 DEF Victim, Abort
  <1>7. ASSUME NEW t \in Tokens, TokenLapse(t) PROVE Untouched
    BY <1>1, <1>7 DEF TokenLapse
  <1>8. ASSUME UNCHANGED vars PROVE Untouched
    BY <1>1, <1>8 DEF vars
  <1>. HIDE DEF Untouched
  <1>9. Untouched \/ \E p \in Procs : RenameWrite(p) \/ PhoneWrite(p)
    <2>1. ASSUME NEW p \in Procs, Start(p) PROVE Untouched
      BY <1>1, <1>4, <2>1 DEF Untouched
    <2>2. CASE Next
      <3>1. CASE \E t \in Tokens : TokenLapse(t)
        BY <1>7, <3>1
      <3>2. CASE \E p \in Procs : Start(p) \/ Advance(p) \/ Victim(p) \/ Abort(p)
        <4>. PICK p \in Procs : Start(p) \/ Advance(p) \/ Victim(p) \/ Abort(p)
          BY <3>2
        <4>1. CASE Start(p)
          BY <2>1, <4>1
        <4>2. CASE Advance(p)
          BY <1>5, <4>2
        <4>3. CASE Victim(p) \/ Abort(p)
          BY <1>6, <4>3
        <4>. QED
          BY <4>1, <4>2, <4>3
      <3>. QED
        BY <2>2, <3>1, <3>2 DEF Next
    <2>. QED
      BY <1>8, <2>2 DEF vars
  <1>. QED
    BY <1>9 DEF Untouched

\* What the two writers find, and what they write.
LEMMA WriterFinds ==
  ASSUME Inv, NEW p \in Procs, RenameWrite(p) \/ PhoneWrite(p), NEW u \in Users
  PROVE \/ users'[u] = users[u] /\ profiles'[u] = profiles[u]
        \/ /\ users[u].status # "DISABLED"
           /\ \/ profiles'[u] = profiles[u] /\ users'[u].phone = users[u].phone
              \/ profiles[u].state # "REGISTERED"
  <1>. DEFINE v == tx[p].user
  <1>1. CASE RenameWrite(p)
    <2>1. profiles' = profiles /\ v \in Users
      BY <1>1, RequestFields DEF RenameWrite, At, Inv, TypeOK
    <2>2. CASE users[v].version = tx[p].seen /\ u = v
      <3>1. users[u].status = "ACTIVE"
        BY <1>1, <2>2 DEF RenameWrite, At, Inv, RequestsStand, Standing
      <3>2. users'[u].phone = users[u].phone
        BY <1>1, <2>2 DEF RenameWrite, Inv, TypeOK
      <3>. QED
        BY <2>1, <3>1, <3>2
    <2>3. CASE ~(users[v].version = tx[p].seen /\ u = v)
      <3>1. users'[u] = users[u]
        BY <1>1, <2>1, <2>3 DEF RenameWrite, Inv, TypeOK
      <3>. QED
        BY <2>1, <3>1
    <2>. QED
      BY <2>2, <2>3
  <1>2. CASE PhoneWrite(p)
    <2>1. v \in Users /\ profiles[v].state # "REGISTERED"
      BY <1>2, RequestFields DEF PhoneWrite, At, Inv, TypeOK, RequestsStand, Standing
    <2>2. CASE u = v
      BY <2>1, <2>2 DEF Inv, DisabledRegistered
    <2>3. CASE u # v
      BY <1>2, <2>3 DEF PhoneWrite, Inv, TypeOK
    <2>. QED
      BY <2>2, <2>3
  <1>. QED
    BY <1>1, <1>2

\* A registered number is never replaced: the registration holds the profile's lock from
\* its second look to its write (member/handler.go).
THEOREM Kept == Spec => PhoneKept
  <1>1. Inv /\ [Next]_vars =>
          [\A u \in Users : profiles[u].state = "REGISTERED" =>
             profiles'[u] = profiles[u] /\ users'[u].phone = users[u].phone]_vars
    BY WhoWrites, WriterFinds, ExistingUser
  <1>. QED
    BY <1>1, AlwaysInv, PTL DEF Spec, PhoneKept

\* A disabled member's pending requests change nothing: disabling moves the version the
\* nickname was loaded with, and only registered members are ever disabled.
THEOREM Frozen == Spec => DisabledFrozen
  <1>1. \A u \in Users : Inv /\ users[u].status = "DISABLED" => users[u] # NoUser
    BY DEF NoUser
  <1>2. Inv /\ [Next]_vars =>
          [\A u \in Users : users[u].status = "DISABLED" =>
             users'[u].name = users[u].name /\ users'[u].phone = users[u].phone]_vars
    BY <1>1, WhoWrites, WriterFinds
  <1>. QED
    BY <1>2, AlwaysInv, PTL DEF Spec, DisabledFrozen
=============================================================================
