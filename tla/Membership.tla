----------------------------- MODULE Membership -----------------------------
(***************************************************************************)
(* A member's account: the first WeChat login that creates it, the refresh *)
(* tokens that keep a session going, the member's own edits (nickname,     *)
(* phone registration) and the two administrator pages that edit the same  *)
(* rows (member status, staff role).                                       *)
(*                                                                         *)
(* Requests run concurrently.  A transaction that takes all its locks in   *)
(* its first statement and waits for nothing afterwards is one step; one   *)
(* that reads before its transaction, or takes a second lock later, is a   *)
(* step per such point, with its locals in tx[p].  Requests that are       *)
(* refused on arrival change nothing and are not steps.                    *)
(*                                                                         *)
(* Bounds: MaxVersion (edits per account), the sets of users and tokens    *)
(* (an insert needs an unused one, see RoomForUser, RoomForToken).         *)
(***************************************************************************)
EXTENDS Naturals, Sequences, FiniteSets

CONSTANTS OpenIDs,     \* WeChat identities
          Users,       \* primary keys of users
          Tokens,      \* primary keys of refresh_tokens
          Phones,      \* phone numbers WeChat hands over
          Names,       \* nicknames
          Procs,       \* requests in flight
          Nobody,      \* SQL NULL
          MaxVersion

ASSUME NullAssumption == Nobody \notin Users \cup Tokens \cup Phones \cup Names
ASSUME MaxVersionAssumption == MaxVersion \in Nat

VARIABLES users,        \* users rows
          identity,     \* wechat_identities: the user of an openid
          profiles,     \* member_profiles rows
          tokens,       \* refresh_tokens rows
          memberAudit,  \* audit_logs, MEMBER_UPDATE rows of a user
          roleAudit,    \* audit_logs, USER_ROLE_UPDATE rows of a user
          tx            \* a request's position and locals

vars == <<users, identity, profiles, tokens, memberAudit, roleAudit, tx>>

Versions == 1..MaxVersion
Statuses == {"ACTIVE", "DISABLED"}
Roles == {"MEMBER", "STAFF"}

NoUser == [status |-> "NONE", role |-> "MEMBER", version |-> 0,
           name |-> Nobody, phone |-> Nobody]
UserRow == [status: Statuses, role: Roles, version: Nat \ {0},
            name: Names \cup {Nobody}, phone: Phones \cup {Nobody}]

NoProfile == [state |-> "NONE", phone |-> Nobody]
ProfileRow == [state: {"OPEN", "REGISTERED"}, phone: Phones \cup {Nobody}]

NoToken == [state |-> "NONE", user |-> Nobody, next |-> Nobody]
TokenRow == [state: {"LIVE", "LAPSED", "REVOKED"}, user: Users, next: Tokens \cup {Nobody}]

Change(S) == [from: S, to: S]

Idle == [step |-> "idle"]
Request ==
  {Idle}
  \cup [step: {"newcomer"}, who: OpenIDs]
  \cup [step: {"refresh"}, user: Users, token: Tokens]
  \cup [step: {"rename"}, user: Users, seen: Versions, name: Names]
  \cup [step: {"phone", "phoneHeld"}, user: Users, phone: Phones]
  \cup [step: {"edit"}, user: Users, seen: Versions, before: Statuses, status: Statuses]
  \cup [step: {"role"}, user: Users, seen: Versions, role: Roles]

(* Every row, log and request keeps its shape. *)
TypeOK ==
  /\ users \in [Users -> UserRow \cup {NoUser}]
  /\ identity \in [OpenIDs -> Users \cup {Nobody}]
  /\ profiles \in [Users -> ProfileRow \cup {NoProfile}]
  /\ tokens \in [Tokens -> TokenRow \cup {NoToken}]
  /\ memberAudit \in [Users -> Seq(Change(Statuses))]
  /\ roleAudit \in [Users -> Seq(Change(Roles))]
  /\ tx \in [Procs -> Request]

Init ==
  /\ users = [u \in Users |-> NoUser]
  /\ identity = [w \in OpenIDs |-> Nobody]
  /\ profiles = [u \in Users |-> NoProfile]
  /\ tokens = [t \in Tokens |-> NoToken]
  /\ memberAudit = [u \in Users |-> <<>>]
  /\ roleAudit = [u \in Users |-> <<>>]
  /\ tx = [p \in Procs |-> Idle]

-----------------------------------------------------------------------------
(* Row locks.  A request holds a lock from the step that enters the named  *)
(* position to the step that leaves it.                                    *)

Others(p, steps) == {q \in Procs \ {p} : tx[q].step \in steps}

\* users row: the refresh's JOIN ... FOR UPDATE, the role change's.
\* Mutant: the refresh locks its token only.
UserFreeOfRefresh(u, p) == \A q \in Others(p, {"role"}) : tx[q].user # u
UserFree(u, p) == \A q \in Others(p, {"refresh", "role"}) : tx[q].user # u

\* member_profiles row: the registration's FOR UPDATE.
\* Mutant: the registration reads the row without locking it.
ProfileFreeUnlocked(u, p) == TRUE
ProfileFree(u, p) == \A q \in Others(p, {"phoneHeld"}) : tx[q].user # u

\* refresh_tokens row: the refresh's FOR UPDATE.
TokenFree(t, p) == \A q \in Others(p, {"refresh"}) : tx[q].token # t

\* The gap of an openid with no identity row: locks on it do not exclude
\* each other, but each of them excludes the other's insert.
GapFree(w, p) == \A q \in Others(p, {"newcomer"}) : tx[q].who # w

Begin(p, request) == tx[p] = Idle /\ tx' = [tx EXCEPT ![p] = request]
At(p, step) == tx[p].step = step
Finish(p) == tx' = [tx EXCEPT ![p] = Idle]

UnusedUsers == {u \in Users : users[u] = NoUser}
UnusedTokens == {t \in Tokens : tokens[t] = NoToken}
Pending(steps) == Cardinality({p \in Procs : tx[p].step \in steps})
RoomForUser == UnusedUsers # {} /\ Cardinality(UnusedUsers) > Pending({"newcomer"})
RoomForToken == UnusedTokens # {} /\ Cardinality(UnusedTokens) > Pending({"newcomer", "refresh"})
NextUser == CHOOSE u \in UnusedUsers : TRUE
NextToken == CHOOSE t \in UnusedTokens : TRUE

\* The version a page sends: any version of the row it may have loaded.
Loaded(u) == {v \in Versions : v <= users[u].version /\ users[u].version < MaxVersion}

-----------------------------------------------------------------------------
(* Sessions *)

\* Mutant: the version column has no default.
NewUserUnversioned == [status |-> "ACTIVE", role |-> "MEMBER", version |-> 0,
                       name |-> Nobody, phone |-> Nobody]
NewUser == [status |-> "ACTIVE", role |-> "MEMBER", version |-> 1,
            name |-> Nobody, phone |-> Nobody]
LiveToken(u) == [state |-> "LIVE", user |-> u, next |-> Nobody]

Login(p, w) ==
  LET u == identity[w] IN
  /\ tx[p] = Idle
  /\ u # Nobody
  /\ UserFree(u, p)
  /\ users[u].status = "ACTIVE"
  /\ RoomForToken
  /\ tokens' = [tokens EXCEPT ![NextToken] = LiveToken(u)]
  /\ UNCHANGED <<users, identity, profiles, memberAudit, roleAudit, tx>>

\* First login: the locking read finds no identity.
\* Mutant: the account is inserted outside the transaction.
LoginMissOutsideTx(p, w) ==
  /\ identity[w] = Nobody
  /\ RoomForUser /\ RoomForToken
  /\ Begin(p, [step |-> "newcomer", who |-> w])
  /\ users' = [users EXCEPT ![NextUser] = NewUser]
  /\ UNCHANGED <<identity, profiles, tokens, memberAudit, roleAudit>>
LoginMiss(p, w) ==
  /\ identity[w] = Nobody
  /\ RoomForUser /\ RoomForToken
  /\ Begin(p, [step |-> "newcomer", who |-> w])
  /\ UNCHANGED <<users, identity, profiles, tokens, memberAudit, roleAudit>>

LoginCreate(p) ==
  LET u == NextUser IN
  /\ At(p, "newcomer")
  /\ GapFree(tx[p].who, p)
  /\ UnusedUsers # {} /\ UnusedTokens # {}
  /\ users' = [users EXCEPT ![u] = NewUser]
  /\ identity' = [identity EXCEPT ![tx[p].who] = u]
  /\ profiles' = [profiles EXCEPT ![u] = [state |-> "OPEN", phone |-> Nobody]]
  /\ tokens' = [tokens EXCEPT ![NextToken] = LiveToken(u)]
  /\ Finish(p)
  /\ UNCHANGED <<memberAudit, roleAudit>>

RefreshRead(p, t) ==
  LET u == tokens[t].user IN
  /\ tokens[t].state = "LIVE"
  /\ TokenFree(t, p) /\ UserFree(u, p)
  /\ users[u].status = "ACTIVE"
  /\ RoomForToken
  /\ Begin(p, [step |-> "refresh", user |-> u, token |-> t])
  /\ UNCHANGED <<users, identity, profiles, tokens, memberAudit, roleAudit>>

\* Mutant: the old token is linked to the new one and not revoked.
RefreshWriteKeepsOld(p) ==
  LET t == tx[p].token
      n == NextToken
  IN
  /\ At(p, "refresh")
  /\ UnusedTokens # {}
  /\ tokens' = [tokens EXCEPT ![n] = LiveToken(tx[p].user), ![t] =
        [state |-> tokens[t].state, user |-> tx[p].user, next |-> n]]
  /\ Finish(p)
  /\ UNCHANGED <<users, identity, profiles, memberAudit, roleAudit>>
RefreshWrite(p) ==
  LET t == tx[p].token
      u == tx[p].user
      n == NextToken
  IN
  /\ At(p, "refresh")
  /\ UnusedTokens # {}
  /\ IF tokens[t].state # "REVOKED"
     THEN tokens' = [tokens EXCEPT ![n] = LiveToken(u),
                                   ![t] = [state |-> "REVOKED", user |-> u, next |-> n]]
     ELSE tokens' = tokens
  /\ Finish(p)
  /\ UNCHANGED <<users, identity, profiles, memberAudit, roleAudit>>

\* A token already revoked keeps its revoked_at and its successor.
Logout(p, t) ==
  /\ tx[p] = Idle
  /\ tokens[t] # NoToken
  /\ TokenFree(t, p)
  /\ tokens' = IF tokens[t].state = "REVOKED" THEN tokens
               ELSE [tokens EXCEPT ![t] = [state |-> "REVOKED", user |-> tokens[t].user, next |-> Nobody]]
  /\ UNCHANGED <<users, identity, profiles, memberAudit, roleAudit, tx>>

\* Thirty days pass without a refresh.
TokenLapse(t) ==
  /\ tokens[t].state = "LIVE"
  /\ tokens' = [tokens EXCEPT ![t] = [state |-> "LAPSED", user |-> tokens[t].user, next |-> Nobody]]
  /\ UNCHANGED <<users, identity, profiles, memberAudit, roleAudit, tx>>

\* The member holds an access token from a login or a refresh; a request
\* whose token has expired is refused on arrival.
Authenticated(u) == users[u].status = "ACTIVE"

-----------------------------------------------------------------------------
(* The member's own edits *)

Rename(p, u, v, n) ==
  /\ Authenticated(u)
  /\ v \in Loaded(u)
  /\ Begin(p, [step |-> "rename", user |-> u, seen |-> v, name |-> n])
  /\ UNCHANGED <<users, identity, profiles, tokens, memberAudit, roleAudit>>

\* Mutant: the nickname is written whatever the version.
RenameWriteUnversioned(p) ==
  LET u == tx[p].user
      row == users[u]
  IN
  /\ At(p, "rename")
  /\ UserFree(u, p)
  /\ users' = [users EXCEPT ![u] = [status |-> row.status, role |-> row.role,
        version |-> row.version + 1, name |-> tx[p].name, phone |-> row.phone]]
  /\ Finish(p)
  /\ UNCHANGED <<identity, profiles, tokens, memberAudit, roleAudit>>
RenameWrite(p) ==
  LET u == tx[p].user
      row == users[u]
  IN
  /\ At(p, "rename")
  /\ UserFree(u, p)
  /\ IF row.version = tx[p].seen
     THEN users' = [users EXCEPT ![u] = [status |-> row.status, role |-> row.role,
              version |-> row.version + 1, name |-> tx[p].name, phone |-> row.phone]]
     ELSE users' = users
  /\ Finish(p)
  /\ UNCHANGED <<identity, profiles, tokens, memberAudit, roleAudit>>

RegisterPhone(p, u, f) ==
  /\ Authenticated(u)
  /\ profiles[u].state # "REGISTERED"
  /\ Begin(p, [step |-> "phone", user |-> u, phone |-> f])
  /\ UNCHANGED <<users, identity, profiles, tokens, memberAudit, roleAudit>>

\* Mutant: the transaction of a second registration is never ended.
PhoneLockLeaks(p) ==
  LET u == tx[p].user IN
  /\ At(p, "phone")
  /\ ProfileFree(u, p)
  /\ profiles[u].state # "REGISTERED"
  /\ tx' = [tx EXCEPT ![p] = [step |-> "phoneHeld", user |-> u, phone |-> tx[p].phone]]
  /\ UNCHANGED <<users, identity, profiles, tokens, memberAudit, roleAudit>>
PhoneLock(p) ==
  LET u == tx[p].user IN
  /\ At(p, "phone")
  /\ ProfileFree(u, p)
  /\ IF profiles[u].state = "REGISTERED"
     THEN Finish(p)
     ELSE tx' = [tx EXCEPT ![p] = [step |-> "phoneHeld", user |-> u, phone |-> tx[p].phone]]
  /\ UNCHANGED <<users, identity, profiles, tokens, memberAudit, roleAudit>>

\* Mutant: only the users row gets the number.
PhoneWriteUserOnly(p) ==
  LET u == tx[p].user
      row == users[u]
  IN
  /\ At(p, "phoneHeld")
  /\ UserFree(u, p)
  /\ users' = [users EXCEPT ![u] = [status |-> row.status, role |-> row.role,
         version |-> row.version, name |-> row.name, phone |-> tx[p].phone]]
  /\ profiles' = [profiles EXCEPT ![u] = [state |-> "REGISTERED", phone |-> profiles[u].phone]]
  /\ Finish(p)
  /\ UNCHANGED <<identity, tokens, memberAudit, roleAudit>>
PhoneWrite(p) ==
  LET u == tx[p].user
      row == users[u]
  IN
  /\ At(p, "phoneHeld")
  /\ UserFree(u, p)
  /\ users' = [users EXCEPT ![u] = [status |-> row.status, role |-> row.role,
         version |-> row.version, name |-> row.name, phone |-> tx[p].phone]]
  /\ profiles' = [profiles EXCEPT ![u] = [state |-> "REGISTERED", phone |-> tx[p].phone]]
  /\ Finish(p)
  /\ UNCHANGED <<identity, tokens, memberAudit, roleAudit>>

-----------------------------------------------------------------------------
(* The administrator's pages *)

\* adminmember get: what the members page can open.
Listed(u) == users[u].role = "MEMBER" /\ profiles[u].state = "REGISTERED"

Edit(p, u, v, s) ==
  /\ Listed(u)
  /\ v \in Loaded(u)
  /\ Begin(p, [step |-> "edit", user |-> u, seen |-> v, before |-> users[u].status, status |-> s])
  /\ UNCHANGED <<users, identity, profiles, tokens, memberAudit, roleAudit>>

\* The WHERE clause of the versioned UPDATE.
\* Mutant: the version is not compared.
EditMatchesAnyVersion(p) == users[tx[p].user].role = "MEMBER"
EditMatches(p) == users[tx[p].user].role = "MEMBER" /\ users[tx[p].user].version = tx[p].seen

EditWrite(p) ==
  LET u == tx[p].user
      row == users[u]
  IN
  /\ At(p, "edit")
  /\ UserFree(u, p) /\ ProfileFree(u, p)
  /\ IF EditMatches(p)
     THEN /\ users' = [users EXCEPT ![u] = [status |-> tx[p].status, role |-> row.role,
                 version |-> row.version + 1, name |-> row.name, phone |-> row.phone]]
          /\ memberAudit' = [memberAudit EXCEPT ![u] =
                 Append(@, [from |-> tx[p].before, to |-> tx[p].status])]
     ELSE UNCHANGED <<users, memberAudit>>
  /\ Finish(p)
  /\ UNCHANGED <<identity, profiles, tokens, roleAudit>>

\* The locking join takes the users row first, then the member_profiles row.
ChangeRole(p, u, v, r) ==
  /\ users[u] # NoUser
  /\ v \in Loaded(u)
  /\ UserFree(u, p)
  /\ Begin(p, [step |-> "role", user |-> u, seen |-> v, role |-> r])
  /\ UNCHANGED <<users, identity, profiles, tokens, memberAudit, roleAudit>>

RoleWrite(p) ==
  LET u == tx[p].user
      row == users[u]
  IN
  /\ At(p, "role")
  /\ ProfileFree(u, p)
  /\ IF profiles[u].state = "REGISTERED" /\ row.version = tx[p].seen
     THEN /\ users' = [users EXCEPT ![u] = [status |-> row.status, role |-> tx[p].role,
                 version |-> row.version + 1, name |-> row.name, phone |-> row.phone]]
          /\ roleAudit' = [roleAudit EXCEPT ![u] = Append(@, [from |-> row.role, to |-> tx[p].role])]
     ELSE UNCHANGED <<users, roleAudit>>
  /\ Finish(p)
  /\ UNCHANGED <<identity, profiles, tokens, memberAudit>>

-----------------------------------------------------------------------------
(* Failures *)

\* p waits for a lock that q holds.
WaitsFor(p, q) ==
  /\ p # q
  /\ \/ At(p, "newcomer") /\ At(q, "newcomer") /\ tx[p].who = tx[q].who
     \/ At(p, "role") /\ At(q, "phoneHeld") /\ tx[p].user = tx[q].user
     \/ At(p, "phoneHeld") /\ At(q, "role") /\ tx[p].user = tx[q].user

\* InnoDB rolls one of two deadlocked transactions back; the handler
\* answers with an error.
Victim(p) ==
  /\ \E q \in Procs : WaitsFor(p, q) /\ WaitsFor(q, p)
  /\ Finish(p)
  /\ UNCHANGED <<users, identity, profiles, tokens, memberAudit, roleAudit>>

\* The client goes away or a statement fails: the deferred rollback.
Abort(p) ==
  /\ tx[p] # Idle
  /\ Finish(p)
  /\ UNCHANGED <<users, identity, profiles, tokens, memberAudit, roleAudit>>

Advance(p) ==
  LoginCreate(p) \/ RefreshWrite(p) \/ RenameWrite(p) \/ PhoneLock(p) \/ PhoneWrite(p)
    \/ EditWrite(p) \/ RoleWrite(p)

Start(p) ==
  \/ \E w \in OpenIDs : Login(p, w) \/ LoginMiss(p, w)
  \/ \E t \in Tokens : RefreshRead(p, t) \/ Logout(p, t)
  \/ \E u \in Users :
       \/ \E f \in Phones : RegisterPhone(p, u, f)
       \/ \E v \in Versions :
            \/ \E n \in Names : Rename(p, u, v, n)
            \/ \E s \in Statuses : Edit(p, u, v, s)
            \/ \E r \in Roles : ChangeRole(p, u, v, r)

Next ==
  \/ \E t \in Tokens : TokenLapse(t)
  \/ \E p \in Procs : Start(p) \/ Advance(p) \/ Victim(p) \/ Abort(p)

Spec == Init /\ [][Next]_vars

\* Lock queues are served in order and the deadlock detector is prompt.
Fairness == \A p \in Procs : SF_vars(Advance(p)) /\ WF_vars(Victim(p))

FairSpec == Spec /\ Fairness

-----------------------------------------------------------------------------
(* Properties *)

(* Two first logins of one WeChat identity leave one account: every users  *)
(* row belongs to exactly one identity and has its profile, and a login    *)
(* that loses the race leaves no row behind.                               *)
OneAccountPerIdentity ==
  \A u \in Users :
    LET owners == {w \in OpenIDs : identity[w] = u} IN
    /\ (users[u] = NoUser) <=> (owners = {})
    /\ (users[u] = NoUser) <=> (profiles[u] = NoProfile)
    /\ \A w1, w2 \in owners : w1 = w2

(* A login never splits in two: a token with a successor is revoked, no    *)
(* two tokens have the same successor, and the successor belongs to the    *)
(* same member.  So of the tokens of a login one at most is usable.        *)
OneLivePerLogin ==
  \A t \in Tokens : tokens[t].next # Nobody =>
    /\ tokens[t].state = "REVOKED"
    /\ tokens[tokens[t].next].user = tokens[t].user
    /\ \A s \in Tokens : tokens[s].next = tokens[t].next => s = t

(* A refresh token is only ever issued to a member who is ACTIVE when it   *)
(* is stored, although a refresh reads the status a statement earlier and  *)
(* an administrator may be disabling the member.                           *)
TokensOnlyForActive ==
  [][\A t \in Tokens :
       (tokens[t] = NoToken /\ tokens'[t] # NoToken) => users'[tokens'[t].user].status = "ACTIVE"]_vars

(* The number in users and the one in member_profiles are the same, and    *)
(* present exactly when the member is registered.                          *)
PhonesAgree ==
  \A u \in Users :
    /\ users[u].phone = profiles[u].phone
    /\ (profiles[u].state = "REGISTERED") <=> (profiles[u].phone # Nobody)

(* The first registration stands: a second one in flight, with another     *)
(* number, changes nothing.                                                *)
PhoneKept ==
  [][\A u \in Users : profiles[u].state = "REGISTERED" =>
       profiles'[u] = profiles[u] /\ users'[u].phone = users[u].phone]_vars

(* A disabled member's own requests, authenticated while the member was    *)
(* still active, change nothing afterwards: the nickname and the phone     *)
(* number stay as they were until an administrator enables the member.     *)
DisabledFrozen ==
  [][\A u \in Users : users[u].status = "DISABLED" =>
       users'[u].name = users[u].name /\ users'[u].phone = users[u].phone]_vars

Explains(log, first, last) ==
  IF log = <<>> THEN last = first
  ELSE /\ log[1].from = first
       /\ log[Len(log)].to = last
       /\ \A i \in 1..(Len(log) - 1) : log[i].to = log[i + 1].from

(* The audit log accounts for a member's status and role: each entry       *)
(* starts from what the one before it left, and the last one leads to the  *)
(* row as it stands, although the member page reads its before-image       *)
(* outside the transaction that changes the row.                           *)
AuditExplains ==
  \A u \in Users :
    IF users[u] = NoUser THEN memberAudit[u] = <<>> /\ roleAudit[u] = <<>>
    ELSE /\ Explains(memberAudit[u], "ACTIVE", users[u].status)
         /\ Explains(roleAudit[u], "MEMBER", users[u].role)

(* Every request ends, deadlocks between two first logins and between a    *)
(* role change and a registration included.                                *)
EveryRequestAnswered == \A p \in Procs : tx[p] # Idle ~> tx[p] = Idle

-----------------------------------------------------------------------------
(* What makes the safety properties inductive. *)

\* What a request may rely on between two of its statements.
Standing(p) ==
  LET t == tx[p] IN
  /\ t.step = "newcomer" => identity[t.who] = Nobody
  /\ t.step \in {"refresh", "rename", "phone", "phoneHeld", "edit", "role"} =>
       users[t.user] # NoUser
  /\ t.step = "refresh" =>
       /\ tokens[t.token].state \in {"LIVE", "LAPSED"}
       /\ tokens[t.token].user = t.user
       /\ users[t.user].status = "ACTIVE"
  /\ t.step = "rename" =>
       /\ t.seen <= users[t.user].version
       /\ t.seen = users[t.user].version => users[t.user].status = "ACTIVE"
  /\ t.step = "phoneHeld" => profiles[t.user].state # "REGISTERED"
  /\ t.step = "edit" =>
       /\ profiles[t.user].state = "REGISTERED"
       /\ t.seen <= users[t.user].version
       /\ t.seen = users[t.user].version => users[t.user].status = t.before

RequestsStand == \A p \in Procs : Standing(p)

\* Row locks exclude.
OneHolder ==
  \A p, q \in Procs :
    \/ p = q
    \/ /\ ~(At(p, "refresh") /\ At(q, "refresh") /\ tx[p].token = tx[q].token)
       /\ ~(At(p, "phoneHeld") /\ At(q, "phoneHeld") /\ tx[p].user = tx[q].user)

\* Only a registered member is ever disabled: the members page lists no other.
DisabledRegistered ==
  \A u \in Users : users[u].status = "DISABLED" => profiles[u].state = "REGISTERED"

Inv ==
  /\ TypeOK
  /\ OneAccountPerIdentity
  /\ OneLivePerLogin
  /\ PhonesAgree
  /\ AuditExplains
  /\ RequestsStand
  /\ OneHolder
  /\ DisabledRegistered
=============================================================================
