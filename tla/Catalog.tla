------------------------------ MODULE Catalog -------------------------------
(***************************************************************************)
(* The administrators' editable rows: card products (create, edit, put on  *)
(* and off sale) and venue check-in codes (create, start, stop, replace).  *)
(* Every row has a version; a save sends the version its page was loaded   *)
(* with.  Two ways of guarding it coexist:                                 *)
(*   - admincard reads the row for the audit log before its transaction    *)
(*     and lets UPDATE ... WHERE version = ? decide;                       *)
(*   - admincheckin locks the row first, compares the version itself and   *)
(*     does not look at the number of rows its UPDATE changed.             *)
(* After the commit both read the row once more for the answer.            *)
(*                                                                         *)
(* Pages are honest: what they send back is what they were shown.          *)
(* Bound: MaxVersion, the versions of a row.                               *)
(***************************************************************************)
EXTENDS Naturals, Sequences

CONSTANTS Products, Codes,   \* primary keys of card_products, checkin_codes
          Admins,            \* administrators, one request at a time each
          Contents,          \* a product's terms, a code's token
          None, MaxVersion

ASSUME RowsAssumption == Products \cap Codes = {}
ASSUME MaxVersionAssumption == MaxVersion \in Nat

VARIABLES rows,    \* the committed rows, None before creation
          audit,   \* audit_logs of a row
          page,    \* what an administrator's page shows of a row
          job      \* an administrator's request: its position and locals

vars == <<rows, audit, page, job>>

Rows == Products \cup Codes
ProductStatuses == {"DRAFT", "ON_SALE", "OFF_SALE"}
CodeStatuses == {"ACTIVE", "INACTIVE"}
StatusesOf(r) == IF r \in Products THEN ProductStatuses ELSE CodeStatuses
\* Mutant: every row is created ACTIVE.
FirstStatusActive(r) == "ACTIVE"
FirstStatus(r) == IF r \in Products THEN "DRAFT" ELSE "ACTIVE"

Image == [version: Nat \ {0}, status: ProductStatuses \cup CodeStatuses, content: Contents]
Change == [what: {"create", "content"}, value: Contents]
            \cup [what: {"status"}, value: ProductStatuses \cup CodeStatuses]

ASSUME NoneAssumption == None \notin Image \cup Contents

\* What audit_logs keep: the token of a code is not among it.
LogImage == [version: Nat \ {0}, status: ProductStatuses \cup CodeStatuses,
             content: Contents \cup {None}]
LogChange == Change \cup [what: {"create", "content"}, value: {None}]

Idle == [step |-> "idle"]
Saving == [step: {"save", "lock", "write"}, row: Rows, seen: Nat \ {0}, change: Change,
           before: LogImage \cup {None}]
Answering == [step: {"answer"}, row: Rows, qr: Contents \cup {None}]

(* Every row, log, page and request keeps its shape, and a row has a       *)
(* status of its own table.                                                *)
TypeOK ==
  /\ rows \in [Rows -> Image \cup {None}]
  /\ audit \in [Rows -> Seq([before: LogImage \cup {None}, change: LogChange])]
  /\ page \in [Admins -> [Rows -> Image \cup {None}]]
  /\ job \in [Admins -> {Idle} \cup Saving \cup Answering]
  /\ \A r \in Rows : rows[r] # None => rows[r].status \in StatusesOf(r)

Init ==
  /\ rows = [r \in Rows |-> None]
  /\ audit = [r \in Rows |-> <<>>]
  /\ page = [a \in Admins |-> [r \in Rows |-> None]]
  /\ job = [a \in Admins |-> Idle]

-----------------------------------------------------------------------------

At(a, step) == job[a].step = step
Finish(a) == job' = [job EXCEPT ![a] = Idle]
Answer(a, r, qr) == job' = [job EXCEPT ![a] = [step |-> "answer", row |-> r, qr |-> qr]]
Exists(r) == rows[r] # None

With(image, change) ==
  [version |-> image.version + 1,
   status |-> IF change.what = "status" THEN change.value ELSE image.status,
   content |-> IF change.what = "content" THEN change.value ELSE image.content]

\* admincheckin selects, and logs, a code without its token.
WithoutToken(r, image) ==
  IF r \in Codes THEN [image EXCEPT !.content = None] ELSE image

ToLog(r, change) ==
  IF r \in Codes /\ change.what # "status" THEN [change EXCEPT !.value = None] ELSE change

Logged(r, before, change) ==
  audit' = [audit EXCEPT ![r] = Append(@, [before |-> before, change |-> ToLog(r, change)])]

\* The list, or the form of one row.
Load(a, r) ==
  /\ job[a] = Idle
  /\ Exists(r)
  /\ page' = [page EXCEPT ![a] = [@ EXCEPT ![r] = rows[r]]]
  /\ UNCHANGED <<rows, audit, job>>

Create(a, r, value) ==
  /\ job[a] = Idle
  /\ ~Exists(r)
  /\ rows' = [rows EXCEPT ![r] = [version |-> 1, status |-> FirstStatus(r), content |-> value]]
  /\ Logged(r, None, [what |-> "create", value |-> value])
  /\ Answer(a, r, IF r \in Codes THEN value ELSE None)
  /\ UNCHANGED page

-----------------------------------------------------------------------------
(* Card products *)

validStatusTransition(current, target) ==
  \/ current \in {"DRAFT", "OFF_SALE"} /\ target = "ON_SALE"
  \/ current = "ON_SALE" /\ target = "OFF_SALE"

\* The before-image is read outside the transaction.
BeginSave(a, r, change) ==
  /\ job[a] = Idle
  /\ page[a][r] # None
  /\ rows[r].version < MaxVersion
  /\ job' = [job EXCEPT ![a] = [step |-> "save", row |-> r, seen |-> page[a][r].version,
                               change |-> change, before |-> rows[r]]]
  /\ UNCHANGED <<rows, audit, page>>

Update(a, r, value) ==
  r \in Products /\ BeginSave(a, r, [what |-> "content", value |-> value])

ChangeStatus(a, r, s) ==
  /\ r \in Products
  /\ Exists(r)
  /\ validStatusTransition(rows[r].status, s)
  /\ BeginSave(a, r, [what |-> "status", value |-> s])

\* The WHERE clause of the two UPDATEs.
\* Mutant: the status is compared, the version is not.
SaveMatchesStatus(j) ==
  j.change.what = "status" => rows[j.row].status = j.before.status
SaveMatches(j) ==
  /\ rows[j.row].version = j.seen
  /\ j.change.what = "status" => rows[j.row].status = j.before.status

\* Mutant: the answer shows the request's own terms, as Regenerate does
\* its own token.
SaveAnswersInput(a) ==
  LET j == job[a] IN
  /\ At(a, "save")
  /\ IF SaveMatches(j)
     THEN /\ rows' = [rows EXCEPT ![j.row] = With(@, j.change)]
          /\ Logged(j.row, j.before, j.change)
          /\ Answer(a, j.row, IF j.change.what = "content" THEN j.change.value ELSE None)
     ELSE Finish(a) /\ UNCHANGED <<rows, audit>>
  /\ UNCHANGED page
Save(a) ==
  LET j == job[a] IN
  /\ At(a, "save")
  /\ IF SaveMatches(j)
     THEN /\ rows' = [rows EXCEPT ![j.row] = With(@, j.change)]
          /\ Logged(j.row, j.before, j.change)
          /\ Answer(a, j.row, None)
     ELSE Finish(a) /\ UNCHANGED <<rows, audit>>
  /\ UNCHANGED page

-----------------------------------------------------------------------------
(* Check-in codes *)

BeginCode(a, r, change) ==
  /\ job[a] = Idle
  /\ r \in Codes
  /\ page[a][r] # None
  /\ rows[r].version < MaxVersion
  /\ job' = [job EXCEPT ![a] = [step |-> "lock", row |-> r, seen |-> page[a][r].version,
                               change |-> change, before |-> None]]
  /\ UNCHANGED <<rows, audit, page>>

ChangeCodeStatus(a, r, s) == BeginCode(a, r, [what |-> "status", value |-> s])

Regenerate(a, r, token) == BeginCode(a, r, [what |-> "content", value |-> token])

\* SELECT ... FOR UPDATE: no other request is between its lock and its commit.
\* Mutant: the row is read without FOR UPDATE.
CodeFreeUnlocked(r, a) == TRUE
CodeFree(r, a) == \A b \in Admins \ {a} : ~(At(b, "write") /\ job[b].row = r)

LockCode(a) ==
  LET j == job[a] IN
  /\ At(a, "lock")
  /\ CodeFree(j.row, a)
  /\ IF rows[j.row].version = j.seen
     THEN job' = [job EXCEPT ![a] = [step |-> "write", row |-> j.row, seen |-> j.seen,
                                    change |-> j.change,
                                    before |-> WithoutToken(j.row, rows[j.row])]]
     ELSE Finish(a)
  /\ UNCHANGED <<rows, audit, page>>

WriteCode(a) ==
  LET j == job[a] IN
  /\ At(a, "write")
  /\ rows' = IF rows[j.row].version = j.seen
             THEN [rows EXCEPT ![j.row] = With(@, j.change)] ELSE rows
  /\ Logged(j.row, j.before, j.change)
  /\ Answer(a, j.row, IF j.change.what = "content" THEN j.change.value ELSE None)
  /\ UNCHANGED page

-----------------------------------------------------------------------------

\* The row is read again for the answer; a new code's token is the
\* request's own.
Reread(a) ==
  LET j == job[a]
      now == rows[j.row]
  IN
  /\ At(a, "answer")
  /\ page' = [page EXCEPT ![a] = [@ EXCEPT ![j.row] =
       IF j.qr = None THEN now
       ELSE [version |-> now.version, status |-> now.status, content |-> j.qr]]]
  /\ Finish(a)
  /\ UNCHANGED <<rows, audit>>

\* The request fails before its commit, or its answer is lost.
Abort(a) ==
  /\ job[a] # Idle
  /\ Finish(a)
  /\ UNCHANGED <<rows, audit, page>>

Next ==
  \E a \in Admins :
    \/ \E r \in Rows :
         \/ Load(a, r)
         \/ \E value \in Contents : Create(a, r, value) \/ Update(a, r, value) \/ Regenerate(a, r, value)
         \/ \E s \in ProductStatuses : ChangeStatus(a, r, s)
         \/ \E s \in CodeStatuses : ChangeCodeStatus(a, r, s)
    \/ Save(a) \/ LockCode(a) \/ WriteCode(a) \/ Reread(a) \/ Abort(a)

Spec == Init /\ [][Next]_vars

-----------------------------------------------------------------------------
(* Properties *)

Row(r) == INSTANCE AuditedRow
            WITH row <- rows[r], log <- audit[r], Initially <- FirstStatus(r),
                 Statuses <- StatusesOf(r), Secret <- r \in Codes

(* Each row and its audit log implement AuditedRow: whoever saves at the   *)
(* same time, every version is logged once, with the row it replaced and   *)
(* the change made to it (of a code, without the token), although          *)
(* admincard reads that row outside the transaction and admincheckin never *)
(* asks whether its UPDATE matched.                                        *)
RowsAudited ==
  /\ \A r \in Rows : Row(r)!Init
  /\ [][\A r \in Rows : [Row(r)!Next]_<<rows[r], audit[r]>>]_vars

(* A save replaces the version and the status its author's page showed,    *)
(* and of a product the terms too, also when the page is itself the answer *)
(* to an earlier save.  The token of a code is not part of it: the answer  *)
(* to Create and Regenerate carries the request's own token beside a       *)
(* version read after the commit, and when another administrator replaced  *)
(* the token in between, the author's next Regenerate replaces a token no  *)
(* page of his has shown.                                                  *)
SeenBeforeSaved ==
  [][\A a \in Admins, r \in Rows :
       (job[a] # Idle /\ job'[a] # job[a] /\ rows'[r] # rows[r] /\ rows[r] # None) =>
         /\ page[a][r].version = rows[r].version
         /\ page[a][r].status = rows[r].status
         /\ r \in Products => page[a][r].content = rows[r].content]_vars

(* A version names one state of a product: a page with the version of the  *)
(* row shows the row.  Of codes it is false, see SeenBeforeSaved.          *)
VersionNamesContent ==
  \A a \in Admins, r \in Products :
    page[a][r] # None =>
      /\ page[a][r].version <= rows[r].version
      /\ page[a][r].version = rows[r].version => page[a][r] = rows[r]

-----------------------------------------------------------------------------
(* What makes the properties inductive. *)

\* An image of a row is the row as it is, or as it once was.
Behind(image, row, r) ==
  /\ row # None
  /\ image.version <= row.version
  /\ image.version = row.version =>
       image.status = row.status /\ (r \in Products => image = row)

ChangesOf(r) == [what: {"content"}, value: Contents] \cup [what: {"status"}, value: StatusesOf(r)]

\* A save on its way: row is what it will find, shown what its page shows.
Pending(j, row, shown) ==
  /\ row # None
  /\ shown # None
  /\ shown.version = j.seen
  /\ j.change \in ChangesOf(j.row)
  /\ j.step = "save" =>
       /\ j.row \in Products
       /\ j.before \in Image
       /\ j.seen <= j.before.version
       /\ Behind(j.before, row, j.row)
  /\ j.step \in {"lock", "write"} => j.row \in Codes
  /\ j.step = "write" => j.before = WithoutToken(j.row, row) /\ j.seen = row.version

NothingBeforeCreation == \A r \in Rows : rows[r] = None => audit[r] = <<>>

PagesBehind ==
  \A a \in Admins, r \in Rows : page[a][r] # None => Behind(page[a][r], rows[r], r)

JobsPending ==
  \A a \in Admins : job[a] \in Saving => Pending(job[a], rows[job[a].row], page[a][job[a].row])

AnswersFit ==
  \A a \in Admins : job[a] \in Answering =>
    /\ rows[job[a].row] # None
    /\ job[a].row \in Products => job[a].qr = None

OneWriter ==
  \A a, b \in Admins :
    (At(a, "write") /\ At(b, "write") /\ job[a].row = job[b].row) => a = b

Inv ==
  /\ TypeOK
  /\ NothingBeforeCreation
  /\ PagesBehind
  /\ JobsPending
  /\ AnswersFit
  /\ OneWriter
=============================================================================
