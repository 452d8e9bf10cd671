---------------------------- MODULE Catalog_proofs ----------------------------
(* Proofs about Catalog for any number of administrators, products, check-in *)
(* codes and contents, and any bound on the versions.                        *)
EXTENDS Catalog, SequenceTheorems, TLAPS

-----------------------------------------------------------------------------
(* Images of a row *)

LEMMA NoneIsNoImage == None \notin Image
  BY NoneAssumption

LEMMA ImageFields ==
  ASSUME NEW image \in Image
  PROVE /\ image.version \in Nat \ {0}
        /\ image.status \in ProductStatuses \cup CodeStatuses
        /\ image.content \in Contents
        /\ image # None
  BY NoneIsNoImage DEF Image

LEMMA StatusesTyped == \A r \in Rows : StatusesOf(r) \subseteq ProductStatuses \cup CodeStatuses
  BY DEF StatusesOf

LEMMA ChangesTyped ==
  ASSUME NEW r \in Rows, NEW change \in ChangesOf(r)
  PROVE change \in Change
  BY StatusesTyped DEF ChangesOf, Change

\* What is logged of an image, and of a change, is of the log's types.
LEMMA ImageLogged ==
  ASSUME NEW r \in Rows, NEW image \in Image
  PROVE WithoutToken(r, image) \in LogImage
  <1>1. image \in LogImage
    BY DEF Image, LogImage
  <1>2. [image EXCEPT !.content = None] \in LogImage
    BY DEF Image, LogImage
  <1>. QED
    BY <1>1, <1>2 DEF WithoutToken

LEMMA ChangeLogged ==
  ASSUME NEW r \in Rows, NEW change \in Change
  PROVE ToLog(r, change) \in LogChange
  <1>1. ASSUME change.what # "status"
        PROVE [change EXCEPT !.value = None] \in [what: {"create", "content"}, value: {None}]
    BY <1>1 DEF Change
  <1>. QED
    BY <1>1 DEF ToLog, LogChange

\* A change makes the next version, with a status of the row's own table.
LEMMA WithNext ==
  ASSUME NEW r \in Rows, NEW image \in Image, image.status \in StatusesOf(r),
         NEW change \in ChangesOf(r)
  PROVE /\ With(image, change) \in Image
        /\ With(image, change).version = image.version + 1
        /\ With(image, change).status \in StatusesOf(r)
  <1>. DEFINE s == IF change.what = "status" THEN change.value ELSE image.status
              c == IF change.what = "content" THEN change.value ELSE image.content
  <1>1. s \in StatusesOf(r)
    BY DEF ChangesOf
  <1>2. c \in Contents
    BY ImageFields DEF ChangesOf
  <1>3. image.version + 1 \in Nat \ {0}
    BY ImageFields
  <1>4. With(image, change) = [version |-> image.version + 1, status |-> s, content |-> c]
    BY DEF With
  <1>. HIDE DEF s, c
  <1>. QED
    BY <1>1, <1>2, <1>3, <1>4, StatusesTyped DEF Image

\* An image stays behind its row when the row gets its next version.
LEMMA BehindNext ==
  ASSUME NEW r, NEW image \in Image, NEW row \in Image, NEW next \in Image,
         Behind(image, row, r), next.version = row.version + 1
  PROVE Behind(image, next, r)
  BY ImageFields DEF Behind

LEMMA BehindItself ==
  ASSUME NEW r, NEW image \in Image
  PROVE Behind(image, image, r)
  BY ImageFields DEF Behind

-----------------------------------------------------------------------------
(* Requests *)

LEMMA JobKinds ==
  ASSUME NEW j \in {Idle} \cup Saving \cup Answering
  PROVE /\ j.step \in {"save", "lock", "write"} => j \in Saving
        /\ j.step = "answer" => j \in Answering
        /\ Idle \notin Saving \cup Answering
        /\ j \in Saving => j \notin Answering
  BY DEF Idle, Saving, Answering

LEMMA SavingFields ==
  ASSUME NEW j \in Saving
  PROVE /\ j.step \in {"save", "lock", "write"}
        /\ j.row \in Rows
        /\ j.seen \in Nat \ {0}
        /\ j.change \in Change
        /\ j.before \in LogImage \cup {None}
        /\ j \notin Answering
        /\ j # Idle
  BY DEF Saving, Answering, Idle

LEMMA AnsweringFields ==
  ASSUME NEW j \in Answering
  PROVE /\ j.step = "answer"
        /\ j.row \in Rows
        /\ j.qr \in Contents \cup {None}
        /\ j \notin Saving
        /\ j # Idle
  BY DEF Saving, Answering, Idle

\* A step that only moves one request on.
LEMMA JobStep ==
  ASSUME Inv, UNCHANGED <<rows, audit, page>>,
         NEW a \in Admins, NEW k \in {Idle} \cup Saving \cup Answering,
         job' = [job EXCEPT ![a] = k],
         k \in Saving => Pending(k, rows[k.row], page[a][k.row]),
         k \in Answering => rows[k.row] # None /\ (k.row \in Products => k.qr = None),
         k.step = "write" => \A b \in Admins \ {a} : ~(At(b, "write") /\ job[b].row = k.row)
  PROVE Inv'
  <1>1. \A b \in Admins : job'[b] = IF b = a THEN k ELSE job[b]
    BY DEF Inv, TypeOK
  <1>2. TypeOK'
    BY DEF Inv, TypeOK
  <1>3. NothingBeforeCreation' /\ PagesBehind'
    BY DEF Inv, NothingBeforeCreation, PagesBehind
  <1>4. JobsPending'
    BY <1>1 DEF Inv, JobsPending
  <1>5. AnswersFit'
    BY <1>1 DEF Inv, AnswersFit
  <1>6. OneWriter'
    BY <1>1 DEF Inv, OneWriter, At
  <1>. QED
    BY <1>2, <1>3, <1>4, <1>5, <1>6 DEF Inv

\* A request that ends without a change.
LEMMA FinishStep ==
  ASSUME Inv, UNCHANGED <<rows, audit, page>>, NEW a \in Admins, Finish(a)
  PROVE Inv'
  <1>1. Idle \notin Saving \cup Answering /\ Idle.step # "write"
    BY JobKinds DEF Idle
  <1>. QED
    BY <1>1, JobStep DEF Finish

\* A step that gives a row its first or its next version, logs it, and
\* leaves its author to be answered.
LEMMA RowStep ==
  ASSUME Inv, NEW a \in Admins, NEW r \in Rows,
         NEW next \in Image, next.status \in StatusesOf(r),
         rows[r] # None => next.version = rows[r].version + 1,
         NEW entry \in [before: LogImage \cup {None}, change: LogChange],
         NEW qr \in Contents \cup {None}, r \in Products => qr = None,
         rows' = [rows EXCEPT ![r] = next],
         audit' = [audit EXCEPT ![r] = Append(audit[r], entry)],
         Answer(a, r, qr),
         UNCHANGED page,
         \A b \in Admins \ {a} : ~(At(b, "write") /\ job[b].row = r)
  PROVE Inv'
  <1>. DEFINE k == [step |-> "answer", row |-> r, qr |-> qr]
  <1>1. k \in Answering
    BY DEF Answering
  <1>2. \A b \in Admins : job'[b] = IF b = a THEN k ELSE job[b]
    BY DEF Inv, TypeOK, Answer
  <1>3. k \notin Saving /\ k.step = "answer" /\ k.row = r /\ k.qr = qr
    BY <1>1, AnsweringFields
  <1>4. \A s \in Rows : rows'[s] = IF s = r THEN next ELSE rows[s]
    BY DEF Inv, TypeOK
  <1>5. \A s \in Rows : s # r => audit'[s] = audit[s]
    BY DEF Inv, TypeOK
  <1>6. next # None
    BY ImageFields
  <1>7. \A s \in Rows : rows[s] # None => rows'[s] # None
    BY <1>4, <1>6
  <1>8. ASSUME NEW s \in Rows, NEW image \in Image, Behind(image, rows[s], s)
        PROVE Behind(image, rows'[s], s)
    <2>1. rows[s] # None /\ rows[s] \in Image
      BY <1>8 DEF Behind, Inv, TypeOK
    <2>2. CASE s = r
      <3>1. Behind(image, next, r)
        BY <1>8, <2>1, <2>2, BehindNext
      <3>. QED
        BY <3>1, <2>2, <1>4
    <2>3. CASE s # r
      BY <1>4, <1>8, <2>3
    <2>. QED
      BY <2>2, <2>3
  <1>. HIDE DEF k
  <1>9. TypeOK'
    <2>1. audit' \in [Rows -> Seq([before: LogImage \cup {None}, change: LogChange])]
      <3>1. Append(audit[r], entry) \in Seq([before: LogImage \cup {None}, change: LogChange])
        BY AppendProperties DEF Inv, TypeOK
      <3>. QED
        BY <3>1 DEF Inv, TypeOK
    <2>2. rows' \in [Rows -> Image \cup {None}]
      BY DEF Inv, TypeOK
    <2>3. job' \in [Admins -> {Idle} \cup Saving \cup Answering]
      BY <1>1 DEF Inv, TypeOK, Answer, k
    <2>4. \A s \in Rows : rows'[s] # None => rows'[s].status \in StatusesOf(s)
      BY <1>4 DEF Inv, TypeOK
    <2>. QED
      BY <2>1, <2>2, <2>3, <2>4 DEF Inv, TypeOK
  <1>10. NothingBeforeCreation'
    BY <1>4, <1>5, <1>6 DEF Inv, NothingBeforeCreation
  <1>11. PagesBehind'
    <2>. SUFFICES ASSUME NEW b \in Admins, NEW s \in Rows, page[b][s] # None
                  PROVE Behind(page[b][s], rows'[s], s)
      BY DEF PagesBehind
    <2>1. page[b][s] \in Image /\ Behind(page[b][s], rows[s], s)
      BY DEF Inv, TypeOK, PagesBehind
    <2>. QED
      BY <2>1, <1>8
  <1>12. JobsPending'
    <2>. SUFFICES ASSUME NEW b \in Admins, job'[b] \in Saving
                  PROVE Pending(job'[b], rows'[job'[b].row], page[b][job'[b].row])
      BY DEF JobsPending
    <2>. DEFINE j == job[b]
    <2>1. b # a /\ job'[b] = j /\ j \in Saving
      BY <1>2, <1>3
    <2>2. j.row \in Rows /\ j.before \in LogImage \cup {None}
      BY <2>1, SavingFields
    <2>3. Pending(j, rows[j.row], page[b][j.row])
      BY <2>1 DEF Inv, JobsPending
    <2>4. j.step = "save" => Behind(j.before, rows'[j.row], j.row)
      BY <2>2, <2>3, <1>8 DEF Pending
    <2>5. j.step = "write" => rows'[j.row] = rows[j.row]
      BY <2>1, <2>2, <1>4 DEF At
    <2>6. rows'[j.row] # None
      BY <2>2, <2>3, <1>7 DEF Pending
    <2>. HIDE DEF j
    <2>7. Pending(j, rows'[j.row], page[b][j.row])
      BY <2>3, <2>4, <2>5, <2>6 DEF Pending
    <2>. QED
      BY <2>1, <2>7
  <1>13. AnswersFit'
    <2>. SUFFICES ASSUME NEW b \in Admins, job'[b] \in Answering
                  PROVE rows'[job'[b].row] # None /\ (job'[b].row \in Products => job'[b].qr = None)
      BY DEF AnswersFit
    <2>1. CASE b = a
      BY <2>1, <1>2, <1>3, <1>4, <1>6
    <2>2. CASE b # a
      <3>1. job'[b] = job[b] /\ job[b].row \in Rows
        BY <2>2, <1>2, AnsweringFields
      <3>. QED
        BY <3>1, <1>7 DEF Inv, AnswersFit
    <2>. QED
      BY <2>1, <2>2
  <1>14. OneWriter'
    BY <1>2, <1>3 DEF Inv, OneWriter, At
  <1>. QED
    BY <1>9, <1>10, <1>11, <1>12, <1>13, <1>14 DEF Inv

-----------------------------------------------------------------------------
(* The steps *)

\* What a request that saves has to be, read off its parts.
LEMMA SavingType ==
  ASSUME NEW step \in {"save", "lock", "write"}, NEW r \in Rows, NEW seen \in Nat \ {0},
         NEW change \in Change, NEW before \in LogImage \cup {None}
  PROVE [step |-> step, row |-> r, seen |-> seen, change |-> change, before |-> before] \in Saving
  BY DEF Saving

LEMMA LoadInv ==
  ASSUME Inv, NEW a \in Admins, NEW r \in Rows, Load(a, r) PROVE Inv'
  <1>1. \A b \in Admins, s \in Rows :
          page'[b][s] = IF b = a /\ s = r THEN rows[r] ELSE page[b][s]
    BY DEF Load, Inv, TypeOK
  <1>2. UNCHANGED <<rows, audit, job>> /\ job[a] = Idle /\ rows[r] \in Image
    BY DEF Load, Exists, Inv, TypeOK
  <1>3. TypeOK'
    BY DEF Load, Inv, TypeOK
  <1>4. PagesBehind'
    BY <1>1, <1>2, BehindItself DEF Inv, PagesBehind
  <1>5. JobsPending'
    <2>. SUFFICES ASSUME NEW b \in Admins, job[b] \in Saving
                  PROVE Pending(job[b], rows[job[b].row], page'[b][job[b].row])
      BY <1>2 DEF JobsPending
    <2>1. b # a /\ job[b].row \in Rows
      BY <1>2, SavingFields
    <2>2. page'[b][job[b].row] = page[b][job[b].row]
      BY <1>1, <2>1
    <2>. QED
      BY <2>2 DEF Inv, JobsPending
  <1>6. NothingBeforeCreation' /\ AnswersFit' /\ OneWriter'
    BY <1>2 DEF Inv, NothingBeforeCreation, AnswersFit, OneWriter, At
  <1>. QED
    BY <1>3, <1>4, <1>5, <1>6 DEF Inv

LEMMA CreateInv ==
  ASSUME Inv, NEW a \in Admins, NEW r \in Rows, NEW value \in Contents, Create(a, r, value)
  PROVE Inv'
  <1>. DEFINE next == [version |-> 1, status |-> FirstStatus(r), content |-> value]
              change == [what |-> "create", value |-> value]
              entry == [before |-> None, change |-> ToLog(r, change)]
              qr == IF r \in Codes THEN value ELSE None
  <1>1. FirstStatus(r) \in StatusesOf(r)
    BY DEF FirstStatus, StatusesOf, ProductStatuses, CodeStatuses
  <1>2. next \in Image /\ next.status \in StatusesOf(r)
    BY <1>1, StatusesTyped DEF Image
  <1>3. entry \in [before: LogImage \cup {None}, change: LogChange]
    <2>1. change \in Change
      BY DEF Change
    <2>. QED
      BY <2>1, ChangeLogged
  <1>4. qr \in Contents \cup {None} /\ (r \in Products => qr = None)
    BY RowsAssumption
  <1>5. \A b \in Admins \ {a} : ~(At(b, "write") /\ job[b].row = r)
    <2>. SUFFICES ASSUME NEW b \in Admins, job[b].step = "write", job[b].row = r PROVE FALSE
      BY DEF At
    <2>1. job[b] \in Saving
      BY JobKinds DEF Inv, TypeOK
    <2>. QED
      BY <2>1 DEF Inv, JobsPending, Pending, Create, Exists
  <1>6. /\ rows' = [rows EXCEPT ![r] = next]
        /\ audit' = [audit EXCEPT ![r] = Append(audit[r], entry)]
        /\ Answer(a, r, qr) /\ UNCHANGED page /\ rows[r] = None
    BY DEF Create, Logged, Exists
  <1>. HIDE DEF next, entry, qr
  <1>. QED
    BY <1>2, <1>3, <1>4, <1>5, <1>6, RowStep

LEMMA BeginSaveInv ==
  ASSUME Inv, NEW a \in Admins, NEW r \in Products, NEW change \in ChangesOf(r),
         BeginSave(a, r, change)
  PROVE Inv'
  <1>. DEFINE k == [step |-> "save", row |-> r, seen |-> page[a][r].version,
                    change |-> change, before |-> rows[r]]
  <1>1. r \in Rows /\ page[a][r] \in Image /\ page[a][r] # None
    BY DEF BeginSave, Rows, Inv, TypeOK
  <1>2. /\ Behind(page[a][r], rows[r], r) /\ rows[r] # None
        /\ rows[r] \in Image /\ rows[r] \in LogImage
    BY <1>1 DEF Inv, TypeOK, PagesBehind, Behind, Image, LogImage
  <1>3. page[a][r].version \in Nat \ {0}
    BY <1>1, ImageFields
  <1>4. k \in Saving
    BY <1>1, <1>2, <1>3, ChangesTyped, SavingType
  <1>5. Pending(k, rows[r], page[a][r])
    BY <1>1, <1>2, BehindItself DEF Pending, Behind
  <1>6. job' = [job EXCEPT ![a] = k] /\ UNCHANGED <<rows, audit, page>>
    BY DEF BeginSave
  <1>7. k.step = "save" /\ k.row = r /\ k \notin Answering
    BY <1>4, SavingFields
  <1>. HIDE DEF k
  <1>. QED
    BY <1>4, <1>5, <1>6, <1>7, JobStep

LEMMA BeginCodeInv ==
  ASSUME Inv, NEW a \in Admins, NEW r \in Codes, NEW change \in ChangesOf(r),
         BeginCode(a, r, change)
  PROVE Inv'
  <1>. DEFINE k == [step |-> "lock", row |-> r, seen |-> page[a][r].version,
                    change |-> change, before |-> None]
  <1>1. r \in Rows /\ page[a][r] \in Image /\ page[a][r] # None
    BY DEF BeginCode, Rows, Inv, TypeOK
  <1>2. rows[r] # None
    BY <1>1 DEF Inv, PagesBehind, Behind
  <1>3. page[a][r].version \in Nat \ {0}
    BY <1>1, ImageFields
  <1>4. k \in Saving
    BY <1>1, <1>3, ChangesTyped, SavingType
  <1>5. Pending(k, rows[r], page[a][r])
    BY <1>1, <1>2 DEF Pending
  <1>6. job' = [job EXCEPT ![a] = k] /\ UNCHANGED <<rows, audit, page>>
    BY DEF BeginCode
  <1>7. k.step = "lock" /\ k.row = r /\ k \notin Answering
    BY <1>4, SavingFields
  <1>. HIDE DEF k
  <1>. QED
    BY <1>4, <1>5, <1>6, <1>7, JobStep

\* What the write of a request finds, whichever way the row is guarded.
LEMMA WriteFinds ==
  ASSUME Inv, NEW a \in Admins,
         \/ At(a, "save") /\ SaveMatches(job[a])
         \/ At(a, "write")
  PROVE /\ job[a] \in Saving
        /\ job[a].row \in Rows
        /\ rows[job[a].row] \in Image
        /\ rows[job[a].row] # None
        /\ rows[job[a].row].version = job[a].seen
        /\ job[a].before = WithoutToken(job[a].row, rows[job[a].row])
        /\ job[a].change \in ChangesOf(job[a].row)
        /\ page[a][job[a].row] # None
        /\ page[a][job[a].row].version = job[a].seen
        /\ \A b \in Admins \ {a} : ~(At(b, "write") /\ job[b].row = job[a].row)
  <1>. DEFINE j == job[a]
  <1>1. j \in Saving
    BY JobKinds DEF Inv, TypeOK, At
  <1>2. j.row \in Rows /\ j.seen \in Nat
    BY <1>1, SavingFields
  <1>3. Pending(j, rows[j.row], page[a][j.row])
    BY <1>1 DEF Inv, JobsPending
  <1>4. rows[j.row] \in Image
    BY <1>2, <1>3 DEF Inv, TypeOK, Pending
  <1>5. CASE At(a, "save") /\ SaveMatches(j)
    <2>1. j.row \in Products /\ j.before \in Image /\ j.seen <= j.before.version
          /\ Behind(j.before, rows[j.row], j.row)
      BY <1>2, <1>3, <1>5 DEF Pending, At
    <2>2. rows[j.row].version = j.seen
      BY <1>5 DEF SaveMatches
    <2>3. j.before = WithoutToken(j.row, rows[j.row])
      <3>1. j.before = rows[j.row]
        BY <2>1, <2>2, <1>2, ImageFields DEF Behind
      <3>. QED
        BY <2>1, <3>1, RowsAssumption DEF WithoutToken
    <2>4. \A b \in Admins : ~(At(b, "write") /\ job[b].row = j.row)
      <3>. SUFFICES ASSUME NEW b \in Admins, job[b].step = "write", job[b].row = j.row PROVE FALSE
        BY DEF At
      <3>1. job[b] \in Saving
        BY JobKinds DEF Inv, TypeOK
      <3>2. job[b].row \in Codes
        BY <3>1 DEF Inv, JobsPending, Pending
      <3>. QED
        BY <3>2, <2>1, RowsAssumption
    <2>. QED
      BY <1>1, <1>2, <1>3, <1>4, <2>2, <2>3, <2>4 DEF Pending
  <1>6. CASE At(a, "write")
    BY <1>1, <1>2, <1>3, <1>4, <1>6 DEF Pending, At, Inv, OneWriter
  <1>. QED
    BY <1>5, <1>6

\* The write itself: the row's next version, logged with the row it replaces.
LEMMA WriteInv ==
  ASSUME Inv, NEW a \in Admins, NEW qr \in Contents \cup {None},
         \/ At(a, "save") /\ SaveMatches(job[a])
         \/ At(a, "write"),
         job[a].row \in Products => qr = None,
         rows' = [rows EXCEPT ![job[a].row] = With(rows[job[a].row], job[a].change)],
         Logged(job[a].row, job[a].before, job[a].change),
         Answer(a, job[a].row, qr), UNCHANGED page
  PROVE Inv'
  <1>. DEFINE j == job[a]
              r == job[a].row
              next == With(rows[r], j.change)
              entry == [before |-> j.before, change |-> ToLog(r, j.change)]
  <1>1. /\ r \in Rows /\ rows[r] \in Image /\ rows[r] # None
        /\ j.before = WithoutToken(r, rows[r]) /\ j.change \in ChangesOf(r)
        /\ \A b \in Admins \ {a} : ~(At(b, "write") /\ job[b].row = r)
    BY WriteFinds
  <1>2. rows[r].status \in StatusesOf(r)
    BY <1>1 DEF Inv, TypeOK
  <1>3. next \in Image /\ next.status \in StatusesOf(r) /\ next.version = rows[r].version + 1
    BY <1>1, <1>2, WithNext
  <1>4. entry \in [before: LogImage \cup {None}, change: LogChange]
    BY <1>1, ChangesTyped, ImageLogged, ChangeLogged
  <1>5. /\ rows' = [rows EXCEPT ![r] = next]
        /\ audit' = [audit EXCEPT ![r] = Append(audit[r], entry)]
        /\ Answer(a, r, qr)
    BY DEF Logged
  <1>6. r \in Products => qr = None
    OBVIOUS
  <1>. HIDE DEF next, entry, j, r
  <1>. QED
    BY <1>1, <1>3, <1>4, <1>5, <1>6, RowStep

LEMMA SaveInv == ASSUME Inv, NEW a \in Admins, Save(a) PROVE Inv'
  <1>1. CASE SaveMatches(job[a])
    BY <1>1, WriteInv DEF Save
  <1>2. CASE ~SaveMatches(job[a])
    BY <1>2, FinishStep DEF Save
  <1>. QED
    BY <1>1, <1>2

LEMMA LockCodeInv == ASSUME Inv, NEW a \in Admins, LockCode(a) PROVE Inv'
  <1>. DEFINE j == job[a]
              k == [step |-> "write", row |-> j.row, seen |-> j.seen,
                    change |-> j.change, before |-> WithoutToken(j.row, rows[j.row])]
  <1>1. CASE rows[j.row].version = j.seen
    <2>1. j \in Saving
      BY JobKinds DEF LockCode, At, Inv, TypeOK
    <2>2. j.row \in Rows /\ j.seen \in Nat \ {0} /\ j.change \in Change /\ j.step = "lock"
      BY <2>1, SavingFields DEF LockCode, At
    <2>3. Pending(j, rows[j.row], page[a][j.row])
      BY <2>1 DEF Inv, JobsPending
    <2>4. k \in Saving
      <3>1. rows[j.row] \in Image
        BY <2>2, <2>3 DEF Inv, TypeOK, Pending
      <3>. QED
        BY <2>2, <3>1, ImageLogged, SavingType
    <2>5. Pending(k, rows[j.row], page[a][j.row])
      BY <1>1, <2>2, <2>3 DEF Pending
    <2>6. job' = [job EXCEPT ![a] = k] /\ UNCHANGED <<rows, audit, page>>
      BY <1>1 DEF LockCode
    <2>7. k.row = j.row /\ k \notin Answering
      BY <2>4, SavingFields
    <2>8. \A b \in Admins \ {a} : ~(At(b, "write") /\ job[b].row = k.row)
      BY <2>7 DEF LockCode, CodeFree
    <2>. HIDE DEF k, j
    <2>. QED
      BY <2>4, <2>5, <2>6, <2>7, <2>8, JobStep
  <1>2. CASE rows[j.row].version # j.seen
    BY <1>2, FinishStep DEF LockCode
  <1>. QED
    BY <1>1, <1>2

LEMMA WriteCodeInv == ASSUME Inv, NEW a \in Admins, WriteCode(a) PROVE Inv'
  <1>. DEFINE j == job[a]
              qr == IF j.change.what = "content" THEN j.change.value ELSE None
  <1>1. /\ j \in Saving /\ rows[j.row].version = j.seen /\ j.change \in ChangesOf(j.row)
        /\ j.step = "write"
    BY WriteFinds DEF WriteCode, At
  <1>2. j.row \notin Products
    BY <1>1, RowsAssumption DEF Inv, JobsPending, Pending
  <1>3. qr \in Contents \cup {None}
    BY <1>1 DEF ChangesOf
  <1>4. /\ At(a, "write")
        /\ rows' = [rows EXCEPT ![j.row] = With(rows[j.row], j.change)]
        /\ Logged(j.row, j.before, j.change)
        /\ Answer(a, j.row, qr) /\ UNCHANGED page
    BY <1>1 DEF WriteCode
  <1>. HIDE DEF qr
  <1>. QED
    BY <1>2, <1>3, <1>4, WriteInv

LEMMA RereadInv == ASSUME Inv, NEW a \in Admins, Reread(a) PROVE Inv'
  <1>. DEFINE j == job[a]
              now == rows[j.row]
              shown == IF j.qr = None THEN now
                       ELSE [version |-> now.version, status |-> now.status, content |-> j.qr]
  <1>1. j \in Answering
    BY JobKinds DEF Reread, At, Inv, TypeOK
  <1>2. j.row \in Rows /\ j.qr \in Contents \cup {None}
    BY <1>1, AnsweringFields
  <1>3. now \in Image /\ now # None /\ (j.row \in Products => j.qr = None)
    BY <1>1, <1>2 DEF Inv, TypeOK, AnswersFit
  <1>4. now.version \in Nat \ {0} /\ now.status \in ProductStatuses \cup CodeStatuses
    BY <1>3, ImageFields
  <1>5. shown \in Image
    BY <1>2, <1>3, <1>4 DEF Image
  <1>6. Behind(shown, now, j.row)
    BY <1>3, <1>4 DEF Behind
  <1>7. \A b \in Admins, s \in Rows :
          page'[b][s] = IF b = a /\ s = j.row THEN shown ELSE page[b][s]
    BY <1>2 DEF Reread, Inv, TypeOK
  <1>8. page' = [page EXCEPT ![a] = [page[a] EXCEPT ![j.row] = shown]]
    BY DEF Reread
  <1>9. UNCHANGED <<rows, audit>> /\ Finish(a)
    BY DEF Reread
  <1>10. \A b \in Admins : job'[b] = IF b = a THEN Idle ELSE job[b]
    BY <1>9 DEF Finish, Inv, TypeOK
  <1>11. Idle \notin Saving \cup Answering /\ Idle.step # "write"
    BY JobKinds DEF Idle
  <1>. HIDE DEF shown
  <1>12. TypeOK'
    <2>1. page' \in [Admins -> [Rows -> Image \cup {None}]]
      BY <1>5, <1>8 DEF Inv, TypeOK
    <2>2. job' \in [Admins -> {Idle} \cup Saving \cup Answering]
      BY <1>9 DEF Finish, Inv, TypeOK
    <2>. QED
      BY <2>1, <2>2, <1>9 DEF Inv, TypeOK
  <1>13. PagesBehind'
    BY <1>6, <1>7, <1>9 DEF Inv, PagesBehind
  <1>14. JobsPending'
    <2>. SUFFICES ASSUME NEW b \in Admins, job'[b] \in Saving
                  PROVE Pending(job'[b], rows'[job'[b].row], page'[b][job'[b].row])
      BY DEF JobsPending
    <2>1. b # a /\ job'[b] = job[b]
      BY <1>10, <1>11
    <2>2. page'[b][job[b].row] = page[b][job[b].row]
      BY <1>7, <2>1, SavingFields
    <2>. QED
      BY <1>9, <2>1, <2>2 DEF Inv, JobsPending
  <1>15. NothingBeforeCreation'
    BY <1>9 DEF Inv, NothingBeforeCreation
  <1>16. AnswersFit'
    BY <1>9, <1>10, <1>11 DEF Inv, AnswersFit
  <1>17. OneWriter'
    BY <1>10, <1>11 DEF Inv, OneWriter, At
  <1>. QED
    BY <1>12, <1>13, <1>14, <1>15, <1>16, <1>17 DEF Inv

-----------------------------------------------------------------------------
(* The invariant *)

LEMMA InitInv == Init => Inv
  <1>. SUFFICES ASSUME Init PROVE Inv
    OBVIOUS
  <1>1. Idle \notin Saving \cup Answering /\ Idle.step = "idle"
    BY JobKinds DEF Idle
  <1>2. TypeOK
    BY DEF Init, TypeOK
  <1>. QED
    BY <1>1, <1>2 DEF Init, Inv, NothingBeforeCreation, PagesBehind, JobsPending, AnswersFit, OneWriter, At

LEMMA StepInv ==
  ASSUME Inv, NEW a \in Admins, Save(a) \/ LockCode(a) \/ WriteCode(a) \/ Reread(a) \/ Abort(a)
  PROVE Inv'
  <1>1. CASE Abort(a)
    BY <1>1, FinishStep DEF Abort
  <1>. QED
    BY <1>1, SaveInv, LockCodeInv, WriteCodeInv, RereadInv

LEMMA EditInv ==
  ASSUME Inv, NEW a \in Admins, NEW r \in Rows,
         \/ \E value \in Contents : Update(a, r, value) \/ Regenerate(a, r, value)
         \/ \E s \in ProductStatuses : ChangeStatus(a, r, s)
         \/ \E s \in CodeStatuses : ChangeCodeStatus(a, r, s)
  PROVE Inv'
  <1>1. ASSUME NEW value \in Contents PROVE [what |-> "content", value |-> value] \in ChangesOf(r)
    BY DEF ChangesOf
  <1>2. ASSUME NEW s \in StatusesOf(r) PROVE [what |-> "status", value |-> s] \in ChangesOf(r)
    BY DEF ChangesOf
  <1>3. ASSUME NEW value \in Contents, Update(a, r, value) PROVE Inv'
    BY <1>1, <1>3, BeginSaveInv DEF Update
  <1>4. ASSUME NEW value \in Contents, Regenerate(a, r, value) PROVE Inv'
    BY <1>1, <1>4, BeginCodeInv DEF Regenerate, BeginCode
  <1>5. ASSUME NEW s \in ProductStatuses, ChangeStatus(a, r, s) PROVE Inv'
    <2>1. r \in Products /\ s \in StatusesOf(r)
      BY <1>5 DEF ChangeStatus, StatusesOf
    <2>. QED
      BY <2>1, <1>2, <1>5, BeginSaveInv DEF ChangeStatus
  <1>6. ASSUME NEW s \in CodeStatuses, ChangeCodeStatus(a, r, s) PROVE Inv'
    <2>1. r \in Codes /\ s \in StatusesOf(r)
      BY <1>6, RowsAssumption DEF ChangeCodeStatus, BeginCode, StatusesOf
    <2>. QED
      BY <2>1, <1>2, <1>6, BeginCodeInv DEF ChangeCodeStatus
  <1>. QED
    BY <1>3, <1>4, <1>5, <1>6

LEMMA NextInv == Inv /\ [Next]_vars => Inv'
  <1>. SUFFICES ASSUME Inv, [Next]_vars PROVE Inv'
    OBVIOUS
  <1>1. CASE Next
    BY <1>1, LoadInv, CreateInv, EditInv, StepInv DEF Next
  <1>2. CASE UNCHANGED vars
    BY <1>2 DEF vars, Inv, TypeOK, NothingBeforeCreation, PagesBehind, JobsPending, AnswersFit,
                OneWriter, At
  <1>. QED
    BY <1>1, <1>2

LEMMA AlwaysInv == Spec => []Inv
  BY InitInv, NextInv, PTL DEF Spec

-----------------------------------------------------------------------------
(* The theorems *)

\* Rows, logs, pages and requests keep their shape, and no row has a status of the
\* other table, for any number of administrators and rows.
THEOREM TypeCorrect == Spec => []TypeOK
  <1>1. Inv => TypeOK
    BY DEF Inv
  <1>. QED
    BY <1>1, AlwaysInv, PTL

\* A page of a product with the version of the row shows the row, its terms included
\* (admincard/handler.go:208): an answer read after the commit carries the version it
\* shows.  A page of a code may show another token (admincheckin/handler.go:284).
THEOREM VersionsName == Spec => []VersionNamesContent
  <1>1. Inv => VersionNamesContent
    BY DEF Inv, PagesBehind, Behind, VersionNamesContent, Rows
  <1>. QED
    BY <1>1, AlwaysInv, PTL

\* Only a save that passed its check changes a row that exists, and only its own.
LEMMA Writer ==
  ASSUME Inv, Next, NEW r \in Rows, rows'[r] # rows[r]
  PROVE \E a \in Admins :
          \/ \E value \in Contents : Create(a, r, value)
          \/ /\ \/ At(a, "save") /\ SaveMatches(job[a])
                \/ At(a, "write")
             /\ job[a].row = r
             /\ rows' = [rows EXCEPT ![r] = With(rows[r], job[a].change)]
             /\ Logged(r, job[a].before, job[a].change)
             /\ \A b \in Admins \ {a} : job'[b] = job[b]
  <1>1. PICK a \in Admins :
          \/ \E s \in Rows, value \in Contents : Create(a, s, value)
          \/ Save(a)
          \/ WriteCode(a)
    BY DEF Next, Load, Update, Regenerate, ChangeStatus, ChangeCodeStatus, BeginSave, BeginCode,
           LockCode, Reread, Abort
  <1>2. ASSUME NEW s \in Rows, NEW value \in Contents, Create(a, s, value)
        PROVE Create(a, r, value)
    <2>1. r = s
      BY <1>2 DEF Create, Inv, TypeOK
    <2>. QED
      BY <2>1, <1>2
  <1>3. CASE Save(a)
    <2>1. SaveMatches(job[a]) /\ At(a, "save")
      BY <1>3 DEF Save
    <2>2. job[a].row \in Rows
      BY <2>1, WriteFinds
    <2>3. job[a].row = r
      BY <1>3, <2>1, <2>2 DEF Save, Inv, TypeOK
    <2>4. \A b \in Admins \ {a} : job'[b] = job[b]
      BY <1>3, <2>1 DEF Save, Answer, Inv, TypeOK
    <2>. QED
      BY <1>3, <2>1, <2>3, <2>4 DEF Save
  <1>4. CASE WriteCode(a)
    <2>1. job[a].row \in Rows /\ rows[job[a].row].version = job[a].seen /\ At(a, "write")
      BY <1>4, WriteFinds DEF WriteCode
    <2>2. job[a].row = r
      BY <1>4, <2>1 DEF WriteCode, Inv, TypeOK
    <2>3. \A b \in Admins \ {a} : job'[b] = job[b]
      BY <1>4 DEF WriteCode, Answer, Inv, TypeOK
    <2>. QED
      BY <1>4, <2>1, <2>2, <2>3 DEF WriteCode
  <1>. QED
    BY <1>1, <1>2, <1>3, <1>4

\* What does not change a row does not log a change of it.
LEMMA LoggedWithChange ==
  ASSUME Inv, Next, NEW r \in Rows, rows'[r] = rows[r]
  PROVE audit'[r] = audit[r]
  <1>1. CASE UNCHANGED audit
    BY <1>1
  <1>2. ASSUME NEW a \in Admins, NEW s \in Rows, NEW value \in Contents, Create(a, s, value)
        PROVE audit'[r] = audit[r]
    <2>1. rows'[s] = [version |-> 1, status |-> FirstStatus(s), content |-> value] /\ rows[s] = None
      BY <1>2 DEF Create, Exists, Inv, TypeOK
    <2>2. FirstStatus(s) \in ProductStatuses \cup CodeStatuses
      BY DEF FirstStatus, ProductStatuses, CodeStatuses
    <2>3. rows'[s] \in Image
      BY <2>1, <2>2 DEF Image
    <2>4. r # s
      BY <2>1, <2>3, NoneIsNoImage
    <2>. QED
      BY <1>2, <2>4 DEF Create, Logged, Inv, TypeOK
  <1>3. ASSUME NEW a \in Admins,
               \/ At(a, "save") /\ SaveMatches(job[a])
               \/ At(a, "write"),
               rows' = [rows EXCEPT ![job[a].row] = With(rows[job[a].row], job[a].change)],
               Logged(job[a].row, job[a].before, job[a].change)
        PROVE audit'[r] = audit[r]
    <2>. DEFINE s == job[a].row
    <2>1. s \in Rows /\ rows[s] \in Image /\ job[a].change \in ChangesOf(s) /\ rows[s] # None
      BY <1>3, WriteFinds
    <2>2. rows'[s].version = rows[s].version + 1
      BY <1>3, <2>1, WithNext DEF Inv, TypeOK
    <2>3. r # s
      BY <2>1, <2>2, ImageFields
    <2>. QED
      BY <1>3, <2>3 DEF Logged, Inv, TypeOK
  <1>4. ASSUME NEW a \in Admins, Save(a) PROVE audit'[r] = audit[r]
    BY <1>1, <1>3, <1>4 DEF Save
  <1>5. ASSUME NEW a \in Admins, WriteCode(a) PROVE audit'[r] = audit[r]
    <2>1. rows[job[a].row].version = job[a].seen
      BY <1>5, WriteFinds DEF WriteCode
    <2>. QED
      BY <1>3, <1>5, <2>1 DEF WriteCode
  <1>6. (~UNCHANGED audit) =>
          \E a \in Admins :
            \/ \E s \in Rows, value \in Contents : Create(a, s, value)
            \/ Save(a)
            \/ WriteCode(a)
    BY DEF Next, Load, Update, Regenerate, ChangeStatus, ChangeCodeStatus, BeginSave, BeginCode,
           LockCode, Reread, Abort
  <1>. QED
    BY <1>1, <1>2, <1>4, <1>5, <1>6

\* A save replaces the version and the status its author's page showed, and the terms
\* when it is of a product, although admincard compares only the version the page sends
\* and reads the row elsewhere (admincard/handler.go:161).  The token of a code is left
\* out: of it the same would be false (admincheckin/handler.go:284).
THEOREM SeenFirst == Spec => SeenBeforeSaved
  <1>. DEFINE A == \A a \in Admins, r \in Rows :
         (job[a] # Idle /\ job'[a] # job[a] /\ rows'[r] # rows[r] /\ rows[r] # None) =>
           /\ page[a][r].version = rows[r].version
           /\ page[a][r].status = rows[r].status
           /\ r \in Products => page[a][r].content = rows[r].content
  <1>1. Inv /\ [Next]_vars => [A]_vars
    <2>. SUFFICES ASSUME Inv, Next,
                         NEW a \in Admins, NEW r \in Rows,
                         job'[a] # job[a], rows'[r] # rows[r], rows[r] # None
                  PROVE /\ page[a][r].version = rows[r].version
                        /\ page[a][r].status = rows[r].status
                        /\ r \in Products => page[a][r].content = rows[r].content
      OBVIOUS
    <2>1. PICK b \in Admins :
            /\ \/ At(b, "save") /\ SaveMatches(job[b])
               \/ At(b, "write")
            /\ job[b].row = r
            /\ \A c \in Admins \ {b} : job'[c] = job[c]
      BY Writer DEF Create, Exists
    <2>2. a = b
      BY <2>1
    <2>3. page[a][r] # None /\ page[a][r].version = rows[r].version
      BY <2>1, <2>2, WriteFinds
    <2>. QED
      BY <2>3 DEF Inv, PagesBehind, Behind
  <1>. QED
    BY <1>1, AlwaysInv, PTL DEF Spec, SeenBeforeSaved

\* Each row with its audit log implements AuditedRow: no change is lost or logged
\* twice, and the log names the row it replaced.
THEOREM Audited == Spec => RowsAudited
  <1>. DEFINE Start == \A r \in Rows : Row(r)!Init
              A == \A r \in Rows : [Row(r)!Next]_<<rows[r], audit[r]>>
  <1>1. Init => Start
    BY DEF Init, Row!Init
  <1>2. Inv /\ [Next]_vars => [A]_vars
    <2>. SUFFICES ASSUME Inv, Next, NEW r \in Rows
                  PROVE [Row(r)!Next]_<<rows[r], audit[r]>>
      OBVIOUS
    <2>1. CASE rows'[r] = rows[r]
      BY <2>1, LoggedWithChange
    <2>2. CASE rows'[r] # rows[r]
      <3>1. PICK a \in Admins :
              \/ \E value \in Contents : Create(a, r, value)
              \/ /\ \/ At(a, "save") /\ SaveMatches(job[a])
                    \/ At(a, "write")
                 /\ job[a].row = r
                 /\ rows' = [rows EXCEPT ![r] = With(rows[r], job[a].change)]
                 /\ Logged(r, job[a].before, job[a].change)
        BY <2>2, Writer
      <3>2. CASE \E value \in Contents : Create(a, r, value)
        <4>1. PICK value \in Contents : Create(a, r, value)
          BY <3>2
        <4>2. /\ rows[r] = None /\ audit[r] = <<>>
              /\ rows'[r] = [version |-> 1, status |-> FirstStatus(r), content |-> value]
              /\ audit'[r] = Append(audit[r], [before |-> None,
                               change |-> ToLog(r, [what |-> "create", value |-> value])])
          BY <4>1 DEF Create, Logged, Exists, Inv, TypeOK, NothingBeforeCreation
        <4>3. ToLog(r, [what |-> "create", value |-> value])
                = [what |-> "create", value |-> Row(r)!LoggedValue(value)]
          BY DEF ToLog, Row!LoggedValue
        <4>. QED
          BY <4>2, <4>3 DEF Row!Next, Row!Create, Row!Created
      <3>3. CASE /\ \/ At(a, "save") /\ SaveMatches(job[a])
                    \/ At(a, "write")
                 /\ job[a].row = r
                 /\ rows' = [rows EXCEPT ![r] = With(rows[r], job[a].change)]
                 /\ Logged(r, job[a].before, job[a].change)
        <4>1. /\ rows[r] # None /\ job[a].before = WithoutToken(r, rows[r])
              /\ job[a].change \in ChangesOf(r)
          BY <3>3, WriteFinds
        <4>2. /\ rows'[r] = With(rows[r], job[a].change)
              /\ audit'[r] = Append(audit[r], [before |-> WithoutToken(r, rows[r]),
                                               change |-> ToLog(r, job[a].change)])
          BY <3>3, <4>1 DEF Logged, Inv, TypeOK
        <4>3. WithoutToken(r, rows[r]) = Row(r)!LoggedRow(rows[r])
          BY DEF WithoutToken, Row!LoggedRow
        <4>4. ToLog(r, job[a].change) = Row(r)!LoggedChange(job[a].change)
          BY <4>1 DEF ToLog, ChangesOf, Row!LoggedChange, Row!LoggedValue
        <4>5. With(rows[r], job[a].change) = Row(r)!Applied(rows[r], job[a].change)
          BY DEF With, Row!Applied
        <4>6. job[a].change \in Row(r)!Changes
          BY <4>1 DEF ChangesOf, Row!Changes
        <4>. QED
          BY <4>1, <4>2, <4>3, <4>4, <4>5, <4>6 DEF Row!Next, Row!Edit
      <3>. QED
        BY <3>1, <3>2, <3>3
    <2>. QED
      BY <2>1, <2>2
  <1>. QED
    BY <1>1, <1>2, AlwaysInv, PTL DEF Spec, RowsAudited
=============================================================================
