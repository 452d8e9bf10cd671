----------------------------- MODULE AuditedRow -----------------------------
(***************************************************************************)
(* What the administrators' pages promise of one editable row: it has one  *)
(* version after the other, each is made from the one before it by one     *)
(* change, and the audit log holds exactly these changes, each with the    *)
(* row it was applied to, less the content when that is a secret.          *)
(***************************************************************************)
EXTENDS Naturals, Sequences

CONSTANTS None, Initially, Statuses, Contents,
          Secret  \* TRUE when the log keeps no content

VARIABLES row,   \* the row as committed, None before its creation
          log    \* its audit_logs rows, oldest first

Changes == [what: {"content"}, value: Contents] \cup [what: {"status"}, value: Statuses]

Created(value) == [version |-> 1, status |-> Initially, content |-> value]

Applied(image, change) ==
  [version |-> image.version + 1,
   status |-> IF change.what = "status" THEN change.value ELSE image.status,
   content |-> IF change.what = "content" THEN change.value ELSE image.content]

LoggedRow(image) == IF Secret THEN [image EXCEPT !.content = None] ELSE image

LoggedValue(value) == IF Secret THEN None ELSE value

LoggedChange(change) ==
  IF change.what = "content"
  THEN [what |-> "content", value |-> LoggedValue(change.value)] ELSE change

Init == row = None /\ log = <<>>

Create ==
  /\ row = None
  /\ \E value \in Contents :
       /\ row' = Created(value)
       /\ log' = <<[before |-> None, change |-> [what |-> "create", value |-> LoggedValue(value)]]>>

Edit ==
  /\ row # None
  /\ \E change \in Changes :
       /\ row' = Applied(row, change)
       /\ log' = Append(log, [before |-> LoggedRow(row), change |-> LoggedChange(change)])

Next == Create \/ Edit

Spec == Init /\ [][Next]_<<row, log>>
=============================================================================
