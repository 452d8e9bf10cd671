----------------------------- MODULE CardContract -----------------------------
(***************************************************************************)
(* What the system promises about a membership card, whoever acts on it:   *)
(* a card is used only while it stands good, a COUNT_CARD as often as it   *)
(* was sold for, a refund first takes an unused card out of service, and a *)
(* card that is over or refunded stays so.                                 *)
(***************************************************************************)
EXTENDS Integers

CONSTANTS Cards, Kind, Total

VARIABLES standing, left

Standing == {"none", "good", "held", "over", "refunded"}

\* The first step of the life of a card.
Issue(c) ==
  /\ standing[c] = "none" /\ standing'[c] = "good"
  /\ left'[c] = Total[c]

Use(c) ==
  /\ standing[c] = "good"
  /\ IF Kind[c] = "COUNT_CARD"
       THEN /\ left[c] > 0 /\ left'[c] = left[c] - 1
            /\ standing'[c] = IF left[c] = 1 THEN "over" ELSE "good"
       ELSE left'[c] = left[c] /\ standing'[c] = "good"

Expire(c) == standing[c] = "good" /\ standing'[c] = "over" /\ left'[c] = left[c]

Hold(c) ==
  /\ standing[c] = "good" /\ left[c] = Total[c]
  /\ standing'[c] = "held" /\ left'[c] = left[c]
Release(c) == standing[c] = "held" /\ standing'[c] = "good" /\ left'[c] = left[c]
Refund(c) == standing[c] = "held" /\ standing'[c] = "refunded" /\ left'[c] = left[c]

Rest(c) == standing'[c] = standing[c] /\ left'[c] = left[c]

\* One statement may concern several cards of a member.
Next ==
  \A c \in Cards :
    \/ Issue(c) \/ Use(c) \/ Expire(c)
    \/ Hold(c) \/ Release(c) \/ Refund(c)
    \/ Rest(c)

Init ==
  \A c \in Cards : standing[c] \in {"none", "good"} /\ (standing[c] = "good" => left[c] = Total[c])

Spec == Init /\ [][Next]_<<standing, left>>
=============================================================================
