---------------------------- MODULE MCRedemption ----------------------------
(* Small instances of Redemption: one member m, one member of staff s who  *)
(* scans, one card of each kind or a single card.                          *)
EXTENDS Redemption, TLC

CONSTANTS m, s, c1, p1, p2, t1, t2

AllCardsOfM == [c \in Cards |-> m]
AllCardsOfS == [c \in Cards |-> s]
AllCountCards == [c \in Cards |-> "COUNT_CARD"]
AllTimePasses == [c \in Cards |-> "TIME_PASS"]
TwoUses == [c \in Cards |-> 2]
NoTotal == [c \in Cards |-> 0]
OneProduct == [c \in Cards |-> CHOOSE pr \in Products : TRUE]
OneDay == {[validity |-> 1, dailyLimit |-> 1]}
TwoDays == {[validity |-> 2, dailyLimit |-> 1]}
OneDaySold == [pr \in Products |-> [validity |-> 1, dailyLimit |-> 1]]
TwoDaysSold == [pr \in Products |-> [validity |-> 2, dailyLimit |-> 1]]
OneOrTwoDays == OneDay \cup TwoDays
Symmetry == Permutations(Procs) \cup Permutations(Tokens) \cup Permutations(Reqs)
=============================================================================
