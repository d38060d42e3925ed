---------------------------- MODULE AnswerLedger ----------------------------
(***************************************************************************)
(* What a room promises about answers, seen from outside: a tap is one     *)
(* step.  It is recorded at most once per actionId, only while its round   *)
(* is open and its player takes part, and it replaces both the player's    *)
(* earlier answer of that round and what that answer earned.  AnswerFlow,  *)
(* in which a tap is seven calls on the store, implements this as long as  *)
(* no two operations work on one player at the same time.                  *)
(***************************************************************************)
EXTENDS Integers

CONSTANTS Players, Actions, RoundIds, PointValues, NoAnswer

VARIABLES
  open,      \* rounds that take answers
  present,   \* players that take part
  answers,   \* the answer of each player in each round
  score,     \* of each player, in the current match
  used       \* actionIds that were recorded

vars == <<open, present, answers, score, used>>

Init ==
  /\ open = {} /\ used = {}
  /\ present \in SUBSET Players
  /\ answers = [r \in RoundIds |-> [p \in Players |-> NoAnswer]]
  /\ score = [p \in Players |-> 0]

Accept(p, r, a, points) ==
  /\ r \in open /\ p \in present /\ a \notin used
  /\ used' = used \cup {a}
  /\ answers' = [answers EXCEPT ![r][p] = [action |-> a, points |-> points]]
  /\ score' = [score EXCEPT ![p] = @ - answers[r][p].points + points]
  /\ UNCHANGED <<open, present>>

\* A round opens with no answers in it; rounds close for good.
OpenRound(r) ==
  /\ r \notin open /\ \A p \in Players : answers[r][p] = NoAnswer
  /\ open' = open \cup {r}
  /\ UNCHANGED <<present, answers, score, used>>

CloseRounds ==
  /\ open' \in SUBSET open
  /\ UNCHANGED <<present, answers, score, used>>

ComeOrGo ==
  /\ present' \in SUBSET Players
  /\ UNCHANGED <<open, answers, score, used>>

\* A rematch puts a present player back at 0, with no round open.
Restart(p) ==
  /\ p \in present
  /\ \A r \in open : answers[r][p] = NoAnswer
  /\ score' = [score EXCEPT ![p] = 0]
  /\ UNCHANGED <<open, present, answers, used>>

Next ==
  \/ \E p \in Players, r \in RoundIds, a \in Actions,
        points \in PointValues \cup {0} : Accept(p, r, a, points)
  \/ \E r \in RoundIds : OpenRound(r)
  \/ CloseRounds \/ ComeOrGo
  \/ \E p \in Players : Restart(p)

Spec == Init /\ [][Next]_vars
=============================================================================
