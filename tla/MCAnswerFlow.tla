---------------------------- MODULE MCAnswerFlow ----------------------------
(* Instances of AnswerFlow for TLC. *)
EXTENDS AnswerFlow, TLC

\* Nothing overlaps on one player: what the in-memory store gives.
Serial == {}

\* Answers overlap with each other and with everything else; the operations
\* that write a whole Player document do not overlap with one another.
AnswersRace ==
  {{"answer"}, {"answer", "kick"}, {"answer", "leave"}, {"answer", "end"}}

\* Two taps of one player are in flight at the same time.
TwoTaps == {{"answer"}}

ActionSymmetry == Permutations(Actions)
FullSymmetry == ActionSymmetry \cup Permutations(Players)
                  \cup Permutations(Slots)
=============================================================================
