--------------------------- MODULE QuestionRounds ---------------------------
(***************************************************************************)
(* The questions of one room over its matches: what the host chooses in    *)
(* the lobby, what a match remembers of the questions it has asked, and    *)
(* what a rematch takes over (server/composition/match/verloop.mjs and     *)
(* rondes.mjs, room/configuratie.mjs).  The rules that choose a question   *)
(* are in QuestionSelection.                                               *)
(*                                                                         *)
(* Handlers run one after the other; how they interleave is in             *)
(* MatchLifecycle.  Result and scoreboard are part of the end of a round.  *)
(***************************************************************************)
EXTENDS QuestionSelection, Sequences

CONSTANTS
    Configs,        \* what the host may choose
    MaxMatches,     \* bound: matches of the room
    MaxRecoveries   \* bound: crashes of the server during a match

ASSUME ConfigsAssumption ==
    \A c \in Configs :
        c.gameType \in GameTypes /\ c.totalRounds \in Nat \ {0}
ASSUME BoundsAssumption == {MaxMatches, MaxRecoveries} \subseteq Nat

VARIABLES
    config,         \* Room.config
    phase,          \* Room.phase, pauses and results left out
    match,          \* the current Match document
    asked,          \* the question of the current round
    timer,          \* the countdown goes on by itself
    matches, recoveries     \* how many there were

vars == <<config, phase, match, asked, timer, matches, recoveries>>

NoMatch ==
    [gameType |-> "none", roundIndex |-> 0, used |-> <<>>, previous |-> {}]
NoQuestion == [key |-> "none"]

AsSet(s) == {s[i] : i \in DOMAIN s}

Pool == CandidatePool(config.difficulty, config.continents)

Init ==
    /\ config \in Configs
    /\ phase = "LOBBY" /\ match = NoMatch /\ asked = NoQuestion
    /\ timer = FALSE /\ matches = 0 /\ recoveries = 0

(* game:update-config; the continents are chosen with the room.            *)
UpdateConfig ==
    /\ phase = "LOBBY"
    /\ config' \in {c \in Configs : c.continents = config.continents}
    /\ UNCHANGED <<phase, match, asked, timer, matches, recoveries>>

StartMatch ==
    /\ phase = "LOBBY"
    /\ \/ /\ match = NoMatch /\ matches < MaxMatches
          /\ match' = [NoMatch EXCEPT !.gameType = config.gameType]
          /\ matches' = matches + 1
       \/ /\ match # NoMatch
          /\ UNCHANGED <<match, matches>>
    /\ phase' = "COUNTDOWN" /\ timer' = TRUE
    /\ UNCHANGED <<config, asked, recoveries>>

(* Mutant: the match before is forgotten.                                  *)
ExcludeOfThisMatch == AsSet(match.used)

Exclude == AsSet(match.used) \cup match.previous

(* Mutant: the round is of the game in the configuration.                  *)
StartRoundAsConfigured ==
    /\ phase = "COUNTDOWN" /\ timer
    /\ asked' \in Built(config.gameType, Pool, Exclude)
    /\ match' = [match EXCEPT !.used = Append(@, asked'.key)]
    /\ phase' = "ROUND" /\ timer' = FALSE
    /\ UNCHANGED <<config, matches, recoveries>>

(* startRound of the countdown's timer.                                    *)
StartRound ==
    /\ phase = "COUNTDOWN" /\ timer
    /\ asked' \in Built(match.gameType, Pool, Exclude)
    /\ match' = [match EXCEPT !.used = Append(@, asked'.key)]
    /\ phase' = "ROUND" /\ timer' = FALSE
    /\ UNCHANGED <<config, matches, recoveries>>

(* CONTENT_UNAVAILABLE: logged, and nobody starts the round again.         *)
RefuseRound ==
    /\ phase = "COUNTDOWN" /\ timer
    /\ Unavailable(match.gameType, Pool, Exclude)
    /\ timer' = FALSE
    /\ UNCHANGED <<config, phase, match, asked, matches, recoveries>>

(* endRound, and what the timers or the host do up to the next countdown.  *)
EndRound ==
    /\ phase = "ROUND"
    /\ asked' = NoQuestion
    /\ IF match.roundIndex + 1 >= config.totalRounds
       THEN phase' = "FINISHED" /\ UNCHANGED <<match, timer>>
       ELSE /\ phase' = "COUNTDOWN" /\ timer' = TRUE
            /\ match' = [match EXCEPT !.roundIndex = @ + 1]
    /\ UNCHANGED <<config, matches, recoveries>>

(* A crash during a round (or the result that is its end here) or before   *)
(* one, and the host's game:resume: the round is played again, with        *)
(* another question, and a refused one is asked for once more.  The host   *)
(* alone cannot do that: a pause is refused in COUNTDOWN.                  *)
Recover ==
    /\ phase \in {"COUNTDOWN", "ROUND"} /\ recoveries < MaxRecoveries
    /\ phase' = "COUNTDOWN" /\ timer' = TRUE /\ asked' = NoQuestion
    /\ recoveries' = recoveries + 1
    /\ UNCHANGED <<config, match, matches>>

FinishMatch ==
    /\ phase \in {"COUNTDOWN", "ROUND"}
    /\ phase' = "FINISHED" /\ timer' = FALSE /\ asked' = NoQuestion
    /\ UNCHANGED <<config, match, matches, recoveries>>

Rematch ==
    /\ phase = "FINISHED" /\ matches < MaxMatches
    /\ match' = [NoMatch EXCEPT !.gameType = match.gameType,
                                !.previous = AsSet(match.used)]
    /\ phase' = "LOBBY" /\ matches' = matches + 1
    /\ UNCHANGED <<config, asked, timer, recoveries>>

Next ==
    \/ UpdateConfig \/ StartMatch \/ StartRound \/ RefuseRound \/ EndRound
    \/ Recover \/ FinishMatch \/ Rematch

Spec == Init /\ [][Next]_vars

-----------------------------------------------------------------------------
Matches ==
    [gameType : GameTypes, roundIndex : Nat,
     used : Seq(Keys), previous : SUBSET Keys]

(* What is in the documents: a match asks questions of one game form, the  *)
(* match before asked the same form, and a round has its question.         *)
TypeOK ==
    /\ config \in Configs /\ timer \in BOOLEAN
    /\ phase \in {"LOBBY", "COUNTDOWN", "ROUND", "FINISHED"}
    /\ match \in Matches \/ (match = NoMatch /\ phase = "LOBBY")
    /\ \A k \in Exclude : k.type = match.gameType
    /\ IF phase = "ROUND" THEN asked.key \in Keys ELSE asked = NoQuestion
    /\ matches \in 0..MaxMatches /\ recoveries \in 0..MaxRecoveries

(* Every question has exactly one right answer among its options, by what  *)
(* the content says of the countries the room plays with; the wrong        *)
(* options of a flag are of its own continent as long as there are any.    *)
Near(c, d) == Facts[c].continent = Facts[d].continent

GoodChoice(type, shown, target) ==
    /\ Cardinality(shown) = 4 /\ target \in shown /\ shown \subseteq Pool
    /\ type = "capitals_mc" => \A c \in shown : Facts[c].capital
    /\ type = "country_shape_mc" => Facts[target].shape
    /\ type # "capitals_mc" =>
          \/ \A c \in shown : Near(c, target)
          \/ \A c \in Pool : Near(c, target) => c \in shown

GoodOddOne(kind, shown, odd) ==
    LET others == shown \ {odd}
    IN  /\ Cardinality(others) = 3 /\ odd \in shown
        /\ CASE kind = "continent" ->
                    shown \subseteq Pool /\ \A c \in others :
                        ~Near(c, odd) /\ \A d \in others : Near(c, d)
             [] kind = "fake_among_real" -> others \subseteq Pool /\ odd \notin Pool
             [] kind = "real_among_fake" -> odd \in Pool /\ others \cap Pool = {}

OneRightAnswer ==
    phase = "ROUND" =>
        LET type == asked.key.type
            kind == asked.key.kind
            shown == asked.shown
            right == asked.answer
        IN  CASE type \in MultipleChoice -> GoodChoice(type, shown, right)
              [] type = "odd_one_out" -> GoodOddOne(kind, shown, right)
              [] type = "higher_lower" ->
                    /\ right \in shown /\ Cardinality(shown) = 2
                    /\ \A c \in shown \ {right} :
                          0 <= Facts[c].value[kind]
                            /\ Facts[c].value[kind] < Facts[right].value[kind]
              [] type = "real_or_fake_flag" ->
                    right = "real" <=> shown \subseteq Pool

(* A question comes back, in a match or from the match before, only when   *)
(* there were too few: as long as the questions of a kind that the match   *)
(* before has not asked suffice for the rounds asked so far, all are new.  *)
(* Forms that draw first and test after are not promised that.             *)
EnoughOutside(keys) ==
    \A kind \in Kinds(match.gameType, Pool, {}) :
        LET of == {q.key : q \in QuestionsOf(match.gameType, kind, Pool)}
        IN  Cardinality(of \ keys) >= Len(match.used)

AllDifferent ==
    \A i, j \in DOMAIN match.used : match.used[i] = match.used[j] => i = j

NewWhileEnough ==
    match.gameType \in MultipleChoice \cup {"higher_lower"}
      /\ EnoughOutside(match.previous)
    => AllDifferent /\ AsSet(match.used) \cap match.previous = {}

=============================================================================
