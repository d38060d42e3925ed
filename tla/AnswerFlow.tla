----------------------------- MODULE AnswerFlow -----------------------------
(***************************************************************************)
(* How a tap becomes points: round:answer -> submitAnswer -> resolveAnswer *)
(* -> saveAcceptedAnswerAtomically (Redis adapter), against everything     *)
(* else that writes a Player document or closes a round: kick, leave,      *)
(* endRound, the reset of a rematch, a crash of the server, and a client   *)
(* that sends the same action again.                                       *)
(*                                                                         *)
(* As in MatchLifecycle, a handler is an operation in a slot and a step is *)
(* one call on the store.  The phase is coarse here: COUNTDOWN belongs to  *)
(* LOBBY or ROUND_RESULT, SCOREBOARD to ROUND_RESULT.  A pause by the host *)
(* is left out, because submitAnswer looks at the round and never at the   *)
(* phase; the one after a crash is part of the crash, because the host's   *)
(* resume then leads to a fresh round beside the one that was under way.   *)
(*                                                                         *)
(* eligibleFromRound is no field of PlayerDocs: rest.mjs calls joinRoom    *)
(* without it, so it is 1 in every document and PLAYER_NOT_ELIGIBLE never  *)
(* arises.                                                                 *)
(***************************************************************************)
EXTENDS Integers, FiniteSets, FiniteSetsExt

CONSTANTS
  Players, Actions,  \* participants; actionIds
  Slots,             \* handlers that may run at the same time
  PointValues,       \* what a right answer can earn
  SwapAttempts,      \* ANSWER_WRITE_ATTEMPTS
  Overlaps,          \* pairs of kinds that may run on one player at once
  Lobby,             \* players who joined before the first match
  MaxRounds, MaxMatches, MaxCrashes,  \* bounds
  MaxGone            \* bound: players who are kicked or leave

Kinds == {"answer", "kick", "leave", "end", "rematch"}

ASSUME ScoringAssumption == PointValues \subseteq Nat \ {0}
ASSUME FiniteAssumption ==
  /\ IsFiniteSet(Players) /\ IsFiniteSet(Actions) /\ IsFiniteSet(Slots)
  /\ Lobby \subseteq Players
ASSUME AnswerBoundsAssumption ==
  /\ SwapAttempts \in Nat \ {0} /\ MaxRounds \in Nat
  /\ MaxMatches \in Nat \ {0} /\ MaxCrashes \in Nat /\ MaxGone \in Nat
ASSUME OverlapsAssumption == Overlaps \subseteq SUBSET Kinds
ASSUME ActionsAssumption == "none" \notin Actions

RoundIds == 1..MaxRounds
MatchIds == 1..MaxMatches

PlayerDocs == [score : Nat, kicked : BOOLEAN, left : BOOLEAN]
Answers == [action : Actions, points : PointValues \cup {0}]
Taps == [player : Players, round : RoundIds, correct : BOOLEAN,
         after : SUBSET Actions]

NoPlayer == [score |-> -1, kicked |-> FALSE, left |-> FALSE]
NewPlayer == [score |-> 0, kicked |-> FALSE, left |-> FALSE]
NoAnswer == [action |-> "none", points |-> 0]
\* What endRound collects: an answer, or none, for each player.
Results == SUBSET (Players \X (Answers \cup {NoAnswer}))
NoRound == [match |-> 0, status |-> "none"]
NoTap == [player |-> "none", round |-> 0, correct |-> FALSE, after |-> {}]
NoAnswers == [p \in Players |-> NoAnswer]
NoPlayers == [p \in Players |-> NoPlayer]

VARIABLES
  phase, match,  \* Room.phase (coarse) and Room.currentMatchId
  rounds,        \* the stored Round documents, by id
  late,          \* rounds whose endsAt + deadlineGraceMs is past
  players,       \* the stored Player documents
  revoked,       \* players whose session is revoked
  answers,       \* the stored Answer documents, by round and player
  used,          \* the store's action cache: actionIds already written
  announced,     \* what round:ended told, by round: <<player, answer>>
  op,            \* the handlers that are running, by slot
  ackCache,      \* the server's own cache of acks (clientevents.mjs)
  taps,          \* what each actionId was sent for; after: the actions of
                 \* that player and round acknowledged before it was made
  acked,         \* actionIds whose client got an ack
  carried,       \* players whose score the current match has not reset
  crashes

game == <<phase, match, rounds, late>>
ledger == <<players, revoked, answers, used>>
clients == <<taps, acked>>
process == <<op, ackCache, crashes>>
history == <<announced, carried>>
vars == <<game, ledger, clients, process, history>>

Idle == [kind |-> "none", pc |-> "idle", player |-> "none",
         action |-> "none", round |-> 0, match |-> 0, doc |-> NoPlayer,
         expected |-> NoPlayer, previous |-> NoAnswer, points |-> 0,
         tries |-> 0, todo |-> {}, docs |-> NoPlayers, seen |-> {}]

Active(doc) == doc # NoPlayer /\ ~doc.kicked /\ ~doc.left
Gone(doc) == doc.kicked \/ doc.left

Started == {r \in RoundIds : rounds[r] # NoRound}
RoundsOf(m) == {r \in RoundIds : rounds[r].match = m}
SumOfPoints(p) ==
  MapThenSumSet(LAMBDA r : answers[r][p].points, RoundsOf(match))

\* The players whose documents an operation works on.
Touches(o) == IF o.kind \in {"end", "rematch"} THEN Players ELSE {o.player}
Busy(p) == \E s \in Slots : op[s].pc # "idle" /\ p \in Touches(op[s])

Init ==
  /\ phase = "LOBBY" /\ match = 1
  /\ rounds = [r \in RoundIds |-> NoRound] /\ late = {}
  /\ players = [p \in Players |-> IF p \in Lobby THEN NewPlayer
                                                ELSE NoPlayer]
  /\ revoked = {}
  /\ answers = [r \in RoundIds |-> NoAnswers] /\ used = {}
  /\ announced = [r \in RoundIds |-> {}]
  /\ op = [s \in Slots |-> Idle]
  /\ ackCache = {} /\ acked = {} /\ carried = {} /\ crashes = 0
  /\ taps = [a \in Actions |-> NoTap]

-----------------------------------------------------------------------------
(* The surroundings: joins, the phases (MatchLifecycle has their detail),  *)
(* the clock and the clients.                                              *)

\* joinRoom, as rest.mjs calls it: a new document, allowed in every phase.
Join(p) ==
  /\ players[p] = NoPlayer
  /\ players' = [players EXCEPT ![p] = NewPlayer]
  /\ UNCHANGED <<game, revoked, answers, used, clients, process, history>>

StartRound ==
  /\ phase \in {"LOBBY", "ROUND_RESULT"} /\ Cardinality(Started) < MaxRounds
  /\ phase = "LOBBY" => \E p \in Players : Active(players[p])
  /\ phase' = "ROUND_ACTIVE"
  /\ rounds' = [rounds EXCEPT ![Cardinality(Started) + 1] =
                  [match |-> match, status |-> "ACTIVE"]]
  /\ UNCHANGED <<match, late, ledger, clients, process, history>>

\* The last advance, or game:finish at any moment: the round keeps its status.
Finish ==
  /\ phase # "FINISHED"
  /\ phase' = "FINISHED"
  /\ UNCHANGED <<match, rounds, late, ledger, clients, process, history>>

Deadline(r) ==
  /\ rounds[r].status = "ACTIVE" /\ r \notin late
  /\ late' = late \cup {r}
  /\ UNCHANGED <<phase, match, rounds, ledger, clients, process, history>>

\* A client sends a tap: a new actionId, for the round on its screen.
Tap(p, a, r) ==
  /\ taps[a] = NoTap /\ players[p] # NoPlayer
  /\ r \in Started /\ r + 1 \notin Started
  /\ rounds[r] = [match |-> match, status |-> "ACTIVE"]
  /\ \E correct \in BOOLEAN :
       taps' = [taps EXCEPT ![a] =
         [player |-> p, round |-> r, correct |-> correct,
          after |-> {b \in acked : taps[b].player = p /\ taps[b].round = r}]]
  /\ UNCHANGED <<game, ledger, acked, process, history>>

-----------------------------------------------------------------------------
(* Operations begin, wait and end.                                         *)

\* o may run now: no other operation works on one of its players, unless
\* the two kinds may overlap.
MayBegin(o) ==
  \A t \in Slots :
    op[t].pc # "idle" /\ Touches(op[t]) \cap Touches(o) # {} =>
      {o.kind, op[t].kind} \in Overlaps

At(s, kind, pc) == op[s].kind = kind /\ op[s].pc = pc
Becomes(s, o) == op' = [op EXCEPT ![s] = o] /\ UNCHANGED crashes

\* A step that changes nothing but its own operation.
Waits(s, o) ==
  Becomes(s, o) /\ UNCHANGED <<game, ledger, clients, ackCache, history>>

Begins(s, o) == op[s].pc = "idle" /\ MayBegin(o) /\ Waits(s, o)

\* A round:answer message arrives, for the first time or again; one that the
\* server acknowledged before is answered from ackCache and runs nothing.
BeginAnswer(s, a) ==
  /\ taps[a] # NoTap /\ a \notin ackCache
  /\ Begins(s, [Idle EXCEPT !.kind = "answer", !.pc = "match",
                            !.player = taps[a].player, !.action = a,
                            !.round = taps[a].round])

\* player:kick, or the player's own leave.
BeginDeparture(s, p, kind) ==
  /\ players[p] # NoPlayer
  /\ Cardinality({q \in Players \ {p} : Gone(players[q])}) < MaxGone
  /\ Begins(s, [Idle EXCEPT !.kind = kind, !.pc = "player", !.player = p])

\* game:reveal or the round's timer.
BeginEnd(s) ==
  /\ phase = "ROUND_ACTIVE"
  /\ Begins(s, [Idle EXCEPT !.kind = "end", !.pc = "list",
                            !.round = Cardinality(Started)])

BeginRematch(s) ==
  /\ phase = "FINISHED" /\ match < MaxMatches
  /\ Begins(s, [Idle EXCEPT !.kind = "rematch", !.pc = "swap"])

-----------------------------------------------------------------------------
(* rondes.mjs: submitAnswer.  A check refuses as soon as what it reads is  *)
(* known; resolveAnswer refuses later, but nothing happens in between.     *)

LoadMatch(s) ==
  /\ At(s, "answer", "match")
  /\ Waits(s, [op[s] EXCEPT !.match = match, !.pc = "round"])

\* Mutant: the status of the round is not asked.
LoadRoundUnchecked(s) ==
  /\ At(s, "answer", "round")
  /\ Waits(s, IF rounds[op[s].round].match = op[s].match
              THEN [op[s] EXCEPT !.pc = "player"] ELSE Idle)

\* A round of another match is no round of this one (null).
LoadRound(s) ==
  /\ At(s, "answer", "round")
  /\ Waits(s, IF rounds[op[s].round] = [match |-> op[s].match,
                                        status |-> "ACTIVE"]
              THEN [op[s] EXCEPT !.pc = "player"] ELSE Idle)

\* Mutant: who was kicked or left is not asked.
LoadPlayerUnchecked(s) ==
  /\ At(s, "answer", "player")
  /\ Waits(s, [op[s] EXCEPT !.doc = players[op[s].player], !.pc = "session"])

LoadPlayer(s) ==
  /\ At(s, "answer", "player")
  /\ Waits(s, IF Active(players[op[s].player])
              THEN [op[s] EXCEPT !.doc = players[op[s].player],
                                 !.pc = "session"]
              ELSE Idle)

\* receivedAt is taken here; with the answer it fixes the points.
LoadSession(s) ==
  /\ At(s, "answer", "session")
  /\ IF op[s].player \in revoked \/ op[s].round \in late
     THEN Waits(s, Idle)
     ELSE \E points \in IF taps[op[s].action].correct THEN PointValues
                                                      ELSE {0} :
            Waits(s, [op[s] EXCEPT !.points = points, !.pc = "previous"])

\* The previous answer of this player: input of the sum, guard of nothing.
LoadPrevious(s) ==
  /\ At(s, "answer", "previous")
  /\ Waits(s, [op[s] EXCEPT !.previous = answers[op[s].round][op[s].player],
                            !.pc = "raw"])

\* Mutant: the contribution of the previous answer stays in the score.
NewScoreKeepsPrevious(o) == o.doc.score + o.points

NewScore(o) == o.doc.score - o.previous.points + o.points

\* Mutant: the whole document that was read is written back.
MergedFromCopy(o) == [o.doc EXCEPT !.score = NewScore(o)]

\* The absolute score on the raw document, all other fields as stored.
Merged(o) == [o.expected EXCEPT !.score = NewScore(o)]

\* Mutant: a negative score is written.
ReadRawUnchecked(s) ==
  /\ At(s, "answer", "raw")
  /\ Waits(s, [op[s] EXCEPT !.expected = players[op[s].player],
                            !.pc = "swap"])

\* saveAcceptedAnswerAtomically: the read that opens the compare-and-set
\* window.  assertPlayerShape throws on a negative score.
ReadRaw(s) ==
  /\ At(s, "answer", "raw")
  /\ Waits(s, IF NewScore(op[s]) < 0 THEN Idle
              ELSE [op[s] EXCEPT !.expected = players[op[s].player],
                                 !.pc = "swap"])

\* Mutant: the action cache is not asked.
SaveAnswerOutcomeUncached(o) ==
  IF players[o.player] # o.expected THEN "stale" ELSE "ok"

\* What SAVE_ANSWER_LUA answers, in the order of its checks.
SaveAnswerOutcome(o) ==
  IF o.action \in used THEN "replay"
  ELSE IF players[o.player] # o.expected THEN "stale"
  ELSE IF o.previous = NoAnswer /\ answers[o.round][o.player] # NoAnswer
       THEN "already-answered"
  ELSE "ok"

\* What a handler still needs once the answer is in the store.
Written(o) == [Idle EXCEPT !.kind = "answer", !.pc = "ack",
                           !.player = o.player, !.action = o.action]

\* Mutant: a refused compare-and-set counts as written.
AfterSwapUnchecked(o, outcome) ==
  IF outcome = "already-answered" THEN Idle ELSE Written(o)

AfterSwap(o, outcome) ==
  CASE outcome \in {"ok", "replay"} -> Written(o)
    [] outcome = "stale" /\ o.tries + 1 < SwapAttempts ->
         [o EXCEPT !.pc = "raw", !.expected = NoPlayer, !.tries = @ + 1]
    [] OTHER -> Idle

Swap(s) ==
  LET o == op[s]
      outcome == SaveAnswerOutcome(o)
  IN /\ At(s, "answer", "swap")
     /\ Becomes(s, AfterSwap(o, outcome))
     /\ IF outcome = "ok"
        THEN /\ answers' = [answers EXCEPT ![o.round][o.player] =
                              [action |-> o.action, points |-> o.points]]
             /\ players' = [players EXCEPT ![o.player] = Merged(o)]
             /\ used' = used \cup {o.action}
        ELSE UNCHANGED <<answers, players, used>>
     /\ UNCHANGED <<game, revoked, clients, ackCache, history>>

\* The reads after the write and the ack; only now does ackCache know it.
Ack(s) ==
  /\ At(s, "answer", "ack")
  /\ Becomes(s, Idle)
  /\ acked' = acked \cup {op[s].action}
  /\ ackCache' = ackCache \cup {op[s].action}
  /\ UNCHANGED <<game, ledger, taps, history>>

-----------------------------------------------------------------------------
(* deelnemers.mjs: kickPlayer and leaveRoom write the document they read.  *)

LoadLeaver(s) ==
  \/ /\ At(s, "kick", "player")
     /\ Waits(s, [op[s] EXCEPT !.doc = players[op[s].player], !.pc = "save"])
  \/ /\ At(s, "leave", "player")
     /\ Waits(s, IF players[op[s].player].left THEN Idle
                 ELSE [op[s] EXCEPT !.doc = players[op[s].player],
                                    !.pc = "save"])

SaveLeaver(s) ==
  LET o == op[s] IN
  /\ \/ /\ At(s, "kick", "save")
        /\ players' = [players EXCEPT ![o.player] =
                         [o.doc EXCEPT !.kicked = TRUE]]
        /\ Becomes(s, [o EXCEPT !.pc = "session"])
     \/ /\ At(s, "leave", "save")
        /\ players' = [players EXCEPT ![o.player] = [o.doc EXCEPT !.left = TRUE]]
        /\ Becomes(s, Idle)
  /\ UNCHANGED <<game, revoked, answers, used, clients, ackCache, history>>

RevokeSession(s) ==
  /\ At(s, "kick", "session")
  /\ Becomes(s, Idle)
  /\ revoked' = revoked \cup {op[s].player}
  /\ UNCHANGED <<game, players, answers, used, clients, ackCache, history>>

-----------------------------------------------------------------------------
(* rondes.mjs: endRound.                                                   *)

ListForResults(s) ==
  /\ At(s, "end", "list")
  /\ Waits(s, [op[s] EXCEPT !.todo = {p \in Players : Active(players[p])},
                            !.pc = "read"])

ReadAnswer(s, p) ==
  /\ At(s, "end", "read") /\ p \in op[s].todo
  /\ Waits(s, [op[s] EXCEPT !.todo = @ \ {p},
                            !.seen = @ \cup {<<p, answers[op[s].round][p]>>}])

SaveEnded(s) ==
  /\ At(s, "end", "read") /\ op[s].todo = {}
  /\ rounds' = [rounds EXCEPT ![op[s].round].status = "ENDED"]
  /\ Becomes(s, [op[s] EXCEPT !.pc = "phase"])
  /\ UNCHANGED <<phase, match, late, ledger, clients, ackCache, history>>

\* The transition, and round:ended if it was accepted.
AnnounceEnded(s) ==
  /\ At(s, "end", "phase")
  /\ Becomes(s, Idle)
  /\ IF phase = "ROUND_ACTIVE"
     THEN /\ phase' = "ROUND_RESULT"
          /\ announced' = [announced EXCEPT ![op[s].round] = op[s].seen]
     ELSE UNCHANGED <<phase, announced>>
  /\ UNCHANGED <<match, rounds, late, ledger, clients, ackCache, carried>>

-----------------------------------------------------------------------------
(* verloop.mjs: rematch, from the change of match on (MatchLifecycle has   *)
(* the calls that make it up).  Of two rematches one loses the swap.       *)

SwapMatch(s) ==
  /\ At(s, "rematch", "swap") /\ match < MaxMatches
  /\ IF phase # "FINISHED" THEN Waits(s, Idle)
     ELSE /\ phase' = "LOBBY" /\ match' = match + 1
          /\ carried' = {p \in Players : players[p] # NoPlayer}
          /\ Becomes(s, [op[s] EXCEPT !.pc = "list"])
          /\ UNCHANGED <<rounds, late, ledger, clients, ackCache, announced>>

ListForReset(s) ==
  LET present == {p \in Players : Active(players[p])} IN
  /\ At(s, "rematch", "list")
  /\ Waits(s, IF present = {} THEN Idle
              ELSE [op[s] EXCEPT !.docs = players, !.todo = present,
                                 !.pc = "reset"])

\* savePlayer of the listed document, with the score at 0.
ResetScore(s, p) ==
  LET o == op[s] IN
  /\ At(s, "rematch", "reset") /\ p \in o.todo
  /\ players' = [players EXCEPT ![p] = [o.docs[p] EXCEPT !.score = 0]]
  /\ carried' = carried \ {p}
  /\ Becomes(s, IF o.todo = {p} THEN Idle ELSE [o EXCEPT !.todo = @ \ {p}])
  /\ UNCHANGED <<game, revoked, answers, used, clients, ackCache, announced>>

-----------------------------------------------------------------------------
\* The server process stops: handlers and ackCache are gone, the store stays.
\* The recovery pauses the match, and its resume leads to a new round: the
\* round that was under way keeps its status, and nobody ends it.
Crash ==
  /\ crashes < MaxCrashes
  /\ op' = [s \in Slots |-> Idle] /\ ackCache' = {} /\ crashes' = crashes + 1
  /\ phase' = IF phase = "ROUND_ACTIVE" THEN "ROUND_RESULT" ELSE phase
  /\ UNCHANGED <<match, rounds, late, ledger, clients, history>>

Begin(s) ==
  \/ \E a \in Actions : BeginAnswer(s, a)
  \/ \E p \in Players, kind \in {"kick", "leave"} : BeginDeparture(s, p, kind)
  \/ BeginEnd(s) \/ BeginRematch(s)

Step(s) ==
  \/ LoadMatch(s) \/ LoadRound(s) \/ LoadPlayer(s) \/ LoadSession(s)
  \/ LoadPrevious(s) \/ ReadRaw(s) \/ Swap(s) \/ Ack(s)
  \/ LoadLeaver(s) \/ SaveLeaver(s) \/ RevokeSession(s)
  \/ ListForResults(s) \/ SaveEnded(s) \/ AnnounceEnded(s)
  \/ \E p \in Players : ReadAnswer(s, p) \/ ResetScore(s, p)
  \/ SwapMatch(s) \/ ListForReset(s)

Next ==
  \/ \E p \in Players : Join(p)
  \/ \E p \in Players, a \in Actions, r \in RoundIds : Tap(p, a, r)
  \/ \E r \in RoundIds : Deadline(r)
  \/ StartRound \/ Finish
  \/ \E s \in Slots : Begin(s) \/ Step(s)
  \/ Crash

Spec == Init /\ [][Next]_vars

-----------------------------------------------------------------------------
(* Properties.                                                             *)

Ops ==
  [kind : Kinds \cup {"none"},
   pc : {"idle", "match", "round", "player", "session", "previous", "raw",
         "swap", "ack", "save", "list", "read", "phase", "reset"},
   player : Players \cup {"none"}, action : Actions \cup {"none"},
   round : RoundIds \cup {0}, match : MatchIds \cup {0},
   doc : PlayerDocs \cup {NoPlayer}, expected : PlayerDocs \cup {NoPlayer},
   previous : Answers \cup {NoAnswer}, points : PointValues \cup {0},
   tries : 0..(SwapAttempts - 1), todo : SUBSET Players,
   docs : [Players -> PlayerDocs \cup {NoPlayer}], seen : Results]

\* Every document has the shape assertPlayerShape and assertAnswerShape
\* demand (no negative score above all), and every handler's copy too.
TypeOK ==
  /\ phase \in {"LOBBY", "ROUND_ACTIVE", "ROUND_RESULT", "FINISHED"}
  /\ match \in MatchIds
  /\ rounds \in [RoundIds -> [match : MatchIds, status : {"ACTIVE", "ENDED"}]
                             \cup {NoRound}]
  /\ late \subseteq RoundIds
  /\ players \in [Players -> PlayerDocs \cup {NoPlayer}]
  /\ revoked \subseteq Players
  /\ answers \in [RoundIds -> [Players -> Answers \cup {NoAnswer}]]
  /\ used \subseteq Actions
  /\ announced \in [RoundIds -> Results]
  /\ op \in [Slots -> Ops]
  /\ taps \in [Actions -> Taps \cup {NoTap}]
  /\ ackCache \subseteq acked /\ acked \subseteq Actions
  /\ carried \subseteq Players /\ crashes \in 0..MaxCrashes

\* Serially, a tap is one step of AnswerLedger.
Ledger == INSTANCE AnswerLedger WITH
  open <- {r \in RoundIds :
             rounds[r] = [match |-> match, status |-> "ACTIVE"]},
  present <- {p \in Players : Active(players[p])},
  score <- [p \in Players |->
              IF players[p] = NoPlayer THEN 0 ELSE players[p].score]

\* Every tap takes effect at once, at most once, for a present player, in an
\* open round, and replaces what the earlier tap earned; nothing but a rematch
\* changes a score otherwise (submitAnswer as a whole).
TapsAreAtomic == Ledger!Spec

\* While no handler works on a player, the score is the sum of the points of
\* the answers stored for the rounds of this match: changing one's mind never
\* earns and never costs anything but the difference (submitAnswer,
\* resolveAnswer, and the reset in rematch).
ScoreIsSumOfPoints ==
  \A p \in Players :
    players[p] # NoPlayer /\ p \notin carried /\ ~Busy(p) =>
      players[p].score = SumOfPoints(p)

\* What round:ended told every player of a round stays what the store says:
\* no answer lands, and none changes, after the results went out (endRound
\* against submitAnswer).
RevealIsFinal ==
  \A r \in RoundIds : \A result \in announced[r] :
    answers[r][result[1]] = result[2]

\* The last tap counts, whatever the network does: once a tap that was made
\* after the acknowledgement of an earlier one is recorded, a copy of the
\* earlier message never brings the earlier answer back (the order of the
\* checks in SAVE_ANSWER_LUA).
LastTapCounts ==
  \A b \in used : \A a \in taps[b].after :
    answers[taps[b].round][taps[b].player].action # a

\* An acknowledged tap was recorded: the player has an answer for that round,
\* and the store knows the action (the outcomes of saveAcceptedAnswerAtomically).
AckedIsRecorded ==
  \A a \in acked :
    a \in used /\ answers[taps[a].round][taps[a].player] # NoAnswer

\* An answer in flight never undoes a kick or a departure (the merge of three
\* fields on the raw document in saveAcceptedAnswerAtomically).
DepartureSticks ==
  [][\A p \in Players :
       /\ players[p].kicked => players'[p].kicked
       /\ players[p].left => players'[p].left]_vars
=============================================================================
