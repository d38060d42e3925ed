------------------------- MODULE AnswerFlow_proofs -------------------------
(***************************************************************************)
(* Proofs, for every value of the constants and every choice of Overlaps,  *)
(* of what the compare-and-set and the action cache guarantee about        *)
(* answers; of DepartureSticks, when the operations that write a whole     *)
(* Player document do not overlap on one player; and, when no operations   *)
(* overlap on one player, of the refinement of AnswerLedger and of the     *)
(* score as the sum of the points.                                         *)
(*                                                                         *)
(* Fits speaks of one handler relative to the store (ps the players, ts    *)
(* the taps, us the used actions, started the started rounds).  Players,   *)
(* taps, actions and rounds are only ever added (Grows), so what a handler *)
(* knows of them stays true however long it waits.                         *)
(***************************************************************************)
EXTENDS AnswerFlow, FiniteSetTheorems, WellFoundedInduction, TLAPS

\* A handler of a tap works for the player and the round of the tap; from
\* "session" on it holds a document, at "swap" the one it will replace.
AnswerFits(o, ts, us) ==
  /\ o.action \in Actions /\ ts[o.action] # NoTap
  /\ o.pc # "ack" => /\ o.player = ts[o.action].player
                     /\ o.round = ts[o.action].round
  /\ o.pc = "ack" => o.action \in us
  /\ o.pc \in {"session", "previous", "raw", "swap"} => o.doc \in PlayerDocs
  /\ o.pc = "swap" => o.expected \in PlayerDocs /\ NewScore(o) \in Nat

LeaverFits(o, ps) ==
  /\ o.player \in Players /\ ps[o.player] # NoPlayer
  /\ o.pc = "save" => o.doc \in PlayerDocs

Fits(o, ps, ts, us, started) ==
  /\ o \in Ops
  /\ o.kind = "none" <=> o.pc = "idle"
  /\ o.kind = "answer" => AnswerFits(o, ts, us)
  /\ o.kind \in {"kick", "leave"} => LeaverFits(o, ps)
  /\ o.kind = "end" => o.round \in started
  /\ o.pc = "reset" => \A p \in o.todo : o.docs[p] \in PlayerDocs

HandlersFit == \A s \in Slots : Fits(op[s], players, taps, used, Started)

\* Rounds are numbered in the order in which they start.
RoundsInOrder == \E n \in 0..MaxRounds : Started = 1..n

\* A round can only be ended when one has started.
ActiveHasRound == phase = "ROUND_ACTIVE" => Started # {}

\* A tap is made by a player of the room, after what it says it is after.
TapsFit ==
  \A a \in Actions :
    taps[a] # NoTap => /\ players[taps[a].player] # NoPlayer
                       /\ taps[a].after \subseteq acked
                       /\ a \notin taps[a].after

\* What the action cache knows was tapped and has left an answer.
UsedIsRecorded ==
  /\ acked \subseteq used
  /\ \A a \in used : /\ taps[a] # NoTap
                     /\ answers[taps[a].round][taps[a].player] # NoAnswer

\* The inductive invariant.
IInv ==
  TypeOK /\ RoundsInOrder /\ ActiveHasRound /\ TapsFit /\ UsedIsRecorded
    /\ LastTapCounts /\ HandlersFit

Grows(ps, ts, us, started, ps2, ts2, us2, started2) ==
  /\ \A p \in Players : ps[p] # NoPlayer => ps2[p] # NoPlayer
  /\ \A a \in Actions : ts[a] # NoTap => ts2[a] = ts[a]
  /\ us \subseteq us2 /\ started \subseteq started2

-----------------------------------------------------------------------------
(* Documents and handlers.                                                 *)

\* No null document has the shape of a stored one.
LEMMA NullDocs ==
  /\ NoPlayer \notin PlayerDocs /\ NoAnswer \notin Answers /\ NoTap \notin Taps
  /\ \A m \in MatchIds : \A status : [match |-> m, status |-> status] # NoRound
BY ActionsAssumption
   DEF NoPlayer, PlayerDocs, NoAnswer, Answers, NoTap, Taps, RoundIds, NoRound,
       MatchIds

\* A slot without a handler fits every store.
LEMMA IdleFits ==
  ASSUME NEW ps, NEW ts, NEW us, NEW started
  PROVE  Fits(Idle, ps, ts, us, started)
<1>1. NoPlayers \in [Players -> PlayerDocs \cup {NoPlayer}]
  BY DEF NoPlayers
<1>2. 0 \in 0..(SwapAttempts - 1)
  BY AnswerBoundsAssumption
<1> QED
  BY <1>1, <1>2 DEF Fits, Idle, Ops, Results

\* A handler keeps fitting a store that has only grown.
LEMMA GrowsKeepsFits ==
  ASSUME NEW o, NEW ps, NEW ts, NEW us, NEW started,
         NEW ps2, NEW ts2, NEW us2, NEW started2,
         Fits(o, ps, ts, us, started),
         Grows(ps, ts, us, started, ps2, ts2, us2, started2)
  PROVE  Fits(o, ps2, ts2, us2, started2)
<1>1. o.kind = "answer" => AnswerFits(o, ts2, us2)
  BY DEF Fits, AnswerFits, Grows
<1>2. o.kind \in {"kick", "leave"} => LeaverFits(o, ps2)
  BY DEF Fits, LeaverFits, Grows
<1> QED
  BY <1>1, <1>2 DEF Fits, Grows

\* If the store only grows and the one handler that moves fits, all fit.
LEMMA MoveFits ==
  ASSUME IInv, NEW s \in Slots, NEW o,
         op' = [op EXCEPT ![s] = o],
         Fits(o, players', taps', used', Started'),
         Grows(players, taps, used, Started, players', taps', used', Started')
  PROVE  HandlersFit' /\ op' \in [Slots -> Ops]
<1>1. op \in [Slots -> Ops]
  BY DEF IInv, TypeOK
<1>2. o \in Ops
  BY DEF Fits
<1>3. ASSUME NEW t \in Slots
      PROVE  Fits(op'[t], players', taps', used', Started')
  <2>1. CASE t = s
    BY <1>1, <2>1
  <2>2. CASE t # s
    <3>1. op'[t] = op[t]
      BY <1>1, <2>2
    <3>2. Fits(op[t], players, taps, used, Started)
      BY DEF IInv, HandlersFit
    <3> QED
      BY <3>1, <3>2, GrowsKeepsFits
  <2> QED
    BY <2>1, <2>2
<1> QED
  BY <1>1, <1>2, <1>3 DEF HandlersFit

\* A step that only moves its own handler.
LEMMA WaitFits ==
  ASSUME IInv, NEW s \in Slots, NEW o, Waits(s, o),
         Fits(o, players, taps, used, Started)
  PROVE  IInv'
<1>1. /\ UNCHANGED <<game, ledger, clients, ackCache, crashes, history>>
      /\ op' = [op EXCEPT ![s] = o]
  BY DEF Waits, Becomes
<1>2. UNCHANGED <<phase, match, rounds, late, players, revoked, answers, used,
                  taps, acked, ackCache, crashes, announced, carried>>
  BY <1>1 DEF game, ledger, clients, history
<1>3. Started' = Started
  BY <1>2 DEF Started
<1>4. HandlersFit' /\ op' \in [Slots -> Ops]
  <2>1. Grows(players, taps, used, Started, players', taps', used', Started')
    BY <1>2, <1>3 DEF Grows
  <2> QED
    BY <1>1, <1>2, <1>3, <2>1, MoveFits
<1>5. TypeOK'
  BY <1>2, <1>4 DEF IInv, TypeOK
<1>6. (RoundsInOrder /\ ActiveHasRound /\ TapsFit /\ UsedIsRecorded
        /\ LastTapCounts)'
  BY <1>2, <1>3 DEF IInv, RoundsInOrder, ActiveHasRound, TapsFit,
                    UsedIsRecorded, LastTapCounts
<1> QED
  BY <1>4, <1>5, <1>6 DEF IInv

\* The initial state.
LEMMA InitFits == Init => IInv
<1> SUFFICES ASSUME Init
             PROVE  IInv
  OBVIOUS
<1>1. Started = {} /\ 1..0 = {} /\ 0 \in 0..MaxRounds
  BY AnswerBoundsAssumption DEF Init, Started
<1>2. \A s \in Slots : op[s] = Idle
  BY DEF Init
<1>3. HandlersFit /\ op \in [Slots -> Ops]
  <2>1. Idle \in Ops
    BY IdleFits DEF Fits
  <2> QED
    BY <1>2, <2>1, IdleFits DEF HandlersFit, Init
<1>4. players \in [Players -> PlayerDocs \cup {NoPlayer}]
  BY AnswerBoundsAssumption DEF Init, NewPlayer, PlayerDocs
<1>5. TypeOK
  BY <1>3, <1>4, AnswerBoundsAssumption
     DEF Init, TypeOK, MatchIds, NoAnswers, Results
<1>6. RoundsInOrder
  BY <1>1 DEF RoundsInOrder
<1>7. ActiveHasRound /\ TapsFit /\ UsedIsRecorded /\ LastTapCounts
  BY DEF Init, ActiveHasRound, TapsFit, UsedIsRecorded, LastTapCounts
<1> QED
  BY <1>3, <1>5, <1>6, <1>7 DEF IInv

-----------------------------------------------------------------------------
(* The surroundings.                                                       *)

\* If no handler moves and the store only grows, the handlers fit.
LEMMA RestFits ==
  ASSUME IInv, op' = op,
         Grows(players, taps, used, Started, players', taps', used', Started')
  PROVE  HandlersFit'
BY GrowsKeepsFits DEF IInv, HandlersFit

LEMMA StartedCount ==
  ASSUME IInv
  PROVE  /\ Started = 1..Cardinality(Started)
         /\ Cardinality(Started) \in 0..MaxRounds
<1> PICK n \in 0..MaxRounds : Started = 1..n
  BY DEF IInv, RoundsInOrder
<1>1. Cardinality(1..n) = n
  BY FS_Interval, AnswerBoundsAssumption
<1> QED
  BY <1>1

LEMMA JoinFits ==
  ASSUME IInv, NEW p \in Players, Join(p)
  PROVE  IInv'
<1>1. /\ UNCHANGED <<phase, match, rounds, late, revoked, answers, used, taps,
                     acked, op, ackCache, crashes, announced, carried>>
      /\ players' = [players EXCEPT ![p] = NewPlayer]
  BY DEF Join, game, clients, process, history
<1>2. NewPlayer \in PlayerDocs
  BY DEF NewPlayer, PlayerDocs
<1>3. players' \in [Players -> PlayerDocs \cup {NoPlayer}]
      /\ \A q \in Players : players[q] # NoPlayer => players'[q] # NoPlayer
  BY <1>1, <1>2, NullDocs DEF IInv, TypeOK
<1>4. Started' = Started
  BY <1>1 DEF Started
<1>5. HandlersFit'
  BY <1>1, <1>3, <1>4, RestFits DEF Grows
<1>6. TypeOK'
  BY <1>1, <1>3 DEF IInv, TypeOK
<1>7. TapsFit'
  <2>1. \A a \in Actions : taps[a] # NoTap => taps[a].player \in Players
    BY DEF IInv, TypeOK, Taps
  <2> QED
    BY <1>1, <1>3, <2>1 DEF IInv, TapsFit
<1>8. (RoundsInOrder /\ ActiveHasRound /\ UsedIsRecorded /\ LastTapCounts)'
  BY <1>1, <1>4 DEF IInv, RoundsInOrder, ActiveHasRound, UsedIsRecorded,
                    LastTapCounts
<1> QED
  BY <1>5, <1>6, <1>7, <1>8 DEF IInv

LEMMA StartRoundFits ==
  ASSUME IInv, StartRound
  PROVE  IInv'
<1> DEFINE n == Cardinality(Started)
<1>1. /\ UNCHANGED <<match, late, players, revoked, answers, used, taps,
                     acked, op, ackCache, crashes, announced, carried>>
      /\ phase' = "ROUND_ACTIVE"
      /\ rounds' = [rounds EXCEPT ![n + 1] =
                      [match |-> match, status |-> "ACTIVE"]]
  BY DEF StartRound, ledger, clients, process, history
<1>2. Started = 1..n /\ n \in 0..MaxRounds /\ n < MaxRounds
  BY StartedCount DEF StartRound
<1> HIDE DEF n
<1>3. n + 1 \in RoundIds
  BY <1>2, AnswerBoundsAssumption DEF RoundIds
<1>4. rounds' \in [RoundIds -> [match : MatchIds, status : {"ACTIVE", "ENDED"}]
                               \cup {NoRound}]
  BY <1>1 DEF IInv, TypeOK
<1>5. Started' = 1..(n + 1)
  <2>1. Started' = Started \cup {n + 1}
    BY <1>1, <1>3, NullDocs DEF Started, IInv, TypeOK
  <2> QED
    BY <1>2, <2>1
<1>6. n + 1 \in 0..MaxRounds
  BY <1>2, AnswerBoundsAssumption
<1>7. HandlersFit'
  <2>1. Started \subseteq Started'
    BY <1>2, <1>5
  <2> QED
    BY <1>1, <2>1, RestFits DEF Grows
<1>8. TypeOK'
  BY <1>1, <1>4 DEF IInv, TypeOK
<1>9. (RoundsInOrder /\ TapsFit /\ UsedIsRecorded /\ LastTapCounts)'
  BY <1>1, <1>5, <1>6
     DEF IInv, RoundsInOrder, TapsFit, UsedIsRecorded, LastTapCounts
<1>10. ActiveHasRound'
  BY <1>2, <1>5 DEF ActiveHasRound
<1> QED
  BY <1>7, <1>8, <1>9, <1>10 DEF IInv

LEMMA FinishFits ==
  ASSUME IInv, Finish
  PROVE  IInv'
<1>1. /\ UNCHANGED <<match, rounds, late, players, revoked, answers, used,
                     taps, acked, op, ackCache, crashes, announced, carried>>
      /\ phase' = "FINISHED"
  BY DEF Finish, ledger, clients, process, history
<1>2. Started' = Started
  BY <1>1 DEF Started
<1>3. HandlersFit'
  BY <1>1, <1>2, RestFits DEF Grows
<1>4. TypeOK'
  BY <1>1 DEF IInv, TypeOK
<1> QED
  BY <1>1, <1>2, <1>3, <1>4
     DEF IInv, RoundsInOrder, ActiveHasRound, TapsFit, UsedIsRecorded,
         LastTapCounts

LEMMA DeadlineFits ==
  ASSUME IInv, NEW r \in RoundIds, Deadline(r)
  PROVE  IInv'
<1>1. /\ UNCHANGED <<phase, match, rounds, players, revoked, answers, used,
                     taps, acked, op, ackCache, crashes, announced, carried>>
      /\ late' = late \cup {r}
  BY DEF Deadline, ledger, clients, process, history
<1>2. Started' = Started
  BY <1>1 DEF Started
<1>3. HandlersFit'
  BY <1>1, <1>2, RestFits DEF Grows
<1>4. TypeOK'
  BY <1>1 DEF IInv, TypeOK
<1> QED
  BY <1>1, <1>2, <1>3, <1>4
     DEF IInv, RoundsInOrder, ActiveHasRound, TapsFit, UsedIsRecorded,
         LastTapCounts

\* A new tap is after acknowledged ones only, and it is none of them, because
\* no action is acknowledged before it is tapped.
LEMMA TapFits ==
  ASSUME IInv, NEW p \in Players, NEW a \in Actions, NEW r \in RoundIds,
         Tap(p, a, r)
  PROVE  IInv'
<1> DEFINE earlier == {b \in acked : taps[b].player = p /\ taps[b].round = r}
<1>1. /\ UNCHANGED <<phase, match, rounds, late, players, revoked, answers,
                     used, acked, op, ackCache, crashes, announced, carried>>
      /\ taps[a] = NoTap /\ players[p] # NoPlayer
  BY DEF Tap, game, ledger, process, history
<1>2. PICK correct \in BOOLEAN :
        taps' = [taps EXCEPT ![a] = [player |-> p, round |-> r,
                                     correct |-> correct, after |-> earlier]]
  BY DEF Tap
<1>3. earlier \subseteq acked /\ acked \subseteq Actions
  BY DEF IInv, TypeOK
<1> HIDE DEF earlier
<1>4. [player |-> p, round |-> r, correct |-> correct, after |-> earlier]
        \in Taps
  BY <1>3 DEF Taps
<1>5. taps' \in [Actions -> Taps \cup {NoTap}]
      /\ \A b \in Actions : b # a => taps'[b] = taps[b]
  BY <1>2, <1>4 DEF IInv, TypeOK
<1>6. taps'[a] = [player |-> p, round |-> r, correct |-> correct,
                  after |-> earlier]
  BY <1>2 DEF IInv, TypeOK
<1>7. Started' = Started
  BY <1>1 DEF Started
<1>8. a \notin used /\ a \notin acked
  BY <1>1 DEF IInv, UsedIsRecorded
<1>9. HandlersFit'
  BY <1>1, <1>5, <1>7, RestFits DEF Grows
<1>10. TypeOK'
  BY <1>1, <1>5 DEF IInv, TypeOK
<1>11. TapsFit'
  BY <1>1, <1>3, <1>5, <1>6, <1>8 DEF IInv, TapsFit
<1>12. (UsedIsRecorded /\ LastTapCounts)'
  <2>1. \A b \in used : b # a /\ b \in Actions
    BY <1>8 DEF IInv, TypeOK
  <2> QED
    BY <1>1, <1>5, <2>1 DEF IInv, UsedIsRecorded, LastTapCounts
<1>13. (RoundsInOrder /\ ActiveHasRound)'
  BY <1>1, <1>7 DEF IInv, RoundsInOrder, ActiveHasRound
<1> QED
  BY <1>9, <1>10, <1>11, <1>12, <1>13 DEF IInv

-----------------------------------------------------------------------------
(* Handlers begin, and read for a tap.                                     *)

\* What a handler that fits knows of its slot.
LEMMA HandlerFacts ==
  ASSUME IInv, NEW s \in Slots
  PROVE  /\ Fits(op[s], players, taps, used, Started)
         /\ op[s] \in Ops
BY DEF IInv, HandlersFit, Fits

\* Who tapped is a player, and the tapped round is one.
LEMMA TapFacts ==
  ASSUME IInv, NEW a \in Actions, taps[a] # NoTap
  PROVE  /\ taps[a] \in Taps
         /\ taps[a].player \in Players /\ taps[a].round \in RoundIds
         /\ players[taps[a].player] \in PlayerDocs
<1>1. taps[a] \in Taps
  BY DEF IInv, TypeOK
<1>2. taps[a].player \in Players /\ taps[a].round \in RoundIds
  BY <1>1 DEF Taps
<1> QED
  BY <1>1, <1>2 DEF IInv, TypeOK, TapsFit

LEMMA BeginFits ==
  ASSUME IInv, NEW s \in Slots, Begin(s)
  PROVE  IInv'
<1>0. Idle \in Ops
  BY IdleFits DEF Fits
<1>1. ASSUME NEW a \in Actions, BeginAnswer(s, a)
      PROVE  IInv'
  <2> DEFINE o == [Idle EXCEPT !.kind = "answer", !.pc = "match",
                               !.player = taps[a].player, !.action = a,
                               !.round = taps[a].round]
  <2>1. taps[a] # NoTap /\ Waits(s, o)
    BY <1>1 DEF BeginAnswer, Begins
  <2>2. o \in Ops
    BY <1>0, <2>1, TapFacts DEF Ops, Kinds
  <2>3. /\ o.kind = "answer" /\ o.pc = "match" /\ o.action = a
        /\ o.player = taps[a].player /\ o.round = taps[a].round
    BY DEF Idle
  <2> HIDE DEF o
  <2>4. Fits(o, players, taps, used, Started)
    BY <2>1, <2>2, <2>3 DEF Fits, AnswerFits
  <2> QED
    BY <2>1, <2>4, WaitFits
<1>2. ASSUME NEW p \in Players, NEW kind \in {"kick", "leave"},
             BeginDeparture(s, p, kind)
      PROVE  IInv'
  <2> DEFINE o == [Idle EXCEPT !.kind = kind, !.pc = "player", !.player = p]
  <2>1. players[p] # NoPlayer /\ Waits(s, o)
    BY <1>2 DEF BeginDeparture, Begins
  <2>2. o \in Ops
    BY <1>0 DEF Ops, Kinds
  <2>3. o.kind = kind /\ o.pc = "player" /\ o.player = p
    BY DEF Idle
  <2> HIDE DEF o
  <2>4. Fits(o, players, taps, used, Started)
    BY <2>1, <2>2, <2>3 DEF Fits, LeaverFits
  <2> QED
    BY <2>1, <2>4, WaitFits
<1>3. CASE BeginEnd(s)
  <2> DEFINE o == [Idle EXCEPT !.kind = "end", !.pc = "list",
                               !.round = Cardinality(Started)]
  <2>1. phase = "ROUND_ACTIVE" /\ Waits(s, o)
    BY <1>3 DEF BeginEnd, Begins
  <2>2. Cardinality(Started) \in Started
    BY <2>1, StartedCount, AnswerBoundsAssumption DEF IInv, ActiveHasRound
  <2>3. Cardinality(Started) \in RoundIds
    BY <2>2 DEF Started
  <2>4. o \in Ops
    BY <1>0, <2>3 DEF Ops, Kinds
  <2>5. o.kind = "end" /\ o.pc = "list" /\ o.round = Cardinality(Started)
    BY DEF Idle
  <2> HIDE DEF o
  <2>6. Fits(o, players, taps, used, Started)
    BY <2>2, <2>4, <2>5 DEF Fits
  <2> QED
    BY <2>1, <2>6, WaitFits
<1>4. CASE BeginRematch(s)
  <2> DEFINE o == [Idle EXCEPT !.kind = "rematch", !.pc = "swap"]
  <2>1. Waits(s, o)
    BY <1>4 DEF BeginRematch, Begins
  <2>2. o \in Ops
    BY <1>0 DEF Ops, Kinds
  <2>3. o.kind = "rematch" /\ o.pc = "swap"
    BY DEF Idle
  <2> HIDE DEF o
  <2>4. Fits(o, players, taps, used, Started)
    BY <2>2, <2>3 DEF Fits
  <2> QED
    BY <2>1, <2>4, WaitFits
<1> QED
  BY <1>1, <1>2, <1>3, <1>4 DEF Begin

\* The first reads of a tap only move on, or give up.
LEMMA LoadFits ==
  ASSUME IInv, NEW s \in Slots,
         LoadMatch(s) \/ LoadRound(s) \/ LoadPlayer(s) \/ LoadSession(s)
           \/ LoadPrevious(s)
  PROVE  IInv'
<1> DEFINE o == op[s]
<1>1. Fits(o, players, taps, used, Started) /\ o \in Ops
  BY HandlerFacts
<1> HIDE DEF o
<1>2. CASE LoadMatch(s)
  <2> DEFINE next == [o EXCEPT !.match = match, !.pc = "round"]
  <2>1. At(s, "answer", "match") /\ Waits(s, next)
    BY <1>2 DEF LoadMatch, o
  <2>2. next \in Ops
    BY <1>1 DEF Ops, IInv, TypeOK
  <2>3. Fits(next, players, taps, used, Started)
    BY <1>1, <2>1, <2>2 DEF Fits, AnswerFits, Ops, At, o
  <2> QED
    BY <2>1, <2>3, WaitFits
<1>3. CASE LoadRound(s)
  <2> DEFINE next == [o EXCEPT !.pc = "player"]
  <2>1. At(s, "answer", "round") /\ (Waits(s, next) \/ Waits(s, Idle))
    BY <1>3 DEF LoadRound, o
  <2>2. next \in Ops
    BY <1>1 DEF Ops
  <2>3. Fits(next, players, taps, used, Started)
    BY <1>1, <2>1, <2>2 DEF Fits, AnswerFits, Ops, At, o
  <2> QED
    BY <2>1, <2>3, IdleFits, WaitFits
<1>4. CASE LoadPlayer(s)
  <2> DEFINE doc == players[o.player]
             next == [o EXCEPT !.doc = doc, !.pc = "session"]
  <2>1. At(s, "answer", "player")
        /\ ((Waits(s, next) /\ Active(doc)) \/ Waits(s, Idle))
    BY <1>4 DEF LoadPlayer, o
  <2>2. o.player \in Players
    BY <1>1, <2>1, TapFacts DEF Fits, AnswerFits, At, o
  <2>3. Active(doc) => doc \in PlayerDocs
    BY <2>2 DEF IInv, TypeOK, Active
  <2> HIDE DEF doc
  <2>4. doc \in PlayerDocs => Fits(next, players, taps, used, Started)
    <3>1. doc \in PlayerDocs => next \in Ops
      BY <1>1 DEF Ops
    <3> QED
      BY <1>1, <2>1, <3>1 DEF Fits, AnswerFits, Ops, At, o
  <2> QED
    BY <2>1, <2>3, <2>4, IdleFits, WaitFits
<1>5. CASE LoadSession(s)
  <2>1. At(s, "answer", "session")
        /\ (Waits(s, Idle)
             \/ \E points \in PointValues \cup {0} :
                  Waits(s, [o EXCEPT !.points = points, !.pc = "previous"]))
    BY <1>5 DEF LoadSession, o
  <2>2. ASSUME NEW points \in PointValues \cup {0}
        PROVE  Fits([o EXCEPT !.points = points, !.pc = "previous"],
                    players, taps, used, Started)
    <3> DEFINE next == [o EXCEPT !.points = points, !.pc = "previous"]
    <3>1. next \in Ops
      BY <1>1 DEF Ops
    <3> QED
      BY <1>1, <2>1, <3>1 DEF Fits, AnswerFits, Ops, At, o
  <2> QED
    BY <2>1, <2>2, IdleFits, WaitFits
<1>6. CASE LoadPrevious(s)
  <2> DEFINE previous == answers[o.round][o.player]
             next == [o EXCEPT !.previous = previous, !.pc = "raw"]
  <2>1. At(s, "answer", "previous") /\ Waits(s, next)
    BY <1>6 DEF LoadPrevious, o
  <2>2. o.player \in Players /\ o.round \in RoundIds
    BY <1>1, <2>1, TapFacts DEF Fits, AnswerFits, At, o
  <2>3. previous \in Answers \cup {NoAnswer}
    BY <2>2 DEF IInv, TypeOK
  <2> HIDE DEF previous
  <2>4. next \in Ops
    BY <1>1, <2>3 DEF Ops
  <2>5. Fits(next, players, taps, used, Started)
    BY <1>1, <2>1, <2>4 DEF Fits, AnswerFits, Ops, At, o
  <2> QED
    BY <2>1, <2>5, WaitFits
<1> QED
  BY <1>2, <1>3, <1>4, <1>5, <1>6

\* The score a handler computes from its copies is a number.
LEMMA ScoreIsNumber ==
  ASSUME NEW o \in Ops, o.doc \in PlayerDocs
  PROVE  NewScore(o) \in Int
<1>1. o.doc.score \in Nat
  BY DEF PlayerDocs
<1>2. \A x \in PointValues \cup {0} : x \in Nat
  BY ScoringAssumption
<1>3. o.points \in PointValues \cup {0}
  BY DEF Ops
<1>4. o.previous \in Answers \cup {NoAnswer}
  BY DEF Ops
<1>5. o.previous.points \in PointValues \cup {0}
  BY <1>4 DEF Answers, NoAnswer
<1> QED
  BY <1>1, <1>2, <1>3, <1>5 DEF NewScore

\* The score about to be written is a number, and the document it goes into
\* is there.
LEMMA ReadRawFits ==
  ASSUME IInv, NEW s \in Slots, ReadRaw(s)
  PROVE  IInv'
<1> DEFINE o == op[s]
           doc == players[o.player]
           next == [o EXCEPT !.expected = doc, !.pc = "swap"]
<1>1. Fits(o, players, taps, used, Started) /\ o \in Ops
  BY HandlerFacts
<1>2. At(s, "answer", "raw")
      /\ ((Waits(s, next) /\ ~(NewScore(o) < 0)) \/ Waits(s, Idle))
  BY DEF ReadRaw
<1>3. doc \in PlayerDocs
  BY <1>1, <1>2, TapFacts DEF Fits, AnswerFits, At
<1>4. NewScore(o) \in Int
  BY <1>1, <1>2, ScoreIsNumber DEF Fits, AnswerFits, At
<1> HIDE DEF doc
<1>5. next \in Ops
  BY <1>1, <1>3 DEF Ops
<1>6. NewScore(next) = NewScore(o)
  <2>1. /\ next.doc = o.doc /\ next.previous = o.previous
        /\ next.points = o.points
    BY <1>1 DEF Ops
  <2> QED
    BY <2>1 DEF NewScore
<1>7. ~(NewScore(o) < 0) => Fits(next, players, taps, used, Started)
  <2>1. ~(NewScore(o) < 0) => NewScore(next) \in Nat
    BY <1>4, <1>6
  <2>2. /\ next.kind = "answer" /\ next.pc = "swap" /\ next.expected = doc
        /\ next.action = o.action /\ next.player = o.player
        /\ next.round = o.round /\ next.doc = o.doc
    BY <1>1, <1>2 DEF Ops, At
  <2>3. o.kind = "answer" /\ o.pc = "raw"
    BY <1>2 DEF At
  <2> HIDE DEF o, next
  <2> QED
    BY <1>1, <1>3, <1>5, <2>1, <2>2, <2>3 DEF Fits, AnswerFits
<1> QED
  BY <1>2, <1>7, IdleFits, WaitFits

-----------------------------------------------------------------------------
(* The write and the acknowledgement of a tap.                             *)

\* Who waits for the acknowledgement holds a used action.
LEMMA WrittenFits ==
  ASSUME NEW o, NEW ps, NEW ts, NEW us, NEW started,
         o.player \in Players, o.action \in Actions, ts[o.action] # NoTap, o.action \in us
  PROVE  Fits(Written(o), ps, ts, us, started)
<1>1. Idle \in Ops
  BY IdleFits DEF Fits
<1>2. \A p \in Players, a \in Actions :
        [Idle EXCEPT !.kind = "answer", !.pc = "ack", !.player = p,
                     !.action = a] \in Ops
  BY <1>1 DEF Ops, Kinds
<1>3. Written(o) \in Ops
  BY <1>2 DEF Written
<1>4. /\ Written(o).kind = "answer" /\ Written(o).pc = "ack"
      /\ Written(o).action = o.action
  BY DEF Written, Idle
<1> QED
  BY <1>3, <1>4 DEF Fits, AnswerFits

\* After a refused swap a handler has given up, reads again, or knows that the
\* action was written before.
LEMMA RefusedSwapFits ==
  ASSUME IInv, NEW s \in Slots, At(s, "answer", "swap"),
         NEW outcome \in {"replay", "stale", "already-answered"},
         outcome = "replay" => op[s].action \in used
  PROVE  Fits(AfterSwap(op[s], outcome), players, taps, used, Started)
<1> DEFINE o == op[s]
           written == Written(o)
           again == [o EXCEPT !.pc = "raw", !.expected = NoPlayer, !.tries = @ + 1]
<1>1. Fits(o, players, taps, used, Started) /\ o \in Ops
  BY HandlerFacts
<1>2. o.kind = "answer" /\ o.pc = "swap"
  BY DEF At
<1>3. CASE outcome = "replay"
  <2>1. AfterSwap(o, outcome) = written
    BY <1>3 DEF AfterSwap
  <2>2. o.action \in Actions /\ taps[o.action] # NoTap
        /\ o.player = taps[o.action].player
    BY <1>1, <1>2 DEF Fits, AnswerFits
  <2>3. o.player \in Players
    BY <2>2, TapFacts
  <2> QED
    BY <2>3, <1>3, <2>1, <2>2, WrittenFits
<1>4. CASE outcome = "stale" /\ o.tries + 1 < SwapAttempts
  <2>1. AfterSwap(o, outcome) = again
    BY <1>4 DEF AfterSwap
  <2>2. o.tries \in 0..(SwapAttempts - 1)
    BY <1>1 DEF Ops
  <2>3. o.tries + 1 \in 0..(SwapAttempts - 1)
    BY <1>4, <2>2, AnswerBoundsAssumption
  <2>4. again \in Ops
    BY <1>1, <2>3 DEF Ops
  <2>5. /\ again.kind = "answer" /\ again.pc = "raw" /\ again.doc = o.doc
        /\ again.action = o.action /\ again.player = o.player
        /\ again.round = o.round
    BY <1>1, <1>2 DEF Ops
  <2> HIDE DEF again, o
  <2> QED
    BY <1>1, <1>2, <2>1, <2>4, <2>5 DEF Fits, AnswerFits, o
<1>5. CASE ~(outcome = "replay" \/ (outcome = "stale"
                                      /\ o.tries + 1 < SwapAttempts))
  <2>1. AfterSwap(o, outcome) = Idle
    BY <1>5 DEF AfterSwap
  <2> QED
    BY <2>1, IdleFits
<1> QED
  BY <1>3, <1>4, <1>5

\* The swap writes an action that was not written before, over an answer that
\* no earlier tap of the same player and round was acknowledged before.
LEMMA SwapFits ==
  ASSUME IInv, NEW s \in Slots, Swap(s)
  PROVE  IInv'
<1> DEFINE o == op[s]
           outcome == SaveAnswerOutcome(o)
<1>1. Fits(o, players, taps, used, Started) /\ o \in Ops
  BY HandlerFacts
<1>2. At(s, "answer", "swap") /\ o.kind = "answer" /\ o.pc = "swap"
  BY DEF Swap, At
<1>3. /\ o.action \in Actions /\ taps[o.action] # NoTap
      /\ o.player = taps[o.action].player /\ o.round = taps[o.action].round
      /\ o.expected \in PlayerDocs /\ NewScore(o) \in Nat
  BY <1>1, <1>2 DEF Fits, AnswerFits
<1>4. o.player \in Players /\ o.round \in RoundIds
  BY <1>3, TapFacts
<1>5. /\ UNCHANGED <<phase, match, rounds, late, revoked, taps, acked,
                     ackCache, crashes, announced, carried>>
      /\ op' = [op EXCEPT ![s] = AfterSwap(o, outcome)]
  BY DEF Swap, Becomes, game, clients, history
<1>6. Started' = Started
  BY <1>5 DEF Started
<1>7. CASE outcome # "ok"
  <2>1. UNCHANGED <<answers, players, used>>
    BY <1>7 DEF Swap
  <2>2. Waits(s, AfterSwap(o, outcome))
    BY <1>5, <2>1 DEF Waits, Becomes, game, ledger, clients, history
  <2>3. /\ outcome \in {"replay", "stale", "already-answered"}
        /\ outcome = "replay" => o.action \in used
    BY <1>7 DEF SaveAnswerOutcome
  <2> HIDE DEF o, outcome
  <2>4. Fits(AfterSwap(o, outcome), players, taps, used, Started)
    BY <1>2, <2>3, RefusedSwapFits DEF o
  <2> QED
    BY <2>2, <2>4, WaitFits
<1>8. CASE outcome = "ok"
  <2> DEFINE answer == [action |-> o.action, points |-> o.points]
  <2>1. /\ answers' = [answers EXCEPT ![o.round][o.player] = answer]
        /\ players' = [players EXCEPT ![o.player] = Merged(o)]
        /\ used' = used \cup {o.action}
    BY <1>8 DEF Swap
  <2>2. o.action \notin used
    BY <1>8 DEF SaveAnswerOutcome
  <2>3. AfterSwap(o, outcome) = Written(o)
    BY <1>8 DEF AfterSwap
  <2>4. o.points \in PointValues \cup {0}
    BY <1>1 DEF Ops
  <2>5. Merged(o) \in PlayerDocs
    BY <1>3 DEF Merged, PlayerDocs
  <2> HIDE DEF o, outcome
  <2>6. answer \in Answers /\ answer # NoAnswer /\ answer.action = o.action
    BY <1>3, <2>4, ActionsAssumption DEF Answers, NoAnswer
  <2>7. players' \in [Players -> PlayerDocs \cup {NoPlayer}]
        /\ \A p \in Players : players[p] # NoPlayer => players'[p] # NoPlayer
    BY <1>4, <2>1, <2>5, NullDocs DEF IInv, TypeOK
  <2> HIDE DEF answer
  <2>8. /\ answers' \in [RoundIds -> [Players -> Answers \cup {NoAnswer}]]
        /\ answers'[o.round][o.player] = answer
        /\ \A r \in RoundIds, p \in Players :
             r # o.round \/ p # o.player => answers'[r][p] = answers[r][p]
    BY <1>4, <2>1, <2>6 DEF IInv, TypeOK
  <2>9. Fits(Written(o), players', taps', used', Started')
    BY <1>3, <1>4, <1>5, <2>1, WrittenFits
  <2>10. Grows(players, taps, used, Started, players', taps', used', Started')
    BY <1>5, <1>6, <2>1, <2>7 DEF Grows
  <2>11. HandlersFit' /\ op' \in [Slots -> Ops]
    BY <1>5, <2>3, <2>9, <2>10, MoveFits
  <2>12. TypeOK'
    BY <1>3, <1>5, <2>1, <2>7, <2>8, <2>11 DEF IInv, TypeOK
  <2>13. TapsFit'
    <3>1. \A a \in Actions : taps[a] # NoTap => taps[a].player \in Players
      BY TapFacts
    <3> QED
      BY <1>5, <2>7, <3>1 DEF IInv, TapsFit
  <2>14. \A b \in used : /\ b \in Actions /\ taps[b] # NoTap
                         /\ taps[b].round \in RoundIds
                         /\ taps[b].player \in Players
    BY TapFacts DEF IInv, TypeOK, UsedIsRecorded
  <2>15. UsedIsRecorded'
    BY <1>3, <1>5, <2>1, <2>6, <2>8, <2>14 DEF IInv, UsedIsRecorded
  <2>16. LastTapCounts'
    <3> SUFFICES ASSUME NEW b \in used', NEW a \in taps[b].after
                 PROVE  answers'[taps[b].round][taps[b].player].action # a
      BY <1>5 DEF LastTapCounts
    <3>1. b \in Actions /\ taps[b] # NoTap
      BY <1>3, <2>1, <2>14
    <3>2. a \in used
      BY <3>1 DEF IInv, TapsFit, UsedIsRecorded
    <3>3. a # o.action
      BY <2>2, <3>2
    <3>4. CASE taps[b].round = o.round /\ taps[b].player = o.player
      BY <2>6, <2>8, <3>3, <3>4
    <3>5. CASE ~(taps[b].round = o.round /\ taps[b].player = o.player)
      <4>1. b # o.action
        BY <1>3, <3>5
      <4>2. b \in used
        BY <2>1, <4>1
      <4>3. answers'[taps[b].round][taps[b].player]
              = answers[taps[b].round][taps[b].player]
        BY <2>8, <2>14, <3>5, <4>2
      <4> QED
        BY <4>2, <4>3 DEF IInv, LastTapCounts
    <3> QED
      BY <3>4, <3>5
  <2>17. (RoundsInOrder /\ ActiveHasRound)'
    BY <1>5, <1>6 DEF IInv, RoundsInOrder, ActiveHasRound
  <2> QED
    BY <2>11, <2>12, <2>13, <2>15, <2>16, <2>17 DEF IInv
<1> QED
  BY <1>7, <1>8

\* Only what the store has recorded is acknowledged.
LEMMA AckFits ==
  ASSUME IInv, NEW s \in Slots, Ack(s)
  PROVE  IInv'
<1> DEFINE a == op[s].action
<1>1. /\ UNCHANGED <<phase, match, rounds, late, players, revoked, answers,
                     used, taps, crashes, announced, carried>>
      /\ op' = [op EXCEPT ![s] = Idle]
      /\ acked' = acked \cup {a} /\ ackCache' = ackCache \cup {a}
  BY DEF Ack, Becomes, game, ledger, history
<1>2. a \in Actions /\ a \in used
  BY HandlerFacts DEF Ack, At, Fits, AnswerFits
<1> HIDE DEF a
<1>3. Started' = Started
  BY <1>1 DEF Started
<1>4. HandlersFit' /\ op' \in [Slots -> Ops]
  <2>1. Grows(players, taps, used, Started, players', taps', used', Started')
    BY <1>1, <1>3 DEF Grows
  <2> QED
    BY <1>1, <2>1, IdleFits, MoveFits
<1>5. TypeOK'
  BY <1>1, <1>2, <1>4 DEF IInv, TypeOK
<1>6. (TapsFit /\ UsedIsRecorded)'
  BY <1>1, <1>2 DEF IInv, TapsFit, UsedIsRecorded
<1>7. (RoundsInOrder /\ ActiveHasRound /\ LastTapCounts)'
  BY <1>1, <1>3 DEF IInv, RoundsInOrder, ActiveHasRound, LastTapCounts
<1> QED
  BY <1>4, <1>5, <1>6, <1>7 DEF IInv

-----------------------------------------------------------------------------
(* Kick, leave, the end of a round and a rematch.                          *)

\* A step that writes one whole Player document.
LEMMA SavePlayerFits ==
  ASSUME IInv, NEW s \in Slots, NEW o, NEW p \in Players, NEW doc \in PlayerDocs,
         players' = [players EXCEPT ![p] = doc],
         op' = [op EXCEPT ![s] = o],
         Fits(o, players, taps, used, Started),
         UNCHANGED <<game, revoked, answers, used, clients, ackCache, crashes,
                     announced>>,
         carried' \subseteq Players
  PROVE  IInv'
<1>1. UNCHANGED <<phase, match, rounds, late, revoked, answers, used, taps,
                  acked, ackCache, crashes, announced>>
  BY DEF game, clients
<1>2. players' \in [Players -> PlayerDocs \cup {NoPlayer}]
      /\ \A q \in Players : players[q] # NoPlayer => players'[q] # NoPlayer
  BY NullDocs DEF IInv, TypeOK
<1>3. Started' = Started
  BY <1>1 DEF Started
<1>4. Grows(players, taps, used, Started, players', taps', used', Started')
  BY <1>1, <1>2, <1>3 DEF Grows
<1>5. Fits(o, players', taps', used', Started')
  BY <1>4, GrowsKeepsFits
<1>6. HandlersFit' /\ op' \in [Slots -> Ops]
  BY <1>4, <1>5, MoveFits
<1>7. TypeOK'
  BY <1>1, <1>2, <1>6 DEF IInv, TypeOK
<1>8. TapsFit'
  <2>1. \A a \in Actions : taps[a] # NoTap => taps[a].player \in Players
    BY TapFacts
  <2> QED
    BY <1>1, <1>2, <2>1 DEF IInv, TapsFit
<1>9. (RoundsInOrder /\ ActiveHasRound /\ UsedIsRecorded /\ LastTapCounts)'
  BY <1>1, <1>3 DEF IInv, RoundsInOrder, ActiveHasRound, UsedIsRecorded,
                    LastTapCounts
<1> QED
  BY <1>6, <1>7, <1>8, <1>9 DEF IInv

LEMMA LoadLeaverFits ==
  ASSUME IInv, NEW s \in Slots, LoadLeaver(s)
  PROVE  IInv'
<1> DEFINE o == op[s]
           doc == players[o.player]
           next == [o EXCEPT !.doc = doc, !.pc = "save"]
<1>1. Fits(o, players, taps, used, Started) /\ o \in Ops
  BY HandlerFacts
<1>2. (At(s, "kick", "player") \/ At(s, "leave", "player"))
      /\ (Waits(s, next) \/ Waits(s, Idle))
  BY DEF LoadLeaver
<1>3. o.kind \in {"kick", "leave"} /\ o.player \in Players
      /\ players[o.player] # NoPlayer
  BY <1>1, <1>2 DEF At, Fits, LeaverFits
<1>4. doc \in PlayerDocs
  BY <1>3 DEF IInv, TypeOK
<1> HIDE DEF doc
<1>5. next \in Ops
  BY <1>1, <1>4 DEF Ops
<1>6. next.kind = o.kind /\ next.pc = "save" /\ next.doc = doc
      /\ next.player = o.player
  BY <1>1 DEF Ops
<1> HIDE DEF o, next
<1>7. Fits(next, players, taps, used, Started)
  BY <1>3, <1>4, <1>5, <1>6 DEF Fits, LeaverFits
<1> QED
  BY <1>2, <1>7, IdleFits, WaitFits

\* What a kick or a departure writes has the shape of a document.
LEMMA SaveLeaverFits ==
  ASSUME IInv, NEW s \in Slots, SaveLeaver(s)
  PROVE  IInv'
<1> DEFINE o == op[s]
           next == [o EXCEPT !.pc = "session"]
<1>1. Fits(o, players, taps, used, Started) /\ o \in Ops
  BY HandlerFacts
<1>2. UNCHANGED <<game, revoked, answers, used, clients, ackCache, crashes,
                  announced>>
      /\ carried' = carried
  BY DEF SaveLeaver, Becomes, history
<1>3. carried' \subseteq Players
  BY <1>2 DEF IInv, TypeOK
<1>4. (At(s, "kick", "save") \/ At(s, "leave", "save"))
  BY DEF SaveLeaver
<1>5. o.kind \in {"kick", "leave"} /\ o.player \in Players
      /\ players[o.player] # NoPlayer /\ o.doc \in PlayerDocs
  BY <1>1, <1>4 DEF At, Fits, LeaverFits
<1>6. /\ [o.doc EXCEPT !.kicked = TRUE] \in PlayerDocs
      /\ [o.doc EXCEPT !.left = TRUE] \in PlayerDocs
  BY <1>5 DEF PlayerDocs
<1>7. CASE At(s, "kick", "save")
  <2>1. /\ players' = [players EXCEPT ![o.player]
                         = [o.doc EXCEPT !.kicked = TRUE]]
        /\ op' = [op EXCEPT ![s] = next]
    BY <1>7 DEF SaveLeaver, At, Becomes
  <2>2. next \in Ops /\ next.kind = o.kind /\ next.pc = "session"
        /\ next.player = o.player
    BY <1>1 DEF Ops
  <2> HIDE DEF o, next
  <2>3. Fits(next, players, taps, used, Started)
    BY <1>5, <2>2 DEF Fits, LeaverFits
  <2> QED
    BY <1>2, <1>3, <1>5, <1>6, <2>1, <2>3, SavePlayerFits
<1>8. CASE At(s, "leave", "save")
  <2>1. /\ players' = [players EXCEPT ![o.player]
                         = [o.doc EXCEPT !.left = TRUE]]
        /\ op' = [op EXCEPT ![s] = Idle]
    BY <1>8 DEF SaveLeaver, At, Becomes
  <2> HIDE DEF o
  <2> QED
    BY <1>2, <1>3, <1>5, <1>6, <2>1, IdleFits, SavePlayerFits
<1> QED
  BY <1>4, <1>7, <1>8

LEMMA RevokeSessionFits ==
  ASSUME IInv, NEW s \in Slots, RevokeSession(s)
  PROVE  IInv'
<1>1. /\ UNCHANGED <<phase, match, rounds, late, players, answers, used, taps,
                     acked, ackCache, crashes, announced, carried>>
      /\ op' = [op EXCEPT ![s] = Idle]
      /\ revoked' = revoked \cup {op[s].player}
  BY DEF RevokeSession, Becomes, game, clients, history
<1>2. op[s].player \in Players
  BY HandlerFacts DEF RevokeSession, At, Fits, LeaverFits
<1>3. Started' = Started
  BY <1>1 DEF Started
<1>4. Grows(players, taps, used, Started, players', taps', used', Started')
  BY <1>1, <1>3 DEF Grows
<1>5. HandlersFit' /\ op' \in [Slots -> Ops]
  BY <1>1, <1>4, IdleFits, MoveFits
<1>6. TypeOK'
  BY <1>1, <1>2, <1>5 DEF IInv, TypeOK
<1> QED
  BY <1>1, <1>3, <1>5, <1>6
     DEF IInv, RoundsInOrder, ActiveHasRound, TapsFit, UsedIsRecorded,
         LastTapCounts

\* The lists that endRound keeps are of the right type.
LEMMA ListedInOps ==
  ASSUME NEW o \in Ops, NEW todo \in SUBSET Players,
         NEW seen \in Results
  PROVE  /\ [o EXCEPT !.todo = todo, !.pc = "read"] \in Ops
         /\ [o EXCEPT !.todo = todo, !.seen = seen] \in Ops
<1>1. [o EXCEPT !.todo = todo, !.pc = "read"] \in Ops
  BY DEF Ops
<1>2. [o EXCEPT !.todo = todo, !.seen = seen] \in Ops
  BY DEF Ops
<1> QED
  BY <1>1, <1>2

\* The reads of endRound.
LEMMA CollectFits ==
  ASSUME IInv, NEW s \in Slots,
         ListForResults(s) \/ \E p \in Players : ReadAnswer(s, p)
  PROVE  IInv'
<1> DEFINE o == op[s]
<1>1. Fits(o, players, taps, used, Started) /\ o \in Ops
  BY HandlerFacts
<1>2. CASE ListForResults(s)
  <2> DEFINE todo == {p \in Players : Active(players[p])}
             next == [o EXCEPT !.todo = todo, !.pc = "read"]
  <2>1. At(s, "end", "list") /\ Waits(s, next)
    BY <1>2 DEF ListForResults
  <2>2. o.kind = "end" /\ o.round \in Started
    BY <1>1, <2>1 DEF At, Fits
  <2>3. todo \in SUBSET Players
    OBVIOUS
  <2> HIDE DEF todo
  <2>4. next \in Ops
    <3>1. {} \in Results
      BY DEF Results
    <3> QED
      BY <1>1, <2>3, <3>1, ListedInOps
  <2>5. next.kind = "end" /\ next.pc = "read" /\ next.round = o.round
    BY <1>1, <2>2 DEF Ops
  <2> HIDE DEF o, next
  <2>6. Fits(next, players, taps, used, Started)
    BY <2>2, <2>4, <2>5 DEF Fits
  <2> QED
    BY <2>1, <2>6, WaitFits
<1>3. ASSUME NEW p \in Players, ReadAnswer(s, p)
      PROVE  IInv'
  <2> DEFINE todo == o.todo \ {p}
             seen == o.seen \cup {<<p, answers[o.round][p]>>}
             next == [o EXCEPT !.todo = todo, !.seen = seen]
  <2>1. At(s, "end", "read") /\ Waits(s, next)
    BY <1>1, <1>3 DEF ReadAnswer, Ops
  <2>2. o.kind = "end" /\ o.pc = "read" /\ o.round \in Started
    BY <1>1, <2>1 DEF At, Fits
  <2>3. todo \in SUBSET Players
    BY <1>1 DEF Ops
  <2>4. seen \in Results
    <3>1. o.round \in RoundIds
      BY <2>2 DEF Started
    <3>2. answers[o.round][p] \in Answers \cup {NoAnswer}
      BY <3>1 DEF IInv, TypeOK
    <3>3. o.seen \in Results
      BY <1>1 DEF Ops
    <3> QED
      BY <3>2, <3>3 DEF Results
  <2> HIDE DEF todo, seen
  <2>5. next \in Ops
    BY <1>1, <2>3, <2>4, ListedInOps
  <2>6. next.kind = "end" /\ next.pc = "read" /\ next.round = o.round
    BY <1>1, <2>2 DEF Ops
  <2> HIDE DEF o, next
  <2>7. Fits(next, players, taps, used, Started)
    BY <2>2, <2>5, <2>6 DEF Fits
  <2> QED
    BY <2>1, <2>7, WaitFits
<1> QED
  BY <1>2, <1>3

\* A round that ends has started, so its document keeps its shape.
LEMMA SaveEndedFits ==
  ASSUME IInv, NEW s \in Slots, SaveEnded(s)
  PROVE  IInv'
<1> DEFINE o == op[s]
           r == o.round
           next == [o EXCEPT !.pc = "phase"]
<1>1. Fits(o, players, taps, used, Started) /\ o \in Ops
  BY HandlerFacts
<1>2. /\ UNCHANGED <<phase, match, late, players, revoked, answers, used,
                     taps, acked, ackCache, crashes, announced, carried>>
      /\ rounds' = [rounds EXCEPT ![r].status = "ENDED"]
      /\ op' = [op EXCEPT ![s] = next]
  BY DEF SaveEnded, Becomes, ledger, clients, history
<1>3. o.kind = "end" /\ r \in Started
  BY <1>1 DEF SaveEnded, At, Fits
<1>4. next \in Ops /\ next.kind = "end" /\ next.pc = "phase"
      /\ next.round = r
  BY <1>1, <1>3 DEF Ops
<1> HIDE DEF o, next
<1>5. Fits(next, players, taps, used, Started)
  BY <1>3, <1>4 DEF Fits
<1> HIDE DEF r
<1>6. r \in RoundIds /\ rounds[r] # NoRound
  BY <1>3 DEF Started
<1>7. rounds[r] \in [match : MatchIds, status : {"ACTIVE", "ENDED"}]
  BY <1>6 DEF IInv, TypeOK
<1> DEFINE ended == [rounds[r] EXCEPT !.status = "ENDED"]
<1>8. ended \in [match : MatchIds, status : {"ACTIVE", "ENDED"}]
      /\ ended # NoRound
  BY <1>7 DEF NoRound, MatchIds
<1>9. rounds' = [rounds EXCEPT ![r] = ended]
  BY <1>2
<1> HIDE DEF ended
<1>10. rounds' \in [RoundIds -> [match : MatchIds, status : {"ACTIVE", "ENDED"}]
                                \cup {NoRound}]
  BY <1>8, <1>9 DEF IInv, TypeOK
<1>11. Started' = Started
  BY <1>6, <1>8, <1>9 DEF Started, IInv, TypeOK
<1>12. Grows(players, taps, used, Started, players', taps', used', Started')
  BY <1>2, <1>11 DEF Grows
<1>13. HandlersFit' /\ op' \in [Slots -> Ops]
  BY <1>2, <1>5, <1>11, <1>12, MoveFits
<1>14. TypeOK'
  BY <1>2, <1>10, <1>13 DEF IInv, TypeOK
<1> QED
  BY <1>2, <1>11, <1>13, <1>14
     DEF IInv, RoundsInOrder, ActiveHasRound, TapsFit, UsedIsRecorded,
         LastTapCounts

LEMMA AnnounceEndedFits ==
  ASSUME IInv, NEW s \in Slots, AnnounceEnded(s)
  PROVE  IInv'
<1>1. /\ UNCHANGED <<match, rounds, late, players, revoked, answers, used,
                     taps, acked, ackCache, crashes, carried>>
      /\ op' = [op EXCEPT ![s] = Idle]
      /\ \/ phase' = "ROUND_RESULT"
            /\ announced' = [announced EXCEPT ![op[s].round] = op[s].seen]
         \/ UNCHANGED <<phase, announced>>
  BY DEF AnnounceEnded, Becomes, ledger, clients
<1>2. op[s].seen \in Results
  BY HandlerFacts DEF Ops
<1>3. Started' = Started
  BY <1>1 DEF Started
<1>4. Grows(players, taps, used, Started, players', taps', used', Started')
  BY <1>1, <1>3 DEF Grows
<1>5. HandlersFit' /\ op' \in [Slots -> Ops]
  BY <1>1, <1>4, IdleFits, MoveFits
<1>6. announced' \in [RoundIds -> Results]
  BY <1>1, <1>2 DEF IInv, TypeOK
<1>7. TypeOK'
  BY <1>1, <1>5, <1>6 DEF IInv, TypeOK
<1> QED
  BY <1>1, <1>3, <1>5, <1>7
     DEF IInv, RoundsInOrder, ActiveHasRound, TapsFit, UsedIsRecorded,
         LastTapCounts

LEMMA SwapMatchFits ==
  ASSUME IInv, NEW s \in Slots, SwapMatch(s)
  PROVE  IInv'
<1> DEFINE o == op[s]
           next == [o EXCEPT !.pc = "list"]
<1>1. Fits(o, players, taps, used, Started) /\ o \in Ops
  BY HandlerFacts
<1>2. o.kind = "rematch" /\ o.pc = "swap"
  BY DEF SwapMatch, At
<1>3. CASE phase # "FINISHED"
  BY <1>3, IdleFits, WaitFits DEF SwapMatch
<1>4. CASE phase = "FINISHED"
  <2>1. /\ UNCHANGED <<rounds, late, players, revoked, answers, used, taps,
                       acked, ackCache, crashes, announced>>
        /\ phase' = "LOBBY" /\ match' = match + 1 /\ match < MaxMatches
        /\ carried' \subseteq Players
        /\ op' = [op EXCEPT ![s] = next]
    BY <1>4 DEF SwapMatch, Becomes, ledger, clients
  <2>2. next \in Ops /\ next.kind = "rematch" /\ next.pc = "list"
    BY <1>1, <1>2 DEF Ops
  <2> HIDE DEF next
  <2>3. Fits(next, players, taps, used, Started)
    BY <2>2 DEF Fits
  <2>4. Started' = Started
    BY <2>1 DEF Started
  <2>5. Grows(players, taps, used, Started, players', taps', used', Started')
    BY <2>1, <2>4 DEF Grows
  <2>6. HandlersFit' /\ op' \in [Slots -> Ops]
    BY <2>1, <2>3, <2>4, <2>5, MoveFits
  <2>7. match' \in MatchIds
    BY <2>1, AnswerBoundsAssumption DEF IInv, TypeOK, MatchIds
  <2>8. TypeOK'
    BY <2>1, <2>6, <2>7 DEF IInv, TypeOK
  <2> QED
    BY <2>1, <2>4, <2>6, <2>8
       DEF IInv, RoundsInOrder, ActiveHasRound, TapsFit, UsedIsRecorded,
           LastTapCounts
<1> QED
  BY <1>3, <1>4

\* The listed documents are those of players.
LEMMA ListForResetFits ==
  ASSUME IInv, NEW s \in Slots, ListForReset(s)
  PROVE  IInv'
<1> DEFINE o == op[s]
           present == {p \in Players : Active(players[p])}
           next == [o EXCEPT !.docs = players, !.todo = present, !.pc = "reset"]
<1>1. Fits(o, players, taps, used, Started) /\ o \in Ops
  BY HandlerFacts
<1>2. At(s, "rematch", "list") /\ (Waits(s, next) \/ Waits(s, Idle))
  BY DEF ListForReset
<1>3. o.kind = "rematch"
  BY <1>2 DEF At
<1>4. present \subseteq Players /\ \A p \in present : players[p] \in PlayerDocs
  BY DEF IInv, TypeOK, Active
<1>5. players \in [Players -> PlayerDocs \cup {NoPlayer}]
  BY DEF IInv, TypeOK
<1> HIDE DEF present
<1>6. /\ next \in Ops /\ next.kind = "rematch" /\ next.pc = "reset"
      /\ next.docs = players /\ next.todo = present
  <2>1. [o EXCEPT !.docs = players] \in Ops
    BY <1>1, <1>5 DEF Ops
  <2>2. next \in Ops
    BY <1>4, <2>1 DEF Ops
  <2> QED
    BY <1>1, <1>3, <2>2 DEF Ops
<1> HIDE DEF next
<1>7. Fits(next, players, taps, used, Started)
  BY <1>4, <1>6 DEF Fits
<1> QED
  BY <1>2, <1>7, IdleFits, WaitFits

LEMMA ResetScoreFits ==
  ASSUME IInv, NEW s \in Slots, NEW p \in Players, ResetScore(s, p)
  PROVE  IInv'
<1> DEFINE o == op[s]
           doc == [o.docs[p] EXCEPT !.score = 0]
           todo == o.todo \ {p}
           next == [o EXCEPT !.todo = todo]
<1>1. Fits(o, players, taps, used, Started) /\ o \in Ops
  BY HandlerFacts
<1>2. o.kind = "rematch" /\ o.pc = "reset" /\ p \in o.todo
  BY DEF ResetScore, At
<1>3. doc \in PlayerDocs
  <2>1. o.docs[p] \in PlayerDocs
    BY <1>1, <1>2 DEF Fits
  <2> QED
    BY <2>1 DEF PlayerDocs
<1>4. /\ UNCHANGED <<game, revoked, answers, used, clients, ackCache, crashes,
                     announced>>
      /\ players' = [players EXCEPT ![p] = doc]
      /\ op' = [op EXCEPT ![s] = next] \/ op' = [op EXCEPT ![s] = Idle]
      /\ carried' = carried \ {p}
  BY <1>1 DEF ResetScore, Becomes, Ops
<1>5. todo \in SUBSET Players /\ todo \subseteq o.todo
  BY <1>1 DEF Ops
<1> HIDE DEF todo
<1>6. /\ next \in Ops /\ next.kind = "rematch" /\ next.pc = "reset"
      /\ next.docs = o.docs /\ next.todo = todo
  BY <1>1, <1>2, <1>5 DEF Ops
<1> HIDE DEF o, next, doc
<1>7. Fits(next, players, taps, used, Started)
  BY <1>1, <1>2, <1>5, <1>6 DEF Fits
<1>8. carried' \subseteq Players
  BY <1>4 DEF IInv, TypeOK
<1> QED
  BY <1>3, <1>4, <1>7, <1>8, IdleFits, SavePlayerFits

\* A crash takes the handlers and ackCache, and the store stays.
LEMMA CrashFits ==
  ASSUME IInv, Crash
  PROVE  IInv'
<1>1. /\ UNCHANGED <<match, rounds, late, players, revoked, answers,
                     used, taps, acked, announced, carried>>
      /\ phase' = (IF phase = "ROUND_ACTIVE" THEN "ROUND_RESULT" ELSE phase)
      /\ op' = [s \in Slots |-> Idle]
      /\ ackCache' = {} /\ crashes < MaxCrashes /\ crashes' = crashes + 1
  BY DEF Crash, ledger, clients, history
<1>2. Started' = Started
  BY <1>1 DEF Started
<1>3. HandlersFit' /\ op' \in [Slots -> Ops]
  <2>1. Idle \in Ops
    BY IdleFits DEF Fits
  <2> QED
    BY <1>1, <2>1, IdleFits DEF HandlersFit
<1>4. crashes' \in 0..MaxCrashes
  BY <1>1, AnswerBoundsAssumption DEF IInv, TypeOK
<1>5. TypeOK'
  BY <1>1, <1>3, <1>4 DEF IInv, TypeOK
<1> QED
  BY <1>1, <1>2, <1>3, <1>5
     DEF IInv, RoundsInOrder, ActiveHasRound, TapsFit, UsedIsRecorded,
         LastTapCounts

-----------------------------------------------------------------------------
(* The invariant, and the properties that follow from it.                  *)

LEMMA StepFits ==
  ASSUME IInv, NEW s \in Slots, Step(s)
  PROVE  IInv'
BY LoadFits, ReadRawFits, SwapFits, AckFits, LoadLeaverFits, SaveLeaverFits,
   RevokeSessionFits, CollectFits, SaveEndedFits, AnnounceEndedFits,
   SwapMatchFits, ListForResetFits, ResetScoreFits
   DEF Step

\* The invariant is inductive.
LEMMA NextFits ==
  ASSUME IInv, [Next]_vars
  PROVE  IInv'
<1>1. CASE UNCHANGED vars
  <2>1. UNCHANGED <<phase, match, rounds, late, players, revoked, answers,
                    used, taps, acked, op, ackCache, crashes, announced,
                    carried>>
    BY <1>1 DEF vars, game, ledger, clients, process, history
  <2>2. Started' = Started
    BY <2>1 DEF Started
  <2> QED
    BY <2>1, <2>2
       DEF IInv, TypeOK, RoundsInOrder, ActiveHasRound, TapsFit,
           UsedIsRecorded, LastTapCounts, HandlersFit
<1>2. CASE Next
  BY <1>2, JoinFits, TapFits, DeadlineFits, StartRoundFits, FinishFits,
     BeginFits, StepFits, CrashFits
     DEF Next
<1> QED
  BY <1>1, <1>2

\* Every reachable state satisfies the inductive invariant.
THEOREM Invariance == Spec => []IInv
<1>1. IInv /\ [Next]_vars => IInv'
  BY NextFits
<1> QED
  BY InitFits, <1>1, PTL DEF Spec

\* No stored document, and no copy a handler holds, ever loses its shape; in
\* particular no score is negative, whatever overlaps (assertPlayerShape).
THEOREM TypeCorrect == Spec => []TypeOK
<1>1. IInv => TypeOK
  BY DEF IInv
<1> QED
  BY <1>1, Invariance, PTL

\* What a client was told is in the store (saveAcceptedAnswerAtomically).
THEOREM AckedStaysRecorded == Spec => []AckedIsRecorded
<1>1. IInv => AckedIsRecorded
  BY DEF IInv, UsedIsRecorded, AckedIsRecorded
<1> QED
  BY <1>1, Invariance, PTL

\* No resent tap overtakes a later one, however answers overlap and however
\* often messages are sent again (SAVE_ANSWER_LUA asks the action cache first).
THEOREM NoReplayWins == Spec => []LastTapCounts
<1>1. IInv => LastTapCounts
  BY DEF IInv
<1> QED
  BY <1>1, Invariance, PTL

-----------------------------------------------------------------------------
(* Departures.  A kick, a departure and a reset write a whole document they *)
(* read before.  While no two of them work on one player, nothing they do   *)
(* not know of happens to that player's flags: an answer keeps them.        *)

Writers == {"kick", "leave", "rematch"}

WritersApart == \A k, l \in Writers : {k, l} \notin Overlaps

Remembers(copy, doc) ==
  (doc.kicked => copy.kicked) /\ (doc.left => copy.left)

\* What a writer is about to write back knows every departure.
Recalls(o, ps) ==
  /\ o.kind \in {"kick", "leave"} /\ o.pc = "save" =>
       Remembers(o.doc, ps[o.player])
  /\ o.kind = "rematch" /\ o.pc = "reset" =>
       \A p \in o.todo : Remembers(o.docs[p], ps[p])

Apart(o1, o2) ==
  o1.kind \in Writers /\ o2.kind \in Writers =>
    Touches(o1) \cap Touches(o2) = {}

DepartureInv ==
  /\ \A s, t \in Slots : s # t => Apart(op[s], op[t])
  /\ \A s \in Slots : Recalls(op[s], players)

Continues(o, before) ==
  o = Idle \/ (o.kind = before.kind /\ o.player = before.player)

\* What one step of a handler does to its slot and to the flags of players.
Effect(s) ==
  /\ \E o : /\ op' = [op EXCEPT ![s] = o]
            /\ Continues(o, op[s]) /\ Recalls(o, players')
  /\ \A p \in Players :
       /\ Remembers(players'[p], players[p])
       /\ \/ Remembers(players[p], players'[p])
          \/ op[s].kind \in Writers /\ p \in Touches(op[s])

\* An idle slot has nothing to write.
LEMMA IdleRecalls ==
  ASSUME NEW ps
  PROVE  Recalls(Idle, ps) /\ \A o : Apart(Idle, o) /\ Apart(o, Idle)
BY DEF Idle, Recalls, Apart, Writers

\* Most steps of a handler neither hold a document to write back nor write.
LEMMA QuietEffect ==
  ASSUME NEW s \in Slots, NEW o,
         op' = [op EXCEPT ![s] = o], Continues(o, op[s]),
         o = Idle \/ o.pc \notin {"save", "reset"},
         players' = players
  PROVE  Effect(s)
<1>1. Recalls(o, players')
  BY IdleRecalls DEF Recalls
<1>2. \A p \in Players : Remembers(players'[p], players[p])
                         /\ Remembers(players[p], players'[p])
  BY DEF Remembers
<1> QED
  BY <1>1, <1>2 DEF Effect

LEMMA AnswerEffect ==
  ASSUME IInv, NEW s \in Slots,
         \/ LoadMatch(s) \/ LoadRound(s) \/ LoadPlayer(s) \/ LoadSession(s)
         \/ LoadPrevious(s) \/ ReadRaw(s) \/ Ack(s)
  PROVE  Effect(s)
<1> DEFINE before == op[s]
<1>1. before \in Ops
  BY HandlerFacts
<1>2. PICK o : /\ op' = [op EXCEPT ![s] = o] /\ Continues(o, before)
               /\ o = Idle \/ o.pc \notin {"save", "reset"}
  <2>1. CASE LoadMatch(s)
    <3> DEFINE o == [before EXCEPT !.match = match, !.pc = "round"]
    <3>1. op' = [op EXCEPT ![s] = o]
      BY <2>1 DEF LoadMatch, Waits, Becomes
    <3>2. Continues(o, before) /\ o.pc \notin {"save", "reset"}
      BY <1>1 DEF Continues, Ops
    <3> QED
      BY <3>1, <3>2
  <2>2. CASE LoadRound(s)
    <3> DEFINE o == [before EXCEPT !.pc = "player"]
    <3>1. op' = [op EXCEPT ![s] = o] \/ op' = [op EXCEPT ![s] = Idle]
      BY <2>2 DEF LoadRound, Waits, Becomes
    <3>2. Continues(o, before) /\ o.pc \notin {"save", "reset"}
      BY <1>1 DEF Continues, Ops
    <3> QED
      BY <3>1, <3>2 DEF Continues
  <2>3. CASE LoadPlayer(s)
    <3> DEFINE o == [before EXCEPT !.doc = players[before.player],
                                   !.pc = "session"]
    <3>1. op' = [op EXCEPT ![s] = o] \/ op' = [op EXCEPT ![s] = Idle]
      BY <2>3 DEF LoadPlayer, Waits, Becomes
    <3>2. Continues(o, before) /\ o.pc \notin {"save", "reset"}
      BY <1>1 DEF Continues, Ops
    <3> QED
      BY <3>1, <3>2 DEF Continues
  <2>4. CASE LoadSession(s)
    <3>1. \/ op' = [op EXCEPT ![s] = Idle]
          \/ \E points : op' = [op EXCEPT ![s] =
                [before EXCEPT !.points = points, !.pc = "previous"]]
      BY <2>4 DEF LoadSession, Waits, Becomes
    <3>2. ASSUME NEW points
          PROVE  LET o == [before EXCEPT !.points = points, !.pc = "previous"]
                 IN  Continues(o, before) /\ o.pc \notin {"save", "reset"}
      BY <1>1 DEF Continues, Ops
    <3> QED
      BY <3>1, <3>2 DEF Continues
  <2>5. CASE LoadPrevious(s)
    <3> DEFINE o == [before EXCEPT
                       !.previous = answers[before.round][before.player],
                       !.pc = "raw"]
    <3>1. op' = [op EXCEPT ![s] = o]
      BY <2>5 DEF LoadPrevious, Waits, Becomes
    <3>2. Continues(o, before) /\ o.pc \notin {"save", "reset"}
      BY <1>1 DEF Continues, Ops
    <3> QED
      BY <3>1, <3>2
  <2>6. CASE ReadRaw(s)
    <3> DEFINE o == [before EXCEPT !.expected = players[before.player],
                                   !.pc = "swap"]
    <3>1. op' = [op EXCEPT ![s] = o] \/ op' = [op EXCEPT ![s] = Idle]
      BY <2>6 DEF ReadRaw, Waits, Becomes
    <3>2. Continues(o, before) /\ o.pc \notin {"save", "reset"}
      BY <1>1 DEF Continues, Ops
    <3> QED
      BY <3>1, <3>2 DEF Continues
  <2>7. CASE Ack(s)
    BY <2>7 DEF Ack, Becomes, Continues
  <2> QED
    BY <2>1, <2>2, <2>3, <2>4, <2>5, <2>6, <2>7
<1>3. players' = players
  BY DEF LoadMatch, LoadRound, LoadPlayer, LoadSession, LoadPrevious, ReadRaw,
         Ack, Waits, ledger
<1> QED
  BY <1>2, <1>3, QuietEffect

\* An answer changes the score of a document, and keeps its flags.
LEMMA SwapEffect ==
  ASSUME IInv, NEW s \in Slots, Swap(s)
  PROVE  Effect(s)
<1> DEFINE o == op[s]
           outcome == SaveAnswerOutcome(o)
           next == AfterSwap(o, outcome)
<1>1. /\ o \in Ops /\ Fits(o, players, taps, used, Started)
      /\ o.kind = "answer" /\ o.pc = "swap"
  BY HandlerFacts DEF Swap, At
<1>2. /\ op' = [op EXCEPT ![s] = next]
      /\ IF outcome = "ok"
         THEN players' = [players EXCEPT ![o.player] = Merged(o)]
         ELSE players' = players
  BY DEF Swap, Becomes
<1>3. Continues(next, o) /\ Recalls(next, players')
  <2> DEFINE again == [o EXCEPT !.pc = "raw", !.expected = NoPlayer,
                                !.tries = @ + 1]
  <2>1. next = Written(o) \/ next = again \/ next = Idle
    BY DEF AfterSwap
  <2>2. /\ Written(o).kind = "answer" /\ Written(o).player = o.player
        /\ Written(o).pc = "ack"
    BY DEF Written, Idle
  <2>3. again.kind = "answer" /\ again.player = o.player /\ again.pc = "raw"
    BY <1>1 DEF Ops
  <2> HIDE DEF next, again, o
  <2> QED
    BY <1>1, <2>1, <2>2, <2>3, IdleRecalls DEF Continues, Recalls
<1>4. ASSUME NEW p \in Players
      PROVE  Remembers(players'[p], players[p])
             /\ Remembers(players[p], players'[p])
  <2>1. CASE outcome = "ok" /\ p = o.player
    <3>1. players[p] = o.expected
      BY <2>1 DEF SaveAnswerOutcome
    <3>2. o.expected \in PlayerDocs
      BY <1>1 DEF Fits, AnswerFits
    <3>3. players'[p] = Merged(o)
      BY <1>2, <2>1 DEF IInv, TypeOK
    <3>4. Merged(o).kicked = o.expected.kicked
          /\ Merged(o).left = o.expected.left
      BY <3>2 DEF Merged, PlayerDocs
    <3> QED
      BY <3>1, <3>3, <3>4 DEF Remembers
  <2>2. CASE ~(outcome = "ok" /\ p = o.player)
    <3>1. players'[p] = players[p]
      BY <1>2, <2>2 DEF IInv, TypeOK
    <3> QED
      BY <3>1 DEF Remembers
  <2> QED
    BY <2>1, <2>2
<1> QED
  BY <1>2, <1>3, <1>4 DEF Effect

\* A kick and a departure read the document, and write it with a flag more.
LEMMA LeaverEffect ==
  ASSUME IInv, DepartureInv, NEW s \in Slots,
         LoadLeaver(s) \/ SaveLeaver(s) \/ RevokeSession(s)
  PROVE  Effect(s)
<1> DEFINE o == op[s]
           doc == players[o.player]
<1>1. o \in Ops /\ Fits(o, players, taps, used, Started)
  BY HandlerFacts
<1>2. o.kind \in {"kick", "leave"}
  BY DEF LoadLeaver, SaveLeaver, RevokeSession, At
<1>3. o.player \in Players /\ o.kind \in Writers /\ o.player \in Touches(o)
  BY <1>1, <1>2 DEF Fits, LeaverFits, Writers, Touches
<1>4. CASE LoadLeaver(s)
  <2> DEFINE next == [o EXCEPT !.doc = doc, !.pc = "save"]
  <2>1. /\ op' = [op EXCEPT ![s] = next] \/ op' = [op EXCEPT ![s] = Idle]
        /\ players' = players
    BY <1>4 DEF LoadLeaver, Waits, Becomes, ledger
  <2>2. /\ next.kind = o.kind /\ next.player = o.player /\ next.doc = doc
        /\ next.pc = "save"
    BY <1>1 DEF Ops
  <2> HIDE DEF next
  <2>3. Continues(next, o) /\ Recalls(next, players')
    BY <2>1, <2>2 DEF Continues, Recalls, Remembers
  <2>4. \A p \in Players : Remembers(players'[p], players[p])
                           /\ Remembers(players[p], players'[p])
    BY <2>1 DEF Remembers
  <2> QED
    BY <2>1, <2>3, <2>4, IdleRecalls DEF Effect, Continues
<1>5. CASE SaveLeaver(s)
  <2> DEFINE next == [o EXCEPT !.pc = "session"]
  <2>1. /\ op' = [op EXCEPT ![s] = next] \/ op' = [op EXCEPT ![s] = Idle]
        /\ \/ players' = [players EXCEPT ![o.player] =
                            [o.doc EXCEPT !.kicked = TRUE]]
           \/ players' = [players EXCEPT ![o.player] =
                            [o.doc EXCEPT !.left = TRUE]]
        /\ o.pc = "save"
    BY <1>5 DEF SaveLeaver, At, Becomes
  <2>2. next.kind = o.kind /\ next.player = o.player /\ next.pc = "session"
    BY <1>1 DEF Ops
  <2>3. Continues(next, o) /\ Recalls(next, players')
    BY <2>2 DEF Continues, Recalls
  <2>4. o.doc \in PlayerDocs /\ Remembers(o.doc, doc)
    BY <1>1, <1>2, <2>1 DEF Fits, LeaverFits, DepartureInv, Recalls
  <2> HIDE DEF next
  <2>5. ASSUME NEW p \in Players
        PROVE  /\ Remembers(players'[p], players[p])
               /\ p # o.player => Remembers(players[p], players'[p])
    <3>1. CASE p = o.player
      <4>1. players'[p] \in {[o.doc EXCEPT !.kicked = TRUE],
                             [o.doc EXCEPT !.left = TRUE]}
        BY <2>1, <3>1 DEF IInv, TypeOK
      <4>2. Remembers(players'[p], o.doc)
        BY <2>4, <4>1 DEF Remembers, PlayerDocs
      <4> QED
        BY <2>4, <3>1, <4>2 DEF Remembers
    <3>2. CASE p # o.player
      <4>1. players'[p] = players[p]
        BY <2>1, <3>2 DEF IInv, TypeOK
      <4> QED
        BY <4>1 DEF Remembers
    <3> QED
      BY <3>1, <3>2
  <2> QED
    BY <1>3, <2>1, <2>3, <2>5, IdleRecalls DEF Effect, Continues
<1>6. CASE RevokeSession(s)
  BY <1>6, QuietEffect DEF RevokeSession, Becomes, Continues
<1> QED
  BY <1>4, <1>5, <1>6

LEMMA EndEffect ==
  ASSUME IInv, NEW s \in Slots,
         \/ ListForResults(s) \/ SaveEnded(s) \/ AnnounceEnded(s)
         \/ \E p \in Players : ReadAnswer(s, p)
  PROVE  Effect(s)
<1> DEFINE before == op[s]
<1>1. before \in Ops
  BY HandlerFacts
<1>2. PICK o : /\ op' = [op EXCEPT ![s] = o] /\ Continues(o, before)
               /\ o = Idle \/ o.pc \notin {"save", "reset"}
  <2>1. CASE ListForResults(s)
    <3> DEFINE todo == {p \in Players : Active(players[p])}
               o == [before EXCEPT !.todo = todo, !.pc = "read"]
    <3>1. op' = [op EXCEPT ![s] = o]
      BY <2>1 DEF ListForResults, Waits, Becomes
    <3> HIDE DEF todo
    <3>2. Continues(o, before) /\ o.pc \notin {"save", "reset"}
      BY <1>1 DEF Continues, Ops
    <3> QED
      BY <3>1, <3>2
  <2>2. ASSUME NEW p \in Players, ReadAnswer(s, p)
        PROVE  \E o : /\ op' = [op EXCEPT ![s] = o] /\ Continues(o, before)
                      /\ o = Idle \/ o.pc \notin {"save", "reset"}
    <3> DEFINE todo == before.todo \ {p}
               seen == before.seen \cup {<<p, answers[before.round][p]>>}
               o == [before EXCEPT !.todo = todo, !.seen = seen]
    <3>1. op' = [op EXCEPT ![s] = o] /\ before.pc = "read"
      BY <1>1, <2>2 DEF ReadAnswer, At, Waits, Becomes, Ops
    <3> HIDE DEF todo, seen
    <3>2. Continues(o, before) /\ o.pc \notin {"save", "reset"}
      BY <1>1, <3>1 DEF Continues, Ops
    <3> QED
      BY <3>1, <3>2
  <2>3. CASE SaveEnded(s)
    <3> DEFINE o == [before EXCEPT !.pc = "phase"]
    <3>1. op' = [op EXCEPT ![s] = o]
      BY <2>3 DEF SaveEnded, Becomes
    <3>2. Continues(o, before) /\ o.pc \notin {"save", "reset"}
      BY <1>1 DEF Continues, Ops
    <3> QED
      BY <3>1, <3>2
  <2>4. CASE AnnounceEnded(s)
    BY <2>4 DEF AnnounceEnded, Becomes, Continues
  <2> QED
    BY <2>1, <2>2, <2>3, <2>4
<1>3. players' = players
  BY DEF ListForResults, SaveEnded, AnnounceEnded, ReadAnswer, Waits, ledger
<1> QED
  BY <1>2, <1>3, QuietEffect

\* A rematch lists the documents and writes them back one by one.
LEMMA RematchEffect ==
  ASSUME IInv, DepartureInv, NEW s \in Slots,
         \/ SwapMatch(s) \/ ListForReset(s)
         \/ \E p \in Players : ResetScore(s, p)
  PROVE  Effect(s)
<1> DEFINE o == op[s]
<1>1. o \in Ops /\ Fits(o, players, taps, used, Started)
  BY HandlerFacts
<1>2. o.kind = "rematch" /\ o.kind \in Writers /\ Touches(o) = Players
  BY DEF SwapMatch, ListForReset, ResetScore, At, Writers, Touches
<1>3. CASE SwapMatch(s)
  <2> DEFINE next == [o EXCEPT !.pc = "list"]
  <2>1. /\ op' = [op EXCEPT ![s] = next] \/ op' = [op EXCEPT ![s] = Idle]
        /\ players' = players
    BY <1>3 DEF SwapMatch, Waits, Becomes, ledger
  <2>2. Continues(next, o) /\ next.pc \notin {"save", "reset"}
    BY <1>1 DEF Continues, Ops
  <2>3. Continues(Idle, o)
    BY DEF Continues
  <2> HIDE DEF next
  <2> QED
    BY <2>1, <2>2, <2>3, QuietEffect
<1>4. CASE ListForReset(s)
  <2> DEFINE present == {p \in Players : Active(players[p])}
             next == [o EXCEPT !.docs = players, !.todo = present,
                               !.pc = "reset"]
  <2>1. /\ op' = [op EXCEPT ![s] = next] \/ op' = [op EXCEPT ![s] = Idle]
        /\ players' = players
    BY <1>4 DEF ListForReset, Waits, Becomes, ledger
  <2> HIDE DEF present
  <2>2. /\ next.kind = "rematch" /\ next.player = o.player
        /\ next.docs = players /\ next.todo = present
    BY <1>1, <1>2 DEF Ops
  <2> HIDE DEF next
  <2>3. Continues(next, o) /\ Recalls(next, players')
    BY <1>2, <2>1, <2>2 DEF Continues, Recalls, Remembers
  <2>4. \A p \in Players : Remembers(players'[p], players[p])
    BY <2>1 DEF Remembers
  <2> QED
    BY <1>2, <2>1, <2>3, <2>4, IdleRecalls DEF Effect, Continues
<1>5. ASSUME NEW p \in Players, ResetScore(s, p)
      PROVE  Effect(s)
  <2> DEFINE doc == [o.docs[p] EXCEPT !.score = 0]
             todo == o.todo \ {p}
             next == [o EXCEPT !.todo = todo]
  <2>1. /\ players' = [players EXCEPT ![p] = doc]
        /\ op' = [op EXCEPT ![s] = next] \/ op' = [op EXCEPT ![s] = Idle]
        /\ o.pc = "reset" /\ p \in o.todo
    BY <1>1, <1>5 DEF ResetScore, At, Becomes, Ops
  <2>2. o.todo \subseteq Players
    BY <1>1 DEF Ops
  <2>3. o.docs[p] \in PlayerDocs
    BY <1>1, <2>1 DEF Fits
  <2>4. \A q \in o.todo : Remembers(o.docs[q], players[q])
    BY <1>2, <2>1 DEF DepartureInv, Recalls
  <2>5. doc.kicked = o.docs[p].kicked /\ doc.left = o.docs[p].left
    BY <2>3 DEF PlayerDocs
  <2> HIDE DEF doc
  <2>6. \A q \in Players : players'[q] = IF q = p THEN doc ELSE players[q]
    BY <2>1 DEF IInv, TypeOK
  <2>7. \A q \in Players : Remembers(players'[q], players[q])
    BY <2>1, <2>4, <2>5, <2>6 DEF Remembers
  <2>8. next.kind = "rematch" /\ next.player = o.player
        /\ next.docs = o.docs /\ next.todo = todo
    BY <1>1, <1>2 DEF Ops
  <2>9. \A q \in todo : q \in o.todo /\ q # p /\ players'[q] = players[q]
    BY <2>2, <2>6
  <2> HIDE DEF next, todo, o
  <2>10. Continues(next, o) /\ Recalls(next, players')
    BY <1>2, <2>4, <2>8, <2>9 DEF Continues, Recalls
  <2> QED
    BY <1>2, <2>1, <2>7, <2>10, IdleRecalls DEF Effect, Continues, o
<1> QED
  BY <1>3, <1>4, <1>5

LEMMA StepEffect ==
  ASSUME IInv, DepartureInv, NEW s \in Slots, Step(s)
  PROVE  Effect(s)
BY AnswerEffect, SwapEffect, LeaverEffect, EndEffect, RematchEffect DEF Step

\* Everything but a handler's step: no document loses or gains a flag.
FlagsStay ==
  \A p \in Players : /\ Remembers(players'[p], players[p])
                     /\ Remembers(players[p], players'[p])

LEMMA FlagsStayRecalls ==
  ASSUME IInv, DepartureInv, FlagsStay, NEW s \in Slots
  PROVE  Recalls(op[s], players')
<1>1. Fits(op[s], players, taps, used, Started) /\ op[s] \in Ops
  BY HandlerFacts
<1>2. op[s].kind \in {"kick", "leave"} => op[s].player \in Players
  BY <1>1 DEF Fits, LeaverFits
<1>3. op[s].todo \subseteq Players
  BY <1>1 DEF Ops
<1> QED
  BY <1>2, <1>3 DEF DepartureInv, Recalls, FlagsStay, Remembers

\* A handler begins as a writer only when no other writer is at work on one of
\* its players.
LEMMA BeginKeepsDepartures ==
  ASSUME IInv, DepartureInv, WritersApart, NEW s \in Slots, Begin(s)
  PROVE  DepartureInv' /\ FlagsStay
<1>1. PICK o : /\ Begins(s, o)
               /\ o.pc \notin {"save", "reset"}
  <2>1. ASSUME NEW a \in Actions, BeginAnswer(s, a)
        PROVE  \E o : Begins(s, o) /\ o.pc \notin {"save", "reset"}
    <3> DEFINE o == [Idle EXCEPT !.kind = "answer", !.pc = "match",
                                 !.player = taps[a].player, !.action = a,
                                 !.round = taps[a].round]
    <3>1. Begins(s, o) /\ o.pc = "match"
      BY <2>1 DEF BeginAnswer, Idle
    <3> QED
      BY <3>1
  <2>2. ASSUME NEW p \in Players, NEW kind \in {"kick", "leave"},
               BeginDeparture(s, p, kind)
        PROVE  \E o : Begins(s, o) /\ o.pc \notin {"save", "reset"}
    <3> DEFINE o == [Idle EXCEPT !.kind = kind, !.pc = "player", !.player = p]
    <3>1. Begins(s, o) /\ o.pc = "player"
      BY <2>2 DEF BeginDeparture, Idle
    <3> QED
      BY <3>1
  <2>3. ASSUME BeginEnd(s)
        PROVE  \E o : Begins(s, o) /\ o.pc \notin {"save", "reset"}
    <3> DEFINE o == [Idle EXCEPT !.kind = "end", !.pc = "list",
                                 !.round = Cardinality(Started)]
    <3>1. Begins(s, o) /\ o.pc = "list"
      BY <2>3 DEF BeginEnd, Idle
    <3> QED
      BY <3>1
  <2>4. ASSUME BeginRematch(s)
        PROVE  \E o : Begins(s, o) /\ o.pc \notin {"save", "reset"}
    <3> DEFINE o == [Idle EXCEPT !.kind = "rematch", !.pc = "swap"]
    <3>1. Begins(s, o) /\ o.pc = "swap"
      BY <2>4 DEF BeginRematch, Idle
    <3> QED
      BY <3>1
  <2> QED
    BY <2>1, <2>2, <2>3, <2>4 DEF Begin
<1>2. /\ MayBegin(o) /\ op' = [op EXCEPT ![s] = o] /\ players' = players
  BY <1>1 DEF Begins, Waits, Becomes, ledger
<1>3. FlagsStay
  BY <1>2 DEF FlagsStay, Remembers
<1>4. \A t \in Slots : op'[t] = IF t = s THEN o ELSE op[t]
  BY <1>2 DEF IInv, TypeOK
<1>5. ASSUME NEW t \in Slots, t # s
      PROVE  Apart(o, op[t]) /\ Apart(op[t], o)
  <2> SUFFICES ASSUME o.kind \in Writers, op[t].kind \in Writers
               PROVE  Touches(op[t]) \cap Touches(o) = {}
    BY DEF Apart
  <2>1. op[t].pc # "idle"
    BY HandlerFacts DEF Fits, Writers
  <2>2. {o.kind, op[t].kind} \notin Overlaps
    BY DEF WritersApart
  <2> QED
    BY <1>2, <2>1, <2>2 DEF MayBegin
<1>6. Recalls(o, players')
  BY <1>1 DEF Recalls
<1>7. \A t \in Slots : Recalls(op'[t], players')
  BY <1>3, <1>4, <1>6, FlagsStayRecalls
<1>8. ASSUME NEW t \in Slots, NEW u \in Slots, t # u
      PROVE  Apart(op'[t], op'[u])
  <2>1. CASE t = s
    BY <1>4, <1>5, <1>8, <2>1
  <2>2. CASE u = s
    BY <1>4, <1>5, <1>8, <2>2
  <2>3. CASE t # s /\ u # s
    BY <1>4, <1>8, <2>3 DEF DepartureInv
  <2> QED
    BY <2>1, <2>2, <2>3
<1> QED
  BY <1>3, <1>7, <1>8 DEF DepartureInv

\* While one writer works on a player, no other changes that player's flags.
LEMMA StepKeepsDepartures ==
  ASSUME IInv, DepartureInv, NEW s \in Slots, Step(s)
  PROVE  DepartureInv' /\ \A p \in Players : Remembers(players'[p], players[p])
<1>1. Effect(s)
  BY StepEffect
<1>2. PICK o : /\ op' = [op EXCEPT ![s] = o]
               /\ Continues(o, op[s]) /\ Recalls(o, players')
  BY <1>1 DEF Effect
<1>3. \A t \in Slots : op'[t] = IF t = s THEN o ELSE op[t]
  BY <1>2 DEF IInv, TypeOK
<1>4. ASSUME NEW t \in Slots, t # s
      PROVE  Recalls(op[t], players')
  <2>1. Fits(op[t], players, taps, used, Started) /\ op[t] \in Ops
    BY HandlerFacts
  <2>2. Recalls(op[t], players) /\ Apart(op[t], op[s])
    BY <1>4 DEF DepartureInv
  <2>3. ASSUME NEW p \in Touches(op[t]), p \in Players, op[t].kind \in Writers
        PROVE  Remembers(players[p], players'[p])
    <3>1. ~(op[s].kind \in Writers /\ p \in Touches(op[s]))
      BY <2>2, <2>3 DEF Apart
    <3> QED
      BY <1>1, <2>3, <3>1 DEF Effect
  <2>4. ASSUME op[t].kind \in {"kick", "leave"}, op[t].pc = "save"
        PROVE  Remembers(op[t].doc, players'[op[t].player])
    <3>1. op[t].player \in Players /\ op[t].player \in Touches(op[t])
          /\ op[t].kind \in Writers
      BY <2>1, <2>4 DEF Fits, LeaverFits, Touches, Writers
    <3>2. Remembers(players[op[t].player], players'[op[t].player])
      BY <2>3, <3>1
    <3> QED
      BY <2>2, <2>4, <3>2 DEF Recalls, Remembers
  <2>5. ASSUME op[t].kind = "rematch", op[t].pc = "reset", NEW p \in op[t].todo
        PROVE  Remembers(op[t].docs[p], players'[p])
    <3>1. p \in Players /\ p \in Touches(op[t]) /\ op[t].kind \in Writers
      BY <2>1, <2>5 DEF Ops, Touches, Writers
    <3>2. Remembers(players[p], players'[p])
      BY <2>3, <3>1
    <3> QED
      BY <2>2, <2>5, <3>2 DEF Recalls, Remembers
  <2> QED
    BY <2>4, <2>5 DEF Recalls
<1>5. \A t \in Slots : Recalls(op'[t], players')
  BY <1>2, <1>3, <1>4
<1>6. ASSUME NEW t \in Slots, t # s
      PROVE  Apart(o, op[t]) /\ Apart(op[t], o)
  <2>1. Apart(op[s], op[t]) /\ Apart(op[t], op[s])
    BY <1>6 DEF DepartureInv
  <2>2. CASE o = Idle
    BY <2>2, IdleRecalls
  <2>3. CASE o.kind = op[s].kind /\ o.player = op[s].player
    BY <2>1, <2>3 DEF Apart, Touches
  <2> QED
    BY <1>2, <2>2, <2>3 DEF Continues
<1>7. ASSUME NEW t \in Slots, NEW u \in Slots, t # u
      PROVE  Apart(op'[t], op'[u])
  <2>1. CASE t = s
    BY <1>3, <1>6, <1>7, <2>1
  <2>2. CASE u = s
    BY <1>3, <1>6, <1>7, <2>2
  <2>3. CASE t # s /\ u # s
    BY <1>3, <1>7, <2>3 DEF DepartureInv
  <2> QED
    BY <2>1, <2>2, <2>3
<1> QED
  BY <1>1, <1>5, <1>7 DEF DepartureInv, Effect

LEMMA NextKeepsDepartures ==
  ASSUME IInv, DepartureInv, WritersApart, [Next]_vars
  PROVE  DepartureInv' /\ \A p \in Players : Remembers(players'[p], players[p])
<1>1. ASSUME op' = op, FlagsStay
      PROVE  DepartureInv' /\ \A p \in Players :
                                Remembers(players'[p], players[p])
  BY <1>1, FlagsStayRecalls DEF DepartureInv, FlagsStay
<1>2. ASSUME players' = players
      PROVE  FlagsStay
  BY <1>2 DEF FlagsStay, Remembers
<1>3. ASSUME NEW p \in Players, Join(p)
      PROVE  op' = op /\ FlagsStay
  <2>1. op' = op /\ players[p] = NoPlayer
        /\ players' = [players EXCEPT ![p] = NewPlayer]
    BY <1>3 DEF Join, process
  <2>2. ~NoPlayer.kicked /\ ~NoPlayer.left
        /\ ~NewPlayer.kicked /\ ~NewPlayer.left
    BY DEF NoPlayer, NewPlayer
  <2>3. \A q \in Players : \/ q = p /\ players'[q] = NewPlayer
                           \/ players'[q] = players[q]
    BY <2>1 DEF IInv, TypeOK
  <2> QED
    BY <2>1, <2>2, <2>3 DEF FlagsStay, Remembers
<1>4. ASSUME \/ \E p \in Players, a \in Actions, r \in RoundIds : Tap(p, a, r)
             \/ \E r \in RoundIds : Deadline(r)
             \/ StartRound \/ Finish \/ UNCHANGED vars
      PROVE  op' = op /\ players' = players
  BY <1>4 DEF Tap, Deadline, StartRound, Finish, vars, ledger, process
<1>5. CASE Crash
  <2>1. /\ \A s \in Slots : op'[s] = Idle
        /\ players' = players
    BY <1>5 DEF Crash, ledger
  <2> QED
    BY <1>2, <2>1, IdleRecalls DEF DepartureInv, FlagsStay
<1>6. ASSUME NEW s \in Slots, Begin(s)
      PROVE  DepartureInv' /\ \A p \in Players :
                                Remembers(players'[p], players[p])
  BY <1>6, BeginKeepsDepartures DEF FlagsStay
<1>7. ASSUME NEW s \in Slots, Step(s)
      PROVE  DepartureInv' /\ \A p \in Players :
                                Remembers(players'[p], players[p])
  BY <1>7, StepKeepsDepartures
<1> QED
  BY <1>1, <1>2, <1>3, <1>4, <1>5, <1>6, <1>7 DEF Next

LEMMA InitDepartures == Init => DepartureInv
BY IdleRecalls DEF Init, DepartureInv

\* An answer in flight, sent again or refused, never undoes a kick or a
\* departure, as long as no two operations that write whole documents work on
\* one player at once (savePlayer against the merge in SAVE_ANSWER_LUA).
THEOREM DeparturesStick ==
  ASSUME WritersApart
  PROVE  Spec => DepartureSticks
<1>1. Init => IInv /\ DepartureInv
  BY InitFits, InitDepartures
<1>2. IInv /\ DepartureInv /\ [Next]_vars => (IInv /\ DepartureInv)'
  BY NextFits, NextKeepsDepartures
<1>3. IInv /\ DepartureInv /\ [Next]_vars =>
        [\A p \in Players :
           /\ players[p].kicked => players'[p].kicked
           /\ players[p].left => players'[p].left]_vars
  BY NextKeepsDepartures DEF Remembers
<1> QED
  BY <1>1, <1>2, <1>3, PTL DEF Spec, DepartureSticks

-----------------------------------------------------------------------------
(***************************************************************************)
(* Proofs, for every value of the constants, of what holds when operations *)
(* on one player do not overlap (Serially): AnswerFlow, whose taps are     *)
(* seven calls on the store, implements AnswerLedger, whose taps are one   *)
(* step, and what was announced of a round stays what the store says.      *)
(*                                                                         *)
(* Knows says what a handler has read and still holds, at each place: ps   *)
(* are the players, as the answers, rs the rounds and m the match.  Since  *)
(* nobody else works on its player, it is as true at the write as it was   *)
(* at the read.                                                            *)
(***************************************************************************)

Serially == Overlaps = {} /\ Players # {}

OpenRounds(rs, m) ==
  {r \in RoundIds : rs[r] = [match |-> m, status |-> "ACTIVE"]}
PresentIn(ps) == {p \in Players : Active(ps[p])}
ScoresIn(ps) ==
  [p \in Players |-> IF ps[p] = NoPlayer THEN 0 ELSE ps[p].score]

AnswerKnows(o, ps, as, rs, m) ==
  /\ o.pc \in {"round", "player", "session", "previous", "raw", "swap"} =>
       o.match = m
  /\ o.pc \in {"player", "session", "previous", "raw", "swap"} =>
       o.round \in OpenRounds(rs, m)
  /\ o.pc \in {"session", "previous", "raw", "swap"} =>
       o.doc = ps[o.player] /\ Active(o.doc)
  /\ o.pc \in {"raw", "swap"} => o.previous = as[o.round][o.player]
  /\ o.pc = "swap" => o.expected = ps[o.player]

LeaverKnows(o, ps) ==
  o.pc = "save" => o.doc = ps[o.player] /\ o.doc # NoPlayer

EndKnows(o, as, rs) ==
  /\ o.pc = "list" => o.seen = {}
  /\ o.pc \in {"read", "phase"} =>
       \A result \in o.seen : as[o.round][result[1]] = result[2]
  /\ o.pc = "phase" => rs[o.round].status = "ENDED"

\* Nobody has answered yet in the match that a rematch has begun.
ResetKnows(o, ps, as, rs, m) ==
  /\ o.pc \in {"list", "reset"} =>
       \A r \in RoundIds, p \in Players :
         rs[r].match = m => as[r][p] = NoAnswer
  /\ o.pc = "reset" =>
       \A p \in o.todo : o.docs[p] = ps[p] /\ Active(ps[p])

Knows(o, ps, as, rs, m) ==
  /\ o.kind = "answer" => AnswerKnows(o, ps, as, rs, m)
  /\ o.kind \in {"kick", "leave"} => LeaverKnows(o, ps)
  /\ o.kind = "end" => EndKnows(o, as, rs)
  /\ o.kind = "rematch" => ResetKnows(o, ps, as, rs, m)

\* Two handlers at work have no player in common.
Alone ==
  \A s, t \in Slots :
    s # t /\ op[s].kind # "none" /\ op[t].kind # "none" =>
      Touches(op[s]) \cap Touches(op[t]) = {}

HandlersKnow == \A s \in Slots : Knows(op[s], players, answers, rounds, match)

\* Rounds belong to matches so far, answers to rounds, results to closed ones.
StoreInOrder ==
  /\ \A r \in RoundIds : rounds[r].match <= match
  /\ \A r \in RoundIds, p \in Players :
       answers[r][p] # NoAnswer => rounds[r] # NoRound
  /\ \A r \in RoundIds : announced[r] # {} => rounds[r].status = "ENDED"

SerialInv == Alone /\ HandlersKnow /\ StoreInOrder /\ RevealIsFinal

-----------------------------------------------------------------------------
(* What handlers know of each other's work.                                *)

LEMMA IdleKnows ==
  ASSUME NEW ps, NEW as, NEW rs, NEW m
  PROVE  Knows(Idle, ps, as, rs, m)
BY DEF Idle, Knows

\* The store of a handler is not disturbed: its players keep their documents
\* (who has none may join) and answers, and rounds are at most started.
Undisturbed(o, ps, as, rs, m, ps2, as2, rs2, m2) ==
  /\ \A p \in Players :
       p \in Touches(o) =>
         /\ ps2[p] = ps[p] \/ ps[p] = NoPlayer
         /\ \A r \in RoundIds : as2[r][p] = as[r][p]
  /\ \A r \in RoundIds :
       rs2[r] = rs[r] \/ (rs[r] = NoRound /\ \A p \in Players : as[r][p] = NoAnswer)
  /\ m2 = m

LEMMA UndisturbedKnows ==
  ASSUME NEW o, NEW ts, NEW us, NEW ps, NEW as, NEW rs, NEW m,
         NEW ps2, NEW as2, NEW rs2, NEW m2, m \in MatchIds,
         o \in Ops,
         o.kind \in {"answer", "kick", "leave"} /\ o.pc # "ack" => o.player \in Players,
         o.kind = "end" => o.round \in RoundIds,
         Knows(o, ps, as, rs, m),
         Undisturbed(o, ps, as, rs, m, ps2, as2, rs2, m2)
  PROVE  Knows(o, ps2, as2, rs2, m2)
<1>0. /\ ~Active(NoPlayer)
      /\ NoRound.status # "ENDED" /\ NoRound # [match |-> m, status |-> "ACTIVE"]
  BY DEF Active, NoRound, MatchIds
<1>1. CASE o.kind = "answer"
  <2>1. AnswerKnows(o, ps, as, rs, m) /\ o.player \in Touches(o)
    BY <1>1 DEF Knows, Touches
  <2>2. o.round \in OpenRounds(rs, m) => o.round \in OpenRounds(rs2, m2)
    BY <1>0 DEF OpenRounds, Undisturbed
  <2>3. o.pc \in {"session", "previous", "raw", "swap"} =>
          o.doc = ps2[o.player] /\ ps2[o.player] = ps[o.player]
    BY <1>0, <1>1, <2>1 DEF AnswerKnows, Undisturbed
  <2>4. o.pc \in {"raw", "swap"} => o.previous = as2[o.round][o.player]
    BY <1>1, <2>1 DEF AnswerKnows, Undisturbed, OpenRounds
  <2> QED
    BY <1>1, <2>1, <2>2, <2>3, <2>4 DEF AnswerKnows, Knows, Undisturbed
<1>2. CASE o.kind \in {"kick", "leave"}
  <2>1. LeaverKnows(o, ps) /\ o.player \in Touches(o)
    BY <1>2 DEF Knows, Touches
  <2>2. LeaverKnows(o, ps2)
    BY <1>2, <2>1 DEF LeaverKnows, Undisturbed
  <2> QED
    BY <1>2, <2>2 DEF Knows
<1>3. CASE o.kind = "end"
  <2>1. EndKnows(o, as, rs) /\ Touches(o) = Players
    BY <1>3 DEF Knows, Touches
  <2>2. ASSUME NEW result \in o.seen
        PROVE  result[1] \in Players
    BY DEF Ops, Results
  <2>3. EndKnows(o, as2, rs2)
    BY <1>0, <1>3, <2>1, <2>2 DEF EndKnows, Undisturbed
  <2> QED
    BY <1>3, <2>3 DEF Knows
<1>4. CASE o.kind = "rematch"
  <2>1. ResetKnows(o, ps, as, rs, m) /\ Touches(o) = Players
    BY <1>4 DEF Knows, Touches
  <2>2. o.todo \subseteq Players
    BY DEF Ops
  <2>3. ASSUME NEW r \in RoundIds, NEW p \in Players, o.pc \in {"list", "reset"},
               rs2[r].match = m2
        PROVE  as2[r][p] = NoAnswer
    <3>1. as2[r][p] = as[r][p] /\ m2 = m
      BY <2>1 DEF Undisturbed
    <3>2. CASE rs2[r] = rs[r]
      BY <2>1, <2>3, <3>1, <3>2 DEF ResetKnows
    <3>3. CASE rs2[r] # rs[r]
      BY <3>1, <3>3 DEF Undisturbed
    <3> QED
      BY <3>2, <3>3
  <2>4. ASSUME NEW p \in o.todo, o.pc = "reset"
        PROVE  o.docs[p] = ps2[p] /\ Active(ps2[p])
    <3>1. o.docs[p] = ps[p] /\ Active(ps[p]) /\ p \in Players
      BY <2>1, <2>2, <2>4 DEF ResetKnows
    <3> QED
      BY <1>0, <2>1, <3>1 DEF Undisturbed
  <2>5. ResetKnows(o, ps2, as2, rs2, m2)
    BY <2>3, <2>4 DEF ResetKnows
  <2> QED
    BY <1>4, <2>5 DEF Knows
<1>5. CASE o.kind = "none"
  BY <1>5 DEF Knows
<1> QED
  BY <1>1, <1>2, <1>3, <1>4, <1>5 DEF Ops, Kinds

\* What Fits says of the player and the round of a handler.
LEMMA WhoAndWhere ==
  ASSUME IInv, NEW s \in Slots
  PROVE  /\ op[s] \in Ops
         /\ op[s].kind \in {"answer", "kick", "leave"} /\ op[s].pc # "ack" =>
              op[s].player \in Players
         /\ op[s].kind = "answer" /\ op[s].pc # "ack" => op[s].round \in RoundIds
         /\ op[s].kind = "end" => op[s].round \in RoundIds
         /\ op[s].kind = "none" <=> op[s].pc = "idle"
<1>1. Fits(op[s], players, taps, used, Started) /\ op[s] \in Ops
  BY HandlerFacts
<1>2. ASSUME op[s].kind = "answer", op[s].pc # "ack"
      PROVE  op[s].player \in Players /\ op[s].round \in RoundIds
  BY <1>1, <1>2, TapFacts DEF Fits, AnswerFits
<1> QED
  BY <1>1, <1>2 DEF Fits, LeaverFits, Started

-----------------------------------------------------------------------------
(* From one handler to all.                                                *)

\* While a handler takes a step that touches its own player only, or while
\* nothing happens but a join or the start of a round, the others know on.
LEMMA OthersKnow ==
  ASSUME IInv, SerialInv, NEW t \in Slots,
         Undisturbed(op[t], players, answers, rounds, match,
                     players', answers', rounds', match')
  PROVE  Knows(op[t], players', answers', rounds', match')
<1>1. match \in MatchIds
  BY DEF IInv, TypeOK
<1>2. Knows(op[t], players, answers, rounds, match)
  BY DEF SerialInv, HandlersKnow
<1> QED
  BY <1>1, <1>2, WhoAndWhere, UndisturbedKnows

\* Handlers that touch everybody are alone.
LEMMA WholeIsAlone ==
  ASSUME IInv, SerialInv, Serially, NEW s \in Slots, NEW t \in Slots, s # t,
         op[s].kind \in {"end", "rematch"}
  PROVE  op[t].kind = "none" \/ (op[t].kind = "answer" /\ op[t].pc = "ack")
<1> SUFFICES ASSUME op[t].kind # "none", ~(op[t].kind = "answer" /\ op[t].pc = "ack")
             PROVE  FALSE
  OBVIOUS
<1>1. Touches(op[s]) = Players /\ Players # {}
  BY DEF Touches, Serially
<1>2. Touches(op[s]) \cap Touches(op[t]) = {}
  BY DEF SerialInv, Alone
<1>3. op[t].kind \in Kinds
  BY WhoAndWhere DEF Ops
<1>4. CASE op[t].kind \in {"end", "rematch"}
  BY <1>1, <1>2, <1>4 DEF Touches
<1>5. CASE op[t].kind = "answer"
  <2>1. op[t].player \in Players /\ op[t].player \in Touches(op[t])
    BY <1>5, WhoAndWhere DEF Touches
  <2> QED
    BY <1>1, <1>2, <2>1
<1>6. CASE op[t].kind \in {"kick", "leave"}
  <2>1. op[t].player \in Players /\ op[t].player \in Touches(op[t])
    <3>1. Fits(op[t], players, taps, used, Started)
      BY HandlerFacts
    <3> QED
      BY <1>6, <3>1 DEF Touches, Fits, LeaverFits
  <2> QED
    BY <1>1, <1>2, <2>1
<1> QED
  BY <1>3, <1>4, <1>5, <1>6 DEF Kinds

\* One step of a handler: it goes on as itself or ends, knows what it needs,
\* and, unless it is one that touches everybody, leaves the rest alone.
Moves(s) ==
  \E o : /\ op' = [op EXCEPT ![s] = o]
         /\ Continues(o, op[s])
         /\ Knows(o, players', answers', rounds', match')
         /\ \/ op[s].kind \in {"end", "rematch"}
            \/ /\ UNCHANGED <<rounds, match>>
               /\ \A p \in Players \ {op[s].player} :
                    /\ players'[p] = players[p]
                    /\ \A r \in RoundIds : answers'[r][p] = answers[r][p]

LEMMA MovesKeepsHandlers ==
  ASSUME IInv, SerialInv, Serially, NEW s \in Slots, op[s].kind # "none", Moves(s)
  PROVE  (Alone /\ HandlersKnow)'
<1>1. PICK o : /\ op' = [op EXCEPT ![s] = o]
               /\ Continues(o, op[s])
               /\ Knows(o, players', answers', rounds', match')
               /\ \/ op[s].kind \in {"end", "rematch"}
                  \/ /\ UNCHANGED <<rounds, match>>
                     /\ \A p \in Players \ {op[s].player} :
                          /\ players'[p] = players[p]
                          /\ \A r \in RoundIds : answers'[r][p] = answers[r][p]
  BY DEF Moves
<1>2. \A t \in Slots : op'[t] = IF t = s THEN o ELSE op[t]
  BY <1>1 DEF IInv, TypeOK
<1>3. ASSUME NEW t \in Slots, t # s
      PROVE  Knows(op[t], players', answers', rounds', match')
  <2>1. CASE op[t].kind = "none"
    BY <2>1 DEF Knows
  <2>2. CASE op[t].kind = "answer" /\ op[t].pc = "ack"
    BY <2>2 DEF Knows, AnswerKnows
  <2>3. CASE op[t].kind # "none" /\ ~(op[t].kind = "answer" /\ op[t].pc = "ack")
    <3>1. op[s].kind \notin {"end", "rematch"}
      BY <1>3, <2>3, WholeIsAlone
    <3>2. Touches(op[s]) = {op[s].player}
      BY <3>1 DEF Touches
    <3>3. op[s].player \notin Touches(op[t])
      BY <1>3, <2>3, <3>2 DEF SerialInv, Alone
    <3>4. Undisturbed(op[t], players, answers, rounds, match,
                      players', answers', rounds', match')
      BY <1>1, <3>1, <3>3 DEF Undisturbed
    <3> QED
      BY <3>4, OthersKnow
  <2> QED
    BY <2>1, <2>2, <2>3
<1>4. HandlersKnow'
  <2>1. ASSUME NEW t \in Slots
        PROVE  Knows(op'[t], players', answers', rounds', match')
    BY <1>1, <1>2, <1>3
  <2> QED
    BY <2>1 DEF HandlersKnow
<1>5. ASSUME NEW t \in Slots, t # s, o.kind # "none", op[t].kind # "none"
      PROVE  Touches(o) \cap Touches(op[t]) = {}
  <2>1. o.kind = op[s].kind /\ o.player = op[s].player
    BY <1>1, <1>5 DEF Continues, Idle
  <2>2. Touches(op[s]) \cap Touches(op[t]) = {}
    BY <1>5 DEF SerialInv, Alone
  <2> QED
    BY <2>1, <2>2 DEF Touches
<1>6. ASSUME NEW t \in Slots, NEW u \in Slots, t # u,
             op'[t].kind # "none", op'[u].kind # "none"
      PROVE  Touches(op'[t]) \cap Touches(op'[u]) = {}
  <2>1. CASE t = s
    BY <1>2, <1>5, <1>6, <2>1
  <2>2. CASE u = s
    BY <1>2, <1>5, <1>6, <2>2
  <2>3. CASE t # s /\ u # s
    BY <1>2, <1>6, <2>3 DEF SerialInv, Alone
  <2> QED
    BY <2>1, <2>2, <2>3
<1>7. Alone'
  BY <1>6 DEF Alone
<1> QED
  BY <1>4, <1>7

\* Nothing that the store's order, the results or the ledger are about moves.
LEMMA StillStore ==
  ASSUME SerialInv, UNCHANGED <<players, answers, rounds, match, used, announced>>
  PROVE  (StoreInOrder /\ RevealIsFinal)' /\ UNCHANGED Ledger!vars
<1>1. (StoreInOrder /\ RevealIsFinal)'
  BY DEF SerialInv, StoreInOrder, RevealIsFinal
<1> QED
  BY <1>1 DEF Ledger!vars

\* A step that only moves its own handler.
LEMMA WaitMoves ==
  ASSUME SerialInv, NEW s \in Slots, NEW o, Waits(s, o), Continues(o, op[s]),
         Knows(o, players, answers, rounds, match)
  PROVE  Moves(s) /\ (StoreInOrder /\ RevealIsFinal)' /\ UNCHANGED Ledger!vars
<1>1. /\ UNCHANGED <<players, answers, rounds, match, used, announced>>
      /\ op' = [op EXCEPT ![s] = o]
  BY DEF Waits, Becomes, game, ledger, history
<1>2. Moves(s)
  BY <1>1 DEF Moves
<1> QED
  BY <1>1, <1>2, StillStore

-----------------------------------------------------------------------------
(* A tap, call by call.                                                    *)

\* What a step of a handler has to show.
Keeps(s) ==
  /\ Moves(s) /\ (StoreInOrder /\ RevealIsFinal)'
  /\ Ledger!Next \/ UNCHANGED Ledger!vars

LEMMA WaitKeeps ==
  ASSUME SerialInv, NEW s \in Slots, NEW o, Waits(s, o), Continues(o, op[s]),
         Knows(o, players, answers, rounds, match)
  PROVE  Keeps(s)
BY WaitMoves DEF Keeps

LEMMA WaitIdleKeeps ==
  ASSUME SerialInv, NEW s \in Slots, Waits(s, Idle)
  PROVE  Keeps(s)
BY IdleKnows, WaitKeeps DEF Continues

LEMMA ReadsKeep ==
  ASSUME IInv, SerialInv, NEW s \in Slots,
         \/ LoadMatch(s) \/ LoadRound(s) \/ LoadPlayer(s) \/ LoadSession(s)
         \/ LoadPrevious(s) \/ ReadRaw(s)
  PROVE  Keeps(s)
<1> DEFINE Known(o) == AnswerKnows(o, players, answers, rounds, match)
<1>1. op[s] \in Ops /\ (op[s].kind = "answer" /\ op[s].pc # "ack" =>
                          op[s].round \in RoundIds /\ op[s].player \in Players)
  BY WhoAndWhere
<1>2. op[s].kind = "answer" => Known(op[s])
  BY DEF SerialInv, HandlersKnow, Knows
<1>3. ASSUME NEW o, Waits(s, o), op[s].kind = "answer", o.kind = "answer",
             o.player = op[s].player, Known(o)
      PROVE  Keeps(s)
  <2>1. Knows(o, players, answers, rounds, match)
    BY <1>3 DEF Knows
  <2> QED
    BY <1>3, <2>1, WaitKeeps DEF Continues
<1>4. CASE LoadMatch(s)
  <2> DEFINE o == [op[s] EXCEPT !.match = match, !.pc = "round"]
  <2>1. Waits(s, o) /\ op[s].kind = "answer" /\ op[s].pc = "match"
    BY <1>4 DEF LoadMatch, At
  <2>2. o.kind = "answer" /\ o.player = op[s].player /\ o.match = match
        /\ o.pc = "round"
    BY <1>1, <2>1 DEF Ops
  <2>3. Known(o)
    BY <2>2 DEF AnswerKnows
  <2> HIDE DEF o, Known
  <2> QED
    BY <1>3, <2>1, <2>2, <2>3
<1>5. CASE LoadRound(s)
  <2> DEFINE o == [op[s] EXCEPT !.pc = "player"]
  <2>1. op[s].kind = "answer" /\ op[s].pc = "round"
        /\ Waits(s, IF rounds[op[s].round] = [match |-> op[s].match,
                                              status |-> "ACTIVE"]
                    THEN o ELSE Idle)
    BY <1>5 DEF LoadRound, At
  <2>2. CASE rounds[op[s].round] = [match |-> op[s].match, status |-> "ACTIVE"]
    <3>1. /\ o.kind = "answer" /\ o.player = op[s].player /\ o.pc = "player"
          /\ o.match = op[s].match /\ o.round = op[s].round
      BY <1>1, <2>1 DEF Ops
    <3>2. op[s].match = match /\ op[s].round \in RoundIds
      BY <1>1, <1>2, <2>1 DEF AnswerKnows
    <3>3. Known(o)
      BY <2>2, <3>1, <3>2 DEF AnswerKnows, OpenRounds
    <3>4. Waits(s, o)
      BY <2>1, <2>2
    <3> HIDE DEF o, Known
    <3> QED
      BY <1>3, <2>1, <3>1, <3>3, <3>4
  <2>3. CASE rounds[op[s].round] # [match |-> op[s].match, status |-> "ACTIVE"]
    BY <2>1, <2>3, WaitIdleKeeps
  <2> QED
    BY <2>2, <2>3
<1>6. CASE LoadPlayer(s)
  <2> DEFINE doc == players[op[s].player]
             o == [op[s] EXCEPT !.doc = doc, !.pc = "session"]
  <2>1. op[s].kind = "answer" /\ op[s].pc = "player"
        /\ Waits(s, IF Active(doc) THEN o ELSE Idle)
    BY <1>6 DEF LoadPlayer, At
  <2>2. CASE Active(doc)
    <3>1. /\ o.kind = "answer" /\ o.player = op[s].player /\ o.pc = "session"
          /\ o.match = op[s].match /\ o.round = op[s].round /\ o.doc = doc
      BY <1>1, <2>1 DEF Ops
    <3>2. op[s].match = match /\ op[s].round \in OpenRounds(rounds, match)
      BY <1>2, <2>1 DEF AnswerKnows
    <3>3. Known(o)
      BY <2>2, <3>1, <3>2 DEF AnswerKnows
    <3>4. Waits(s, o)
      BY <2>1, <2>2
    <3> HIDE DEF o, Known
    <3> QED
      BY <1>3, <2>1, <3>1, <3>3, <3>4
  <2>3. CASE ~Active(doc)
    BY <2>1, <2>3, WaitIdleKeeps
  <2> QED
    BY <2>2, <2>3
<1>7. CASE LoadSession(s)
  <2>1. op[s].kind = "answer" /\ op[s].pc = "session"
    BY <1>7 DEF LoadSession, At
  <2>2. CASE Waits(s, Idle)
    BY <2>2, WaitIdleKeeps
  <2>3. ASSUME NEW points,
               Waits(s, [op[s] EXCEPT !.points = points, !.pc = "previous"])
        PROVE  Keeps(s)
    <3> DEFINE o == [op[s] EXCEPT !.points = points, !.pc = "previous"]
    <3>1. /\ o.kind = "answer" /\ o.player = op[s].player /\ o.pc = "previous"
          /\ o.match = op[s].match /\ o.round = op[s].round /\ o.doc = op[s].doc
      BY <1>1, <2>1 DEF Ops
    <3>2. Known(o)
      BY <1>2, <2>1, <3>1 DEF AnswerKnows
    <3>3. Waits(s, o)
      BY <2>3
    <3> HIDE DEF o, Known
    <3> QED
      BY <1>3, <2>1, <3>1, <3>2, <3>3
  <2> QED
    BY <1>7, <2>2, <2>3 DEF LoadSession
<1>8. CASE LoadPrevious(s)
  <2> DEFINE o == [op[s] EXCEPT !.previous = answers[op[s].round][op[s].player],
                                !.pc = "raw"]
  <2>1. op[s].kind = "answer" /\ op[s].pc = "previous" /\ Waits(s, o)
    BY <1>8 DEF LoadPrevious, At
  <2>2. /\ o.kind = "answer" /\ o.player = op[s].player /\ o.pc = "raw"
        /\ o.match = op[s].match /\ o.round = op[s].round /\ o.doc = op[s].doc
        /\ o.previous = answers[op[s].round][op[s].player]
    BY <1>1, <2>1 DEF Ops
  <2>3. Known(o)
    BY <1>2, <2>1, <2>2 DEF AnswerKnows
  <2> HIDE DEF o, Known
  <2> QED
    BY <1>3, <2>1, <2>2, <2>3
<1>9. CASE ReadRaw(s)
  <2> DEFINE o == [op[s] EXCEPT !.expected = players[op[s].player], !.pc = "swap"]
  <2>1. op[s].kind = "answer" /\ op[s].pc = "raw"
        /\ Waits(s, IF NewScore(op[s]) < 0 THEN Idle ELSE o)
    BY <1>9 DEF ReadRaw, At
  <2>2. CASE ~(NewScore(op[s]) < 0)
    <3>1. /\ o.kind = "answer" /\ o.player = op[s].player /\ o.pc = "swap"
          /\ o.match = op[s].match /\ o.round = op[s].round /\ o.doc = op[s].doc
          /\ o.previous = op[s].previous /\ o.expected = players[op[s].player]
      BY <1>1, <2>1 DEF Ops
    <3>2. Known(o)
      BY <1>2, <2>1, <3>1 DEF AnswerKnows
    <3>3. Waits(s, o)
      BY <2>1, <2>2
    <3> HIDE DEF o, Known
    <3> QED
      BY <1>3, <2>1, <3>1, <3>2, <3>3
  <2>3. CASE NewScore(op[s]) < 0
    BY <2>1, <2>3, WaitIdleKeeps
  <2> QED
    BY <2>2, <2>3
<1> QED
  BY <1>4, <1>5, <1>6, <1>7, <1>8, <1>9

LEMMA AckKeeps ==
  ASSUME SerialInv, NEW s \in Slots, Ack(s)
  PROVE  Keeps(s)
<1>1. /\ op' = [op EXCEPT ![s] = Idle]
      /\ UNCHANGED <<players, answers, rounds, match, used, announced>>
  BY DEF Ack, Becomes, game, ledger, history
<1>2. Moves(s)
  BY <1>1, IdleKnows DEF Moves, Continues
<1> QED
  BY <1>1, <1>2, StillStore DEF Keeps

\* What a handler knows after the compare-and-set.
LEMMA AfterSwapKnows ==
  ASSUME NEW o, NEW outcome, NEW ps, NEW as, NEW rs, NEW m,
         o \in Ops, o.kind = "answer", o.pc = "swap", AnswerKnows(o, ps, as, rs, m),
         NEW ps2, NEW as2, outcome = "ok" \/ (ps2 = ps /\ as2 = as)
  PROVE  /\ Continues(AfterSwap(o, outcome), o)
         /\ Knows(AfterSwap(o, outcome), ps2, as2, rs, m)
<1> DEFINE again == [o EXCEPT !.pc = "raw", !.expected = NoPlayer, !.tries = @ + 1]
<1>1. AfterSwap(o, outcome) \in {Idle, Written(o), again}
      /\ (AfterSwap(o, outcome) = again /\ again # Written(o) /\ again # Idle
           => outcome = "stale")
  BY DEF AfterSwap
<1>2. Continues(Idle, o) /\ Knows(Idle, ps2, as2, rs, m)
  BY IdleKnows DEF Continues
<1>3. Continues(Written(o), o) /\ Knows(Written(o), ps2, as2, rs, m)
  <2>1. /\ Written(o).kind = "answer" /\ Written(o).pc = "ack"
        /\ Written(o).player = o.player
    BY DEF Written, Idle
  <2> QED
    BY <2>1 DEF Continues, Knows, AnswerKnows
<1>4. ASSUME outcome = "stale"
      PROVE  Continues(again, o) /\ Knows(again, ps2, as2, rs, m)
  <2>1. /\ again.kind = "answer" /\ again.pc = "raw" /\ again.player = o.player
        /\ again.match = o.match /\ again.round = o.round /\ again.doc = o.doc
        /\ again.previous = o.previous
    BY DEF Ops
  <2> HIDE DEF again
  <2> QED
    BY <1>4, <2>1 DEF Continues, Knows, AnswerKnows
<1> QED
  BY <1>1, <1>2, <1>3, <1>4

\* The compare-and-set is the one step in which the ledger takes the answer.
LEMMA SwapKeeps ==
  ASSUME IInv, SerialInv, NEW s \in Slots, Swap(s)
  PROVE  Keeps(s)
<1> DEFINE o == op[s]
           outcome == SaveAnswerOutcome(o)
           p == o.player
           r == o.round
<1>1. /\ o.kind = "answer" /\ o.pc = "swap"
      /\ op' = [op EXCEPT ![s] = AfterSwap(o, outcome)]
      /\ UNCHANGED <<rounds, match, announced>>
  BY DEF Swap, At, Becomes, game, history
<1>2. o \in Ops /\ p \in Players /\ r \in RoundIds
  BY <1>1, WhoAndWhere
<1>3. AnswerKnows(o, players, answers, rounds, match)
  BY <1>1 DEF SerialInv, HandlersKnow, Knows
<1>4. CASE outcome # "ok"
  <2>1. UNCHANGED <<players, answers, used>>
    BY <1>4 DEF Swap
  <2>2. /\ Continues(AfterSwap(o, outcome), o)
        /\ Knows(AfterSwap(o, outcome), players, answers, rounds, match)
    BY <1>1, <1>2, <1>3, AfterSwapKnows
  <2>3. Moves(s)
    BY <1>1, <2>1, <2>2 DEF Moves
  <2> QED
    BY <1>1, <2>1, <2>3, StillStore DEF Keeps
<1>5. CASE outcome = "ok"
  <2> DEFINE answer == [action |-> o.action, points |-> o.points]
  <2>1. /\ answers' = [answers EXCEPT ![r][p] = answer]
        /\ players' = [players EXCEPT ![p] = Merged(o)]
        /\ used' = used \cup {o.action}
    BY <1>5 DEF Swap
  <2>2. /\ o.action \in Actions /\ o.expected \in PlayerDocs /\ NewScore(o) \in Nat
        /\ o.points \in PointValues \cup {0}
    <3>1. AnswerFits(o, taps, used)
      BY <1>1, HandlerFacts DEF Fits
    <3> QED
      BY <1>1, <1>2, <3>1 DEF AnswerFits, Ops
  <2>3. o.action \notin used
    BY <1>5 DEF SaveAnswerOutcome
  <2>4. /\ r \in OpenRounds(rounds, match) /\ Active(players[p])
        /\ o.expected = players[p] /\ o.doc = players[p] /\ o.previous = answers[r][p]
    BY <1>1, <1>3 DEF AnswerKnows
  <2>5. /\ Merged(o) \in PlayerDocs /\ Merged(o).score = NewScore(o)
        /\ Merged(o).kicked = players[p].kicked /\ Merged(o).left = players[p].left
    BY <2>2, <2>4 DEF Merged, PlayerDocs
  <2>6. players \in [Players -> PlayerDocs \cup {NoPlayer}]
        /\ answers \in [RoundIds -> [Players -> Answers \cup {NoAnswer}]]
    BY DEF IInv, TypeOK
  <2>7. /\ Continues(AfterSwap(o, outcome), o)
        /\ Knows(AfterSwap(o, outcome), players', answers', rounds, match)
    BY <1>1, <1>2, <1>3, <1>5, AfterSwapKnows
  <2>8. Moves(s)
    <3>1. \A q \in Players \ {p} :
            /\ players'[q] = players[q]
            /\ \A n \in RoundIds : answers'[n][q] = answers[n][q]
      BY <1>2, <2>1, <2>6
    <3> QED
      BY <1>1, <2>7, <3>1 DEF Moves
  <2>9. rounds[r] = [match |-> match, status |-> "ACTIVE"] /\ announced[r] = {}
    BY <2>4 DEF OpenRounds, SerialInv, StoreInOrder
  <2>10. StoreInOrder'
    <3>1. rounds[r] # NoRound
      BY <2>9 DEF NoRound
    <3>2. ASSUME NEW n \in RoundIds, NEW q \in Players, answers'[n][q] # NoAnswer
          PROVE  rounds[n] # NoRound
      BY <1>2, <2>1, <2>6, <3>1, <3>2 DEF SerialInv, StoreInOrder
    <3> QED
      BY <1>1, <3>2 DEF SerialInv, StoreInOrder
  <2>11. RevealIsFinal'
    <3>1. ASSUME NEW n \in RoundIds, NEW result \in announced[n]
          PROVE  answers'[n][result[1]] = result[2]
      <4>1. n # r
        BY <2>9, <3>1
      <4>2. answers'[n] = answers[n]
        BY <1>2, <2>1, <2>6, <4>1
      <4> QED
        BY <3>1, <4>2 DEF SerialInv, RevealIsFinal
    <3> QED
      BY <1>1, <3>1 DEF RevealIsFinal
  <2>12. Ledger!Next
    <3>1. PresentIn(players') = PresentIn(players) /\ p \in PresentIn(players)
      <4>1. NoPlayer \notin PlayerDocs
        BY NullDocs
      <4>2. Active(Merged(o)) <=> Active(players[p])
        BY <2>4, <2>5, <4>1 DEF Active
      <4>3. \A q \in Players : players'[q] = IF q = p THEN Merged(o) ELSE players[q]
        BY <1>2, <2>1, <2>6
      <4> QED
        BY <1>2, <2>4, <4>2, <4>3 DEF PresentIn
    <3>2. ScoresIn(players') = [ScoresIn(players) EXCEPT
                                  ![p] = @ - answers[r][p].points + o.points]
      <4>1. Merged(o) # NoPlayer /\ players[p] # NoPlayer
        BY <2>4, <2>5, NullDocs DEF Active
      <4>2. Merged(o).score = players[p].score - answers[r][p].points + o.points
        BY <2>4, <2>5 DEF NewScore
      <4>3. \A q \in Players : players'[q] = IF q = p THEN Merged(o) ELSE players[q]
        BY <1>2, <2>1, <2>6
      <4> HIDE DEF o, p, r
      <4> QED
        BY <1>2, <4>1, <4>2, <4>3 DEF ScoresIn
    <3>3. r \in OpenRounds(rounds, match)
      BY <2>4
    <3>4. PICK q \in Players, n \in RoundIds, a \in Actions,
               points \in PointValues \cup {0} :
            q = p /\ n = r /\ a = o.action /\ points = o.points
      BY <1>2, <2>2
    <3> HIDE DEF o, p, r
    <3>5. Ledger!Accept(q, n, a, points)
      BY <1>1, <2>1, <2>3, <3>1, <3>2, <3>3, <3>4
         DEF Ledger!Accept, OpenRounds, PresentIn, ScoresIn
    <3> QED
      BY <3>5 DEF Ledger!Next
  <2> QED
    BY <2>8, <2>10, <2>11, <2>12 DEF Keeps
<1> QED
  BY <1>4, <1>5

-----------------------------------------------------------------------------
(* Departures, the end of a round, a rematch.                              *)

\* Someone comes or goes; scores, answers and rounds stay.
LEMMA ComeOrGoes ==
  ASSUME ScoresIn(players') = ScoresIn(players),
         UNCHANGED <<rounds, match, answers, used>>
  PROVE  Ledger!Next
<1>1. PresentIn(players') \in SUBSET Players
  BY DEF PresentIn
<1>2. Ledger!ComeOrGo
  BY <1>1 DEF Ledger!ComeOrGo, ScoresIn, PresentIn
<1> QED
  BY <1>2 DEF Ledger!Next

\* One document changes, and neither answers, rounds nor results.
LEMMA SavedStore ==
  ASSUME SerialInv, UNCHANGED <<answers, rounds, match, announced>>
  PROVE  (StoreInOrder /\ RevealIsFinal)'
BY DEF SerialInv, StoreInOrder, RevealIsFinal

LEMMA LeaversKeep ==
  ASSUME IInv, SerialInv, NEW s \in Slots,
         LoadLeaver(s) \/ SaveLeaver(s) \/ RevokeSession(s)
  PROVE  Keeps(s)
<1>1. op[s] \in Ops /\ op[s].kind \in {"kick", "leave"}
  BY WhoAndWhere DEF LoadLeaver, SaveLeaver, RevokeSession, At
<1>2. LeaverFits(op[s], players)
  BY <1>1, HandlerFacts DEF Fits
<1>3. players \in [Players -> PlayerDocs \cup {NoPlayer}]
  BY DEF IInv, TypeOK
<1>4. CASE LoadLeaver(s)
  <2> DEFINE o == [op[s] EXCEPT !.doc = players[op[s].player], !.pc = "save"]
  <2>1. CASE Waits(s, Idle)
    BY <2>1, WaitIdleKeeps
  <2>2. CASE Waits(s, o)
    <3>1. /\ o.kind = op[s].kind /\ o.player = op[s].player /\ o.pc = "save"
          /\ o.doc = players[op[s].player]
      BY <1>1 DEF Ops
    <3>2. players[op[s].player] # NoPlayer
      BY <1>2 DEF LeaverFits
    <3> HIDE DEF o
    <3>3. Continues(o, op[s]) /\ Knows(o, players, answers, rounds, match)
      BY <1>1, <3>1, <3>2 DEF Continues, Knows, LeaverKnows
    <3> QED
      BY <2>2, <3>3, WaitKeeps
  <2> QED
    BY <1>4, <2>1, <2>2 DEF LoadLeaver
<1>5. CASE RevokeSession(s)
  <2>1. /\ op' = [op EXCEPT ![s] = Idle]
        /\ UNCHANGED <<players, answers, rounds, match, used, announced>>
    BY <1>5 DEF RevokeSession, Becomes, game, history
  <2>2. Moves(s)
    BY <2>1, IdleKnows DEF Moves, Continues
  <2> QED
    BY <2>1, <2>2, StillStore DEF Keeps
<1>6. CASE SaveLeaver(s)
  <2> DEFINE p == op[s].player
  <2>1. op[s].pc = "save"
    BY <1>6 DEF SaveLeaver, At
  <2>2. op[s].doc = players[p] /\ op[s].doc \in PlayerDocs /\ p \in Players
    BY <1>1, <1>2, <2>1 DEF SerialInv, HandlersKnow, Knows, LeaverKnows, LeaverFits
  <2>3. PICK doc : /\ players' = [players EXCEPT ![p] = doc]
                   /\ doc \in {[op[s].doc EXCEPT !.kicked = TRUE],
                               [op[s].doc EXCEPT !.left = TRUE]}
    BY <1>6 DEF SaveLeaver
  <2>4. doc \in PlayerDocs /\ doc.score = players[p].score
    BY <2>2, <2>3 DEF PlayerDocs
  <2>5. \A q \in Players : players'[q] = IF q = p THEN doc ELSE players[q]
    BY <1>3, <2>2, <2>3
  <2>6. UNCHANGED <<answers, rounds, match, used, announced>>
    BY <1>6 DEF SaveLeaver, game, history
  <2>7. ScoresIn(players') = ScoresIn(players)
    <3>1. doc # NoPlayer /\ players[p] # NoPlayer
      BY <2>2, <2>4, NullDocs
    <3> QED
      BY <2>4, <2>5, <3>1 DEF ScoresIn
  <2>8. Moves(s)
    <3> DEFINE o == [op[s] EXCEPT !.pc = "session"]
    <3>1. \/ op' = [op EXCEPT ![s] = Idle]
          \/ op' = [op EXCEPT ![s] = o]
      BY <1>6 DEF SaveLeaver, Becomes
    <3>2. Continues(o, op[s]) /\ Knows(o, players', answers', rounds', match')
      <4>1. o.kind = op[s].kind /\ o.player = op[s].player /\ o.pc = "session"
        BY <1>1 DEF Ops
      <4> HIDE DEF o
      <4> QED
        BY <1>1, <4>1 DEF Continues, Knows, LeaverKnows
    <3>3. Continues(Idle, op[s]) /\ Knows(Idle, players', answers', rounds', match')
      BY IdleKnows DEF Continues
    <3>4. \A q \in Players \ {p} :
            /\ players'[q] = players[q]
            /\ \A r \in RoundIds : answers'[r][q] = answers[r][q]
      BY <2>5, <2>6
    <3> HIDE DEF o
    <3> QED
      BY <2>6, <3>1, <3>2, <3>3, <3>4 DEF Moves
  <2> QED
    BY <2>6, <2>7, <2>8, ComeOrGoes, SavedStore DEF Keeps
<1> QED
  BY <1>4, <1>5, <1>6

\* Rounds close, and nothing else that the ledger sees changes.
LEMMA RoundsClose ==
  ASSUME OpenRounds(rounds', match') \subseteq OpenRounds(rounds, match),
         UNCHANGED <<players, answers, used>>
  PROVE  Ledger!Next
<1>1. Ledger!CloseRounds
  BY DEF Ledger!CloseRounds, OpenRounds
<1> QED
  BY <1>1 DEF Ledger!Next

\* A step of a handler that touches everybody.
LEMMA WholeMoves ==
  ASSUME NEW s \in Slots, op[s].kind \in {"end", "rematch"}, NEW o,
         op' = [op EXCEPT ![s] = o], Continues(o, op[s]),
         Knows(o, players', answers', rounds', match')
  PROVE  Moves(s)
BY DEF Moves

LEMMA EndKeeps ==
  ASSUME IInv, SerialInv, NEW s \in Slots,
         \/ ListForResults(s) \/ SaveEnded(s) \/ AnnounceEnded(s)
         \/ \E p \in Players : ReadAnswer(s, p)
  PROVE  Keeps(s)
<1> DEFINE Known(o) == EndKnows(o, answers, rounds)
<1>1. op[s] \in Ops /\ op[s].kind = "end" /\ op[s].round \in RoundIds
  BY WhoAndWhere DEF ListForResults, SaveEnded, AnnounceEnded, ReadAnswer, At
<1>2. Known(op[s])
  BY <1>1 DEF SerialInv, HandlersKnow, Knows
<1>3. ASSUME NEW o, Waits(s, o), o.kind = "end", o.player = op[s].player, Known(o)
      PROVE  Keeps(s)
  <2>1. Knows(o, players, answers, rounds, match)
    BY <1>3 DEF Knows
  <2> QED
    BY <1>1, <1>3, <2>1, WaitKeeps DEF Continues
<1>4. rounds \in [RoundIds -> [match : MatchIds, status : {"ACTIVE", "ENDED"}]
                               \cup {NoRound}]
  BY DEF IInv, TypeOK
<1>5. CASE ListForResults(s)
  <2> DEFINE o == [op[s] EXCEPT !.todo = {p \in Players : Active(players[p])},
                                !.pc = "read"]
  <2>1. Waits(s, o) /\ op[s].pc = "list"
    BY <1>5 DEF ListForResults, At
  <2>2. /\ o.kind = "end" /\ o.player = op[s].player /\ o.pc = "read"
        /\ o.seen = op[s].seen
    BY <1>1 DEF Ops
  <2>3. Known(o)
    BY <1>2, <2>1, <2>2 DEF EndKnows
  <2> HIDE DEF o, Known
  <2> QED
    BY <1>3, <2>1, <2>2, <2>3
<1>6. ASSUME NEW p \in Players, ReadAnswer(s, p)
      PROVE  Keeps(s)
  <2> DEFINE result == <<p, answers[op[s].round][p]>>
             o == [op[s] EXCEPT !.todo = @ \ {p}, !.seen = @ \cup {result}]
  <2>1. Waits(s, o) /\ op[s].pc = "read"
    BY <1>6 DEF ReadAnswer, At
  <2>2. /\ o.kind = "end" /\ o.player = op[s].player /\ o.pc = "read"
        /\ o.round = op[s].round /\ o.seen = op[s].seen \cup {result}
    BY <1>1, <2>1 DEF Ops
  <2>3. answers[op[s].round][result[1]] = result[2]
    OBVIOUS
  <2> HIDE DEF o, result
  <2>4. Known(o)
    BY <1>2, <2>1, <2>2, <2>3 DEF EndKnows
  <2> HIDE DEF Known
  <2> QED
    BY <1>3, <2>1, <2>2, <2>4
<1>7. CASE SaveEnded(s)
  <2> DEFINE o == [op[s] EXCEPT !.pc = "phase"]
             r == op[s].round
  <2>1. /\ op' = [op EXCEPT ![s] = o] /\ op[s].pc = "read"
        /\ rounds' = [rounds EXCEPT ![r].status = "ENDED"]
        /\ UNCHANGED <<players, answers, match, used, announced>>
    BY <1>7 DEF SaveEnded, At, Becomes, ledger, history
  <2>2. /\ o.kind = "end" /\ o.player = op[s].player /\ o.pc = "phase"
        /\ o.round = r /\ o.seen = op[s].seen
    BY <1>1, <2>1 DEF Ops
  <2>3. /\ rounds[r] # NoRound /\ rounds'[r].status = "ENDED"
        /\ rounds'[r].match = rounds[r].match
        /\ \A n \in RoundIds : n # r => rounds'[n] = rounds[n]
    <3>1. Fits(op[s], players, taps, used, Started)
      BY HandlerFacts
    <3>2. rounds[r] # NoRound
      BY <1>1, <3>1 DEF Fits, Started
    <3>3. rounds[r] \in [match : MatchIds, status : {"ACTIVE", "ENDED"}]
      BY <1>1, <1>4, <3>2
    <3> QED
      BY <1>1, <1>4, <2>1, <3>2, <3>3
  <2> HIDE DEF o
  <2>4. Knows(o, players', answers', rounds', match')
    BY <1>2, <2>1, <2>2, <2>3 DEF Knows, EndKnows
  <2>5. Moves(s)
    BY <1>1, <2>1, <2>2, <2>4, WholeMoves DEF Continues
  <2>6. rounds'[r] # NoRound
    BY <2>3 DEF NoRound
  <2> HIDE DEF r
  <2>7. (StoreInOrder /\ RevealIsFinal)'
    BY <2>1, <2>3, <2>6 DEF SerialInv, StoreInOrder, RevealIsFinal
  <2>8. OpenRounds(rounds', match') \subseteq OpenRounds(rounds, match)
    BY <2>1, <2>3 DEF OpenRounds
  <2> QED
    BY <2>1, <2>5, <2>7, <2>8, RoundsClose DEF Keeps
<1>8. CASE AnnounceEnded(s)
  <2>1. /\ op' = [op EXCEPT ![s] = Idle] /\ op[s].pc = "phase"
        /\ UNCHANGED <<players, answers, rounds, match, used>>
    BY <1>8 DEF AnnounceEnded, At, Becomes, ledger
  <2>2. Moves(s)
    BY <2>1, IdleKnows DEF Moves, Continues
  <2>3. CASE announced' = announced
    BY <2>1, <2>2, <2>3, StillStore DEF Keeps
  <2>4. CASE announced' = [announced EXCEPT ![op[s].round] = op[s].seen]
    <3>1. /\ rounds[op[s].round].status = "ENDED"
          /\ \A result \in op[s].seen : answers[op[s].round][result[1]] = result[2]
      BY <1>2, <2>1 DEF EndKnows
    <3>2. \A n \in RoundIds :
            announced'[n] = IF n = op[s].round THEN op[s].seen ELSE announced[n]
      BY <2>4 DEF IInv, TypeOK
    <3>3. (StoreInOrder /\ RevealIsFinal)'
      BY <2>1, <3>1, <3>2 DEF SerialInv, StoreInOrder, RevealIsFinal
    <3>4. UNCHANGED Ledger!vars
      BY <2>1 DEF Ledger!vars
    <3> QED
      BY <2>2, <3>3, <3>4 DEF Keeps
  <2> QED
    BY <1>8, <2>3, <2>4 DEF AnnounceEnded
<1> QED
  BY <1>5, <1>6, <1>7, <1>8

\* A reset puts one player back at 0, in a match nobody has answered in.
LEMMA ResetRestarts ==
  ASSUME NEW p \in PresentIn(players), ScoresIn(players') = [ScoresIn(players) EXCEPT ![p] = 0],
         PresentIn(players') = PresentIn(players),
         \A r \in OpenRounds(rounds, match) : answers[r][p] = NoAnswer,
         UNCHANGED <<rounds, match, answers, used>>
  PROVE  Ledger!Next
<1>1. Ledger!Restart(p)
  BY DEF Ledger!Restart, OpenRounds, PresentIn, ScoresIn
<1>2. p \in Players
  BY DEF PresentIn
<1> QED
  BY <1>1, <1>2 DEF Ledger!Next

LEMMA RematchKeeps ==
  ASSUME IInv, SerialInv, NEW s \in Slots,
         \/ SwapMatch(s) \/ ListForReset(s)
         \/ \E p \in Players : ResetScore(s, p)
  PROVE  Keeps(s)
<1> DEFINE Known(o) == ResetKnows(o, players, answers, rounds, match)
<1>1. op[s] \in Ops /\ op[s].kind = "rematch"
  BY WhoAndWhere DEF SwapMatch, ListForReset, ResetScore, At
<1>2. Known(op[s])
  BY <1>1 DEF SerialInv, HandlersKnow, Knows
<1>3. players \in [Players -> PlayerDocs \cup {NoPlayer}]
  BY DEF IInv, TypeOK
<1>4. CASE SwapMatch(s)
  <2>1. CASE Waits(s, Idle)
    BY <2>1, WaitIdleKeeps
  <2>2. CASE ~Waits(s, Idle)
    <3> DEFINE o == [op[s] EXCEPT !.pc = "list"]
    <3>1. /\ op' = [op EXCEPT ![s] = o] /\ match' = match + 1
          /\ UNCHANGED <<players, answers, rounds, used, announced>>
      BY <1>4, <2>2 DEF SwapMatch, Becomes, ledger
    <3>2. o.kind = "rematch" /\ o.player = op[s].player /\ o.pc = "list"
      BY <1>1 DEF Ops
    <3>3. \A r \in RoundIds : rounds[r].match <= match /\ rounds[r].match \in Nat
      <4>1. rounds \in [RoundIds -> [match : MatchIds, status : {"ACTIVE", "ENDED"}]
                                     \cup {NoRound}]
        BY DEF IInv, TypeOK
      <4>2. \A r \in RoundIds : rounds[r].match \in Nat
        BY <4>1 DEF NoRound, MatchIds
      <4> QED
        BY <4>2 DEF SerialInv, StoreInOrder
    <3>4. match \in Nat
      BY DEF IInv, TypeOK, MatchIds
    <3>5. \A r \in RoundIds : rounds'[r].match # match' /\ rounds'[r].match <= match'
      BY <3>1, <3>3, <3>4
    <3> HIDE DEF o
    <3>6. Knows(o, players', answers', rounds', match')
      BY <3>2, <3>5 DEF Knows, ResetKnows
    <3>7. Moves(s)
      BY <1>1, <3>1, <3>2, <3>6, WholeMoves DEF Continues
    <3>8. (StoreInOrder /\ RevealIsFinal)'
      BY <3>1, <3>5 DEF SerialInv, StoreInOrder, RevealIsFinal
    <3>9. OpenRounds(rounds', match') = {}
      BY <3>5 DEF OpenRounds
    <3> QED
      BY <3>1, <3>7, <3>8, <3>9, RoundsClose DEF Keeps
  <2> QED
    BY <2>1, <2>2
<1>5. CASE ListForReset(s)
  <2> DEFINE present == {p \in Players : Active(players[p])}
             o == [op[s] EXCEPT !.docs = players, !.todo = present, !.pc = "reset"]
  <2>1. op[s].pc = "list" /\ (Waits(s, Idle) \/ Waits(s, o))
    BY <1>5 DEF ListForReset, At
  <2>2. CASE Waits(s, Idle)
    BY <2>2, WaitIdleKeeps
  <2>3. CASE Waits(s, o)
    <3>1. /\ o.kind = "rematch" /\ o.player = op[s].player /\ o.pc = "reset"
          /\ o.docs = players /\ o.todo = present
      BY <1>1 DEF Ops
    <3> HIDE DEF o
    <3>2. Known(o)
      BY <1>2, <2>1, <3>1 DEF ResetKnows
    <3>3. Continues(o, op[s]) /\ Knows(o, players, answers, rounds, match)
      BY <1>1, <3>1, <3>2 DEF Continues, Knows
    <3> QED
      BY <2>3, <3>3, WaitKeeps
  <2> QED
    BY <2>1, <2>2, <2>3
<1>6. ASSUME NEW p \in Players, ResetScore(s, p)
      PROVE  Keeps(s)
  <2> DEFINE doc == [op[s].docs[p] EXCEPT !.score = 0]
             o == [op[s] EXCEPT !.todo = @ \ {p}]
  <2>1. /\ op[s].pc = "reset" /\ p \in op[s].todo
        /\ players' = [players EXCEPT ![p] = doc]
        /\ op' = [op EXCEPT ![s] = Idle] \/ op' = [op EXCEPT ![s] = o]
        /\ UNCHANGED <<answers, rounds, match, used, announced>>
    BY <1>6 DEF ResetScore, At, Becomes, game
  <2>2. /\ op[s].docs[p] = players[p] /\ Active(players[p])
        /\ players[p] \in PlayerDocs
    BY <1>2, <1>3, <2>1 DEF ResetKnows, Active
  <2>3. /\ doc \in PlayerDocs /\ doc.score = 0 /\ doc # NoPlayer
        /\ doc.kicked = players[p].kicked /\ doc.left = players[p].left
    BY <2>2, NullDocs DEF PlayerDocs
  <2> HIDE DEF doc
  <2>4. \A q \in Players : players'[q] = IF q = p THEN doc ELSE players[q]
    BY <1>3, <2>1
  <2>5. /\ o.kind = "rematch" /\ o.player = op[s].player /\ o.pc = "reset"
        /\ o.docs = op[s].docs /\ o.todo = op[s].todo \ {p}
    BY <1>1, <2>1 DEF Ops
  <2>6. op[s].todo \subseteq Players
    BY <1>1 DEF Ops
  <2> HIDE DEF o
  <2>7. Knows(o, players', answers', rounds', match')
    <3>1. ResetKnows(o, players', answers', rounds', match')
      BY <1>2, <2>1, <2>4, <2>5, <2>6 DEF ResetKnows
    <3> QED
      BY <2>5, <3>1 DEF Knows
  <2>8. Moves(s)
    <3>1. Knows(Idle, players', answers', rounds', match') /\ Continues(Idle, op[s])
      BY IdleKnows DEF Continues
    <3>2. Continues(o, op[s])
      BY <1>1, <2>5 DEF Continues
    <3> QED
      BY <1>1, <2>1, <2>7, <3>1, <3>2, WholeMoves
  <2>9. PresentIn(players') = PresentIn(players) /\ p \in PresentIn(players)
    BY <2>2, <2>3, <2>4 DEF PresentIn, Active
  <2>10. ScoresIn(players') = [ScoresIn(players) EXCEPT ![p] = 0]
    BY <2>3, <2>4 DEF ScoresIn
  <2>11. \A r \in OpenRounds(rounds, match) : answers[r][p] = NoAnswer
    BY <1>2, <2>1 DEF ResetKnows, OpenRounds
  <2> QED
    BY <2>1, <2>8, <2>9, <2>10, <2>11, ResetRestarts, SavedStore DEF Keeps
<1> QED
  BY <1>4, <1>5, <1>6

LEMMA StepKeeps ==
  ASSUME IInv, SerialInv, NEW s \in Slots, Step(s)
  PROVE  Keeps(s) /\ op[s].kind # "none"
<1>1. Keeps(s)
  BY ReadsKeep, SwapKeeps, AckKeeps, LeaversKeep, EndKeeps, RematchKeeps DEF Step
<1>2. op[s].kind # "none"
  BY DEF Step, LoadMatch, LoadRound, LoadPlayer, LoadSession, LoadPrevious,
         ReadRaw, Swap, Ack, LoadLeaver, SaveLeaver, RevokeSession, ListForResults,
         SaveEnded, AnnounceEnded, ReadAnswer, ResetScore, SwapMatch, ListForReset, At
<1> QED
  BY <1>1, <1>2

-----------------------------------------------------------------------------
(* Handlers begin; the surroundings.                                       *)

\* A handler begins alone on its players, and knows what it needs: nothing.
LEMMA BeginsKeeps ==
  ASSUME IInv, SerialInv, Serially, NEW s \in Slots, NEW o,
         Begins(s, o), Knows(o, players, answers, rounds, match)
  PROVE  SerialInv' /\ UNCHANGED Ledger!vars
<1>1. /\ op[s].pc = "idle" /\ MayBegin(o) /\ op' = [op EXCEPT ![s] = o]
      /\ UNCHANGED <<players, answers, rounds, match, used, announced>>
  BY DEF Begins, Waits, Becomes, game, ledger, history
<1>2. \A t \in Slots : op'[t] = IF t = s THEN o ELSE op[t]
  BY <1>1 DEF IInv, TypeOK
<1>3. ASSUME NEW t \in Slots, t # s, op[t].kind # "none"
      PROVE  Touches(o) \cap Touches(op[t]) = {}
  <2>1. op[t].pc # "idle"
    BY <1>3, WhoAndWhere
  <2> QED
    BY <1>1, <2>1 DEF MayBegin, Serially
<1>4. ASSUME NEW t \in Slots, NEW u \in Slots, t # u,
             op'[t].kind # "none", op'[u].kind # "none"
      PROVE  Touches(op'[t]) \cap Touches(op'[u]) = {}
  <2>1. CASE t = s
    BY <1>2, <1>3, <1>4, <2>1
  <2>2. CASE u = s
    BY <1>2, <1>3, <1>4, <2>2
  <2>3. CASE t # s /\ u # s
    BY <1>2, <1>4, <2>3 DEF SerialInv, Alone
  <2> QED
    BY <2>1, <2>2, <2>3
<1>5. Alone'
  BY <1>4 DEF Alone
<1>6. ASSUME NEW t \in Slots
      PROVE  Knows(op'[t], players', answers', rounds', match')
  BY <1>1, <1>2 DEF SerialInv, HandlersKnow
<1>7. HandlersKnow'
  BY <1>6 DEF HandlersKnow
<1> QED
  BY <1>1, <1>5, <1>7, StillStore DEF SerialInv

LEMMA BeginKeeps ==
  ASSUME IInv, SerialInv, Serially, NEW s \in Slots, Begin(s)
  PROVE  SerialInv' /\ UNCHANGED Ledger!vars
<1>1. ASSUME NEW a \in Actions, BeginAnswer(s, a)
      PROVE  SerialInv' /\ UNCHANGED Ledger!vars
  <2> DEFINE o == [Idle EXCEPT !.kind = "answer", !.pc = "match",
                               !.player = taps[a].player, !.action = a,
                               !.round = taps[a].round]
  <2>1. Begins(s, o)
    BY <1>1 DEF BeginAnswer
  <2>2. Knows(o, players, answers, rounds, match)
    BY DEF Knows, AnswerKnows, Idle
  <2> HIDE DEF o
  <2> QED
    BY <2>1, <2>2, BeginsKeeps
<1>2. ASSUME NEW p \in Players, NEW kind \in {"kick", "leave"},
             BeginDeparture(s, p, kind)
      PROVE  SerialInv' /\ UNCHANGED Ledger!vars
  <2> DEFINE o == [Idle EXCEPT !.kind = kind, !.pc = "player", !.player = p]
  <2>1. Begins(s, o)
    BY <1>2 DEF BeginDeparture
  <2>2. Knows(o, players, answers, rounds, match)
    BY DEF Knows, LeaverKnows, Idle
  <2> HIDE DEF o
  <2> QED
    BY <2>1, <2>2, BeginsKeeps
<1>3. CASE BeginEnd(s)
  <2> DEFINE o == [Idle EXCEPT !.kind = "end", !.pc = "list",
                               !.round = Cardinality(Started)]
  <2>1. Begins(s, o)
    BY <1>3 DEF BeginEnd
  <2>2. Knows(o, players, answers, rounds, match)
    BY DEF Knows, EndKnows, Idle
  <2> HIDE DEF o
  <2> QED
    BY <2>1, <2>2, BeginsKeeps
<1>4. CASE BeginRematch(s)
  <2> DEFINE o == [Idle EXCEPT !.kind = "rematch", !.pc = "swap"]
  <2>1. Begins(s, o)
    BY <1>4 DEF BeginRematch
  <2>2. Knows(o, players, answers, rounds, match)
    BY DEF Knows, ResetKnows, Idle
  <2> HIDE DEF o
  <2> QED
    BY <2>1, <2>2, BeginsKeeps
<1> QED
  BY <1>1, <1>2, <1>3, <1>4 DEF Begin

\* No handler moves and none is disturbed.
LEMMA RestKnows ==
  ASSUME IInv, SerialInv, op' = op,
         \A t \in Slots : Undisturbed(op[t], players, answers, rounds, match,
                                      players', answers', rounds', match')
  PROVE  (Alone /\ HandlersKnow)'
<1>1. Alone'
  BY DEF SerialInv, Alone
<1>2. ASSUME NEW t \in Slots
      PROVE  Knows(op'[t], players', answers', rounds', match')
  BY OthersKnow
<1> QED
  BY <1>1, <1>2 DEF HandlersKnow

LEMMA JoinKeeps ==
  ASSUME IInv, SerialInv, NEW p \in Players, Join(p)
  PROVE  SerialInv' /\ Ledger!Next
<1>1. /\ players[p] = NoPlayer /\ players' = [players EXCEPT ![p] = NewPlayer]
      /\ UNCHANGED <<op, answers, rounds, match, used, announced>>
  BY DEF Join, game, process, history
<1>2. \A q \in Players : players'[q] = IF q = p THEN NewPlayer ELSE players[q]
  BY <1>1 DEF IInv, TypeOK
<1>3. \A t \in Slots : Undisturbed(op[t], players, answers, rounds, match,
                                   players', answers', rounds', match')
  BY <1>1, <1>2 DEF Undisturbed
<1>4. ScoresIn(players') = ScoresIn(players)
  BY <1>1, <1>2 DEF ScoresIn, NewPlayer
<1> QED
  BY <1>1, <1>3, <1>4, RestKnows, ComeOrGoes, SavedStore DEF SerialInv

LEMMA StartRoundKeeps ==
  ASSUME IInv, SerialInv, StartRound
  PROVE  SerialInv' /\ Ledger!Next
<1>1. PICK r : r = Cardinality(Started) + 1
  OBVIOUS
<1>2. r \in RoundIds /\ r \notin Started
  BY <1>1, StartedCount, AnswerBoundsAssumption DEF StartRound, RoundIds
<1>3. /\ rounds' = [rounds EXCEPT ![r] = [match |-> match, status |-> "ACTIVE"]]
      /\ UNCHANGED <<op, players, answers, match, used, announced>>
  BY <1>1 DEF StartRound, ledger, process, history
<1>4. /\ rounds[r] = NoRound
      /\ \A n \in RoundIds : rounds'[n] = IF n = r
           THEN [match |-> match, status |-> "ACTIVE"] ELSE rounds[n]
  BY <1>2, <1>3 DEF IInv, TypeOK, Started
<1>5. \A p \in Players : answers[r][p] = NoAnswer
  BY <1>2, <1>4 DEF SerialInv, StoreInOrder
<1>6. \A t \in Slots : Undisturbed(op[t], players, answers, rounds, match,
                                   players', answers', rounds', match')
  BY <1>3, <1>4, <1>5 DEF Undisturbed
<1>7. match \in MatchIds /\ match <= match
  BY DEF IInv, TypeOK, MatchIds
<1>8. (StoreInOrder /\ RevealIsFinal)'
  <2>1. announced[r] = {}
    BY <1>2, <1>4 DEF SerialInv, StoreInOrder, NoRound
  <2>2. rounds'[r] # NoRound
    BY <1>2, <1>4, <1>7, NullDocs
  <2> QED
    BY <1>3, <1>4, <1>7, <2>1, <2>2 DEF SerialInv, StoreInOrder, RevealIsFinal
<1>9. Ledger!OpenRound(r)
  <2>1. r \notin OpenRounds(rounds, match)
    BY <1>4, <1>7, NullDocs DEF OpenRounds
  <2>2. OpenRounds(rounds', match') = OpenRounds(rounds, match) \cup {r}
    BY <1>2, <1>3, <1>4 DEF OpenRounds
  <2> QED
    BY <1>3, <1>5, <2>1, <2>2 DEF Ledger!OpenRound, OpenRounds
<1> QED
  BY <1>2, <1>3, <1>6, <1>8, <1>9, RestKnows DEF SerialInv, Ledger!Next

\* The clients, the clock, the end of a match, and nothing at all.
LEMMA QuietKeeps ==
  ASSUME IInv, SerialInv,
         UNCHANGED <<op, players, answers, rounds, match, used, announced>>
  PROVE  SerialInv' /\ UNCHANGED Ledger!vars
<1>1. (Alone /\ HandlersKnow)'
  BY DEF SerialInv, Alone, HandlersKnow
<1> QED
  BY <1>1, StillStore DEF SerialInv

LEMMA CrashKeeps ==
  ASSUME SerialInv, Crash
  PROVE  SerialInv' /\ UNCHANGED Ledger!vars
<1>1. /\ \A s \in Slots : op'[s] = Idle
      /\ UNCHANGED <<players, answers, rounds, match, used, announced>>
  BY DEF Crash, ledger, history
<1>2. (Alone /\ HandlersKnow)'
  BY <1>1, IdleKnows DEF Alone, HandlersKnow, Idle
<1> QED
  BY <1>1, <1>2, StillStore DEF SerialInv

LEMMA NextKeepsSerial ==
  ASSUME IInv, SerialInv, Serially, [Next]_vars
  PROVE  SerialInv' /\ (Ledger!Next \/ UNCHANGED Ledger!vars)
<1>1. ASSUME NEW p \in Players, Join(p)
      PROVE  SerialInv' /\ (Ledger!Next \/ UNCHANGED Ledger!vars)
  BY <1>1, JoinKeeps
<1>2. CASE StartRound
  BY <1>2, StartRoundKeeps
<1>3. ASSUME NEW p \in Players, NEW a \in Actions, NEW r \in RoundIds, Tap(p, a, r)
      PROVE  SerialInv' /\ (Ledger!Next \/ UNCHANGED Ledger!vars)
  BY <1>3, QuietKeeps DEF Tap, game, ledger, process, history
<1>4. ASSUME NEW r \in RoundIds, Deadline(r)
      PROVE  SerialInv' /\ (Ledger!Next \/ UNCHANGED Ledger!vars)
  BY <1>4, QuietKeeps DEF Deadline, ledger, process, history
<1>5. CASE Finish
  BY <1>5, QuietKeeps DEF Finish, ledger, process, history
<1>6. ASSUME NEW s \in Slots, Begin(s)
      PROVE  SerialInv' /\ (Ledger!Next \/ UNCHANGED Ledger!vars)
  BY <1>6, BeginKeeps
<1>7. ASSUME NEW s \in Slots, Step(s)
      PROVE  SerialInv' /\ (Ledger!Next \/ UNCHANGED Ledger!vars)
  <2>1. Keeps(s) /\ op[s].kind # "none"
    BY <1>7, StepKeeps
  <2>2. (Alone /\ HandlersKnow)'
    BY <2>1, MovesKeepsHandlers DEF Keeps
  <2> QED
    BY <2>1, <2>2 DEF Keeps, SerialInv
<1>8. CASE Crash
  BY <1>8, CrashKeeps
<1>9. CASE UNCHANGED vars
  BY <1>9, QuietKeeps DEF vars, game, ledger, process, history
<1> QED
  BY <1>1, <1>2, <1>3, <1>4, <1>5, <1>6, <1>7, <1>8, <1>9 DEF Next

LEMMA InitKnows == Init => SerialInv
<1> SUFFICES ASSUME Init
             PROVE  SerialInv
  OBVIOUS
<1>1. \A s \in Slots : op[s] = Idle
  BY DEF Init
<1>2. Alone /\ HandlersKnow
  BY <1>1, IdleKnows DEF Alone, HandlersKnow, Idle
<1>3. StoreInOrder /\ RevealIsFinal
  BY DEF Init, StoreInOrder, RevealIsFinal, NoRound, NoAnswers
<1> QED
  BY <1>2, <1>3 DEF SerialInv

LEMMA InitIsLedger == Init => Ledger!Init
<1> SUFFICES ASSUME Init
             PROVE  Ledger!Init
  OBVIOUS
<1>1. \A p \in Players : players[p] \in {NoPlayer, NewPlayer}
  BY DEF Init
<1>2. OpenRounds(rounds, match) = {}
  BY DEF Init, OpenRounds, NoRound
<1>3. ScoresIn(players) = [p \in Players |-> 0]
  BY <1>1 DEF ScoresIn, NewPlayer
<1>4. answers = [r \in RoundIds |-> [p \in Players |-> NoAnswer]] /\ used = {}
  BY DEF Init, NoAnswers
<1>5. PresentIn(players) \in SUBSET Players
  BY DEF PresentIn
<1> QED
  BY <1>2, <1>3, <1>4, <1>5 DEF Ledger!Init, OpenRounds, ScoresIn, PresentIn

-----------------------------------------------------------------------------
(* The theorems.                                                           *)

\* When operations on one player do not overlap, no answer lands and none
\* changes after the results of its round went out (endRound against
\* submitAnswer).
THEOREM RevealsAreFinal ==
  ASSUME Serially
  PROVE  Spec => []RevealIsFinal
<1>1. Init => IInv /\ SerialInv
  BY InitFits, InitKnows
<1>2. IInv /\ SerialInv /\ [Next]_vars => (IInv /\ SerialInv)'
  BY NextFits, NextKeepsSerial
<1>3. SerialInv => RevealIsFinal
  BY DEF SerialInv
<1> QED
  BY <1>1, <1>2, <1>3, PTL DEF Spec

\* When operations on one player do not overlap, submitAnswer with its seven
\* calls on the store, against kicks, departures, the end of the round, a
\* rematch, resent taps and crashes, does what a single step would.
THEOREM FlowIsLedger ==
  ASSUME Serially
  PROVE  Spec => TapsAreAtomic
<1>1. Init => IInv /\ SerialInv
  BY InitFits, InitKnows
<1>2. IInv /\ SerialInv /\ [Next]_vars => (IInv /\ SerialInv)'
  BY NextFits, NextKeepsSerial
<1>3. IInv /\ SerialInv /\ [Next]_vars => [Ledger!Next]_(Ledger!vars)
  BY NextKeepsSerial
<1>4. Init => Ledger!Init
  BY InitIsLedger
<1> QED
  BY <1>1, <1>2, <1>3, <1>4, PTL DEF Spec, TapsAreAtomic, Ledger!Spec

-----------------------------------------------------------------------------
(***************************************************************************)
(* ScoreIsSumOfPoints, when operations on one player do not overlap.  The  *)
(* sum is a fold over a set of rounds, and a fold is a recursion whose     *)
(* value the provers cannot compute by induction.  Instead the sum is      *)
(* counted: it is the number of elements of a pile with one column a       *)
(* round, as high as the points of that round (SumIsPile).  How a step     *)
(* changes the sum is then a fact about finite sets.                       *)
(***************************************************************************)

(* A non-empty set of numbers has a least one.                             *)
LEMMA LeastNumber ==
  ASSUME NEW S \in SUBSET Nat, S # {}
  PROVE  \E n \in S : \A m \in S : n <= m
<1>1. \E n \in S : \A m \in S : ~(<<m, n>> \in OpToRel(<, Nat))
  BY NatLessThanWellFounded, WFMin
<1>2. PICK n \in S : \A m \in S : ~(<<m, n>> \in OpToRel(<, Nat))
  BY <1>1
<1>3. ASSUME NEW m \in S
      PROVE  n <= m
  <2>1. m \in Nat /\ n \in Nat
    OBVIOUS
  <2>2. ~(m < n)
    BY <1>2, <2>1 DEF OpToRel
  <2> QED
    BY <2>1, <2>2
<1> QED
  BY <1>3

SumIn(as, p, S) == MapThenSumSet(LAMBDA r : as[r][p].points, S)
Earned(as, p, r) == as[r][p].points
Recursion(as, p, S, g) ==
  g = [s \in SUBSET S |->
         IF s = {} THEN 0
         ELSE Earned(as, p, CHOOSE x \in s : TRUE)
                + g[s \ {CHOOSE x \in s : TRUE}]]

\* A round earns p a column as high as its points; the columns of a set of
\* rounds are disjoint.
Column(as, p, r) == {r} \X (1..Earned(as, p, r))
Pile(as, p, S) == UNION {Column(as, p, r) : r \in S}

(* The fold is a value of some function with the recursion of the fold, if *)
(* there is one.                                                           *)
LEMMA SumUnfolds ==
  ASSUME NEW as, NEW p, NEW S, \E g : Recursion(as, p, S, g)
  PROVE  \E g : Recursion(as, p, S, g) /\ SumIn(as, p, S) = g[S]
<1> DEFINE iter == CHOOSE g : Recursion(as, p, S, g)
<1>1. Recursion(as, p, S, iter)
  OBVIOUS
<1>2. SumIn(as, p, S) = iter[S]
  BY DEF SumIn, MapThenSumSet, MapThenFoldSet, Recursion, Earned
<1> QED
  BY <1>1, <1>2

(* A column has as many elements as it is high.                            *)
LEMMA ColumnIsFinite ==
  ASSUME NEW as, NEW p, NEW r, Earned(as, p, r) \in Nat
  PROVE  /\ IsFiniteSet(Column(as, p, r))
         /\ Cardinality(Column(as, p, r)) = Earned(as, p, r)
<1> DEFINE n == Earned(as, p, r)
<1>1. IsFiniteSet({r}) /\ Cardinality({r}) = 1
  BY FS_Singleton
<1>2. n \in Nat
  OBVIOUS
<1>3. Column(as, p, r) = {r} \X (1..n)
  BY DEF Column
<1> HIDE DEF n
<1>4. IsFiniteSet(1..n) /\ Cardinality(1..n) = n
  <2>1. 1 \in Int /\ n \in Int
    BY <1>2
  <2> QED
    BY <1>2, <2>1, FS_Interval
<1> DEFINE I == 1..n
           one == {r}
<1>5. Cardinality(one \X I) = Cardinality(one) * Cardinality(I)
      /\ IsFiniteSet(one \X I)
  <2>1. IsFiniteSet(one) /\ IsFiniteSet(I)
    BY <1>1, <1>4
  <2> HIDE DEF one, I
  <2> QED
    BY <2>1, FS_Product
<1>6. Cardinality(one \X I) = n
  <2>1. Cardinality(one) = 1 /\ Cardinality(I) = n
    BY <1>1, <1>4
  <2> HIDE DEF one, I
  <2> QED
    BY <1>2, <1>5, <2>1
<1> QED
  BY <1>3, <1>5, <1>6 DEF n

(* So a pile has a number of elements.                                     *)
LEMMA PileIsFinite ==
  ASSUME NEW as, NEW p, NEW S, IsFiniteSet(S),
         \A r \in S : Earned(as, p, r) \in Nat
  PROVE  IsFiniteSet(Pile(as, p, S)) /\ Cardinality(Pile(as, p, S)) \in Nat
<1> DEFINE T == {Column(as, p, r) : r \in S}
           f == [r \in S |-> Column(as, p, r)]
<1>1. f \in Surjection(S, T)
  BY DEF Surjection
<1>2. IsFiniteSet(T)
  <2> HIDE DEF f, T
  <2> QED
    BY <1>1, FS_Surjection
<1>3. \A c \in T : IsFiniteSet(c)
  BY ColumnIsFinite
<1>4. IsFiniteSet(UNION T)
  <2> HIDE DEF T
  <2> QED
    BY <1>2, <1>3, FS_UNION
<1> QED
  BY <1>4, FS_CardinalityType DEF Pile

\* Taking column r away leaves rest.
Splits(as, p, S, r, rest) ==
  Cardinality(Pile(as, p, S)) =
    Earned(as, p, r) + Cardinality(Pile(as, p, rest))

LEMMA PileSplits ==
  ASSUME NEW as, NEW p, NEW S, IsFiniteSet(S), NEW r \in S,
         NEW rest, rest = S \ {r},
         \A q \in S : Earned(as, p, q) \in Nat
  PROVE  Splits(as, p, S, r, rest)
<1> DEFINE A == Column(as, p, r)
           B == Pile(as, p, rest)
<1>1. Pile(as, p, S) = A \cup B
  BY DEF Pile
<1>2. A \cap B = {}
  <2>1. \A z \in A : z[1] = r
    BY DEF Column
  <2>2. ASSUME NEW z \in B
        PROVE  z[1] \in S \ {r}
    <3>1. PICK q \in S \ {r} : z \in Column(as, p, q)
      BY DEF Pile
    <3>2. z[1] = q
      BY <3>1 DEF Column
    <3> QED
      BY <3>2
  <2> HIDE DEF A, B
  <2> QED
    BY <2>1, <2>2
<1>3. IsFiniteSet(A) /\ Cardinality(A) = Earned(as, p, r)
  BY ColumnIsFinite
<1>4. IsFiniteSet(rest)
  BY FS_RemoveElement
<1>5. IsFiniteSet(B) /\ Cardinality(B) \in Nat
  BY <1>4, PileIsFinite
<1> HIDE DEF A, B
<1>6. Cardinality(A \cup B)
        = Cardinality(A) + Cardinality(B) - Cardinality(A \cap B)
  BY <1>3, <1>5, FS_Union
<1>7. Cardinality(A \cap B) = 0
  BY <1>2, FS_EmptySet
<1>8. Cardinality(A) \in Nat
  BY <1>3
<1>9. Cardinality(A \cup B) = Cardinality(A) + Cardinality(B)
  BY <1>5, <1>6, <1>7, <1>8
<1> QED
  BY <1>1, <1>3, <1>9 DEF B, Splits

(* No rounds, no points.                                                   *)
LEMMA EmptyPile ==
  ASSUME NEW as, NEW p
  PROVE  Cardinality(Pile(as, p, {})) = 0
<1>1. Pile(as, p, {}) = {}
  BY DEF Pile
<1> QED
  BY <1>1, FS_EmptySet

(* The fold counts the pile: the pile's size satisfies the recursion, and *)
(* a function that satisfies it and differs would differ on a smallest set. *)
LEMMA SumIsPile ==
  ASSUME NEW as, NEW p, NEW S, IsFiniteSet(S),
         \A r \in S : Earned(as, p, r) \in Nat
  PROVE  SumIn(as, p, S) = Cardinality(Pile(as, p, S))
<1>1. ASSUME NEW s \in SUBSET S
      PROVE  IsFiniteSet(s) /\ \A r \in s : Earned(as, p, r) \in Nat
  BY FS_Subset
<1> DEFINE size(t) == Cardinality(Pile(as, p, t))
<1>2. ASSUME NEW s \in SUBSET S, NEW x \in s, NEW rest, rest = s \ {x}
      PROVE  size(s) = Earned(as, p, x) + size(rest)
  <2>1. IsFiniteSet(s)
    BY <1>1
  <2>2. \A q \in s : Earned(as, p, q) \in Nat
    BY <1>1
  <2>3. Splits(as, p, s, x, rest)
    BY <1>2, <2>1, <2>2, PileSplits
  <2> QED
    BY <2>3 DEF Splits
<1>3. \E g : Recursion(as, p, S, g)
  <2> DEFINE h == [s \in SUBSET S |-> size(s)]
  <2>1. ASSUME NEW s \in SUBSET S
        PROVE  h[s] = IF s = {} THEN 0
                      ELSE Earned(as, p, CHOOSE x \in s : TRUE)
                             + h[s \ {CHOOSE x \in s : TRUE}]
    <3>1. CASE s = {}
      BY <3>1, EmptyPile
    <3>2. CASE s # {}
      <4> DEFINE x == CHOOSE y \in s : TRUE
                 rest == s \ {x}
      <4>1. rest \in SUBSET S
        OBVIOUS
      <4>2. x \in s
        BY <3>2
      <4>3. size(s) = Earned(as, p, x) + size(rest)
        BY <1>2, <4>2
      <4>4. h[rest] = size(rest)
        BY <4>1
      <4> QED
        BY <3>2, <4>3, <4>4
    <3> QED
      BY <3>1, <3>2
  <2>2. Recursion(as, p, S, h)
    <3> DEFINE body(s) == IF s = {} THEN 0
                      ELSE Earned(as, p, CHOOSE x \in s : TRUE)
                             + h[s \ {CHOOSE x \in s : TRUE}]
    <3>1. h = [s \in SUBSET S |-> h[s]]
      OBVIOUS
    <3>2. \A s \in SUBSET S : h[s] = body(s)
      BY <2>1
    <3> HIDE DEF h
    <3>3. h = [s \in SUBSET S |-> body(s)]
      BY <3>1, <3>2
    <3> QED
      BY <3>3 DEF Recursion
  <2> QED
    BY <2>2
<1>4. PICK g : Recursion(as, p, S, g) /\ SumIn(as, p, S) = g[S]
  BY <1>3, SumUnfolds
<1>5. \A s \in SUBSET S :
        g[s] = IF s = {} THEN 0
               ELSE Earned(as, p, CHOOSE x \in s : TRUE)
                      + g[s \ {CHOOSE x \in s : TRUE}]
  BY <1>4 DEF Recursion
<1> HIDE DEF size
<1>6. \A s \in SUBSET S : g[s] = size(s)
  <2> DEFINE wrong == {Cardinality(s) : s \in {t \in SUBSET S : g[t] # size(t)}}
  <2>1. SUFFICES ASSUME wrong # {}
                 PROVE  FALSE
    OBVIOUS
  <2>2. wrong \in SUBSET Nat
    BY <1>1, FS_CardinalityType
  <2>3. PICK n \in wrong : \A m \in wrong : n <= m
    <3> HIDE DEF wrong
    <3> QED
      BY <2>1, <2>2, LeastNumber
  <2>4. PICK s \in SUBSET S : g[s] # size(s) /\ n = Cardinality(s)
    BY <2>3
  <2>5. s # {}
    BY <1>5, <2>4, EmptyPile DEF size
  <2> DEFINE x == CHOOSE y \in s : TRUE
             t == s \ {x}
  <2>6. x \in s /\ size(s) = Earned(as, p, x) + size(t)
    <3>1. x \in s
      BY <2>5
    <3> QED
      BY <1>2, <3>1 DEF size
  <2>7. t \in SUBSET S
    OBVIOUS
  <2>8. Cardinality(t) = n - 1 /\ n \in Nat
    <3>1. IsFiniteSet(s)
      BY <1>1
    <3>2. Cardinality(s \ {x}) = Cardinality(s) - 1
      BY <2>6, <3>1, FS_RemoveElement
    <3> QED
      BY <2>2, <2>3, <2>4, <3>2
  <2>9. g[t] = size(t)
    <3>1. SUFFICES ASSUME g[t] # size(t)
                   PROVE  FALSE
      OBVIOUS
    <3>2. Cardinality(t) \in wrong
      BY <2>7, <3>1
    <3>3. n <= Cardinality(t)
      BY <2>3, <3>2
    <3> QED
      BY <2>8, <3>3
  <2>10. g[s] = Earned(as, p, x) + g[t]
    BY <1>5, <2>5
  <2> QED
    BY <2>4, <2>6, <2>9, <2>10
<1> QED
  BY <1>4, <1>6 DEF size
\* Piles with the same columns, up to empty ones, are the same.
Alike(as, as2, p, S, S2) == Pile(as2, p, S2) = Pile(as, p, S)

LEMMA SamePile ==
  ASSUME NEW as, NEW as2, NEW p, NEW S, NEW S2,
         \A r \in S : r \notin S2 => Earned(as, p, r) = 0,
         \A r \in S2 : r \notin S => Earned(as2, p, r) = 0,
         \A r \in S : r \in S2 => Earned(as2, p, r) = Earned(as, p, r)
  PROVE  Alike(as, as2, p, S, S2)
<1>1. ASSUME NEW r, Earned(as, p, r) = 0 PROVE Column(as, p, r) = {}
  BY <1>1 DEF Column
<1>2. ASSUME NEW r, Earned(as2, p, r) = 0 PROVE Column(as2, p, r) = {}
  BY <1>2 DEF Column
<1>3. \A r \in S : r \in S2 => Column(as2, p, r) = Column(as, p, r)
  BY DEF Column
<1>4. ASSUME NEW z \in Pile(as2, p, S2) PROVE z \in Pile(as, p, S)
  <2>1. PICK r \in S2 : z \in Column(as2, p, r)
    BY <1>4 DEF Pile
  <2>2. r \in S
    BY <1>2, <2>1
  <2>3. z \in Column(as, p, r)
    BY <1>3, <2>1, <2>2
  <2> QED
    BY <2>2, <2>3 DEF Pile
<1>5. ASSUME NEW z \in Pile(as, p, S) PROVE z \in Pile(as2, p, S2)
  <2>1. PICK r \in S : z \in Column(as, p, r)
    BY <1>5 DEF Pile
  <2>2. r \in S2
    BY <1>1, <2>1
  <2>3. z \in Column(as2, p, r)
    BY <1>3, <2>1, <2>2
  <2> QED
    BY <2>2, <2>3 DEF Pile
<1>6. Pile(as2, p, S2) = Pile(as, p, S)
  BY <1>4, <1>5
<1> QED
  BY <1>6 DEF Alike

\* One column changes: the pile changes by the difference.
Changes(as, as2, p, S, r) ==
  Cardinality(Pile(as2, p, S)) =
    Cardinality(Pile(as, p, S)) - Earned(as, p, r) + Earned(as2, p, r)

LEMMA PileChanges ==
  ASSUME NEW as, NEW as2, NEW p, NEW S, IsFiniteSet(S), NEW r \in S,
         \A q \in S : Earned(as, p, q) \in Nat,
         \A q \in S : Earned(as2, p, q) \in Nat,
         \A q \in S : q # r => Earned(as2, p, q) = Earned(as, p, q)
  PROVE  Changes(as, as2, p, S, r)
<1> DEFINE rest == S \ {r}
<1>1. Pile(as2, p, rest) = Pile(as, p, rest)
  <2>1. \A q \in rest : Earned(as2, p, q) = Earned(as, p, q)
    OBVIOUS
  <2> HIDE DEF rest
  <2>2. Alike(as, as2, p, rest, rest)
    BY <2>1, SamePile
  <2> QED
    BY <2>2 DEF Alike
<1>2. IsFiniteSet(rest)
  BY FS_RemoveElement
<1>3. Cardinality(Pile(as, p, rest)) \in Nat
  <2>1. \A q \in rest : Earned(as, p, q) \in Nat
    OBVIOUS
  <2> HIDE DEF rest
  <2> QED
    BY <1>2, <2>1, PileIsFinite
<1>4. rest = S \ {r}
  OBVIOUS
<1> HIDE DEF rest
<1>5. Splits(as, p, S, r, rest) /\ Splits(as2, p, S, r, rest)
  BY <1>4, PileSplits
<1>6. Earned(as, p, r) \in Nat /\ Earned(as2, p, r) \in Nat
  OBVIOUS
<1> DEFINE before == Earned(as, p, r)
           after == Earned(as2, p, r)
           others == Cardinality(Pile(as, p, rest))
<1>7. /\ Cardinality(Pile(as, p, S)) = before + others
      /\ Cardinality(Pile(as2, p, S)) = after + others
  BY <1>1, <1>5 DEF Splits
<1>8. before \in Nat /\ after \in Nat /\ others \in Nat
  BY <1>3, <1>6
<1> HIDE DEF before, after, others
<1>9. after + others = (before + others) - before + after
  BY <1>8
<1>10. Cardinality(Pile(as2, p, S)) =
         Cardinality(Pile(as, p, S)) - before + after
  BY <1>7, <1>9
<1> QED
  BY <1>10 DEF Changes, before, after

-----------------------------------------------------------------------------
(* The sum of the points of one player in one match.                       *)

RoundsIn(rs, m) == {r \in RoundIds : rs[r].match = m}
Total(as, rs, m, p) == Cardinality(Pile(as, p, RoundsIn(rs, m)))
StoredAnswers == [RoundIds -> [Players -> Answers \cup {NoAnswer}]]

(* An answer earns a number of points, no answer earns none.               *)
LEMMA PointsAreNumbers ==
  ASSUME NEW as \in StoredAnswers, NEW p \in Players, NEW r \in RoundIds
  PROVE  /\ Earned(as, p, r) \in Nat
         /\ as[r][p] = NoAnswer => Earned(as, p, r) = 0
<1>1. as[r][p] \in Answers \cup {NoAnswer}
  BY DEF StoredAnswers
<1>2. PointValues \cup {0} \subseteq Nat
  BY ScoringAssumption
<1>3. CASE as[r][p] = NoAnswer
  <2>1. Earned(as, p, r) = 0
    BY <1>3 DEF Earned, NoAnswer
  <2> QED
    BY <2>1
<1>4. CASE as[r][p] \in Answers
  <2> DEFINE a == as[r][p]
  <2>1. a.points \in PointValues \cup {0}
    BY <1>4 DEF Answers
  <2>2. a # NoAnswer
    BY <1>4, NullDocs
  <2> QED
    BY <1>2, <2>1, <2>2 DEF Earned
<1> QED
  BY <1>1, <1>3, <1>4

(* A match has finitely many rounds.                                       *)
LEMMA RoundsAreFinite ==
  ASSUME NEW rs, NEW m
  PROVE  IsFiniteSet(RoundsIn(rs, m)) /\ RoundsIn(rs, m) \subseteq RoundIds
<1>1. IsFiniteSet(RoundIds)
  BY FS_Interval, AnswerBoundsAssumption DEF RoundIds
<1>2. RoundsIn(rs, m) \in SUBSET RoundIds
  BY DEF RoundsIn
<1> QED
  BY <1>1, <1>2, FS_Subset

(* SumOfPoints is the size of the pile of this match.                      *)
SumsToTotal(p) == SumOfPoints(p) = Total(answers, rounds, match, p)

LEMMA SumIsTotal ==
  ASSUME TypeOK, NEW p \in Players
  PROVE  SumsToTotal(p)
<1> DEFINE S == RoundsIn(rounds, match)
<1>1. IsFiniteSet(S) /\ S \subseteq RoundIds
  BY RoundsAreFinite
<1>2. \A r \in S : Earned(answers, p, r) \in Nat
  BY <1>1, PointsAreNumbers DEF TypeOK, StoredAnswers
<1>3. SumOfPoints(p) = SumIn(answers, p, S)
  BY DEF SumOfPoints, SumIn, RoundsOf, RoundsIn, MapThenSumSet, MapThenFoldSet
<1> HIDE DEF S
<1>4. SumIn(answers, p, S) = Cardinality(Pile(answers, p, S))
  BY <1>1, <1>2, SumIsPile
<1> QED
  BY <1>3, <1>4 DEF Total, S, SumsToTotal

-----------------------------------------------------------------------------
(* The inductive invariant of the scores, action by action.                *)

\* The score of p is what the answers of this match earned, unless the
\* rematch still has to reset it.
Adds(p, ps, as, rs, m, c) ==
  ps[p] # NoPlayer /\ p \notin c => ps[p].score = Total(as, rs, m, p)

\* Only who is in the room has answered.
AnswersHavePlayers ==
  \A r \in RoundIds, p \in Players :
    answers[r][p] # NoAnswer => players[p] # NoPlayer

ScoreInv ==
  /\ \A p \in Players : Adds(p, players, answers, rounds, match, carried)
  /\ AnswersHavePlayers

\* Rounds in which p has earned nothing do not count.
SameTotal(as, as2, rs, rs2, m, m2, p) ==
  Total(as2, rs2, m2, p) = Total(as, rs, m, p)

LEMMA TotalStays ==
  ASSUME NEW as, NEW as2, NEW rs, NEW rs2, NEW m, NEW m2, NEW p,
         \A r \in RoundIds : rs[r].match = m /\ rs2[r].match # m2 =>
           Earned(as, p, r) = 0,
         \A r \in RoundIds : rs2[r].match = m2 /\ rs[r].match # m =>
           Earned(as2, p, r) = 0,
         \A r \in RoundIds : rs[r].match = m /\ rs2[r].match = m2 =>
           Earned(as2, p, r) = Earned(as, p, r)
  PROVE  SameTotal(as, as2, rs, rs2, m, m2, p)
<1> DEFINE S == RoundsIn(rs, m)
           S2 == RoundsIn(rs2, m2)
<1>1. /\ \A r \in S : r \notin S2 => Earned(as, p, r) = 0
      /\ \A r \in S2 : r \notin S => Earned(as2, p, r) = 0
      /\ \A r \in S : r \in S2 => Earned(as2, p, r) = Earned(as, p, r)
  BY DEF RoundsIn
<1> HIDE DEF S, S2
<1>2. Alike(as, as2, p, S, S2)
  BY <1>1, SamePile
<1> QED
  BY <1>2 DEF Alike, SameTotal, Total, S, S2

(* Who has earned nothing in a match has a sum of 0 in it.                 *)
LEMMA NothingEarned ==
  ASSUME NEW as, NEW rs, NEW m, NEW p,
         \A r \in RoundIds : rs[r].match = m => Earned(as, p, r) = 0
  PROVE  Total(as, rs, m, p) = 0
<1> DEFINE S == RoundsIn(rs, m)
           none == {}
<1>1. /\ \A r \in S : r \notin none => Earned(as, p, r) = 0
      /\ \A r \in none : r \notin S => Earned(as, p, r) = 0
      /\ \A r \in S : r \in none => Earned(as, p, r) = Earned(as, p, r)
  BY DEF RoundsIn
<1>2. Cardinality(Pile(as, p, none)) = 0
  BY EmptyPile
<1> HIDE DEF S, none
<1>3. Alike(as, as, p, S, none)
  BY <1>1, SamePile
<1> QED
  BY <1>2, <1>3 DEF Alike, Total, S

\* A step that gives no score, no points and no round to anybody.
LEMMA QuietScores ==
  ASSUME ScoreInv, carried' = carried,
         UNCHANGED <<players, answers, rounds, match>>
  PROVE  ScoreInv'
BY DEF ScoreInv, Adds, AnswersHavePlayers

(* A document is saved with the score it has.                              *)
LEMMA SavedScores ==
  ASSUME IInv, ScoreInv, UNCHANGED <<answers, rounds, match, carried>>,
         \A p \in Players : players'[p] = players[p]
                            \/ (players[p] # NoPlayer /\ players'[p] # NoPlayer
                                /\ players'[p].score = players[p].score)
  PROVE  ScoreInv'
<1>1. ASSUME NEW p \in Players
      PROVE  Adds(p, players', answers', rounds', match', carried')
  BY DEF ScoreInv, Adds
<1>2. AnswersHavePlayers'
  BY DEF ScoreInv, AnswersHavePlayers
<1> QED
  BY <1>1, <1>2 DEF ScoreInv

(* Who joins has answered nothing, and starts at 0.                        *)
LEMMA JoinScores ==
  ASSUME IInv, ScoreInv, NEW p \in Players, Join(p)
  PROVE  ScoreInv'
<1>1. /\ players[p] = NoPlayer /\ players' = [players EXCEPT ![p] = NewPlayer]
      /\ UNCHANGED <<answers, rounds, match, carried>>
  BY DEF Join, game, history
<1>2. \A q \in Players : players'[q] = IF q = p THEN NewPlayer ELSE players[q]
  BY <1>1 DEF IInv, TypeOK
<1>3. Total(answers, rounds, match, p) = 0
  <2>1. \A r \in RoundIds : answers[r][p] = NoAnswer
    BY <1>1 DEF ScoreInv, AnswersHavePlayers
  <2>2. \A r \in RoundIds : Earned(answers, p, r) = 0
    BY <2>1 DEF Earned, NoAnswer
  <2> QED
    BY <2>2, NothingEarned
<1>4. NewPlayer.score = 0 /\ NewPlayer # NoPlayer
  BY DEF NewPlayer, NoPlayer
<1>5. ASSUME NEW q \in Players
      PROVE  Adds(q, players', answers', rounds', match', carried')
  BY <1>1, <1>2, <1>3, <1>4 DEF ScoreInv, Adds
<1>6. AnswersHavePlayers'
  BY <1>1, <1>2, <1>4 DEF ScoreInv, AnswersHavePlayers
<1> QED
  BY <1>5, <1>6 DEF ScoreInv

(* Nobody has answered the round that starts.                              *)
LEMMA StartRoundScores ==
  ASSUME IInv, SerialInv, ScoreInv, StartRound
  PROVE  ScoreInv'
<1>1. PICK r : r = Cardinality(Started) + 1
  OBVIOUS
<1>2. r \in RoundIds /\ r \notin Started
  BY <1>1, StartedCount, AnswerBoundsAssumption DEF StartRound, RoundIds
<1>3. /\ rounds' = [rounds EXCEPT ![r] = [match |-> match, status |-> "ACTIVE"]]
      /\ UNCHANGED <<players, answers, match, carried>>
  BY <1>1 DEF StartRound, ledger, history
<1>4. /\ rounds[r] = NoRound
      /\ \A n \in RoundIds : n # r => rounds'[n] = rounds[n]
  BY <1>2, <1>3 DEF IInv, TypeOK, Started
<1>5. \A p \in Players : answers[r][p] = NoAnswer
  BY <1>2, <1>4 DEF SerialInv, StoreInOrder
<1>6. rounds[r].match # match
  BY <1>4 DEF IInv, TypeOK, MatchIds, NoRound
<1>7. ASSUME NEW p \in Players
      PROVE  Adds(p, players', answers', rounds', match', carried')
  <2>1. Earned(answers, p, r) = 0
    BY <1>5 DEF Earned, NoAnswer
  <2>2. SameTotal(answers, answers', rounds, rounds', match, match', p)
    <3>1. \A n \in RoundIds : rounds[n].match = match =>
            rounds'[n].match = match'
      BY <1>3, <1>4, <1>6
    <3>2. \A n \in RoundIds : rounds'[n].match = match' /\ rounds[n].match # match =>
            Earned(answers', p, n) = 0
      BY <1>3, <1>4, <2>1
    <3> QED
      BY <1>3, <3>1, <3>2, TotalStays
  <2> QED
    BY <1>3, <2>2 DEF ScoreInv, Adds, SameTotal
<1>8. AnswersHavePlayers'
  BY <1>3 DEF ScoreInv, AnswersHavePlayers
<1> QED
  BY <1>7, <1>8 DEF ScoreInv

(* A tap adds its points and takes off those of the answer it replaces.    *)
LEMMA SwapScores ==
  ASSUME IInv, SerialInv, ScoreInv, NEW s \in Slots, Swap(s)
  PROVE  ScoreInv'
<1> DEFINE o == op[s]
           outcome == SaveAnswerOutcome(o)
           p == o.player
           r == o.round
           answer == [action |-> o.action, points |-> o.points]
<1>1. /\ o.kind = "answer" /\ o.pc = "swap"
      /\ UNCHANGED <<rounds, match, carried>>
  BY DEF Swap, At, game, history
<1>2. o \in Ops /\ p \in Players /\ r \in RoundIds
  BY <1>1, WhoAndWhere
<1>3. AnswerKnows(o, players, answers, rounds, match)
  BY <1>1 DEF SerialInv, HandlersKnow, Knows
<1>4. CASE outcome # "ok"
  BY <1>1, <1>4, QuietScores DEF Swap
<1>5. CASE outcome = "ok"
  <2>1. /\ answers' = [answers EXCEPT ![r][p] = answer]
        /\ players' = [players EXCEPT ![p] = Merged(o)]
    BY <1>5 DEF Swap
  <2>2. /\ o.action \in Actions /\ o.expected \in PlayerDocs
        /\ NewScore(o) \in Nat /\ o.points \in PointValues \cup {0}
    <3>1. AnswerFits(o, taps, used)
      BY <1>1, HandlerFacts DEF Fits
    <3> QED
      BY <1>1, <1>2, <3>1 DEF AnswerFits, Ops
  <2>3. /\ rounds[r].match = match /\ Active(players[p])
        /\ o.expected = players[p] /\ o.doc = players[p]
        /\ o.previous = answers[r][p]
    BY <1>1, <1>3 DEF AnswerKnows, OpenRounds
  <2>4. Merged(o).score = NewScore(o) /\ Merged(o) # NoPlayer
    <3>1. Merged(o) \in PlayerDocs /\ Merged(o).score = NewScore(o)
      BY <2>2 DEF Merged, PlayerDocs
    <3> QED
      BY <3>1, NullDocs
  <2>5. players \in [Players -> PlayerDocs \cup {NoPlayer}]
        /\ answers \in StoredAnswers
    BY DEF IInv, TypeOK, StoredAnswers
  <2>6. answers' \in StoredAnswers
    <3>1. IInv'
      BY SwapFits
    <3> QED
      BY <3>1 DEF IInv, TypeOK, StoredAnswers
  <2>7. \A n \in RoundIds, q \in Players :
          answers'[n][q] = IF n = r /\ q = p THEN answer ELSE answers[n][q]
    BY <1>2, <2>1, <2>5 DEF StoredAnswers
  <2>8. \A q \in Players : players'[q] = IF q = p THEN Merged(o) ELSE players[q]
    BY <1>2, <2>1, <2>5
  <2>9. ASSUME NEW q \in Players, q # p
        PROVE  Adds(q, players', answers', rounds', match', carried')
    <3>1. \A n \in RoundIds : Earned(answers', q, n) = Earned(answers, q, n)
      BY <2>7, <2>9 DEF Earned
    <3>2. SameTotal(answers, answers', rounds, rounds', match, match', q)
      BY <1>1, <3>1, TotalStays
    <3> QED
      BY <1>1, <2>8, <2>9, <3>2 DEF ScoreInv, Adds, SameTotal
  <2>10. Adds(p, players', answers', rounds', match', carried')
    <3> DEFINE S == RoundsIn(rounds, match)
    <3>1. /\ Earned(answers, p, r) = o.previous.points
          /\ Earned(answers', p, r) = o.points
      BY <1>2, <2>3, <2>7 DEF Earned
    <3>2. r \in S /\ IsFiniteSet(S) /\ S \subseteq RoundIds
      BY <1>2, <2>3, RoundsAreFinite DEF RoundsIn
    <3>3. \A n \in S : n # r => Earned(answers', p, n) = Earned(answers, p, n)
      BY <1>2, <2>7, <3>2 DEF Earned
    <3>4. \A n \in S : Earned(answers, p, n) \in Nat
      BY <1>2, <2>5, <3>2, PointsAreNumbers
    <3>5. \A n \in S : Earned(answers', p, n) \in Nat
      BY <1>2, <2>6, <3>2, PointsAreNumbers
    <3> HIDE DEF S
    <3>6. Changes(answers, answers', p, S, r)
      BY <3>2, <3>3, <3>4, <3>5, PileChanges
    <3>7. Total(answers', rounds, match, p)
            = Total(answers, rounds, match, p) - o.previous.points + o.points
      BY <3>1, <3>6 DEF Changes, Total, S
    <3>8. p \notin carried =>
            players[p].score = Total(answers, rounds, match, p)
      BY <1>2, <2>3 DEF ScoreInv, Adds, Active
    <3>9. NewScore(o) = players[p].score - o.previous.points + o.points
      BY <2>3 DEF NewScore
    <3>10. p \notin carried => NewScore(o) = Total(answers', rounds, match, p)
      BY <3>7, <3>8, <3>9
    <3> QED
      BY <1>1, <1>2, <2>4, <2>8, <3>10 DEF Adds
  <2>11. AnswersHavePlayers'
    BY <2>3, <2>4, <2>7, <2>8 DEF ScoreInv, AnswersHavePlayers, Active
  <2> QED
    BY <2>9, <2>10, <2>11 DEF ScoreInv
<1> QED
  BY <1>4, <1>5

(* A kick and a departure write the score that they read.                  *)
LEMMA SaveLeaverScores ==
  ASSUME IInv, SerialInv, ScoreInv, NEW s \in Slots, SaveLeaver(s)
  PROVE  ScoreInv'
<1> DEFINE p == op[s].player
<1>1. op[s].kind \in {"kick", "leave"} /\ op[s].pc = "save"
  BY DEF SaveLeaver, At
<1>2. LeaverFits(op[s], players)
  BY <1>1, HandlerFacts DEF Fits
<1>3. op[s].doc = players[p] /\ op[s].doc \in PlayerDocs /\ p \in Players
  BY <1>1, <1>2 DEF SerialInv, HandlersKnow, Knows, LeaverKnows, LeaverFits
<1>4. PICK doc : /\ players' = [players EXCEPT ![p] = doc]
                 /\ doc \in {[op[s].doc EXCEPT !.kicked = TRUE],
                             [op[s].doc EXCEPT !.left = TRUE]}
  BY DEF SaveLeaver
<1>5. doc \in PlayerDocs /\ doc.score = players[p].score
  BY <1>3, <1>4 DEF PlayerDocs
<1>6. \A q \in Players : players'[q] = IF q = p THEN doc ELSE players[q]
  BY <1>3, <1>4 DEF IInv, TypeOK
<1>7. UNCHANGED <<answers, rounds, match, carried>>
  BY DEF SaveLeaver, game, history
<1>8. doc # NoPlayer /\ players[p] # NoPlayer
  BY <1>3, <1>5, NullDocs
<1> QED
  BY <1>5, <1>6, <1>7, <1>8, SavedScores

(* A rematch opens with everybody's score still to be reset.               *)
LEMMA SwapMatchScores ==
  ASSUME ScoreInv, NEW s \in Slots, SwapMatch(s)
  PROVE  ScoreInv'
<1>1. CASE Waits(s, Idle)
  BY <1>1, QuietScores DEF Waits, game, ledger, history
<1>2. CASE ~Waits(s, Idle)
  <2>1. /\ carried' = {p \in Players : players[p] # NoPlayer}
        /\ UNCHANGED <<players, answers>>
    BY <1>2 DEF SwapMatch, ledger
  <2> QED
    BY <2>1 DEF ScoreInv, Adds, AnswersHavePlayers
<1> QED
  BY <1>1, <1>2

(* Who is reset has answered nothing in the new match.                     *)
LEMMA ResetScores ==
  ASSUME IInv, SerialInv, ScoreInv, NEW s \in Slots, NEW p \in Players,
         ResetScore(s, p)
  PROVE  ScoreInv'
<1> DEFINE doc == [op[s].docs[p] EXCEPT !.score = 0]
<1>1. /\ op[s].kind = "rematch" /\ op[s].pc = "reset" /\ p \in op[s].todo
      /\ players' = [players EXCEPT ![p] = doc] /\ carried' = carried \ {p}
      /\ UNCHANGED <<answers, rounds, match>>
  BY DEF ResetScore, At, game
<1>2. ResetKnows(op[s], players, answers, rounds, match)
  BY <1>1 DEF SerialInv, HandlersKnow, Knows
<1>3. players \in [Players -> PlayerDocs \cup {NoPlayer}]
  BY DEF IInv, TypeOK
<1>4. /\ op[s].docs[p] = players[p] /\ players[p] \in PlayerDocs
  BY <1>1, <1>2, <1>3 DEF ResetKnows, Active
<1>5. doc.score = 0 /\ doc # NoPlayer /\ players[p] # NoPlayer
  <2>1. doc \in PlayerDocs /\ doc.score = 0
    BY <1>4 DEF PlayerDocs
  <2> QED
    BY <1>4, <2>1, NullDocs
<1> HIDE DEF doc
<1>6. \A q \in Players : players'[q] = IF q = p THEN doc ELSE players[q]
  BY <1>1, <1>3
<1>7. Total(answers, rounds, match, p) = 0
  <2>1. \A r \in RoundIds : rounds[r].match = match => Earned(answers, p, r) = 0
    BY <1>1, <1>2 DEF ResetKnows, Earned, NoAnswer
  <2> QED
    BY <2>1, NothingEarned
<1>8. ASSUME NEW q \in Players
      PROVE  Adds(q, players', answers', rounds', match', carried')
  BY <1>1, <1>5, <1>6, <1>7 DEF ScoreInv, Adds
<1>9. AnswersHavePlayers'
  BY <1>1, <1>5, <1>6 DEF ScoreInv, AnswersHavePlayers
<1> QED
  BY <1>8, <1>9 DEF ScoreInv

\* The end of a round closes it and moves no answer.
LEMMA SaveEndedScores ==
  ASSUME IInv, ScoreInv, NEW s \in Slots, SaveEnded(s)
  PROVE  ScoreInv'
<1> DEFINE r == op[s].round
<1>1. /\ rounds' = [rounds EXCEPT ![r].status = "ENDED"]
      /\ UNCHANGED <<players, answers, match, carried>>
  BY DEF SaveEnded, ledger, history
<1>2. r \in RoundIds
  BY WhoAndWhere DEF SaveEnded, At
<1>3. \A n \in RoundIds : rounds'[n].match = rounds[n].match
  <2>1. rounds \in [RoundIds -> [match : MatchIds, status : {"ACTIVE", "ENDED"}]
                                 \cup {NoRound}]
    BY DEF IInv, TypeOK
  <2>2. [rounds[r] EXCEPT !.status = "ENDED"].match = rounds[r].match
    BY <1>2, <2>1 DEF NoRound
  <2> QED
    BY <1>1, <1>2, <2>1, <2>2
<1>4. ASSUME NEW p \in Players
      PROVE  Adds(p, players', answers', rounds', match', carried')
  <2>1. SameTotal(answers, answers', rounds, rounds', match, match', p)
    BY <1>1, <1>3, TotalStays
  <2> QED
    BY <1>1, <2>1 DEF ScoreInv, Adds, SameTotal
<1>5. AnswersHavePlayers'
  BY <1>1 DEF ScoreInv, AnswersHavePlayers
<1> QED
  BY <1>4, <1>5 DEF ScoreInv

(* Reading changes nothing.                                                *)
LEMMA WaitScores ==
  ASSUME ScoreInv, NEW s \in Slots, NEW o, Waits(s, o)
  PROVE  ScoreInv'
BY QuietScores DEF Waits, game, ledger, history

LEMMA StepScores ==
  ASSUME IInv, SerialInv, ScoreInv, NEW s \in Slots, Step(s)
  PROVE  ScoreInv'
<1>1. CASE LoadMatch(s) \/ LoadRound(s) \/ LoadPlayer(s) \/ LoadSession(s)
           \/ LoadPrevious(s) \/ ReadRaw(s)
  BY <1>1, WaitScores
     DEF LoadMatch, LoadRound, LoadPlayer, LoadSession, LoadPrevious, ReadRaw
<1>2. CASE Swap(s)
  BY <1>2, SwapScores
<1>3. CASE Ack(s)
  BY <1>3, QuietScores DEF Ack, game, ledger, history
<1>4. CASE LoadLeaver(s)
  BY <1>4, WaitScores DEF LoadLeaver
<1>5. CASE SaveLeaver(s)
  BY <1>5, SaveLeaverScores
<1>6. CASE RevokeSession(s)
  BY <1>6, QuietScores DEF RevokeSession, game, history
<1>7. CASE ListForResults(s)
  BY <1>7, WaitScores DEF ListForResults
<1>8. CASE SaveEnded(s)
  BY <1>8, SaveEndedScores
<1>9. CASE AnnounceEnded(s)
  BY <1>9, QuietScores DEF AnnounceEnded, ledger
<1>10. ASSUME NEW p \in Players, ReadAnswer(s, p)
       PROVE  ScoreInv'
  BY <1>10, WaitScores DEF ReadAnswer
<1>11. ASSUME NEW p \in Players, ResetScore(s, p)
       PROVE  ScoreInv'
  BY <1>11, ResetScores
<1>12. CASE SwapMatch(s)
  BY <1>12, SwapMatchScores
<1>13. CASE ListForReset(s)
  BY <1>13, WaitScores DEF ListForReset
<1> QED
  BY <1>1, <1>2, <1>3, <1>4, <1>5, <1>6, <1>7, <1>8, <1>9, <1>10, <1>11,
     <1>12, <1>13 DEF Step

LEMMA BeginScores ==
  ASSUME ScoreInv, NEW s \in Slots, Begin(s)
  PROVE  ScoreInv'
<1>1. \E o : Waits(s, o)
  BY DEF Begin, BeginAnswer, BeginDeparture, BeginEnd, BeginRematch, Begins
<1> QED
  BY <1>1, WaitScores

LEMMA NextScores ==
  ASSUME IInv, SerialInv, ScoreInv, [Next]_vars
  PROVE  ScoreInv'
<1>1. ASSUME NEW p \in Players, Join(p)
      PROVE  ScoreInv'
  BY <1>1, JoinScores
<1>2. CASE StartRound
  BY <1>2, StartRoundScores
<1>3. ASSUME NEW p \in Players, NEW a \in Actions, NEW r \in RoundIds, Tap(p, a, r)
      PROVE  ScoreInv'
  BY <1>3, QuietScores DEF Tap, game, ledger, history
<1>4. ASSUME NEW r \in RoundIds, Deadline(r)
      PROVE  ScoreInv'
  BY <1>4, QuietScores DEF Deadline, ledger, history
<1>5. CASE Finish
  BY <1>5, QuietScores DEF Finish, ledger, history
<1>6. ASSUME NEW s \in Slots, Begin(s)
      PROVE  ScoreInv'
  BY <1>6, BeginScores
<1>7. ASSUME NEW s \in Slots, Step(s)
      PROVE  ScoreInv'
  BY <1>7, StepScores
<1>8. CASE Crash
  BY <1>8, QuietScores DEF Crash, ledger, history
<1>9. CASE UNCHANGED vars
  BY <1>9, QuietScores DEF vars, game, ledger, history
<1> QED
  BY <1>1, <1>2, <1>3, <1>4, <1>5, <1>6, <1>7, <1>8, <1>9 DEF Next

LEMMA InitScores == Init => ScoreInv
<1> SUFFICES ASSUME Init
             PROVE  ScoreInv
  OBVIOUS
<1>1. ASSUME NEW p \in Players
      PROVE  Adds(p, players, answers, rounds, match, carried)
  <2>1. \A r \in RoundIds : Earned(answers, p, r) = 0
    BY DEF Init, NoAnswers, NoAnswer, Earned
  <2>2. Total(answers, rounds, match, p) = 0
    BY <2>1, NothingEarned
  <2>3. players[p] # NoPlayer => players[p].score = 0
    <3>1. players[p] \in {NewPlayer, NoPlayer}
      BY DEF Init
    <3> QED
      BY <3>1 DEF NewPlayer
  <2> QED
    BY <2>2, <2>3 DEF Adds
<1>2. AnswersHavePlayers
  BY DEF Init, AnswersHavePlayers, NoAnswers
<1> QED
  BY <1>1, <1>2 DEF ScoreInv

\* When operations on one player do not overlap, the score of every player
\* whom the rematch has reset is the sum of the points of the answers that
\* are stored for the rounds of this match, at every moment: changing one's
\* mind never earns and never costs anything but the difference
\* (submitAnswer, resolveAnswer, and the reset in rematch).
THEOREM ScoresAddUp ==
  ASSUME Serially
  PROVE  Spec => []ScoreIsSumOfPoints
<1>1. Init => IInv /\ SerialInv /\ ScoreInv
  BY InitFits, InitKnows, InitScores
<1>2. IInv /\ SerialInv /\ ScoreInv /\ [Next]_vars
        => (IInv /\ SerialInv /\ ScoreInv)'
  BY NextFits, NextKeepsSerial, NextScores
<1>3. IInv /\ ScoreInv => ScoreIsSumOfPoints
  <2>1. SUFFICES ASSUME IInv, ScoreInv, NEW p \in Players,
                        players[p] # NoPlayer, p \notin carried
                 PROVE  players[p].score = SumOfPoints(p)
    BY DEF ScoreIsSumOfPoints
  <2>2. SumOfPoints(p) = Total(answers, rounds, match, p)
    <3>1. SumsToTotal(p)
      BY <2>1, SumIsTotal DEF IInv
    <3> QED
      BY <3>1 DEF SumsToTotal
  <2> QED
    BY <2>1, <2>2 DEF ScoreInv, Adds
<1> QED
  BY <1>1, <1>2, <1>3, PTL DEF Spec
=============================================================================
