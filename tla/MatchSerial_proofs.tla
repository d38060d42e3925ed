------------------------- MODULE MatchSerial_proofs -------------------------
(***************************************************************************)
(* Proofs, for every value of the constants, of what MatchLifecycle keeps  *)
(* when handlers do not overlap (Interleaved = FALSE).  First, however     *)
(* often the process dies or a store call throws: Room.phase is the        *)
(* projection of Match.phase, and the published phase moves as MatchPhases *)
(* promises.  Then, when no call throws: the timer is armed, and the       *)
(* rounds keep pace with the match.                                        *)
(*                                                                         *)
(* Current says how the copies of a handler relate to the store r, ms at   *)
(* each place it may wait at: they are what is stored, but for what the    *)
(* handler has itself written since.                                       *)
(***************************************************************************)
EXTENDS MatchLifecycle_proofs, FiniteSetTheorems

HasWritten == {"touchRoom", "saveResumed", "after"}

\* The verdict of the reducer a handler acts on.
Verdict(o) ==
  /\ Outcome(o).ok
  /\ o.next = Outcome(o).phase /\ o.paused = Outcome(o).paused

AsStored(o, r, ms) ==
  o.room = r /\ o.mid = r.currentMatchId /\ o.mid # 0 /\ o.match = ms[o.mid]

\* Which handlers wait where.
KindFits(o) ==
  /\ o.pc = "saveRound" => o.kind = "startRound"
  /\ o.pc = "saveEnded" =>
       o.kind = "endRound" /\ o.rid = CurrentRoundId(o.match)
  /\ o.pc = "loadRound" => ReadsRound(o)
  /\ o.pc \in {"saveNext", "reloadRoom", "touchRematch"} => o.kind = "rematch"
  /\ o.pc = "saveRoom" => o.kind \in {"lock", "config"}
  /\ o.kind = "rematch" =>
       o.pc \in {"loadRoom", "loadMatch", "saveNext", "swap", "reloadRoom",
                 "touchRematch"}
  /\ o.kind = "reveal" => o.pc \in {"loadRoom", "loadMatch", "loadRound"}
  /\ o.kind \in {"lock", "config"} => o.pc \in {"loadRoom", "saveRoom"}
  /\ o.kind = "none" => o.pc = "idle"

StartReads(o, r, ms) ==
  /\ o.pc \in {"listPlayers", "createMatch", "touchStart"} =>
       o.room = r /\ r.phase = "LOBBY"
  /\ o.pc = "listPlayers" =>
       /\ o.mid = r.currentMatchId
       /\ IF o.mid = 0 THEN o.match = NoMatch
          ELSE o.match = ms[o.mid] /\ o.match.phase = "LOBBY"
  /\ o.pc = "createMatch" => o.mid = 0 /\ r.currentMatchId = 0
  /\ o.pc = "touchStart" =>
       /\ o.mid # 0 /\ r.currentMatchId \in {0, o.mid}
       /\ o.match = ms[o.mid] /\ o.match.phase = "LOBBY"

\* What the swap leaves of the match.
Swapped(o) == [Patched(o) EXCEPT !.phase = o.next, !.paused = o.paused]

TransitionReads(o, r, ms) ==
  /\ o.pc = "loadMatch" => o.room = r /\ o.mid = r.currentMatchId
  /\ o.pc \in {"loadRound", "saveRound", "saveEnded", "saveMatch"} =>
       AsStored(o, r, ms)
  /\ o.pc \in {"saveMatch"} \cup HasWritten => Verdict(o)
  /\ o.pc = "swap" /\ o.kind # "rematch" =>
       /\ o.room = r /\ o.mid = r.currentMatchId /\ o.mid # 0
       /\ ms[o.mid] = Patched(o) /\ Verdict(o)
  /\ o.pc \in HasWritten =>
       /\ r = [o.room EXCEPT !.phase = o.next]
       /\ o.mid = r.currentMatchId /\ o.mid # 0 /\ ms[o.mid] = Swapped(o)

RematchReads(o, r, ms) ==
  /\ o.pc = "saveNext" => AsStored(o, r, ms) /\ o.match.phase = "FINISHED"
  /\ o.kind = "rematch" /\ o.pc \in {"swap", "reloadRoom", "touchRematch"} =>
       /\ o.mid # 0 /\ r.currentMatchId # 0 /\ o.mid # r.currentMatchId
       /\ ms[r.currentMatchId].phase = "FINISHED"
       /\ o.next = "LOBBY" /\ o.paused = NoPause /\ o.match.phase = "FINISHED"
  /\ o.pc \in {"reloadRoom", "touchRematch"} =>
       r.phase = "LOBBY" /\ ms[o.mid].phase = "LOBBY"
  /\ o.pc = "touchRematch" => o.room = r

EditReads(o, r) ==
  o.pc = "saveRoom" =>
    /\ o.room.phase = r.phase /\ o.room.currentMatchId = r.currentMatchId
    /\ o.room.config = r.config \/ r.phase = "LOBBY"

Current(o, r, ms) ==
  /\ KindFits(o) /\ StartReads(o, r, ms) /\ TransitionReads(o, r, ms)
  /\ RematchReads(o, r, ms) /\ EditReads(o, r)

Solo ==
  \A s, t \in Slots : op[s].pc # "idle" /\ op[t].pc # "idle" => s = t

Projects(r, ms) ==
  IF r.currentMatchId = 0 THEN r.phase = "LOBBY"
  ELSE \/ r.phase = ms[r.currentMatchId].phase
       \/ ms[r.currentMatchId].phase = "FINISHED" /\ r.phase = "LOBBY"

\* The inductive invariant.
SoloInv ==
  Solo /\ Projects(room, matches) /\ \A s \in Slots : Current(op[s], room, matches)

\* What the clients see.
PausedOf(r, ms) ==
  IF r.currentMatchId = 0 THEN NoPause ELSE ms[r.currentMatchId].paused
Seen(r, ms) == <<r.phase, PausedOf(r, ms), r.config.pacing>>

\* What each step has to show.
Keeps == SoloInv' /\ (Published!Next \/ Seen(room', matches') = Seen(room, matches))

-----------------------------------------------------------------------------
(* Handlers at work.                                                       *)

LEMMA IdleCurrent ==
  ASSUME NEW r, NEW ms
  PROVE  Current(Idle, r, ms)
BY DEF Idle, Current, KindFits, StartReads, TransitionReads, RematchReads,
       EditReads, HasWritten

LEMMA BeginCurrent ==
  ASSUME NEW r, NEW ms, NEW kind \in HostKinds \cup TimerKinds \cup {"recover"}
  PROVE  Current(Begin(kind), r, ms)
<1>1. /\ Begin(kind).pc = "loadRoom" /\ Begin(kind).kind = kind
      /\ kind # "none"
  BY DEF Begin, Idle, HostKinds, TimerKinds
<1> QED
  BY <1>1 DEF Current, KindFits, StartReads, TransitionReads, RematchReads,
              EditReads, HasWritten

\* The only handler that works moves on.
LEMMA SoloStep ==
  ASSUME Fits, SoloInv, NEW s \in Slots, op[s].pc # "idle", NEW o,
         op' = [op EXCEPT ![s] = o],
         Current(o, room', matches'), Projects(room', matches')
  PROVE  SoloInv'
<1>1. \A t \in Slots : op'[t] = IF t = s THEN o ELSE op[t]
  BY DEF Fits
<1>2. \A t \in Slots : t # s => op[t].pc = "idle"
  BY DEF SoloInv, Solo
<1>3. ASSUME NEW t \in Slots
      PROVE  Current(op'[t], room', matches')
  <2>1. CASE t = s
    BY <1>1, <2>1
  <2>2. CASE t # s
    <3>1. op[t].pc = "idle" /\ op'[t] = op[t] /\ KindFits(op[t])
      BY <1>1, <1>2, <2>2 DEF SoloInv, Current
    <3> QED
      BY <3>1 DEF Current, StartReads, TransitionReads, RematchReads, EditReads, HasWritten
  <2> QED
    BY <2>1, <2>2
<1>4. Solo'
  BY <1>1, <1>2 DEF Solo
<1> QED
  BY <1>3, <1>4 DEF SoloInv

\* A step that leaves room and matches alone.
LEMMA ReadKeeps ==
  ASSUME Fits, SoloInv, NEW s \in Slots, op[s].pc # "idle", NEW o,
         op' = [op EXCEPT ![s] = o], UNCHANGED <<room, matches>>,
         Current(o, room, matches)
  PROVE  Keeps
<1>1. SoloInv'
  BY SoloStep DEF SoloInv
<1>2. Seen(room', matches') = Seen(room, matches)
  BY DEF Seen, PausedOf
<1> QED
  BY <1>1, <1>2 DEF Keeps

\* What applyTransition makes of a handler before its first store call.
LEMMA DecidedIs ==
  ASSUME NEW o \in Ops, o.match \in MatchDocs, Outcome(o).ok
  PROVE  /\ Decided(o) \in Ops
         /\ Decided(o).kind = o.kind /\ Decided(o).room = o.room
         /\ Decided(o).mid = o.mid /\ Decided(o).match = o.match
         /\ Decided(o).rid = o.rid /\ Decided(o).rstat = o.rstat
         /\ Decided(o).pc \in {"swap", "saveMatch"}
         /\ Decided(o).pc = "swap" => Patched(Decided(o)) = o.match
         /\ Verdict(Decided(o))
<1> DEFINE result == Outcome(o)
           accepted == [o EXCEPT !.next = result.phase,
                                 !.paused = result.paused]
           place == IF Patched(accepted) = o.match THEN "swap" ELSE "saveMatch"
           d == Decided(o)
<1>1. o.match.phase \in Phases /\ EventOf(o) \in EventRecords
  BY EventFits DEF MatchDocs
<1>2. /\ result.phase \in Phases
      /\ result.paused \in PausedStates \cup {NoPause}
  BY <1>1, TransitionFits DEF Outcome
<1>3. d = [accepted EXCEPT !.pc = place]
  BY DEF Decided
<1>4. place \in {"swap", "saveMatch"} /\ (place = "swap" => Patched(accepted) = o.match)
  OBVIOUS
<1>a. /\ accepted.kind = o.kind /\ accepted.match = o.match
      /\ accepted.rid = o.rid /\ accepted.next = result.phase
  BY DEF Ops
<1> HIDE DEF place, result
<1>5. d = [o EXCEPT !.next = result.phase, !.paused = result.paused,
                    !.pc = place]
  BY <1>3 DEF Ops
<1> HIDE DEF accepted, d
<1>6. /\ d.kind = o.kind /\ d.room = o.room /\ d.mid = o.mid
      /\ d.match = o.match /\ d.rid = o.rid /\ d.rstat = o.rstat
      /\ d.next = result.phase /\ d.paused = result.paused /\ d.pc = place
      /\ d \in Ops
  BY <1>2, <1>4, <1>5 DEF Ops
<1>7. Patched(d) = Patched(accepted)
  BY <1>a, <1>6 DEF Patched, EntersNextRound
<1>8. Outcome(d) = result
  BY <1>6 DEF Outcome, EventOf, result
<1>9. Verdict(d)
  BY <1>6, <1>8 DEF Verdict, result
<1> QED
  BY <1>4, <1>6, <1>7, <1>9 DEF d

\* The handlers that come to a transition; of the others, some end before.
Movers == {"start", "pause", "resume", "next", "finish", "startRound",
           "endRound", "advance", "recover"}

LEMMA DecidedCurrent ==
  ASSUME NEW o \in Ops, o.match \in MatchDocs, o.kind \in Movers,
         NEW r, NEW ms, AsStored(o, r, ms)
  PROVE  Current(Decided(o), r, ms)
<1>1. CASE ~Outcome(o).ok
  BY <1>1, IdleCurrent DEF Decided
<1>2. CASE Outcome(o).ok
  <2> DEFINE d == Decided(o)
  <2>1. /\ d.kind = o.kind /\ d.room = o.room /\ d.mid = o.mid
        /\ d.match = o.match /\ d.pc \in {"swap", "saveMatch"}
        /\ d.pc = "swap" => Patched(d) = o.match
        /\ Verdict(d)
    BY <1>2, DecidedIs
  <2> HIDE DEF d
  <2>2. KindFits(d)
    BY <2>1 DEF KindFits, Movers
  <2>3. TransitionReads(d, r, ms)
    BY <2>1 DEF TransitionReads, AsStored, HasWritten
  <2>4. StartReads(d, r, ms) /\ RematchReads(d, r, ms) /\ EditReads(d, r)
    BY <2>1 DEF StartReads, RematchReads, EditReads, Movers
  <2> QED
    BY <2>2, <2>3, <2>4 DEF Current, d
<1> QED
  BY <1>1, <1>2

\* Nothing moves a finished match.
LEMMA FinishedStops ==
  ASSUME NEW o \in Ops, o.match.phase = "FINISHED"
  PROVE  ~Outcome(o).ok
<1> DEFINE event == EventOf(o)
           pacing == o.room.config.pacing
<1>1. Outcome(o) = Transition("FINISHED", event, pacing)
  BY DEF Outcome
<1>2. \A code : ~Reject(code).ok
  BY DEF Reject
<1> HIDE DEF event, pacing
<1>3. PauseTransition("FINISHED", event) = Reject("INVALID_PHASE")
  BY DEF PauseTransition, PausablePhases
<1>4. \A allowed : ResumeTransition("FINISHED", event, allowed) = Reject("INVALID_PHASE")
  BY DEF ResumeTransition
<1>5. FinishTransition("FINISHED") = Reject("INVALID_PHASE")
  BY DEF FinishTransition
<1>6. TableTransition("FINISHED", event, pacing) = Reject("INVALID_PHASE")
  BY DEF TableTransition, Targets
<1> QED
  BY <1>1, <1>2, <1>3, <1>4, <1>5, <1>6 DEF Transition

-----------------------------------------------------------------------------
(* The actions of a handler.                                               *)

\* What the invariants say of the handler in one slot.
LEMMA Worker ==
  ASSUME Fits, SoloInv, NEW s \in Slots
  PROVE  /\ op[s] \in Ops /\ OpFits(op[s], matches, rounds) /\ PlaceFits(op[s])
         /\ Current(op[s], room, matches) /\ KindFits(op[s])
         /\ room \in RoomDocs
         /\ matches \in [MatchIds -> MatchDocs \cup {NoMatch}]
         /\ room.currentMatchId # 0 =>
              /\ room.currentMatchId \in MatchIds
              /\ matches[room.currentMatchId] \in MatchDocs
              /\ MatchFits(room.currentMatchId, matches[room.currentMatchId], rounds)
<1>1. room \in RoomDocs /\ matches \in [MatchIds -> MatchDocs \cup {NoMatch}]
  BY DEF Fits, StoreFits, StoreTypes, RoomFits
<1>2. ASSUME room.currentMatchId # 0
      PROVE  /\ room.currentMatchId \in MatchIds
             /\ matches[room.currentMatchId] # NoMatch
  BY <1>1, <1>2 DEF Fits, StoreFits, RoomFits, RoomDocs
<1>3. ASSUME room.currentMatchId # 0
      PROVE  MatchFits(room.currentMatchId, matches[room.currentMatchId], rounds)
  BY <1>2, <1>3, HolderMatch
<1> QED
  BY <1>1, <1>2, <1>3, Holder DEF OpFits, SoloInv, Current, MatchFits

LEMMA IdleKeeps ==
  ASSUME Fits, SoloInv, NEW s \in Slots, op[s].pc # "idle",
         op' = [op EXCEPT ![s] = Idle], UNCHANGED <<room, matches>>
  PROVE  Keeps
BY IdleCurrent, ReadKeeps

LEMMA LoadRoomKeeps ==
  ASSUME Fits, SoloInv, NEW s \in Slots, LoadRoom(s)
  PROVE  Keeps
<1> DEFINE o == op[s]
           place == IF room.currentMatchId = 0 THEN "listPlayers"
                                               ELSE "loadMatch"
           loaded == [o EXCEPT !.room = room, !.mid = room.currentMatchId,
                               !.pc = place]
<1>1. /\ o.pc = "loadRoom" /\ o.kind \in MatchKinds /\ UNCHANGED <<room, matches>>
      /\ \/ op' = [op EXCEPT ![s] = Idle]
         \/ /\ op' = [op EXCEPT ![s] = loaded]
            /\ room.currentMatchId = 0 => o.kind = "start"
  BY DEF LoadRoom, At, Becomes
<1>2. /\ o \in Ops /\ o.match = NoMatch /\ room.currentMatchId \in MatchIds \cup {0}
      /\ Projects(room, matches) /\ KindFits(o)
  BY <1>1, Worker DEF PlaceFits, RoomDocs, SoloInv
<1>3. /\ loaded.pc = place /\ loaded.kind = o.kind /\ loaded.room = room
      /\ loaded.mid = room.currentMatchId /\ loaded.match = NoMatch
  BY <1>2 DEF Ops
<1> HIDE DEF loaded
<1>4. CASE op' = [op EXCEPT ![s] = loaded] /\ (room.currentMatchId = 0 => o.kind = "start")
  <2>1. Current(loaded, room, matches)
    BY <1>1, <1>2, <1>3, <1>4
       DEF Current, KindFits, StartReads, TransitionReads, RematchReads, EditReads,
           HasWritten, Projects, MatchKinds
  <2> QED
    BY <1>1, <1>4, <2>1, ReadKeeps
<1> QED
  BY <1>1, <1>4, IdleKeeps

LEMMA LoadMatchKeeps ==
  ASSUME Fits, SoloInv, NEW s \in Slots, LoadMatch(s)
  PROVE  Keeps
<1> DEFINE o == op[s]
           loaded == [o EXCEPT !.match = matches[o.mid]]
           place == PlaceAfterMatch(o.kind)
           placed == [loaded EXCEPT !.pc = PlaceAfterMatch(loaded.kind)]
<1>1. /\ o.pc = "loadMatch" /\ UNCHANGED <<room, matches>>
      /\ op' = [op EXCEPT ![s] = WithMatch(loaded)]
  BY DEF LoadMatch, At, Becomes
<1>2. /\ o \in Ops /\ o.mid = room.currentMatchId /\ o.mid # 0 /\ o.room = room
      /\ matches[o.mid] \in MatchDocs /\ KindFits(o)
  BY <1>1, Worker DEF PlaceFits, Current, TransitionReads
<1>3. /\ loaded \in Ops /\ loaded.kind = o.kind /\ loaded.room = room
      /\ loaded.mid = o.mid /\ loaded.match = matches[o.mid]
      /\ loaded.pc = "loadMatch"
  BY <1>1, <1>2 DEF Ops
<1> HIDE DEF loaded
<1>4. AsStored(loaded, room, matches)
  BY <1>2, <1>3 DEF AsStored
<1>5. CASE RefusesMatch(loaded)
  BY <1>1, <1>5, IdleKeeps DEF WithMatch
<1>6. CASE ~RefusesMatch(loaded) /\ (ReadsRound(loaded)
             \/ loaded.kind \in {"start", "startRound", "rematch"})
  <2>1. WithMatch(loaded) = placed
    BY <1>6 DEF WithMatch
  <2>2. /\ place \in {"listPlayers", "saveRound", "saveNext", "loadRound"}
        /\ place = "listPlayers" <=> o.kind = "start"
        /\ place = "saveRound" <=> o.kind = "startRound"
        /\ place = "saveNext" <=> o.kind = "rematch"
    BY Zenon DEF PlaceAfterMatch
  <2>3. /\ placed.kind = o.kind /\ placed.room = room
        /\ placed.mid = o.mid /\ placed.match = matches[o.mid]
        /\ placed.pc = place
    BY <1>3, <2>2 DEF Ops
  <2> HIDE DEF placed, place
  <2>4. /\ o.kind = "start" => /\ matches[o.mid].phase = "LOBBY"
                               /\ room.phase = "LOBBY"
        /\ o.kind = "rematch" => matches[o.mid].phase = "FINISHED"
        /\ place = "loadRound" => ReadsRound(placed)
    BY <1>3, <1>6, <2>2, <2>3 DEF RefusesMatch, ReadsRound
  <2>5. KindFits(placed)
    BY <1>1, <1>2, <2>2, <2>3, <2>4 DEF KindFits
  <2>6. /\ StartReads(placed, room, matches) /\ EditReads(placed, room)
        /\ TransitionReads(placed, room, matches) /\ RematchReads(placed, room, matches)
    BY <1>1, <1>2, <2>2, <2>3, <2>4
       DEF StartReads, TransitionReads, RematchReads, EditReads, AsStored, HasWritten
  <2> QED
    BY <1>1, <2>1, <2>5, <2>6, ReadKeeps DEF Current
<1>7. CASE ~RefusesMatch(loaded) /\ ~ReadsRound(loaded)
             /\ loaded.kind \notin {"start", "startRound", "rematch"}
  <2>1. WithMatch(loaded) = Decided(loaded)
    BY <1>7 DEF WithMatch
  <2>2. loaded.kind \in Movers
    BY <1>1, <1>2, <1>3, <1>7
       DEF KindFits, RefusesMatch, Movers, Ops, HostKinds, TimerKinds
  <2>3. Current(Decided(loaded), room, matches)
    BY <1>2, <1>3, <1>4, <2>2, DecidedCurrent
  <2> QED
    BY <1>1, <2>1, <2>3, ReadKeeps
<1> QED
  BY <1>5, <1>6, <1>7

LEMMA ListPlayersKeeps ==
  ASSUME Fits, SoloInv, NEW s \in Slots, ListPlayers(s)
  PROVE  Keeps
<1> DEFINE o == op[s]
           place == IF o.match = NoMatch THEN "createMatch" ELSE "touchStart"
           placed == [o EXCEPT !.pc = place]
<1>1. /\ o.pc = "listPlayers" /\ UNCHANGED <<room, matches>>
      /\ \/ op' = [op EXCEPT ![s] = Idle]
         \/ op' = [op EXCEPT ![s] = placed]
  BY DEF ListPlayers, At, Becomes
<1>2. /\ o \in Ops /\ KindFits(o) /\ o.kind = "start" /\ StartReads(o, room, matches)
      /\ o.mid = room.currentMatchId
  BY <1>1, Worker DEF PlaceFits, OfStart, Current, StartReads
<1>3. o.mid # 0 => o.match # NoMatch
  <2>1. NoMatch.phase # "LOBBY"
    BY DEF NoMatch
  <2> QED
    BY <1>1, <1>2, <2>1 DEF StartReads
<1>4. /\ placed.kind = "start" /\ placed.room = o.room /\ placed.mid = o.mid
      /\ placed.match = o.match /\ placed.pc = place
  BY <1>2 DEF Ops
<1> HIDE DEF placed
<1>5. StartReads(placed, room, matches)
  BY <1>1, <1>2, <1>3, <1>4 DEF StartReads
<1>6. /\ KindFits(placed) /\ TransitionReads(placed, room, matches)
      /\ RematchReads(placed, room, matches) /\ EditReads(placed, room)
  BY <1>4 DEF KindFits, TransitionReads, RematchReads, EditReads, HasWritten
<1> QED
  BY <1>1, <1>5, <1>6, IdleKeeps, ReadKeeps DEF Current

LEMMA LoadRoundKeeps ==
  ASSUME Fits, SoloInv, NEW s \in Slots, LoadRound(s)
  PROVE  Keeps
<1> DEFINE o == op[s]
           last == CurrentRoundId(o.match)
           status == rounds[last].status
           loaded == [o EXCEPT !.rid = last, !.rstat = status]
           ended == [loaded EXCEPT !.pc = "saveEnded"]
<1>1. /\ o.pc = "loadRound" /\ o.kind # "reveal" /\ UNCHANGED <<room, matches>>
      /\ \/ op' = [op EXCEPT ![s] = Idle]
         \/ op' = [op EXCEPT ![s] = ended] /\ loaded.kind = "endRound"
         \/ op' = [op EXCEPT ![s] = Decided(loaded)]
  BY DEF LoadRound, At, Becomes
<1>2. /\ o \in Ops /\ ReadsRound(o) /\ AsStored(o, room, matches)
      /\ o.match \in MatchDocs /\ OpFits(o, matches, rounds)
  BY <1>1, Worker DEF KindFits, Current, TransitionReads, AsStored
<1>3. last \in RoundIds /\ status \in {"ACTIVE", "ENDED"}
  <2>1. o.match.roundIds \in Seq(RoundIds) /\ o.match.roundIds # <<>>
    BY <1>2 DEF MatchDocs, ReadsRound
  <2>2. last \in RoundIds /\ Len(o.match.roundIds) \in 1..Len(o.match.roundIds)
    BY <2>1 DEF CurrentRoundId
  <2>3. rounds[last].match = o.mid /\ o.mid # 0
    BY <1>2, <2>1, <2>2, NullDocs DEF OpFits, MatchFits, CurrentRoundId, AsStored
  <2>4. rounds[last] \in RoundDocs \cup {NoRound}
    BY <2>2 DEF Fits, StoreFits, StoreTypes
  <2> QED
    BY <2>2, <2>3, <2>4 DEF NoRound, RoundDocs
<1>4. last = CurrentRoundId(o.match)
  OBVIOUS
<1> HIDE DEF last, status
<1>r. o \in Ops /\ last \in RoundIds \cup {0}
  BY <1>2, <1>3
<1>l. loaded = [o EXCEPT !.rid = last, !.rstat = status]
  OBVIOUS
<1> HIDE DEF loaded, o
<1>5. /\ loaded \in Ops /\ loaded.kind = o.kind /\ loaded.room = o.room
      /\ loaded.mid = o.mid /\ loaded.match = o.match /\ loaded.rid = last
  BY <1>r, <1>l, <1>3 DEF Ops
<1>6. AsStored(loaded, room, matches) /\ loaded.kind \in Movers
  BY <1>1, <1>2, <1>5 DEF AsStored, ReadsRound, Movers
<1>7. Current(Decided(loaded), room, matches)
  BY <1>2, <1>5, <1>6, DecidedCurrent
<1>8. ASSUME loaded.kind = "endRound"
      PROVE  Current(ended, room, matches)
  <2>1. /\ ended.kind = "endRound" /\ ended.pc = "saveEnded"
        /\ ended.room = loaded.room /\ ended.mid = loaded.mid
        /\ ended.match = loaded.match /\ ended.rid = loaded.rid
    BY <1>5, <1>8 DEF Ops
  <2> HIDE DEF ended
  <2> QED
    BY <1>4, <1>5, <1>6, <2>1
       DEF Current, KindFits, StartReads, TransitionReads, RematchReads, EditReads,
           AsStored, HasWritten
<1> HIDE DEF ended
<1> QED
  BY <1>1, <1>7, <1>8, IdleKeeps, ReadKeeps DEF o

LEMMA RefuseRoundKeeps ==
  ASSUME Fits, SoloInv, NEW s \in Slots, RefuseRound(s)
  PROVE  Keeps
<1>1. /\ op[s].pc # "idle" /\ UNCHANGED <<room, matches>>
      /\ op' = [op EXCEPT ![s] = Idle]
  BY DEF RefuseRound, At, Becomes
<1> QED
  BY <1>1, IdleKeeps

LEMMA GateRevealKeeps ==
  ASSUME Fits, SoloInv, NEW s \in Slots, GateReveal(s)
  PROVE  Keeps
<1>1. /\ op[s].pc # "idle" /\ UNCHANGED <<room, matches>>
      /\ \/ op' = [op EXCEPT ![s] = Idle]
         \/ op' = [op EXCEPT ![s] = Begin("endRound")]
  BY DEF GateReveal, At, Becomes
<1>2. Current(Begin("endRound"), room, matches)
  BY BeginCurrent DEF TimerKinds
<1> QED
  BY <1>1, <1>2, IdleKeeps, ReadKeeps

\* A fresh id is not the current match's.
LEMMA FreshIsOther ==
  ASSUME Fits, NEW m \in MatchIds, FreshMatchId(m)
  PROVE  m # 0 /\ m # room.currentMatchId
<1>1. matches[m] = NoMatch
  BY DEF FreshMatchId
<1>2. room.currentMatchId # 0 => matches[room.currentMatchId] # NoMatch
  BY DEF Fits, StoreFits, RoomFits
<1> QED
  BY <1>1, <1>2 DEF MatchIds

LEMMA CreateMatchKeeps ==
  ASSUME Fits, SoloInv, NEW s \in Slots, CreateMatch(s)
  PROVE  Keeps
<1> DEFINE o == op[s]
           doc == NewMatch(1, "LOBBY")
<1>1. o.pc = "createMatch"
  BY DEF CreateMatch, At
<1>2. PICK m \in MatchIds :
        /\ matches' = [matches EXCEPT ![m] = doc] /\ room' = room
        /\ op' = [op EXCEPT ![s] = [o EXCEPT !.mid = m, !.pc = "touchStart",
                                             !.match = doc]]
  BY DEF CreateMatch, Becomes
<1>3. /\ o \in Ops /\ o.kind = "start" /\ o.room = room /\ room.phase = "LOBBY"
      /\ room.currentMatchId = 0
  BY <1>1, Worker DEF PlaceFits, OfStart, Current, StartReads
<1>4. doc.phase = "LOBBY" /\ m # 0
  BY DEF NewMatch, MatchIds
<1> HIDE DEF doc
<1>5. matches'[m] = doc
  BY <1>2, Worker
<1> DEFINE next == [o EXCEPT !.mid = m, !.pc = "touchStart", !.match = doc]
<1>6. /\ next.kind = "start" /\ next.room = room /\ next.mid = m
      /\ next.pc = "touchStart" /\ next.match = doc
  BY <1>3 DEF Ops
<1> HIDE DEF next
<1>7. Current(next, room', matches')
  BY <1>2, <1>3, <1>4, <1>5, <1>6
     DEF Current, KindFits, StartReads, TransitionReads, RematchReads, EditReads,
         HasWritten
<1>8. Projects(room', matches') /\ Seen(room', matches') = Seen(room, matches)
  BY <1>2, <1>3 DEF Projects, Seen, PausedOf
<1> QED
  BY <1>1, <1>2, <1>7, <1>8, SoloStep DEF Keeps, next

LEMMA TouchStartKeeps ==
  ASSUME Fits, SoloInv, NEW s \in Slots, TouchStart(s)
  PROVE  Keeps
<1> DEFINE o == op[s]
           noted == [o EXCEPT !.room = room']
<1>1. /\ o.pc = "touchStart" /\ room' = [o.room EXCEPT !.currentMatchId = o.mid]
      /\ op' = [op EXCEPT ![s] = Decided(noted)] /\ matches' = matches
  BY DEF TouchStart, At, Becomes
<1>2. /\ o \in Ops /\ o.kind = "start" /\ o.room = room /\ room.phase = "LOBBY"
      /\ o.mid # 0 /\ room.currentMatchId \in {0, o.mid}
      /\ o.match = matches[o.mid] /\ o.match.phase = "LOBBY"
      /\ OpFits(o, matches, rounds) /\ room \in RoomDocs
  BY <1>1, Worker DEF PlaceFits, OfStart, Current, StartReads
<1>3. /\ o.mid \in MatchIds /\ MatchFits(o.mid, matches[o.mid], rounds)
      /\ o.match \in MatchDocs /\ matches[o.mid].paused = NoPause
  BY <1>2, HolderMatch DEF OpFits, Ops, MatchFits, PauseFits
<1>4. /\ room' \in RoomDocs /\ room'.currentMatchId = o.mid
      /\ room'.phase = "LOBBY" /\ room'.config = room.config
  BY <1>1, <1>2, <1>3 DEF RoomDocs
<1>5. /\ noted \in Ops /\ noted.kind = "start" /\ noted.room = room'
      /\ noted.mid = o.mid /\ noted.match = o.match
  BY <1>2, <1>4 DEF Ops
<1> HIDE DEF noted
<1>6. Current(Decided(noted), room', matches')
  BY <1>1, <1>2, <1>3, <1>4, <1>5, DecidedCurrent DEF AsStored, Movers
<1>7. Projects(room', matches')
  BY <1>1, <1>2, <1>4 DEF Projects
<1>8. Seen(room', matches') = Seen(room, matches)
  BY <1>1, <1>2, <1>3, <1>4 DEF Seen, PausedOf
<1> QED
  BY <1>1, <1>6, <1>7, <1>8, SoloStep DEF Keeps

LEMMA SaveRoundKeeps ==
  ASSUME Fits, SoloInv, NEW s \in Slots, SaveRound(s)
  PROVE  Keeps
<1> DEFINE o == op[s]
<1>1. o.pc = "saveRound" /\ UNCHANGED <<room, matches>>
  BY DEF SaveRound, At
<1>2. PICK r \in RoundIds :
        op' = [op EXCEPT ![s] = Decided([o EXCEPT !.rid = r, !.rstat = "ACTIVE"])]
  BY DEF SaveRound, Becomes
<1> DEFINE noted == [o EXCEPT !.rid = r, !.rstat = "ACTIVE"]
<1>3. /\ o \in Ops /\ o.kind = "startRound" /\ AsStored(o, room, matches)
      /\ o.match \in MatchDocs
  BY <1>1, Worker DEF KindFits, Current, TransitionReads, AsStored
<1>r. o \in Ops /\ noted = [o EXCEPT !.rid = r, !.rstat = "ACTIVE"]
      /\ op' = [op EXCEPT ![s] = Decided(noted)]
  BY <1>2, <1>3
<1> HIDE DEF noted, o
<1>4. /\ noted \in Ops /\ noted.kind = o.kind /\ noted.room = o.room
      /\ noted.mid = o.mid /\ noted.match = o.match
  BY <1>r DEF Ops
<1>5. Current(Decided(noted), room, matches)
  BY <1>3, <1>4, DecidedCurrent DEF AsStored, Movers
<1> QED
  BY <1>1, <1>r, <1>5, ReadKeeps DEF o

LEMMA SaveEndedKeeps ==
  ASSUME Fits, SoloInv, NEW s \in Slots, SaveEnded(s)
  PROVE  Keeps
<1> DEFINE o == op[s]
<1>1. /\ o.pc = "saveEnded" /\ UNCHANGED <<room, matches>>
      /\ op' = [op EXCEPT ![s] = Decided(o)]
  BY DEF SaveEnded, At, Becomes
<1>2. /\ o \in Ops /\ o.kind = "endRound" /\ AsStored(o, room, matches)
      /\ o.match \in MatchDocs
  BY <1>1, Worker DEF KindFits, Current, TransitionReads, AsStored
<1>3. Current(Decided(o), room, matches)
  BY <1>2, DecidedCurrent DEF Movers
<1> QED
  BY <1>1, <1>3, ReadKeeps

\* Only pc changes: what the other fields say stays.
SwapPlaces == {"swap", "touchRoom", "reloadRoom", "saveResumed", "after"}

LEMMA OnlyPlace ==
  ASSUME NEW o \in Ops, NEW place \in SwapPlaces, NEW d, d = [o EXCEPT !.pc = place]
  PROVE  /\ d \in Ops /\ d.pc = place
         /\ d.kind = o.kind /\ d.room = o.room /\ d.mid = o.mid
         /\ d.match = o.match /\ d.rid = o.rid /\ d.rstat = o.rstat
         /\ d.next = o.next /\ d.paused = o.paused
         /\ Patched(d) = Patched(o) /\ Swapped(d) = Swapped(o)
         /\ Outcome(d) = Outcome(o) /\ (Verdict(o) => Verdict(d))
<1>1. /\ d \in Ops /\ d.pc = place
      /\ d.kind = o.kind /\ d.room = o.room /\ d.mid = o.mid
      /\ d.match = o.match /\ d.rid = o.rid /\ d.rstat = o.rstat
      /\ d.next = o.next /\ d.paused = o.paused
  BY DEF Ops, SwapPlaces
<1>2. Patched(d) = Patched(o)
  BY <1>1 DEF Patched, EntersNextRound
<1>3. Swapped(d) = Swapped(o)
  BY <1>1, <1>2 DEF Swapped
<1>4. Outcome(d) = Outcome(o)
  BY <1>1 DEF Outcome, EventOf
<1>5. Verdict(o) => Verdict(d)
  BY <1>1, <1>4 DEF Verdict
<1> QED
  BY <1>1, <1>2, <1>3, <1>4, <1>5

\* The bookkeeping keeps phase and pause state.
LEMMA PatchedKeeps ==
  ASSUME NEW o \in Ops, o.match \in MatchDocs
  PROVE  /\ Patched(o).phase = o.match.phase
         /\ Patched(o).paused = o.match.paused
BY DEF Patched, MatchDocs

LEMMA SaveMatchKeeps ==
  ASSUME Fits, SoloInv, NEW s \in Slots, SaveMatch(s)
  PROVE  Keeps
<1> DEFINE o == op[s]
           moved == [o EXCEPT !.pc = "swap"]
<1>1. /\ o.pc = "saveMatch" /\ room' = room
      /\ matches' = [matches EXCEPT ![o.mid] = Patched(o)]
      /\ op' = [op EXCEPT ![s] = moved]
  BY DEF SaveMatch, At, Becomes
<1>2. /\ o \in Ops /\ AsStored(o, room, matches) /\ Verdict(o) /\ KindFits(o)
      /\ o.match \in MatchDocs /\ o.mid \in MatchIds
      /\ matches \in [MatchIds -> MatchDocs \cup {NoMatch}]
  BY <1>1, Worker DEF Current, TransitionReads, AsStored
<1>3. /\ moved.pc = "swap" /\ moved.kind = o.kind /\ moved.room = o.room
      /\ moved.mid = o.mid /\ Patched(moved) = Patched(o) /\ Verdict(moved)
  BY <1>2, OnlyPlace DEF SwapPlaces
<1> HIDE DEF moved
<1>4. matches'[o.mid] = Patched(o)
  BY <1>1, <1>2
<1>5. o.kind # "rematch"
  BY <1>1, <1>2 DEF KindFits
<1>6. Current(moved, room', matches')
  BY <1>1, <1>2, <1>3, <1>4, <1>5
     DEF Current, KindFits, StartReads, TransitionReads, RematchReads, EditReads,
         AsStored, HasWritten
<1>7. /\ matches'[o.mid].phase = matches[o.mid].phase
      /\ matches'[o.mid].paused = matches[o.mid].paused
  BY <1>2, <1>4, PatchedKeeps DEF AsStored
<1>8. Projects(room', matches') /\ Seen(room', matches') = Seen(room, matches)
  BY <1>1, <1>2, <1>7 DEF SoloInv, Projects, Seen, PausedOf, AsStored
<1> QED
  BY <1>1, <1>6, <1>8, SoloStep DEF Keeps

-----------------------------------------------------------------------------
(* The swap, seen from outside.                                            *)

\* MatchPhases has the same reducer.
LEMMA SameReducer ==
  ASSUME NEW phase, NEW event, NEW pacing
  PROVE  Published!Transition(phase, event, pacing) = Transition(phase, event, pacing)
BY DEF Published!Transition, Transition, Published!PauseTransition, PauseTransition,
       Published!ResumeTransition, ResumeTransition, Published!FinishTransition,
       FinishTransition, Published!TableTransition, TableTransition,
       Published!Accept, Accept, Published!Reject, Reject, Published!Requested,
       Requested, Published!Targets, Targets, Published!PausablePhases,
       PausablePhases, Published!ResumablePhases, ResumablePhases,
       Published!RecoveryResumablePhases, RecoveryResumablePhases,
       Published!Pacings, Pacings, Published!NoPause, NoPause

\* The events of MatchPhases.
LEMMA EventsOfMoves ==
  /\ \A type \in Published!EventTypes \ {"HOST_PAUSE"},
        next \in Published!Phases \cup {"none"} :
       Published!EventTo(type, next) \in Published!Events
  /\ \A reason \in Published!Reasons :
       Published!PauseEvent(reason, TRUE) \in Published!Events
<1> DEFINE Named == {Published!EventTo(type, next) :
                       type \in Published!EventTypes \ {"HOST_PAUSE"},
                       next \in Published!Phases \cup {"none"}}
           Paused == {Published!PauseEvent(reason, TRUE) :
                        reason \in Published!Reasons}
<1>1. Published!Events = Named \cup Paused
  BY DEF Published!Events
<1>2. \A type \in Published!EventTypes \ {"HOST_PAUSE"},
        next \in Published!Phases \cup {"none"} :
        Published!EventTo(type, next) \in Named
  OBVIOUS
<1>3. \A reason \in Published!Reasons : Published!PauseEvent(reason, TRUE) \in Paused
  OBVIOUS
<1> HIDE DEF Named, Paused
<1> QED
  BY <1>1, <1>2, <1>3

\* An event that is accepted is one of MatchPhases.
LEMMA AcceptedEvent ==
  ASSUME NEW o \in Ops, o.match \in MatchDocs, Outcome(o).ok
  PROVE  EventOf(o) \in Published!Events
<1>1. EventOf(o) \in EventRecords
  BY EventFits
<1> DEFINE event == EventOf(o)
<1>2. CASE o.kind \in {"pause", "recover"}
  <2>1. /\ event.type = "HOST_PAUSE" /\ event.nextPhase = "none"
        /\ event.reason \in Reasons
    BY <1>2 DEF EventOf, PauseEvent, Reasons
  <2>2. Outcome(o) = PauseTransition(o.match.phase, event)
    BY <2>1 DEF Outcome, Transition
  <2> HIDE DEF event
  <2>3. event.remaining = TRUE
    <3>1. event \in EventRecords
      BY <1>1 DEF event
    <3>2. event.remaining
      BY <2>2 DEF PauseTransition, Reject
    <3> QED
      BY <3>1, <3>2 DEF EventRecords
  <2>4. event = PauseEvent(event.reason, TRUE)
    <3>1. event \in EventRecords
      BY <1>1 DEF event
    <3> QED
      BY <3>1, <2>1, <2>3 DEF EventRecords, PauseEvent
  <2>5. PauseEvent(event.reason, TRUE) \in Published!Events
    <3>1. Published!PauseEvent(event.reason, TRUE) = PauseEvent(event.reason, TRUE)
      BY DEF Published!PauseEvent, PauseEvent
    <3>2. event.reason \in Published!Reasons
      BY <2>1 DEF Published!Reasons, Reasons
    <3>3. Published!PauseEvent(event.reason, TRUE) \in Published!Events
      BY <3>2, EventsOfMoves
    <3> QED
      BY <3>1, <3>3
  <2> QED
    BY <2>4, <2>5 DEF event
<1>3. CASE o.kind \notin {"pause", "recover"}
  <2>1. /\ event.type \in EventTypes \ {"HOST_PAUSE"}
        /\ event.reason = "none" /\ event.remaining = FALSE
    BY <1>3 DEF EventOf, EventTo, EventTypes
  <2>2. event \in EventRecords
    BY <1>1
  <2> HIDE DEF event
  <2>3. event = EventTo(event.type, event.nextPhase)
    BY <2>1, <2>2 DEF EventRecords, EventTo
  <2>4. /\ event.type \in Published!EventTypes \ {"HOST_PAUSE"}
        /\ event.nextPhase \in Published!Phases \cup {"none"}
    BY <2>1, <2>2
       DEF EventRecords, Published!EventTypes, EventTypes, Published!Phases, Phases
  <2>5. EventTo(event.type, event.nextPhase) \in Published!Events
    <3>1. Published!EventTo(event.type, event.nextPhase)
            = EventTo(event.type, event.nextPhase)
      BY DEF Published!EventTo, EventTo
    <3>2. Published!EventTo(event.type, event.nextPhase) \in Published!Events
      BY <2>4, EventsOfMoves
    <3> QED
      BY <3>1, <3>2
  <2> QED
    BY <2>3, <2>5 DEF event
<1> QED
  BY <1>2, <1>3

\* A swap that is allowed is a move of MatchPhases.
LEMMA SwapIsMove ==
  ASSUME NEW o \in Ops, o.match \in MatchDocs, Verdict(o),
         room.phase = o.match.phase, room.config.pacing = o.room.config.pacing,
         room'.phase = o.next, PausedOf(room', matches') = o.paused,
         room'.config.pacing = room.config.pacing
  PROVE  Published!Next
<1>1. PICK event : event = EventOf(o)
  OBVIOUS
<1>2. PICK result : result = Transition(room.phase, event, room.config.pacing)
  OBVIOUS
<1>3. /\ event \in Published!Events
      /\ result.ok /\ room'.phase = result.phase
      /\ PausedOf(room', matches') = result.paused
  BY <1>1, <1>2, AcceptedEvent DEF Verdict, Outcome
<1>4. result = Published!Transition(room.phase, event, room.config.pacing)
  BY <1>2, SameReducer
<1>5. Published!Move
  BY <1>3, <1>4 DEF Published!Move, PausedOf, CurrentMatch
<1> QED
  BY <1>5 DEF Published!Next

LEMMA SwapPhaseKeeps ==
  ASSUME Fits, SoloInv, NEW s \in Slots, SwapPhase(s)
  PROVE  Keeps
<1> DEFINE o == op[s]
           place == IF o.kind = "rematch" THEN "reloadRoom" ELSE "touchRoom"
           moved == [o EXCEPT !.pc = place]
<1>1. /\ o.pc = "swap" /\ o \in Ops /\ KindFits(o) /\ OpFits(o, matches, rounds)
      /\ TransitionReads(o, room, matches) /\ RematchReads(o, room, matches)
      /\ room \in RoomDocs
  BY Worker DEF SwapPhase, At, Current
<1>2. CASE ~PhasesAreAsRead(o)
  <2>1. op' = [op EXCEPT ![s] = Idle] /\ UNCHANGED <<room, matches>>
    BY <1>2 DEF SwapPhase, Becomes
  <2> QED
    BY <1>1, <2>1, IdleKeeps
<1>3. CASE PhasesAreAsRead(o)
  <2>1. /\ room' = [room EXCEPT !.phase = o.next]
        /\ matches' = [matches EXCEPT ![o.mid].phase = o.next,
                                     ![o.mid].paused = o.paused]
        /\ op' = [op EXCEPT ![s] = moved]
        /\ room.phase = o.match.phase
    BY <1>3 DEF SwapPhase, Becomes, PhasesAreAsRead
  <2>2. /\ o.mid \in MatchIds /\ matches[o.mid] \in MatchDocs
        /\ o.match \in MatchDocs
    <3>1. o.mid # 0 /\ o.mid \in MatchIds \cup {0} /\ o.match # NoMatch
      BY <1>1 DEF TransitionReads, RematchReads, OpFits, PlaceFits, HoldsMatch, Ops
    <3> QED
      BY <1>1, <3>1, HolderMatch DEF OpFits, MatchFits
  <2>3. /\ room'.phase = o.next /\ room'.currentMatchId = room.currentMatchId
        /\ room'.config = room.config
    BY <1>1, <2>1 DEF RoomDocs
  <2>4. /\ matches'[o.mid] = [matches[o.mid] EXCEPT !.phase = o.next, !.paused = o.paused]
        /\ \A m \in MatchIds \ {o.mid} : matches'[m] = matches[m]
    BY <2>1, <2>2, Worker
  <2>5. matches'[o.mid].phase = o.next /\ matches'[o.mid].paused = o.paused
    BY <2>2, <2>4 DEF MatchDocs
  <2>6. /\ moved.pc = place /\ moved.kind = o.kind /\ moved.room = o.room
        /\ moved.mid = o.mid /\ moved.match = o.match /\ moved.next = o.next
        /\ moved.paused = o.paused /\ Swapped(moved) = Swapped(o)
        /\ (Verdict(o) => Verdict(moved))
    <3>1. o \in Ops /\ place \in SwapPlaces /\ moved = [o EXCEPT !.pc = place]
      BY <1>1 DEF SwapPlaces
    <3> HIDE DEF place, o, moved
    <3> QED
      BY <3>1, OnlyPlace
  <2> HIDE DEF moved
  <2>7. CASE o.kind # "rematch"
    <3>1. /\ o.room = room /\ o.mid = room.currentMatchId /\ o.mid # 0
          /\ matches[o.mid] = Patched(o) /\ Verdict(o)
      BY <1>1, <2>7 DEF TransitionReads
    <3>2. matches'[o.mid] = Swapped(o)
      BY <2>4, <3>1 DEF Swapped
    <3>3. Current(moved, room', matches')
      BY <1>1, <2>1, <2>3, <2>6, <2>7, <3>1, <3>2
         DEF Current, KindFits, StartReads, TransitionReads, RematchReads, EditReads,
             HasWritten
    <3>4. Projects(room', matches')
      BY <2>3, <2>5, <3>1 DEF Projects
    <3>5. PausedOf(room', matches') = o.paused
      BY <2>3, <2>5, <3>1 DEF PausedOf
    <3>6. Published!Next
      BY <1>1, <2>1, <2>2, <2>3, <3>1, <3>5, SwapIsMove
    <3> QED
      BY <1>1, <2>1, <3>3, <3>4, <3>6, SoloStep DEF Keeps
  <2>8. CASE o.kind = "rematch"
    <3>1. /\ room.currentMatchId # 0 /\ o.mid # room.currentMatchId
          /\ matches[room.currentMatchId].phase = "FINISHED"
          /\ o.next = "LOBBY" /\ o.match.phase = "FINISHED" /\ o.paused = NoPause
      BY <1>1, <2>8 DEF RematchReads
    <3>2. /\ room.currentMatchId \in MatchIds
          /\ matches'[room.currentMatchId] = matches[room.currentMatchId]
      BY <2>4, <3>1, Worker
    <3>3. Current(moved, room', matches')
      BY <1>1, <2>2, <2>3, <2>5, <2>6, <2>8, <3>1, <3>2
         DEF Current, KindFits, StartReads, TransitionReads, RematchReads, EditReads,
             HasWritten, MatchIds
    <3>4. Projects(room', matches')
      BY <2>3, <3>1, <3>2 DEF Projects
    <3>5. Published!Next
      BY <2>1, <2>3, <3>1, <3>2 DEF Published!Next, Published!Rematch, CurrentMatch
    <3> QED
      BY <1>1, <2>1, <3>3, <3>4, <3>5, SoloStep DEF Keeps
  <2> QED
    BY <2>7, <2>8
<1> QED
  BY <1>2, <1>3

-----------------------------------------------------------------------------
(* What follows the swap.                                                  *)

LEMMA WrittenKeeps ==
  ASSUME Fits, SoloInv, NEW s \in Slots, op[s].pc \in HasWritten,
         NEW place \in {"saveResumed", "after"},
         op' = [op EXCEPT ![s] = [op[s] EXCEPT !.pc = place]],
         UNCHANGED <<room, matches>>
  PROVE  Keeps
<1> DEFINE o == op[s]
           moved == [o EXCEPT !.pc = place]
<1>1. o \in Ops /\ KindFits(o) /\ TransitionReads(o, room, matches)
  BY Worker DEF Current
<1>2. /\ moved.pc = place /\ moved.kind = o.kind /\ moved.room = o.room
      /\ moved.mid = o.mid /\ moved.next = o.next
      /\ Swapped(moved) = Swapped(o) /\ (Verdict(o) => Verdict(moved))
  <2>1. o \in Ops /\ place \in SwapPlaces /\ moved = [o EXCEPT !.pc = place]
    BY <1>1 DEF SwapPlaces
  <2> HIDE DEF o, moved
  <2> QED
    BY <2>1, OnlyPlace
<1> HIDE DEF moved
<1>3. Current(moved, room, matches)
  BY <1>1, <1>2
     DEF Current, KindFits, StartReads, TransitionReads, RematchReads, EditReads,
         HasWritten
<1>4. op[s].pc # "idle" /\ op' = [op EXCEPT ![s] = moved]
  BY DEF HasWritten, moved
<1> QED
  BY <1>3, <1>4, ReadKeeps

\* The room is written as it was read, with the phase it has by now: nothing changes.
LEMMA TouchRoomKeeps ==
  ASSUME Fits, SoloInv, NEW s \in Slots, TouchRoom(s)
  PROVE  Keeps
<1>1. /\ op[s].pc = "touchRoom" /\ matches' = matches
      /\ room' = [op[s].room EXCEPT !.phase = op[s].next]
      /\ \/ op' = [op EXCEPT ![s] = [op[s] EXCEPT !.pc = "saveResumed"]]
         \/ op' = [op EXCEPT ![s] = [op[s] EXCEPT !.pc = "after"]]
  BY DEF TouchRoom, At, Becomes
<1>2. room' = room
  BY <1>1, Worker DEF Current, TransitionReads, HasWritten
<1> QED
  BY <1>1, <1>2, WrittenKeeps DEF HasWritten

LEMMA SaveResumedKeeps ==
  ASSUME Fits, SoloInv, NEW s \in Slots, SaveResumed(s)
  PROVE  Keeps
BY WrittenKeeps DEF SaveResumed, At, Becomes, HasWritten

LEMMA AfterKeeps ==
  ASSUME Fits, SoloInv, NEW s \in Slots, After(s)
  PROVE  Keeps
<1>1. /\ op[s].pc # "idle" /\ UNCHANGED <<room, matches>>
      /\ op' = [op EXCEPT ![s] = ContinuesAs(op[s])]
  BY DEF After, At, Becomes
<1>2. ContinuesAs(op[s]) \in {Idle, Begin("startRound"), Begin("finish")}
  BY Zenon DEF ContinuesAs
<1>3. Current(ContinuesAs(op[s]), room, matches)
  BY <1>2, IdleCurrent, BeginCurrent DEF TimerKinds, HostKinds
<1> QED
  BY <1>1, <1>3, ReadKeeps

-----------------------------------------------------------------------------
(* Rematches, and edits of the room.                                       *)

LEMMA SaveNextKeeps ==
  ASSUME Fits, SoloInv, NEW s \in Slots, SaveNext(s)
  PROVE  Keeps
<1> DEFINE o == op[s]
           doc == NewMatch(o.match.sequence + 1, "FINISHED")
<1>1. o.pc = "saveNext"
  BY DEF SaveNext, At
<1>2. PICK m \in MatchIds :
        /\ FreshMatchId(m) /\ matches' = [matches EXCEPT ![m] = doc] /\ room' = room
        /\ op' = [op EXCEPT ![s] = [o EXCEPT !.mid = m, !.match = doc,
                                             !.next = "LOBBY", !.pc = "swap"]]
  BY DEF SaveNext, Becomes
<1>3. /\ o \in Ops /\ o.kind = "rematch" /\ AsStored(o, room, matches)
      /\ o.match.phase = "FINISHED" /\ o.paused = NoPause
  BY <1>1, Worker
     DEF KindFits, Current, RematchReads, OpFits, PlaceFits, BeforeVerdict, PauseFits
<1>4. m # 0 /\ m # room.currentMatchId
  BY <1>2, FreshIsOther
<1>5. doc.phase = "FINISHED"
  BY DEF NewMatch
<1> DEFINE next == [o EXCEPT !.mid = m, !.match = doc, !.next = "LOBBY", !.pc = "swap"]
<1> HIDE DEF doc
<1>6. /\ next.kind = "rematch" /\ next.mid = m /\ next.match = doc
      /\ next.next = "LOBBY" /\ next.pc = "swap" /\ next.paused = NoPause
  BY <1>3 DEF Ops
<1>7. /\ room.currentMatchId # 0
      /\ matches'[room.currentMatchId] = matches[room.currentMatchId]
      /\ matches[room.currentMatchId].phase = "FINISHED"
  BY <1>2, <1>3, <1>4, Worker DEF AsStored
<1> HIDE DEF next
<1>8. Current(next, room', matches')
  BY <1>2, <1>4, <1>5, <1>6, <1>7
     DEF Current, KindFits, StartReads, TransitionReads, RematchReads, EditReads,
         HasWritten
<1>9. Projects(room', matches') /\ Seen(room', matches') = Seen(room, matches)
  BY <1>2, <1>7 DEF SoloInv, Projects, Seen, PausedOf
<1> QED
  BY <1>1, <1>2, <1>8, <1>9, SoloStep DEF Keeps, next

LEMMA ReloadRoomKeeps ==
  ASSUME Fits, SoloInv, NEW s \in Slots, ReloadRoom(s)
  PROVE  Keeps
<1> DEFINE o == op[s]
           loaded == [o EXCEPT !.room = room, !.pc = "touchRematch"]
<1>1. /\ o.pc = "reloadRoom" /\ UNCHANGED <<room, matches>>
      /\ op' = [op EXCEPT ![s] = loaded]
  BY DEF ReloadRoom, At, Becomes
<1>2. o \in Ops /\ KindFits(o) /\ RematchReads(o, room, matches)
  BY <1>1, Worker DEF Current
<1>3. /\ loaded.kind = o.kind /\ loaded.room = room /\ loaded.mid = o.mid
      /\ loaded.match = o.match /\ loaded.next = o.next /\ loaded.paused = o.paused
      /\ loaded.pc = "touchRematch"
  BY <1>2 DEF Ops
<1> HIDE DEF loaded
<1>4. Current(loaded, room, matches)
  BY <1>1, <1>2, <1>3
     DEF Current, KindFits, StartReads, TransitionReads, RematchReads, EditReads,
         HasWritten
<1> QED
  BY <1>1, <1>4, ReadKeeps

LEMMA TouchRematchKeeps ==
  ASSUME Fits, SoloInv, NEW s \in Slots, TouchRematch(s)
  PROVE  Keeps
<1> DEFINE o == op[s]
<1>1. /\ o.pc = "touchRematch" /\ matches' = matches
      /\ room' = [o.room EXCEPT !.currentMatchId = o.mid]
      /\ op' = [op EXCEPT ![s] = Idle]
  BY DEF TouchRematch, At, Becomes
<1>2. /\ o.room = room /\ o.mid # 0 /\ room.currentMatchId # 0
      /\ matches[room.currentMatchId].phase = "FINISHED"
      /\ room.phase = "LOBBY" /\ matches[o.mid].phase = "LOBBY"
      /\ o \in Ops /\ OpFits(o, matches, rounds) /\ room \in RoomDocs
  BY <1>1, Worker DEF Current, RematchReads, KindFits
<1>3. /\ room'.phase = "LOBBY" /\ room'.currentMatchId = o.mid
      /\ room'.config = room.config
  BY <1>1, <1>2 DEF RoomDocs
<1>4. /\ matches[room.currentMatchId].paused = NoPause
      /\ matches[o.mid].paused = NoPause
  <2>1. o.mid \in MatchIds /\ MatchFits(o.mid, matches[o.mid], rounds)
    BY <1>2, HolderMatch DEF OpFits, Ops
  <2> QED
    BY <1>2, <2>1, Worker DEF MatchFits, PauseFits
<1>5. Projects(room', matches') /\ Seen(room', matches') = Seen(room, matches)
  BY <1>1, <1>2, <1>3, <1>4 DEF Projects, Seen, PausedOf
<1> QED
  BY <1>1, <1>5, IdleCurrent, SoloStep DEF Keeps

LEMMA EditRoomKeeps ==
  ASSUME Fits, SoloInv, NEW s \in Slots, EditRoom(s)
  PROVE  Keeps
<1>1. op[s] \in Ops /\ op[s].pc = "loadRoom" /\ room \in RoomDocs
  BY Worker DEF EditRoom, At
<1>2. /\ UNCHANGED <<room, matches>> /\ op[s].kind \in {"lock", "config"}
      /\ \/ op' = [op EXCEPT ![s] = Idle]
         \/ \E copy \in {[room EXCEPT !.locked = locked] : locked \in BOOLEAN} :
              op' = [op EXCEPT ![s] = [op[s] EXCEPT !.room = copy, !.pc = "saveRoom"]]
         \/ /\ room.phase = "LOBBY"
            /\ \E copy \in {[room EXCEPT !.config = config] : config \in Configs} :
                 op' = [op EXCEPT ![s] = [op[s] EXCEPT !.room = copy, !.pc = "saveRoom"]]
  BY DEF EditRoom, Becomes
<1>3. ASSUME NEW copy,
             copy.phase = room.phase, copy.currentMatchId = room.currentMatchId,
             copy.config = room.config \/ room.phase = "LOBBY",
             op' = [op EXCEPT ![s] = [op[s] EXCEPT !.room = copy, !.pc = "saveRoom"]]
      PROVE  Keeps
  <2> DEFINE edited == [op[s] EXCEPT !.room = copy, !.pc = "saveRoom"]
  <2>1. edited.kind = op[s].kind /\ edited.pc = "saveRoom" /\ edited.room = copy
    BY <1>1 DEF Ops
  <2> HIDE DEF edited
  <2>2. Current(edited, room, matches)
    BY <1>2, <1>3, <2>1
       DEF Current, KindFits, StartReads, TransitionReads, RematchReads, EditReads,
           HasWritten
  <2> QED
    BY <1>1, <1>2, <1>3, <2>2, ReadKeeps DEF edited
<1>4. \A copy \in {[room EXCEPT !.locked = locked] : locked \in BOOLEAN} :
        /\ copy.phase = room.phase /\ copy.currentMatchId = room.currentMatchId
        /\ copy.config = room.config
  BY <1>1 DEF RoomDocs
<1>5. \A copy \in {[room EXCEPT !.config = config] : config \in Configs} :
        copy.phase = room.phase /\ copy.currentMatchId = room.currentMatchId
  BY <1>1 DEF RoomDocs
<1> QED
  BY <1>1, <1>2, <1>3, <1>4, <1>5, IdleKeeps

LEMMA SaveRoomKeeps ==
  ASSUME Fits, SoloInv, NEW s \in Slots, SaveRoom(s)
  PROVE  Keeps
<1> DEFINE o == op[s]
<1>1. /\ o.pc = "saveRoom" /\ room' = o.room /\ matches' = matches
      /\ op' = [op EXCEPT ![s] = Idle]
  BY DEF SaveRoom, At, Becomes
<1>2. /\ room'.phase = room.phase /\ room'.currentMatchId = room.currentMatchId
      /\ room'.config = room.config \/ room.phase = "LOBBY"
      /\ o \in Ops /\ OpFits(o, matches, rounds)
  BY <1>1, Worker DEF Current, EditReads
<1>3. SoloInv'
  BY <1>1, <1>2, IdleCurrent, SoloStep DEF SoloInv, Projects
<1>4. CASE room'.config = room.config
  BY <1>1, <1>2, <1>3, <1>4 DEF Keeps, Seen, PausedOf
<1>5. CASE room.phase = "LOBBY"
  <2>1. o.room \in RoomDocs
    BY <1>1, <1>2 DEF OpFits, PlaceFits, HoldsRoom, RoomFits
  <2>2. room'.config.pacing \in Published!Pacings
    BY <1>1, <2>1, ConfigAssumption
       DEF RoomDocs, ConfigRecords, Published!Pacings, Pacings
  <2>3. Published!SetPacing
    BY <1>1, <1>2, <1>5, <2>2 DEF Published!SetPacing, CurrentMatch
  <2> QED
    BY <1>3, <2>3 DEF Keeps, Published!Next
<1> QED
  BY <1>2, <1>4, <1>5

-----------------------------------------------------------------------------
(* How handlers begin and stop.                                            *)

LEMMA BeginKeeps ==
  ASSUME Fits, SoloInv, Quiet, NEW s \in Slots,
         NEW kind \in HostKinds \cup TimerKinds \cup {"recover"},
         op' = [op EXCEPT ![s] = Begin(kind)], UNCHANGED <<room, matches>>
  PROVE  Keeps
<1>1. \A t \in Slots : op'[t] = IF t = s THEN Begin(kind) ELSE op[t]
  BY DEF Fits
<1>2. Solo'
  BY <1>1 DEF Solo, Quiet
<1>3. \A t \in Slots : Current(op'[t], room', matches')
  BY <1>1, BeginCurrent DEF SoloInv
<1>4. Projects(room', matches') /\ Seen(room', matches') = Seen(room, matches)
  BY DEF SoloInv, Projects, Seen, PausedOf
<1> QED
  BY <1>2, <1>3, <1>4 DEF SoloInv, Keeps

DownIsQuiet == server = "down" => Quiet

SerialInv == IInv /\ SoloInv /\ DownIsQuiet

LEMMA HandlerKeeps ==
  ASSUME Fits, SoloInv, NEW s \in Slots, Step(s)
  PROVE  Keeps
BY LoadRoomKeeps, LoadMatchKeeps, RefuseRoundKeeps, ListPlayersKeeps, LoadRoundKeeps,
   GateRevealKeeps,
   CreateMatchKeeps, TouchStartKeeps, SaveRoundKeeps, SaveEndedKeeps, SaveMatchKeeps,
   SwapPhaseKeeps, TouchRoomKeeps, SaveResumedKeeps, SaveNextKeeps, ReloadRoomKeeps,
   TouchRematchKeeps, EditRoomKeeps, SaveRoomKeeps, AfterKeeps DEF Step

LEMMA StepsAreAwake ==
  ASSUME NEW s \in Slots, Step(s)
  PROVE  op[s].pc # "idle" /\ server' = server
BY DEF Step, LoadRoom, LoadMatch, RefuseRound, ListPlayers, LoadRound, GateReveal,
       CreateMatch, TouchStart, SaveRound, SaveEnded, SaveMatch, SwapPhase,
       TouchRoom, SaveResumed, SaveNext, ReloadRoom, TouchRematch,
       EditRoom, SaveRoom, After, Becomes, At

\* Every step of the system keeps the invariant, and is one the clients may see.
LEMMA NextKeeps ==
  ASSUME Interleaved = FALSE, SerialInv, [Next]_vars
  PROVE  Keeps /\ DownIsQuiet'
<1>1. Fits /\ SoloInv /\ Control /\ DownIsQuiet
  BY DEF SerialInv, IInv
<1>2. ASSUME NEW s \in Slots, NEW kind \in HostKinds, BeginHostEvent(s, kind)
      PROVE  Keeps /\ DownIsQuiet'
  <2>1. /\ Quiet /\ op' = [op EXCEPT ![s] = Begin(kind)]
        /\ UNCHANGED <<room, matches>> /\ server' = "up"
    BY <1>2 DEF BeginHostEvent, MayBegin
  <2> QED
    BY <1>1, <2>1, BeginKeeps DEF DownIsQuiet
<1>3. ASSUME NEW s \in Slots, FireTimer(s)
      PROVE  Keeps /\ DownIsQuiet'
  <2>1. /\ Quiet /\ op' = [op EXCEPT ![s] = Begin(timer)] /\ timer \in TimerKinds
        /\ UNCHANGED <<room, matches>> /\ server' = "up"
    BY <1>1, <1>3 DEF FireTimer, MayBegin, Control
  <2> QED
    BY <1>1, <2>1, BeginKeeps DEF DownIsQuiet
<1>4. ASSUME NEW s \in Slots, Step(s)
      PROVE  Keeps /\ DownIsQuiet'
  BY <1>1, <1>4, HandlerKeeps, StepsAreAwake DEF DownIsQuiet, Quiet
<1>5. ASSUME NEW s \in Slots, Fault(s)
      PROVE  Keeps /\ DownIsQuiet'
  <2>1. /\ op[s].pc # "idle" /\ op' = [op EXCEPT ![s] = Idle]
        /\ UNCHANGED <<room, matches, server>>
    BY <1>5 DEF Fault
  <2> QED
    BY <1>1, <2>1, IdleKeeps DEF DownIsQuiet, Quiet
<1>6. ASSUME NEW s \in Slots, Restart(s)
      PROVE  Keeps /\ DownIsQuiet'
  <2>1. /\ Quiet /\ op' = [op EXCEPT ![s] = Begin("recover")]
        /\ UNCHANGED <<room, matches>> /\ server' = "recovering"
    BY <1>1, <1>6 DEF Restart, DownIsQuiet
  <2> QED
    BY <1>1, <2>1, BeginKeeps DEF DownIsQuiet
<1>7. CASE Crash
  <2>1. op' = [s \in Slots |-> Idle] /\ UNCHANGED <<room, matches>>
    BY <1>7 DEF Crash
  <2>2. \A s \in Slots : op'[s].pc = "idle" /\ Current(op'[s], room', matches')
    BY <2>1, IdleCurrent DEF Idle
  <2>3. Projects(room', matches') /\ Seen(room', matches') = Seen(room, matches)
    BY <1>1, <2>1 DEF SoloInv, Projects, Seen, PausedOf
  <2> QED
    BY <2>2, <2>3 DEF SoloInv, Solo, Keeps, DownIsQuiet, Quiet
<1>8. CASE AcceptSockets \/ UNCHANGED vars
  <2>1. UNCHANGED <<room, matches, op>> /\ (server' = "up" \/ server' = server)
    BY <1>8 DEF AcceptSockets, vars
  <2> QED
    BY <1>1, <2>1 DEF SoloInv, Solo, Projects, Seen, PausedOf, Keeps, DownIsQuiet, Quiet
<1> QED
  BY <1>2, <1>3, <1>4, <1>5, <1>6, <1>7, <1>8 DEF Next

LEMMA InitKeeps == Init => SerialInv
<1> SUFFICES ASSUME Init PROVE SerialInv
  OBVIOUS
<1>1. IInv
  BY InitFits
<1>2. \A s \in Slots : op[s] = Idle /\ op[s].pc = "idle" /\ Current(op[s], room, matches)
  BY IdleCurrent DEF Init, Idle
<1>3. room.currentMatchId = 0 /\ room.phase = "LOBBY" /\ server = "up"
  BY DEF Init
<1> QED
  BY <1>1, <1>2, <1>3 DEF SerialInv, SoloInv, Solo, Projects, DownIsQuiet

THEOREM SerialInvariance ==
  ASSUME Interleaved = FALSE
  PROVE  Spec => []SerialInv
<1>1. Init => SerialInv
  BY InitKeeps
<1>2. SerialInv /\ [Next]_vars => SerialInv'
  BY NextKeeps, NextFits DEF SerialInv, Keeps
<1> QED
  BY <1>1, <1>2, PTL DEF Spec

-----------------------------------------------------------------------------
(* The properties.                                                         *)

(* However often the process dies or a store call throws, Room.phase is    *)
(* the projection of Match.phase whenever no handler runs, but for a       *)
(* rematch cut off before it has moved currentMatchId.                     *)
THEOREM PhaseIsProjected ==
  ASSUME Interleaved = FALSE
  PROVE  Spec => []PhaseProjection
<1>1. SerialInv => PhaseProjection
  BY DEF SerialInv, SoloInv, Projects, PhaseProjection, ProjectionAgrees,
         RematchInterrupted, CurrentMatch
<1> QED
  BY <1>1, SerialInvariance, PTL

(* The server implements MatchPhases: what the clients see of the phase    *)
(* moves only by transitions the reducer allows and by rematches of        *)
(* finished matches, and the pacing changes in the lobby only.             *)
THEOREM PhasesAreLegal ==
  ASSUME Interleaved = FALSE
  PROVE  Spec => PublishedPhases
<1>1. Init => Published!Init
  BY ConfigAssumption
     DEF Init, Published!Init, Published!NoPause, NoPause, Published!Pacings, Pacings,
         ConfigRecords
<1>2. SerialInv /\ [Next]_vars
        => [Published!Next]_<<room.phase, IF room.currentMatchId = 0 THEN NoPause
                                          ELSE CurrentMatch.paused,
                              room.config.pacing>>
  BY NextKeeps DEF Keeps, Seen, PausedOf, CurrentMatch
<1> QED
  BY <1>1, <1>2, SerialInvariance, PTL DEF Spec, PublishedPhases, Published!Spec

-----------------------------------------------------------------------------
(* When no call throws: the timer, and the rounds.  Between handlers the   *)
(* timer is the one the phase waits for and the rounds are where the phase *)
(* says (AtRest); a handler at work has stopped the timer it runs on, or   *)
(* keeps the one of its phase, and what it has decided and not yet written *)
(* it promises to leave in step (AtWork).                                  *)

\* The phase a match is in, or returns to when it is resumed.
Shown(phase, pause) ==
  IF phase # "PAUSED" THEN phase
  ELSE IF pause.reason = "server_recovery" THEN "COUNTDOWN"
                                           ELSE pause.previousPhase

EndedOf(m, rs) == {r \in RoundIds : rs[r].match = m /\ rs[r].status = "ENDED"}

Counted(m, doc, rs) ==
  /\ doc.roundIndex < TotalRounds
  /\ doc.roundIndex <= Cardinality(EndedOf(m, rs))

\* The rounds are where the phase says they are.
Follows(m, phase, doc, rs) ==
  /\ phase \in {"ROUND_RESULT", "SCOREBOARD"} =>
       doc.roundIndex < Cardinality(EndedOf(m, rs))
  /\ phase \in {"ROUND_ACTIVE", "ROUND_RESULT", "SCOREBOARD"} =>
       /\ doc.roundIds # <<>>
       /\ rs[CurrentRoundId(doc)].status
            = (IF phase = "ROUND_ACTIVE" THEN "ACTIVE" ELSE "ENDED")

FollowsAs(m, phase, pause, doc, rs) == Follows(m, Shown(phase, pause), doc, rs)

StoreFollows(r, ms, rs) ==
  r.currentMatchId # 0 =>
    FollowsAs(r.currentMatchId, ms[r.currentMatchId].phase,
              ms[r.currentMatchId].paused, ms[r.currentMatchId], rs)

\* A verdict that is not in the store yet.
InHand(o) == o.kind # "rematch" /\ o.pc \in {"saveMatch", "swap"}

Promises(o, rs) ==
  /\ FollowsAs(o.mid, o.next, o.paused, Patched(o), rs)
  /\ Counted(o.mid, Patched(o), rs)

HasRound(o, rs) ==
  /\ o.match.roundIds # <<>> => o.rid # 0
  /\ o.rid # 0 => rs[o.rid].status = o.rstat

\* The timers a phase may wait for, with us what may be known of the round:
\* {TRUE} when the content has refused it.
TimersOf(phase, config, us) ==
  CASE phase = "COUNTDOWN" -> {IF u THEN "none" ELSE "startRound" : u \in us}
    [] phase = "ROUND_ACTIVE" ->
         IF config.autoReveal THEN {"endRound"} ELSE {"none", "endRound"}
    [] phase = "ROUND_RESULT" -> {"advance"}
    [] phase = "SCOREBOARD" ->
         IF config.pacing = "auto" THEN {"advance"} ELSE {"none"}
    [] OTHER -> {"none"}

RestingPhases == {"LOBBY", "PAUSED", "FINISHED"}

\* The timer while a handler of this kind works.
Clock(kind, phase, config, tm, us) ==
  /\ kind = "startRound" => phase = "COUNTDOWN" /\ tm = "none"
  /\ kind = "endRound" => phase = "ROUND_ACTIVE" /\ tm \in {"none", "endRound"}
  /\ kind = "advance" =>
       /\ \/ phase = "ROUND_RESULT"
          \/ phase = "SCOREBOARD" /\ config.pacing = "auto"
       /\ tm = "none"
  /\ kind \in {"finish", "recover"} => tm = "none"
  /\ kind \in HostKinds \ {"finish"} => tm \in TimersOf(phase, config, us)

\* What is known of the refusal narrows the timers, and never widens them.
LEMMA ClockGrows ==
  ASSUME NEW kind, NEW phase, NEW config, NEW tm, NEW u \in BOOLEAN,
         Clock(kind, phase, config, tm, {u})
  PROVE  Clock(kind, phase, config, tm, BOOLEAN)
<1>1. TimersOf(phase, config, {u}) \subseteq TimersOf(phase, config, BOOLEAN)
  BY DEF TimersOf
<1> QED
  BY <1>1 DEF Clock

PhaseFor(o, r) == IF o.pc \in HasWritten THEN o.match.phase ELSE r.phase

\* Once a handler has moved the phase the round is to be built again, and what
\* the timer was set for is past.
RefusedFor(o, u) == IF o.pc \in HasWritten THEN BOOLEAN ELSE {u}

AtWork(o, r, ms, rs, tm, sv, u) ==
  /\ u \in BOOLEAN
  /\ o.pc \in HasWritten => ~u
  /\ sv = IF o.kind = "recover" THEN "recovering" ELSE "up"
  /\ o.kind # "none"
  /\ Clock(o.kind, PhaseFor(o, r), r.config, tm, RefusedFor(o, u))
  /\ r.phase = "PAUSED" \/ (o.kind # "recover" /\ ~InHand(o)) => StoreFollows(r, ms, rs)
  /\ InHand(o) => Promises(o, rs)
  /\ o.kind = "resume" /\ o.pc \in {"saveMatch", "swap"} \cup HasWritten => HasRound(o, rs)
  /\ o.pc = "loadRound" /\ o.kind = "reveal" => o.match.phase = "ROUND_ACTIVE"
  /\ o.pc = "saveResumed" => o.kind = "resume"

AtRest(r, ms, rs, tm, sv, u) ==
  /\ u \in BOOLEAN
  /\ sv = "down" => tm = "none"
  /\ sv # "down" => tm \in TimersOf(r.phase, r.config, {u})
  /\ sv = "recovering" => r.phase \in RestingPhases
  /\ r.phase = "PAUSED" \/ sv = "up" => StoreFollows(r, ms, rs)

Numbers(ms, rs) == \A m \in MatchIds : Counted(m, ms[m], rs)

PaceInv ==
  /\ Numbers(matches, rounds)
  /\ Quiet => AtRest(room, matches, rounds, timer, server, unbuilt)
  /\ \A s \in Slots : op[s].pc # "idle" =>
       AtWork(op[s], room, matches, rounds, timer, server, unbuilt)

-----------------------------------------------------------------------------
(* The verdicts of the reducer.                                            *)

AfterRound(o) ==
  IF o.match.roundIndex + 1 >= TotalRounds THEN "FINISHED" ELSE "COUNTDOWN"

LEMMA TableAccepts ==
  ASSUME NEW phase, NEW type, NEW next, NEW pacing,
         type # "HOST_START", TableTransition(phase, EventTo(type, next), pacing).ok
  PROVE  /\ \E t \in Targets(phase, type) : t[1] = next /\ pacing \in t[2]
         /\ TableTransition(phase, EventTo(type, next), pacing) = Accept(next)
<1> DEFINE event == EventTo(type, next)
<1>1. event.type = type /\ Requested(event) = next
  BY DEF EventTo, Requested
<1> HIDE DEF event
<1>2. ~Reject("INVALID_PHASE").ok
  BY DEF Reject
<1> QED
  BY <1>1, <1>2 DEF TableTransition, event

\* The reducer's tables, one event at a time.
LEMMA TimerAccepts ==
  ASSUME NEW phase, NEW next, NEW pacing,
         Transition(phase, EventTo("TIMER_ELAPSED", next), pacing).ok
  PROVE  /\ Transition(phase, EventTo("TIMER_ELAPSED", next), pacing) = Accept(next)
         /\ \/ phase = "COUNTDOWN" /\ next = "ROUND_ACTIVE"
            \/ phase = "ROUND_ACTIVE" /\ next = "ROUND_RESULT"
            \/ phase = "ROUND_RESULT"
            \/ phase = "SCOREBOARD" /\ pacing = "auto"
<1>1. Transition(phase, EventTo("TIMER_ELAPSED", next), pacing)
        = TableTransition(phase, EventTo("TIMER_ELAPSED", next), pacing)
  BY DEF Transition, EventTo
<1>2. /\ \E t \in Targets(phase, "TIMER_ELAPSED") : t[1] = next /\ pacing \in t[2]
      /\ TableTransition(phase, EventTo("TIMER_ELAPSED", next), pacing) = Accept(next)
  BY <1>1, TableAccepts
<1> QED
  BY <1>1, <1>2 DEF Targets

LEMMA NextAccepts ==
  ASSUME NEW phase, NEW next, NEW pacing,
         Transition(phase, EventTo("HOST_NEXT", next), pacing).ok
  PROVE  /\ Transition(phase, EventTo("HOST_NEXT", next), pacing) = Accept(next)
         /\ phase = "SCOREBOARD" /\ pacing = "host"
<1>1. Transition(phase, EventTo("HOST_NEXT", next), pacing)
        = TableTransition(phase, EventTo("HOST_NEXT", next), pacing)
  BY DEF Transition, EventTo
<1>2. /\ \E t \in Targets(phase, "HOST_NEXT") : t[1] = next /\ pacing \in t[2]
      /\ TableTransition(phase, EventTo("HOST_NEXT", next), pacing) = Accept(next)
  BY <1>1, TableAccepts
<1> QED
  BY <1>1, <1>2 DEF Targets

LEMMA StartAccepts ==
  ASSUME NEW phase, NEW pacing \in Pacings
  PROVE  LET result == Transition(phase, EventTo("HOST_START", "COUNTDOWN"), pacing)
         IN  /\ result.ok <=> phase = "LOBBY"
             /\ result.ok => result = Accept("COUNTDOWN")
<1>1. Transition(phase, EventTo("HOST_START", "COUNTDOWN"), pacing)
        = TableTransition(phase, EventTo("HOST_START", "COUNTDOWN"), pacing)
  BY DEF Transition, EventTo
<1>2. /\ EventTo("HOST_START", "COUNTDOWN").type = "HOST_START"
      /\ Requested(EventTo("HOST_START", "COUNTDOWN")) = "COUNTDOWN"
  BY DEF EventTo, Requested
<1>3. ~Reject("INVALID_PHASE").ok /\ Accept("COUNTDOWN").ok
  BY DEF Reject, Accept
<1>4. (\E t \in Targets(phase, "HOST_START") : t[1] = "COUNTDOWN" /\ pacing \in t[2])
        <=> phase = "LOBBY"
  BY DEF Targets
<1> QED
  BY <1>1, <1>2, <1>3, <1>4 DEF TableTransition

\* What resolveNextPhase asks for.
LEMMA Resolves ==
  ASSUME NEW config, NEW match, NEW o, o.match = match
  PROVE  /\ match.phase = "ROUND_RESULT" =>
              ResolveNextPhase(config, match)
                = IF config.pacing = "host" \/ ShowsScoreboard(config, match.roundIndex + 1)
                  THEN "SCOREBOARD" ELSE AfterRound(o)
         /\ match.phase = "SCOREBOARD" => ResolveNextPhase(config, match) = AfterRound(o)
         /\ match.phase = "PAUSED" /\ match.paused # NoPause =>
              ResolveNextPhase(config, match) = Shown(match.phase, match.paused)
BY DEF ResolveNextPhase, AfterRound, Shown

-----------------------------------------------------------------------------
(* Counting the rounds that have ended.                                    *)

LEMMA EndedIsFinite ==
  ASSUME NEW m, NEW rs
  PROVE  IsFiniteSet(EndedOf(m, rs)) /\ Cardinality(EndedOf(m, rs)) \in Nat
<1>1. IsFiniteSet(RoundIds)
  BY FS_Interval, BoundsAssumption DEF RoundIds
<1>2. EndedOf(m, rs) \subseteq RoundIds
  BY DEF EndedOf
<1> QED
  BY <1>1, <1>2, FS_Subset, FS_CardinalityType

LEMMA EndedSame ==
  ASSUME NEW m, NEW rs, NEW rs2, EndedOf(m, rs2) = EndedOf(m, rs)
  PROVE  \A doc : Counted(m, doc, rs) => Counted(m, doc, rs2)
BY DEF Counted

\* One round more.
LEMMA EndedOneMore ==
  ASSUME NEW m, NEW rs, NEW r \in RoundIds, rs[r].status # "ENDED",
         NEW rs2, rs2[r].match = m, rs2[r].status = "ENDED",
         \A k \in RoundIds \ {r} : rs2[k] = rs[k]
  PROVE  Cardinality(EndedOf(m, rs2)) = Cardinality(EndedOf(m, rs)) + 1
<1>1. EndedOf(m, rs2) = EndedOf(m, rs) \cup {r} /\ r \notin EndedOf(m, rs)
  BY DEF EndedOf
<1> QED
  BY <1>1, EndedIsFinite, FS_AddElement

\* Only roundIndex and roundIds count.
LEMMA FollowsSame ==
  ASSUME NEW m, NEW phase, NEW doc, NEW doc2, NEW rs,
         doc2.roundIndex = doc.roundIndex, doc2.roundIds = doc.roundIds
  PROVE  /\ Follows(m, phase, doc, rs) => Follows(m, phase, doc2, rs)
         /\ Counted(m, doc, rs) => Counted(m, doc2, rs)
BY DEF Follows, Counted, CurrentRoundId

LEMMA PatchedRounds ==
  ASSUME NEW o, o.match \in MatchDocs
  PROVE  /\ Patched(o).roundIndex = IF EntersNextRound(o) THEN o.match.roundIndex + 1
                                    ELSE o.match.roundIndex
         /\ Patched(o).roundIds = IF o.kind = "startRound"
                                  THEN Append(o.match.roundIds, o.rid)
                                  ELSE o.match.roundIds
BY DEF Patched, MatchDocs

-----------------------------------------------------------------------------
(* What a verdict promises.                                                *)

\* What each kind of handler may get, and from which phase.
LEMMA VerdictIs ==
  ASSUME NEW o \in Ops, o.match \in MatchDocs, Outcome(o).ok,
         PauseFits(o.match.phase, o.match.paused)
  PROVE  LET phase == o.match.phase
             result == Outcome(o)
             resolved == ResolveNextPhase(o.room.config, o.match)
         IN  /\ o.kind = "start" => phase = "LOBBY" /\ result = Accept("COUNTDOWN")
             /\ o.kind \in {"pause", "recover"} =>
                  /\ phase \in PausablePhases /\ result.phase = "PAUSED"
                  /\ result.paused.previousPhase = phase
                  /\ result.paused.reason = IF o.kind = "pause" THEN "host"
                                            ELSE "server_recovery"
             /\ o.kind = "resume" =>
                  phase = "PAUSED" /\ result = Accept(Shown(phase, o.match.paused))
             /\ o.kind = "next" =>
                  /\ phase = "SCOREBOARD" /\ o.room.config.pacing = "host"
                  /\ result = Accept(resolved)
             /\ o.kind = "advance" =>
                  /\ result = Accept(resolved)
                  /\ phase = "SCOREBOARD" => o.room.config.pacing = "auto"
             /\ o.kind = "startRound" => result = Accept("ROUND_ACTIVE")
             /\ o.kind = "endRound" =>
                  phase = "ROUND_ACTIVE" /\ result = Accept("ROUND_RESULT")
             /\ o.kind = "finish" => result = Accept("FINISHED")
<1> DEFINE phase == o.match.phase
           result == Outcome(o)
           resolved == ResolveNextPhase(o.room.config, o.match)
           pacing == o.room.config.pacing
<1>0. result = Transition(phase, EventOf(o), pacing) /\ result.ok
  BY DEF Outcome
<1>r. \A code : ~Reject(code).ok
  BY DEF Reject
<1> HIDE DEF result, resolved, pacing
<1>1. ASSUME o.kind = "start"
      PROVE  phase = "LOBBY" /\ result = Accept("COUNTDOWN")
  <2>1. EventOf(o) = EventTo("HOST_START", "COUNTDOWN")
    BY <1>1 DEF EventOf
  <2>2. result = TableTransition(phase, EventOf(o), pacing)
    BY <1>0, <2>1 DEF Transition, EventTo
  <2>3. \E t \in Targets(phase, "HOST_START") :
          t[1] = Requested(EventOf(o)) /\ pacing \in t[2]
    BY <1>0, <1>r, <2>1, <2>2 DEF TableTransition, EventTo
  <2>4. phase = "LOBBY"
    BY <2>3 DEF Targets
  <2>5. result = Accept(Requested(EventOf(o)))
    BY <1>0, <1>r, <2>2 DEF TableTransition
  <2> QED
    BY <2>1, <2>4, <2>5 DEF Requested, EventTo
<1>2. ASSUME o.kind \in {"pause", "recover"}
      PROVE  /\ phase \in PausablePhases /\ result.phase = "PAUSED"
             /\ result.paused.previousPhase = phase
             /\ result.paused.reason = IF o.kind = "pause" THEN "host"
                                       ELSE "server_recovery"
  <2>1. /\ EventOf(o).type = "HOST_PAUSE"
        /\ EventOf(o).reason = IF o.kind = "pause" THEN "host" ELSE "server_recovery"
    BY <1>2 DEF EventOf, PauseEvent
  <2>2. result = PauseTransition(phase, EventOf(o))
    BY <1>0, <2>1 DEF Transition
  <2>3. /\ phase \in PausablePhases
        /\ result = [ok |-> TRUE, code |-> "none", phase |-> "PAUSED",
                     paused |-> [previousPhase |-> phase, reason |-> EventOf(o).reason]]
    BY <1>0, <1>r, <2>2 DEF PauseTransition
  <2> QED
    BY <2>1, <2>3
<1>3. ASSUME o.kind = "resume"
      PROVE  phase = "PAUSED" /\ result = Accept(Shown(phase, o.match.paused))
  <2>1. EventOf(o) = EventTo("HOST_RESUME", resolved)
    BY <1>3 DEF EventOf, resolved
  <2>2. result = ResumeTransition(phase, EventOf(o), ResumablePhases)
    BY <1>0, <2>1 DEF Transition, EventTo
  <2>3. phase = "PAUSED" /\ result = Accept(EventOf(o).nextPhase)
    BY <1>0, <1>r, <2>2 DEF ResumeTransition
  <2>4. resolved = Shown(phase, o.match.paused)
    BY <2>3, Resolves DEF PauseFits, resolved
  <2> QED
    BY <2>1, <2>3, <2>4 DEF EventTo
<1>4. ASSUME o.kind = "next"
      PROVE  phase = "SCOREBOARD" /\ pacing = "host" /\ result = Accept(resolved)
  <2>1. EventOf(o) = EventTo("HOST_NEXT", resolved)
    BY <1>4 DEF EventOf, resolved
  <2> QED
    BY <1>0, <2>1, NextAccepts
<1>5. ASSUME o.kind = "advance"
      PROVE  result = Accept(resolved) /\ (phase = "SCOREBOARD" => pacing = "auto")
  <2>1. EventOf(o) = EventTo("TIMER_ELAPSED", resolved)
    BY <1>5 DEF EventOf, resolved
  <2> QED
    BY <1>0, <2>1, TimerAccepts
<1>6. ASSUME o.kind = "startRound"
      PROVE  result = Accept("ROUND_ACTIVE")
  <2>1. EventOf(o) = EventTo("TIMER_ELAPSED", "ROUND_ACTIVE")
    BY <1>6 DEF EventOf
  <2> QED
    BY <1>0, <2>1, TimerAccepts
<1>7. ASSUME o.kind = "endRound"
      PROVE  phase = "ROUND_ACTIVE" /\ result = Accept("ROUND_RESULT")
  <2>1. EventOf(o) = EventTo("TIMER_ELAPSED", "ROUND_RESULT")
    BY <1>7 DEF EventOf
  <2>2. /\ result = TableTransition(phase, EventOf(o), pacing)
        /\ result = Accept("ROUND_RESULT")
    BY <1>0, <2>1, TimerAccepts DEF Transition, EventTo
  <2>3. \E t \in Targets(phase, "TIMER_ELAPSED") : t[1] = "ROUND_RESULT" /\ pacing \in t[2]
    BY <1>0, <2>1, <2>2, TableAccepts
  <2> QED
    BY <2>2, <2>3 DEF Targets
<1>8. ASSUME o.kind = "finish"
      PROVE  result = Accept("FINISHED")
  <2>1. EventOf(o).type = "HOST_FINISH"
    BY <1>8 DEF EventOf, EventTo
  <2>2. result = FinishTransition(phase)
    BY <1>0, <2>1 DEF Transition
  <2> QED
    BY <1>0, <1>r, <2>2 DEF FinishTransition
<1> QED
  BY <1>1, <1>2, <1>3, <1>4, <1>5, <1>6, <1>7, <1>8 DEF result, resolved, pacing

\* The verdict is what the handler carries on with.
LEMMA DecidedNext ==
  ASSUME NEW o \in Ops, o.match \in MatchDocs, Outcome(o).ok
  PROVE  /\ Decided(o).next = Outcome(o).phase
         /\ Decided(o).paused = Outcome(o).paused
<1> DEFINE d == Decided(o)
<1>1. /\ d.kind = o.kind /\ d.room = o.room /\ d.match = o.match
      /\ d.rstat = o.rstat /\ Verdict(d)
  BY DecidedIs
<1> HIDE DEF d
<1>2. Outcome(d) = Outcome(o)
  BY <1>1 DEF Outcome, EventOf
<1>3. d.next = Outcome(o).phase /\ d.paused = Outcome(o).paused
  BY <1>1, <1>2 DEF Verdict
<1> QED
  BY <1>3 DEF d

\* What a handler must have found for its verdict to keep the rounds in step.
MayMove(o, rs) ==
  /\ o.kind \in Movers
  /\ Counted(o.mid, o.match, rs)
  /\ o.kind \notin {"recover", "endRound"} =>
       FollowsAs(o.mid, o.match.phase, o.match.paused, o.match, rs)
  /\ o.kind = "advance" => o.match.phase \in {"ROUND_RESULT", "SCOREBOARD"}
  /\ o.kind = "startRound" =>
       o.match.phase = "COUNTDOWN" /\ rs[o.rid].status = "ACTIVE"
  /\ o.kind = "endRound" => Follows(o.mid, "ROUND_RESULT", o.match, rs)

\* Where no round is shown, the rounds follow.
LEMMA FollowsTrivially ==
  ASSUME NEW m, NEW phase, NEW pause, NEW doc, NEW rs,
         Shown(phase, pause) \in {"LOBBY", "COUNTDOWN", "PAUSED", "FINISHED"}
  PROVE  FollowsAs(m, phase, pause, doc, rs)
BY DEF FollowsAs, Follows

\* The scoreboard, and what follows it.
LEMMA LeavesRound ==
  ASSUME NEW o, o.match \in MatchDocs, NEW d, d.match = o.match, d.kind = o.kind,
         d.mid = o.mid, NEW rs, o.kind \in {"next", "advance"},
         o.match.phase \in {"ROUND_RESULT", "SCOREBOARD"},
         FollowsAs(o.mid, o.match.phase, o.match.paused, o.match, rs),
         Counted(o.mid, o.match, rs),
         d.next = ResolveNextPhase(o.room.config, o.match), d.paused = NoPause
  PROVE  Promises(d, rs)
<1>1. /\ Patched(d).roundIndex = IF EntersNextRound(d) THEN o.match.roundIndex + 1
                                 ELSE o.match.roundIndex
      /\ Patched(d).roundIds = o.match.roundIds
  BY PatchedRounds
<1>2. Follows(o.mid, o.match.phase, o.match, rs)
  BY DEF FollowsAs, Shown
<1>3. d.next = "SCOREBOARD" \/ d.next = AfterRound(o)
  BY Resolves
<1>4. CASE d.next = "SCOREBOARD"
  <2>1. ~EntersNextRound(d)
    BY <1>4 DEF EntersNextRound
  <2>2. Follows(o.mid, "SCOREBOARD", o.match, rs)
    BY <1>2 DEF Follows
  <2>3. /\ Patched(d).roundIndex = o.match.roundIndex
        /\ Patched(d).roundIds = o.match.roundIds
    BY <1>1, <2>1
  <2>4. Shown(d.next, d.paused) = "SCOREBOARD"
    BY <1>4 DEF Shown
  <2> QED
    BY <2>2, <2>3, <2>4, FollowsSame DEF Promises, FollowsAs
<1>5. CASE d.next = "FINISHED"
  <2>1. ~EntersNextRound(d)
    BY <1>5 DEF EntersNextRound
  <2>2. FollowsAs(d.mid, d.next, d.paused, Patched(d), rs)
    BY <1>5, FollowsTrivially DEF Shown
  <2> QED
    BY <1>1, <2>1, <2>2, FollowsSame DEF Promises
<1>6. CASE d.next = "COUNTDOWN" /\ d.next = AfterRound(o)
  <2>1. o.match.roundIndex \in Nat /\ o.match.roundIndex + 1 < TotalRounds
    BY <1>6, ConfigAssumption DEF AfterRound, MatchDocs
  <2>2. o.match.roundIndex < Cardinality(EndedOf(o.mid, rs))
    BY <1>2 DEF Follows
  <2>3. Patched(d).roundIndex = o.match.roundIndex + 1
    BY <1>1, <1>6 DEF EntersNextRound
  <2>4. Counted(d.mid, Patched(d), rs)
    BY <2>1, <2>2, <2>3, EndedIsFinite DEF Counted
  <2>5. FollowsAs(d.mid, d.next, d.paused, Patched(d), rs)
    BY <1>6, FollowsTrivially DEF Shown
  <2> QED
    BY <2>4, <2>5 DEF Promises
<1> QED
  BY <1>3, <1>4, <1>5, <1>6 DEF AfterRound

LEMMA KeepsPromise ==
  ASSUME NEW o \in Ops, o.match \in MatchDocs, Outcome(o).ok,
         PauseFits(o.match.phase, o.match.paused), NEW rs, MayMove(o, rs)
  PROVE  Promises(Decided(o), rs)
<1> DEFINE d == Decided(o)
           result == Outcome(o)
<1> SUFFICES Promises(d, rs)
  OBVIOUS
<1>1. /\ d.kind = o.kind /\ d.mid = o.mid /\ d.match = o.match /\ d.rid = o.rid
      /\ d.next = result.phase /\ d.paused = result.paused
  BY DecidedIs, DecidedNext
<1>2. \A phase : Accept(phase).phase = phase /\ Accept(phase).paused = NoPause
  BY DEF Accept
<1> HIDE DEF d, result
<1>3. /\ Patched(d).roundIndex = IF EntersNextRound(d) THEN o.match.roundIndex + 1
                                 ELSE o.match.roundIndex
      /\ Patched(d).roundIds = IF o.kind = "startRound" THEN Append(o.match.roundIds, o.rid)
                               ELSE o.match.roundIds
  BY <1>1, PatchedRounds
<1>4. ASSUME ~EntersNextRound(d), o.kind # "startRound",
             FollowsAs(o.mid, d.next, d.paused, o.match, rs)
      PROVE  Promises(d, rs)
  BY <1>1, <1>3, <1>4, FollowsSame DEF Promises, FollowsAs, MayMove
<1>5. CASE o.kind = "start"
  <2>1. o.match.phase = "LOBBY" /\ d.next = "COUNTDOWN" /\ d.paused = NoPause
    BY <1>1, <1>2, <1>5, VerdictIs DEF result
  <2> QED
    BY <1>1, <1>4, <1>5, <2>1, FollowsTrivially DEF EntersNextRound, Shown
<1>6. CASE o.kind \in {"pause", "recover"}
  <2>1. /\ o.match.phase \in PausablePhases /\ d.next = "PAUSED"
        /\ d.paused.previousPhase = o.match.phase
        /\ d.paused.reason = IF o.kind = "pause" THEN "host" ELSE "server_recovery"
    BY <1>1, <1>6, VerdictIs DEF result
  <2>2. ~EntersNextRound(d)
    BY <2>1 DEF EntersNextRound
  <2>3. CASE o.kind = "pause"
    <3>1. Shown(d.next, d.paused) = Shown(o.match.phase, o.match.paused)
      BY <2>1, <2>3 DEF Shown, PausablePhases
    <3> QED
      BY <1>4, <2>2, <2>3, <3>1 DEF FollowsAs, MayMove
  <2>4. CASE o.kind = "recover"
    <3>1. Shown(d.next, d.paused) = "COUNTDOWN"
      BY <2>1, <2>4 DEF Shown
    <3> QED
      BY <1>4, <2>2, <2>4, <3>1, FollowsTrivially
  <2> QED
    BY <1>6, <2>3, <2>4
<1>7. CASE o.kind = "resume"
  <2>1. /\ o.match.phase = "PAUSED" /\ d.paused = NoPause
        /\ d.next = Shown(o.match.phase, o.match.paused)
    BY <1>1, <1>2, <1>7, VerdictIs DEF result
  <2>2. o.match.paused \in PausedStates
    BY <2>1 DEF PauseFits, MatchDocs
  <2>3. Shown(d.next, d.paused) = d.next /\ ~EntersNextRound(d)
    BY <1>1, <2>1, <2>2 DEF Shown, EntersNextRound, PausedStates, PausablePhases
  <2> QED
    BY <1>4, <1>7, <2>1, <2>3 DEF FollowsAs, MayMove
<1>8. CASE o.kind \in {"next", "advance"}
  <2>1. /\ o.match.phase \in {"ROUND_RESULT", "SCOREBOARD"}
        /\ d.next = ResolveNextPhase(o.room.config, o.match) /\ d.paused = NoPause
    BY <1>1, <1>2, <1>8, VerdictIs DEF result, MayMove
  <2> QED
    BY <1>1, <1>8, <2>1, LeavesRound DEF MayMove
<1>9. CASE o.kind = "startRound"
  <2>1. d.next = "ROUND_ACTIVE" /\ d.paused = NoPause /\ o.match.phase = "COUNTDOWN"
    BY <1>1, <1>2, <1>9, VerdictIs DEF result, MayMove
  <2>2. ~EntersNextRound(d) /\ Shown(d.next, d.paused) = "ROUND_ACTIVE"
    BY <1>1, <2>1 DEF EntersNextRound, Shown
  <2>3. o.match.roundIds \in Seq(RoundIds)
    BY DEF MatchDocs
  <2>4. Patched(d).roundIds # <<>> /\ CurrentRoundId(Patched(d)) = o.rid
    BY <1>3, <1>9, <2>3 DEF CurrentRoundId
  <2>5. FollowsAs(d.mid, d.next, d.paused, Patched(d), rs)
    BY <1>9, <2>2, <2>4 DEF FollowsAs, Follows, MayMove
  <2>6. Counted(d.mid, Patched(d), rs)
    BY <1>1, <1>3, <2>2 DEF MayMove, Counted
  <2> QED
    BY <2>5, <2>6 DEF Promises
<1>10. CASE o.kind = "endRound"
  <2>1. /\ d.next = "ROUND_RESULT" /\ d.paused = NoPause
        /\ o.match.phase = "ROUND_ACTIVE"
    BY <1>1, <1>2, <1>10, VerdictIs DEF result
  <2> QED
    BY <1>4, <1>10, <1>1, <2>1 DEF EntersNextRound, Shown, FollowsAs, MayMove
<1>11. CASE o.kind = "finish"
  <2>1. d.next = "FINISHED" /\ d.paused = NoPause
    BY <1>1, <1>2, <1>11, VerdictIs DEF result
  <2> QED
    BY <1>4, <1>11, <2>1, FollowsTrivially DEF EntersNextRound, Shown
<1> QED
  BY <1>5, <1>6, <1>7, <1>8, <1>9, <1>10, <1>11 DEF MayMove, Movers

-----------------------------------------------------------------------------
(* What the reducer cannot refuse.                                         *)

LEMMA TableGrants ==
  ASSUME NEW phase, NEW next, NEW pacing, NEW pacings,
         <<next, pacings>> \in Targets(phase, "TIMER_ELAPSED"), pacing \in pacings
  PROVE  Transition(phase, EventTo("TIMER_ELAPSED", next), pacing).ok
<1> DEFINE event == EventTo("TIMER_ELAPSED", next)
<1>1. event.type = "TIMER_ELAPSED" /\ Requested(event) = next
  BY DEF EventTo, Requested
<1> HIDE DEF event
<1>2. Transition(phase, event, pacing) = TableTransition(phase, event, pacing)
  BY <1>1 DEF Transition
<1>3. \E t \in Targets(phase, event.type) : t[1] = Requested(event) /\ pacing \in t[2]
  <2>1. <<next, pacings>>[1] = next /\ <<next, pacings>>[2] = pacings
    OBVIOUS
  <2> QED
    BY <1>1, <2>1
<1>4. TableTransition(phase, event, pacing) = Accept(next)
  BY <1>1, <1>3 DEF TableTransition
<1> QED
  BY <1>2, <1>4 DEF Accept, event

\* A handler that found the phase its timer was set in is never turned away.
LEMMA NeverRefused ==
  ASSUME NEW o \in Ops, o.match \in MatchDocs, o.room \in RoomDocs
  PROVE  LET phase == o.match.phase IN
         /\ o.kind = "startRound" /\ phase = "COUNTDOWN" => Outcome(o).ok
         /\ o.kind = "endRound" /\ phase = "ROUND_ACTIVE" => Outcome(o).ok
         /\ /\ o.kind = "advance"
            /\ \/ phase = "ROUND_RESULT"
               \/ phase = "SCOREBOARD" /\ o.room.config.pacing = "auto"
            => Outcome(o).ok
         /\ o.kind = "recover" /\ phase \in RecoverablePhases => Outcome(o).ok
         /\ o.kind = "finish" /\ phase # "FINISHED" => Outcome(o).ok
<1> DEFINE phase == o.match.phase
           pacing == o.room.config.pacing
           resolved == ResolveNextPhase(o.room.config, o.match)
<1>1. pacing \in Pacings
  BY ConfigAssumption DEF RoomDocs, ConfigRecords
<1>2. Outcome(o) = Transition(phase, EventOf(o), pacing)
  BY DEF Outcome
<1>3. o.kind = "startRound" /\ phase = "COUNTDOWN" => Outcome(o).ok
  <2>1. <<"ROUND_ACTIVE", Pacings>> \in Targets("COUNTDOWN", "TIMER_ELAPSED")
    BY DEF Targets
  <2> QED
    BY <1>1, <1>2, <2>1, TableGrants DEF EventOf
<1>4. o.kind = "endRound" /\ phase = "ROUND_ACTIVE" => Outcome(o).ok
  <2>1. <<"ROUND_RESULT", Pacings>> \in Targets("ROUND_ACTIVE", "TIMER_ELAPSED")
    BY DEF Targets
  <2> QED
    BY <1>1, <1>2, <2>1, TableGrants DEF EventOf
<1>5. ASSUME o.kind = "advance",
             phase = "ROUND_RESULT" \/ (phase = "SCOREBOARD" /\ pacing = "auto")
      PROVE  Outcome(o).ok
  <2>1. EventOf(o) = EventTo("TIMER_ELAPSED", resolved)
    BY <1>5 DEF EventOf
  <2>2. AfterRound(o) \in {"FINISHED", "COUNTDOWN"}
    BY DEF AfterRound
  <2>3. CASE phase = "ROUND_RESULT" /\ resolved = "SCOREBOARD"
    <3>1. <<"SCOREBOARD", Pacings>> \in Targets("ROUND_RESULT", "TIMER_ELAPSED")
      BY DEF Targets
    <3> QED
      BY <1>1, <1>2, <2>1, <2>3, <3>1, TableGrants
  <2>4. CASE pacing = "auto" /\ resolved \in {"FINISHED", "COUNTDOWN"}
    <3>1. <<resolved, {"auto"}>> \in Targets(phase, "TIMER_ELAPSED")
      BY <1>5, <2>4 DEF Targets
    <3> QED
      BY <1>2, <2>1, <2>4, <3>1, TableGrants
  <2>5. \/ phase = "ROUND_RESULT" /\ resolved = "SCOREBOARD"
        \/ pacing = "auto" /\ resolved \in {"FINISHED", "COUNTDOWN"}
    BY <1>1, <1>5, <2>2, Resolves DEF Pacings
  <2> QED
    BY <2>3, <2>4, <2>5
<1>6. ASSUME o.kind = "recover", phase \in RecoverablePhases
      PROVE  Outcome(o).ok
  <2>1. PICK event : event = EventOf(o)
    OBVIOUS
  <2>2. /\ event.type = "HOST_PAUSE" /\ event.reason = "server_recovery"
        /\ event.remaining = TRUE
    BY <1>6, <2>1 DEF EventOf, PauseEvent
  <2>3. Outcome(o) = PauseTransition(phase, event)
    BY <1>2, <2>1, <2>2 DEF Transition
  <2> QED
    BY <1>6, <2>2, <2>3 DEF PauseTransition, RecoverablePhases, PausablePhases
<1>7. o.kind = "finish" /\ phase # "FINISHED" => Outcome(o).ok
  <2>1. o.kind = "finish" => EventOf(o) = EventTo("HOST_FINISH", "none")
    BY DEF EventOf
  <2> QED
    BY <1>2, <2>1 DEF Transition, FinishTransition, Accept, EventTo
<1> QED
  BY <1>3, <1>4, <1>5, <1>6, <1>7

-----------------------------------------------------------------------------
(* The worker's share of the invariant.                                    *)

\* What a step of the worker has to show.
LEMMA PaceStep ==
  ASSUME Fits, SoloInv, NEW s \in Slots, op[s].pc # "idle", NEW o,
         op' = [op EXCEPT ![s] = o], Numbers(matches', rounds'),
         o.pc = "idle" => AtRest(room', matches', rounds', timer', server', unbuilt'),
         o.pc # "idle" => AtWork(o, room', matches', rounds', timer', server', unbuilt')
  PROVE  PaceInv'
<1>1. \A t \in Slots : op'[t] = IF t = s THEN o ELSE op[t]
  BY DEF Fits
<1>2. \A t \in Slots : t # s => op[t].pc = "idle"
  BY DEF SoloInv, Solo
<1>3. \A t \in Slots : op'[t].pc # "idle" => t = s /\ op'[t] = o
  BY <1>1, <1>2
<1>4. Quiet' => o.pc = "idle"
  BY <1>1 DEF Quiet
<1> QED
  BY <1>3, <1>4 DEF PaceInv

\* What the invariants say of the worker.
LEMMA Working ==
  ASSUME Fits, SoloInv, PaceInv, NEW s \in Slots, op[s].pc # "idle"
  PROVE  /\ AtWork(op[s], room, matches, rounds, timer, server, unbuilt)
         /\ Numbers(matches, rounds)
BY DEF PaceInv

\* A handler that turns back, with nothing under way.
LEMMA TurnsBack ==
  ASSUME Fits, SoloInv, PaceInv, NEW s \in Slots, op[s].pc # "idle",
         op[s].pc \notin HasWritten, ~InHand(op[s]), op[s].kind \notin TimerKinds,
         op[s].kind \in {"finish", "recover"} => room.phase \in RestingPhases,
         op' = [op EXCEPT ![s] = Idle],
         UNCHANGED <<room, matches, rounds, timer, server, unbuilt>>
  PROVE  PaceInv'
<1> DEFINE o == op[s]
<1>1. /\ AtWork(o, room, matches, rounds, timer, server, unbuilt)
      /\ Numbers(matches, rounds) /\ o \in Ops
  BY Working, Holder
<1>2. /\ server = IF o.kind = "recover" THEN "recovering" ELSE "up"
      /\ Clock(o.kind, room.phase, room.config, timer, {unbuilt})
      /\ o.kind \in HostKinds \cup {"recover"}
  BY <1>1 DEF AtWork, PhaseFor, RefusedFor, Ops
<1>3. timer \in TimersOf(room.phase, room.config, {unbuilt})
  <2>1. room.phase \in RestingPhases => TimersOf(room.phase, room.config, {unbuilt}) = {"none"}
    BY DEF RestingPhases, TimersOf
  <2> QED
    BY <1>2, <2>1 DEF Clock
<1>4. /\ room.phase = "PAUSED" \/ server = "up" => StoreFollows(room, matches, rounds)
      /\ unbuilt \in BOOLEAN
  BY <1>1, <1>2 DEF AtWork
<1>5. AtRest(room, matches, rounds, timer, server, unbuilt)
  BY <1>2, <1>3, <1>4 DEF AtRest
<1>6. Idle.pc = "idle"
  BY DEF Idle
<1> QED
  BY <1>1, <1>5, <1>6, PaceStep

\* A handler that reads on.
LEMMA ReadsOn ==
  ASSUME Fits, SoloInv, PaceInv, NEW s \in Slots, op[s].pc # "idle",
         op[s].pc \notin HasWritten, ~InHand(op[s]), NEW o,
         o.pc \notin HasWritten \cup {"idle", "saveMatch"},
         o.pc = "swap" => o.kind = "rematch", o.kind = op[s].kind,
         o.pc = "loadRound" /\ o.kind = "reveal" => o.match.phase = "ROUND_ACTIVE",
         op' = [op EXCEPT ![s] = o],
         UNCHANGED <<room, matches, rounds, timer, server, unbuilt>>
  PROVE  PaceInv'
<1>1. /\ AtWork(op[s], room, matches, rounds, timer, server, unbuilt)
      /\ Numbers(matches, rounds)
  BY Working
<1>2. AtWork(o, room, matches, rounds, timer, server, unbuilt)
  BY <1>1 DEF AtWork, PhaseFor, RefusedFor, InHand, HasWritten
<1> QED
  BY <1>1, <1>2, PaceStep

\* A handler whose transition was accepted.
LEMMA Acts ==
  ASSUME Fits, SoloInv, PaceInv, NEW s \in Slots, op[s].pc # "idle",
         op[s].pc \notin HasWritten, ~InHand(op[s]), NEW o \in Ops, o.kind = op[s].kind,
         o.match \in MatchDocs, PauseFits(o.match.phase, o.match.paused),
         Outcome(o).ok, MayMove(o, rounds'), o.kind = "resume" => HasRound(o, rounds'),
         room'.phase = room.phase, room'.config = room.config,
         op' = [op EXCEPT ![s] = Decided(o)], UNCHANGED <<timer, server, unbuilt>>,
         Numbers(matches', rounds'),
         room.phase = "PAUSED" => StoreFollows(room', matches', rounds')
  PROVE  PaceInv'
<1> DEFINE d == Decided(o)
<1>1. AtWork(op[s], room, matches, rounds, timer, server, unbuilt)
  BY Working
<1>2. /\ d.kind = o.kind /\ d.match = o.match /\ d.rid = o.rid /\ d.rstat = o.rstat
      /\ d.pc \in {"swap", "saveMatch"}
  BY DecidedIs
<1>3. Promises(d, rounds')
  BY KeepsPromise
<1> HIDE DEF d
<1>4. InHand(d) /\ d.pc \notin HasWritten /\ d.pc \notin {"idle", "loadRound"}
  BY <1>2 DEF InHand, MayMove, Movers, HasWritten
<1>5. o.kind = "resume" => HasRound(d, rounds')
  BY <1>2 DEF HasRound
<1>6. AtWork(d, room', matches', rounds', timer', server', unbuilt')
  BY <1>1, <1>2, <1>3, <1>4, <1>5 DEF AtWork, PhaseFor, RefusedFor
<1> QED
  BY <1>4, <1>6, PaceStep DEF d

\* The match a handler has read is the room's.
LEMMA ReadIs ==
  ASSUME Fits, SoloInv, PaceInv, NEW s \in Slots, op[s].pc # "idle",
         op[s].pc \notin HasWritten, ~InHand(op[s]), NEW o, o.kind = op[s].kind,
         AsStored(o, room, matches)
  PROVE  /\ o.match \in MatchDocs /\ PauseFits(o.match.phase, o.match.paused)
         /\ o.room \in RoomDocs /\ Counted(o.mid, o.match, rounds)
         /\ o.kind # "recover" =>
              FollowsAs(o.mid, o.match.phase, o.match.paused, o.match, rounds)
         /\ room.phase = o.match.phase \/ (o.match.phase = "FINISHED" /\ room.phase = "LOBBY")
         /\ o.kind = "startRound" => o.match.phase = "COUNTDOWN"
         /\ o.kind = "endRound" => o.match.phase = "ROUND_ACTIVE"
         /\ o.kind = "advance" =>
              \/ o.match.phase = "ROUND_RESULT"
              \/ o.match.phase = "SCOREBOARD" /\ o.room.config.pacing = "auto"
<1>1. /\ AtWork(op[s], room, matches, rounds, timer, server, unbuilt)
      /\ Numbers(matches, rounds)
  BY Working
<1>2. /\ o.mid = room.currentMatchId /\ o.mid # 0 /\ o.match = matches[o.mid]
      /\ o.room = room
  BY DEF AsStored
<1>3. /\ o.mid \in MatchIds /\ o.match \in MatchDocs /\ o.room \in RoomDocs
      /\ PauseFits(o.match.phase, o.match.paused)
  BY <1>2, Worker DEF MatchFits
<1>4. Counted(o.mid, o.match, rounds)
  BY <1>1, <1>2, <1>3 DEF Numbers
<1>5. o.kind # "recover" =>
        FollowsAs(o.mid, o.match.phase, o.match.paused, o.match, rounds)
  BY <1>1, <1>2 DEF AtWork, StoreFollows
<1>6. room.phase = o.match.phase \/ (o.match.phase = "FINISHED" /\ room.phase = "LOBBY")
  BY <1>2 DEF SoloInv, Projects
<1>7. Clock(o.kind, room.phase, room.config, timer, {unbuilt})
  BY <1>1 DEF AtWork, PhaseFor, RefusedFor
<1> QED
  BY <1>2, <1>3, <1>4, <1>5, <1>6, <1>7 DEF Clock

\* A handler that has read all it needs, and changes nothing before the transition.
LEMMA Decides ==
  ASSUME Fits, SoloInv, PaceInv, NEW s \in Slots, op[s].pc # "idle",
         op[s].pc \notin HasWritten, ~InHand(op[s]), NEW o \in Ops, o.kind = op[s].kind,
         AsStored(o, room, matches), o.kind \in Movers \ {"startRound", "endRound"},
         o.kind = "resume" => HasRound(o, rounds),
         o.kind = "finish" => o.match.phase # "FINISHED",
         o.kind = "recover" => o.match.phase \in RecoverablePhases,
         op' = [op EXCEPT ![s] = Decided(o)],
         UNCHANGED <<room, matches, rounds, timer, server, unbuilt>>
  PROVE  PaceInv'
<1>1. /\ o.match \in MatchDocs /\ PauseFits(o.match.phase, o.match.paused)
      /\ o.room \in RoomDocs /\ Counted(o.mid, o.match, rounds)
      /\ o.kind # "recover" =>
           FollowsAs(o.mid, o.match.phase, o.match.paused, o.match, rounds)
      /\ o.kind = "advance" =>
           \/ o.match.phase = "ROUND_RESULT"
           \/ o.match.phase = "SCOREBOARD" /\ o.room.config.pacing = "auto"
  BY ReadIs
<1>2. CASE ~Outcome(o).ok
  <2>1. o.kind \notin TimerKinds \cup {"finish", "recover"}
    BY <1>1, <1>2, NeverRefused DEF TimerKinds
  <2>2. op' = [op EXCEPT ![s] = Idle]
    BY <1>2 DEF Decided
  <2> QED
    BY <2>1, <2>2, TurnsBack
<1>3. CASE Outcome(o).ok
  <2>1. MayMove(o, rounds')
    BY <1>1 DEF MayMove
  <2>2. room.phase = "PAUSED" => StoreFollows(room, matches, rounds)
    BY Working DEF AtWork
  <2>3. Numbers(matches, rounds)
    BY Working
  <2> QED
    BY <1>1, <1>3, <2>1, <2>2, <2>3, Acts
<1> QED
  BY <1>2, <1>3

-----------------------------------------------------------------------------
(* The actions that read.                                                  *)

\* A place where nothing is in hand and nothing written.
LEMMA Reading ==
  ASSUME NEW o, o.pc \in {"loadRoom", "loadMatch", "listPlayers", "loadRound",
                          "createMatch", "touchStart", "saveRound", "saveEnded",
                          "saveNext", "reloadRoom", "touchRematch", "saveRoom"}
  PROVE  o.pc # "idle" /\ o.pc \notin HasWritten /\ ~InHand(o)
BY DEF HasWritten, InHand

LEMMA LoadRoomPaced ==
  ASSUME Fits, SoloInv, PaceInv, NEW s \in Slots, LoadRoom(s)
  PROVE  PaceInv'
<1> DEFINE o == op[s]
           place == IF room.currentMatchId = 0 THEN "listPlayers"
                                               ELSE "loadMatch"
           loaded == [o EXCEPT !.room = room, !.mid = room.currentMatchId,
                               !.pc = place]
<1>1. /\ o.pc = "loadRoom" /\ UNCHANGED <<room, matches, rounds, timer, server, unbuilt>>
      /\ \/ /\ op' = [op EXCEPT ![s] = Idle]
            /\ room.currentMatchId = 0 \/ o.kind = "reveal"
         \/ op' = [op EXCEPT ![s] = loaded]
  BY DEF LoadRoom, At, Becomes
<1>2. o \in Ops
  BY Holder
<1>3. o.pc # "idle" /\ o.pc \notin HasWritten /\ ~InHand(o)
  BY <1>1, Reading
<1>4. /\ loaded.pc = place /\ loaded.kind = o.kind
  BY <1>2 DEF Ops
<1> HIDE DEF loaded
<1>5. CASE op' = [op EXCEPT ![s] = loaded]
  BY <1>1, <1>3, <1>4, <1>5, ReadsOn DEF HasWritten
<1>6. CASE op' = [op EXCEPT ![s] = Idle] /\ (room.currentMatchId = 0 \/ o.kind = "reveal")
  <2>1. Clock(o.kind, room.phase, room.config, timer, {unbuilt})
    BY <1>3, Working DEF AtWork, PhaseFor, RefusedFor
  <2>2. room.currentMatchId = 0 => room.phase = "LOBBY"
    BY DEF SoloInv, Projects
  <2>3. o.kind \notin TimerKinds
    BY <1>6, <2>1, <2>2 DEF Clock, TimerKinds
  <2>4. o.kind \in {"finish", "recover"} => room.phase \in RestingPhases
    BY <1>6, <2>2 DEF RestingPhases
  <2> QED
    BY <1>1, <1>3, <1>6, <2>3, <2>4, TurnsBack
<1> QED
  BY <1>1, <1>5, <1>6

LEMMA LoadMatchPaced ==
  ASSUME Fits, SoloInv, PaceInv, NEW s \in Slots, LoadMatch(s)
  PROVE  PaceInv'
<1> DEFINE o == op[s]
           loaded == [o EXCEPT !.match = matches[o.mid]]
           place == PlaceAfterMatch(o.kind)
           placed == [loaded EXCEPT !.pc = PlaceAfterMatch(loaded.kind)]
<1>1. /\ o.pc = "loadMatch" /\ UNCHANGED <<room, matches, rounds, timer, server, unbuilt>>
      /\ op' = [op EXCEPT ![s] = WithMatch(loaded)]
  BY DEF LoadMatch, At, Becomes
<1>w. o.pc # "idle" /\ o.pc \notin HasWritten /\ ~InHand(o)
  BY <1>1, Reading
<1>2. /\ o \in Ops /\ o.mid = room.currentMatchId /\ o.mid # 0 /\ o.room = room
      /\ matches[o.mid] \in MatchDocs /\ o.rid = 0 /\ KindFits(o)
  BY <1>1, Worker DEF PlaceFits, Current, TransitionReads, BeforeVerdict
<1>3. /\ loaded \in Ops /\ loaded.kind = o.kind /\ loaded.room = room
      /\ loaded.mid = o.mid /\ loaded.match = matches[o.mid] /\ loaded.rid = 0
  BY <1>2 DEF Ops
<1> HIDE DEF loaded
<1>4. AsStored(loaded, room, matches)
  BY <1>2, <1>3 DEF AsStored
<1>5. /\ loaded.match \in MatchDocs /\ loaded.room \in RoomDocs
      /\ o.kind # "recover" =>
           FollowsAs(loaded.mid, loaded.match.phase, loaded.match.paused, loaded.match,
                     rounds)
      /\ \/ room.phase = loaded.match.phase
         \/ loaded.match.phase = "FINISHED" /\ room.phase = "LOBBY"
      /\ o.kind = "startRound" => loaded.match.phase = "COUNTDOWN"
      /\ o.kind = "endRound" => loaded.match.phase = "ROUND_ACTIVE"
  BY <1>w, <1>3, <1>4, ReadIs
<1>6. CASE RefusesMatch(loaded)
  <2>1. loaded.kind # "startRound"
    BY <1>3, <1>5, <1>6, NeverRefused DEF RefusesMatch
  <2>2. loaded.kind # "endRound"
    BY <1>3, <1>5, <1>6 DEF RefusesMatch, ReadsRound, FollowsAs, Shown, Follows
  <2>3. loaded.kind # "advance"
    BY <1>6 DEF RefusesMatch
  <2>4. loaded.kind \in {"finish", "recover"} => room.phase \in RestingPhases
    BY <1>5, <1>6
       DEF RefusesMatch, RestingPhases, RecoverablePhases, MatchDocs, Phases
  <2>5. op' = [op EXCEPT ![s] = Idle]
    BY <1>1, <1>6 DEF WithMatch
  <2> QED
    BY <1>1, <1>w, <1>3, <2>1, <2>2, <2>3, <2>4, <2>5, TurnsBack DEF TimerKinds
<1>7. CASE ~RefusesMatch(loaded) /\ (ReadsRound(loaded)
             \/ loaded.kind \in {"start", "startRound", "rematch"})
  <2>1. WithMatch(loaded) = placed
    BY <1>7 DEF WithMatch
  <2>2. place \in {"listPlayers", "saveRound", "saveNext", "loadRound"}
    BY Zenon DEF PlaceAfterMatch
  <2>3. placed.kind = o.kind /\ placed.pc = place /\ placed.match = loaded.match
    BY <1>3, <2>2 DEF Ops
  <2> HIDE DEF placed, place
  <2>4. o.kind = "reveal" => placed.match.phase = "ROUND_ACTIVE"
    BY <1>3, <1>7, <2>3 DEF RefusesMatch
  <2> QED
    BY <1>1, <1>w, <2>1, <2>2, <2>3, <2>4, ReadsOn DEF HasWritten
<1>8. CASE ~RefusesMatch(loaded) /\ ~ReadsRound(loaded)
             /\ loaded.kind \notin {"start", "startRound", "rematch"}
  <2>1. WithMatch(loaded) = Decided(loaded)
    BY <1>8 DEF WithMatch
  <2>2. loaded.kind \in Movers \ {"startRound", "endRound"}
    BY <1>1, <1>2, <1>3, <1>8
       DEF KindFits, RefusesMatch, Movers, Ops, HostKinds, TimerKinds
  <2>3. loaded.kind = "resume" => HasRound(loaded, rounds)
    BY <1>3, <1>8 DEF ReadsRound, HasRound
  <2>4. /\ loaded.kind = "finish" => loaded.match.phase # "FINISHED"
        /\ loaded.kind = "recover" => loaded.match.phase \in RecoverablePhases
    BY <1>8 DEF RefusesMatch
  <2> QED
    BY <1>1, <1>w, <1>3, <1>4, <2>1, <2>2, <2>3, <2>4, Decides
<1> QED
  BY <1>6, <1>7, <1>8

LEMMA ListPlayersPaced ==
  ASSUME Fits, SoloInv, PaceInv, NEW s \in Slots, ListPlayers(s)
  PROVE  PaceInv'
<1> DEFINE o == op[s]
           place == IF o.match = NoMatch THEN "createMatch" ELSE "touchStart"
           placed == [o EXCEPT !.pc = place]
<1>1. /\ o.pc = "listPlayers" /\ UNCHANGED <<room, matches, rounds, timer, server, unbuilt>>
      /\ \/ op' = [op EXCEPT ![s] = Idle]
         \/ op' = [op EXCEPT ![s] = placed]
  BY DEF ListPlayers, At, Becomes
<1>2. o \in Ops /\ o.kind = "start"
  BY <1>1, Worker DEF PlaceFits, OfStart
<1>3. placed.kind = "start" /\ placed.pc = place
  BY <1>2 DEF Ops
<1> HIDE DEF placed
<1>4. o.pc # "idle" /\ o.pc \notin HasWritten /\ ~InHand(o) /\ o.kind \notin TimerKinds
  BY <1>1, <1>2, Reading DEF TimerKinds
<1> QED
  BY <1>1, <1>2, <1>3, <1>4, TurnsBack, ReadsOn DEF HasWritten

\* The round a handler reads is the match's last.
LEMMA LastRoundIs ==
  ASSUME Fits, NEW m \in MatchIds, NEW doc \in MatchDocs, MatchFits(m, doc, rounds),
         doc.roundIds # <<>>
  PROVE  /\ CurrentRoundId(doc) \in RoundIds
         /\ rounds[CurrentRoundId(doc)] \in RoundDocs
         /\ rounds[CurrentRoundId(doc)].match = m
         /\ rounds[CurrentRoundId(doc)].status \in {"ACTIVE", "ENDED"}
<1>1. doc.roundIds \in Seq(RoundIds)
  BY DEF MatchDocs
<1>2. /\ CurrentRoundId(doc) \in RoundIds
      /\ Len(doc.roundIds) \in 1..Len(doc.roundIds)
  BY <1>1 DEF CurrentRoundId
<1>3. rounds[CurrentRoundId(doc)].match = m /\ m # 0
  BY <1>2 DEF MatchFits, CurrentRoundId, MatchIds
<1>4. rounds[CurrentRoundId(doc)] \in RoundDocs \cup {NoRound}
  BY <1>2 DEF Fits, StoreFits, StoreTypes
<1> QED
  BY <1>2, <1>3, <1>4 DEF NoRound, RoundDocs

LEMMA LoadRoundPaced ==
  ASSUME Fits, SoloInv, PaceInv, NEW s \in Slots, LoadRound(s)
  PROVE  PaceInv'
<1> DEFINE o == op[s]
           last == CurrentRoundId(o.match)
           status == rounds[last].status
           loaded == [o EXCEPT !.rid = last, !.rstat = status]
           ended == [loaded EXCEPT !.pc = "saveEnded"]
<1>1. /\ o.pc = "loadRound" /\ o.kind # "reveal"
      /\ UNCHANGED <<room, matches, rounds, timer, server, unbuilt>>
      /\ op' = [op EXCEPT ![s] =
                  IF loaded.kind # "endRound" THEN Decided(loaded)
                  ELSE IF loaded.rstat # "none" /\ Outcome(loaded).ok THEN ended ELSE Idle]
  BY DEF LoadRound, At, Becomes
<1>w. o.pc # "idle" /\ o.pc \notin HasWritten /\ ~InHand(o)
  BY <1>1, Reading
<1>2. /\ o \in Ops /\ ReadsRound(o) /\ AsStored(o, room, matches)
      /\ o.match \in MatchDocs /\ MatchFits(o.mid, o.match, rounds) /\ o.mid \in MatchIds
  BY <1>1, Worker DEF KindFits, Current, TransitionReads, AsStored
<1>3. last \in RoundIds /\ status \in {"ACTIVE", "ENDED"}
  BY <1>2, LastRoundIs DEF ReadsRound
<1> HIDE DEF status
<1>4. /\ loaded \in Ops /\ loaded.kind = o.kind /\ loaded.room = o.room
      /\ loaded.mid = o.mid /\ loaded.match = o.match /\ loaded.rid = last
      /\ loaded.rstat = status
  <2>1. o \in Ops /\ last \in RoundIds \cup {0}
    BY <1>2, <1>3
  <2>2. loaded = [o EXCEPT !.rid = last, !.rstat = status]
    OBVIOUS
  <2> HIDE DEF last, o, loaded
  <2> QED
    BY <1>3, <2>1, <2>2 DEF Ops
<1> HIDE DEF loaded
<1>5. AsStored(loaded, room, matches) /\ loaded.kind \in Movers \ {"startRound", "finish", "recover"}
  BY <1>1, <1>2, <1>4 DEF AsStored, ReadsRound, Movers
<1>6. CASE loaded.kind # "endRound"
  <2>1. HasRound(loaded, rounds)
    BY <1>3, <1>4 DEF HasRound, status, RoundIds
  <2> QED
    BY <1>1, <1>w, <1>4, <1>5, <1>6, <2>1, Decides
<1>7. CASE loaded.kind = "endRound"
  <2>1. loaded.match.phase = "ROUND_ACTIVE" /\ loaded.room \in RoomDocs
    BY <1>w, <1>4, <1>5, <1>7, ReadIs
  <2>2. Outcome(loaded).ok
    BY <1>2, <1>4, <1>7, <2>1, NeverRefused
  <2>3. ended.pc = "saveEnded" /\ ended.kind = o.kind
    BY <1>4 DEF Ops
  <2>4. op' = [op EXCEPT ![s] = ended]
    BY <1>1, <1>3, <1>4, <1>7, <2>2
  <2> HIDE DEF ended
  <2> QED
    BY <1>1, <1>w, <2>3, <2>4, ReadsOn DEF HasWritten
<1> QED
  BY <1>6, <1>7

\* A reveal that may go ahead runs endRound with the clock it needs.
LEMMA GateRevealPaced ==
  ASSUME Fits, SoloInv, PaceInv, NEW s \in Slots, GateReveal(s)
  PROVE  PaceInv'
<1> DEFINE o == op[s]
<1>1. /\ o.pc = "loadRound" /\ o.kind = "reveal"
      /\ UNCHANGED <<room, matches, rounds, timer, server, unbuilt>>
      /\ \/ op' = [op EXCEPT ![s] = Idle]
         \/ op' = [op EXCEPT ![s] = Begin("endRound")]
  BY DEF GateReveal, At, Becomes
<1>w. o.pc # "idle" /\ o.pc \notin HasWritten /\ ~InHand(o)
  BY <1>1, Reading
<1>2. /\ AtWork(o, room, matches, rounds, timer, server, unbuilt) /\ Numbers(matches, rounds)
      /\ AsStored(o, room, matches)
  BY <1>1, <1>w, Working, Worker DEF Current, TransitionReads
<1>3. CASE op' = [op EXCEPT ![s] = Idle]
  BY <1>1, <1>w, <1>3, TurnsBack DEF TimerKinds
<1>4. CASE op' = [op EXCEPT ![s] = Begin("endRound")]
  <2>1. room.phase = "ROUND_ACTIVE"
    BY <1>1, <1>2 DEF AtWork, AsStored, SoloInv, Projects
  <2>2. timer \in {"none", "endRound"}
    BY <1>1, <1>2, <2>1 DEF AtWork, PhaseFor, RefusedFor, Clock, HostKinds, TimersOf, HasWritten
  <2>3. Clock("endRound", room.phase, room.config, timer, {unbuilt})
    BY <2>1, <2>2 DEF Clock, HostKinds
  <2>4. Begin("endRound").kind = "endRound" /\ Begin("endRound").pc = "loadRoom"
    BY DEF Begin, Idle
  <2>5. AtWork(Begin("endRound"), room, matches, rounds, timer, server, unbuilt)
    BY <1>1, <1>w, <1>2, <2>3, <2>4 DEF AtWork, PhaseFor, RefusedFor, InHand, HasWritten
  <2> QED
    BY <1>1, <1>w, <1>2, <1>4, <2>4, <2>5, PaceStep
<1> QED
  BY <1>1, <1>3, <1>4

-----------------------------------------------------------------------------
(* The actions that write before the transition.                           *)

\* A new match counts nothing.
LEMMA NewCounts ==
  ASSUME NEW m, NEW sequence, NEW phase, NEW rs
  PROVE  Counted(m, NewMatch(sequence, phase), rs)
BY EndedIsFinite, ConfigAssumption DEF Counted, NewMatch

LEMMA CreateMatchPaced ==
  ASSUME Fits, SoloInv, PaceInv, NEW s \in Slots, CreateMatch(s)
  PROVE  PaceInv'
<1> DEFINE o == op[s]
           doc == NewMatch(1, "LOBBY")
<1>1. o.pc = "createMatch"
  BY DEF CreateMatch, At
<1>2. PICK m \in MatchIds :
        /\ matches' = [matches EXCEPT ![m] = doc]
        /\ UNCHANGED <<room, rounds, timer, server, unbuilt>>
        /\ op' = [op EXCEPT ![s] = [o EXCEPT !.mid = m, !.pc = "touchStart",
                                             !.match = doc]]
  BY DEF CreateMatch, Becomes
<1>w. o.pc # "idle" /\ o.pc \notin HasWritten /\ ~InHand(o)
  BY <1>1, Reading
<1>3. /\ o \in Ops /\ o.kind = "start" /\ room.currentMatchId = 0
      /\ AtWork(o, room, matches, rounds, timer, server, unbuilt) /\ Numbers(matches, rounds)
  BY <1>1, <1>w, Worker, Working DEF PlaceFits, OfStart, Current, StartReads
<1> DEFINE next == [o EXCEPT !.mid = m, !.pc = "touchStart", !.match = doc]
<1>4. next.kind = "start" /\ next.pc = "touchStart"
  BY <1>3 DEF Ops
<1>5. Counted(m, doc, rounds)
  BY NewCounts
<1> HIDE DEF next, doc
<1>6. Numbers(matches', rounds')
  BY <1>2, <1>3, <1>5, Worker DEF Numbers
<1>7. AtWork(next, room', matches', rounds', timer', server', unbuilt')
  BY <1>2, <1>3, <1>4, <1>w DEF AtWork, PhaseFor, RefusedFor, InHand, HasWritten, StoreFollows
<1> QED
  BY <1>2, <1>4, <1>6, <1>7, <1>w, PaceStep DEF next

LEMMA TouchStartPaced ==
  ASSUME Fits, SoloInv, PaceInv, NEW s \in Slots, TouchStart(s)
  PROVE  PaceInv'
<1> DEFINE o == op[s]
           noted == [o EXCEPT !.room = room']
<1>1. /\ o.pc = "touchStart" /\ room' = [o.room EXCEPT !.currentMatchId = o.mid]
      /\ op' = [op EXCEPT ![s] = Decided(noted)]
      /\ UNCHANGED <<matches, rounds, timer, server, unbuilt>>
  BY DEF TouchStart, At, Becomes
<1>w. o.pc # "idle" /\ o.pc \notin HasWritten /\ ~InHand(o)
  BY <1>1, Reading
<1>2. /\ o \in Ops /\ o.kind = "start" /\ o.room = room /\ room.phase = "LOBBY"
      /\ o.mid # 0 /\ o.match = matches[o.mid] /\ o.match.phase = "LOBBY"
      /\ OpFits(o, matches, rounds) /\ room \in RoomDocs
      /\ AtWork(o, room, matches, rounds, timer, server, unbuilt) /\ Numbers(matches, rounds)
  BY <1>1, <1>w, Worker, Working DEF PlaceFits, OfStart, Current, StartReads
<1>3. /\ o.mid \in MatchIds /\ o.match \in MatchDocs
      /\ PauseFits(o.match.phase, o.match.paused)
  BY <1>2, HolderMatch DEF OpFits, Ops, MatchFits
<1>4. /\ room' \in RoomDocs /\ room'.phase = "LOBBY" /\ room'.config = room.config
  BY <1>1, <1>2, <1>3 DEF RoomDocs
<1>5. /\ noted \in Ops /\ noted.kind = "start" /\ noted.room = room'
      /\ noted.mid = o.mid /\ noted.match = o.match
  BY <1>2, <1>4 DEF Ops
<1> HIDE DEF noted
<1>6. Outcome(noted).ok
  <2>1. EventOf(noted) = EventTo("HOST_START", "COUNTDOWN")
    BY <1>5 DEF EventOf
  <2>2. room'.config.pacing \in Pacings
    BY <1>4, ConfigAssumption DEF RoomDocs, ConfigRecords
  <2> QED
    BY <1>2, <1>5, <2>1, <2>2, StartAccepts DEF Outcome
<1>7. MayMove(noted, rounds')
  <2>1. FollowsAs(o.mid, o.match.phase, o.match.paused, o.match, rounds)
    BY <1>2, FollowsTrivially DEF Shown
  <2>2. Counted(o.mid, o.match, rounds)
    BY <1>2, <1>3 DEF Numbers
  <2> QED
    BY <1>1, <1>5, <2>1, <2>2 DEF MayMove, Movers
<1>8. Numbers(matches', rounds')
  BY <1>1, <1>2
<1> QED
  BY <1>1, <1>w, <1>2, <1>3, <1>4, <1>5, <1>6, <1>7, <1>8, Acts

LEMMA SaveRoundPaced ==
  ASSUME Fits, SoloInv, PaceInv, NEW s \in Slots, SaveRound(s)
  PROVE  PaceInv'
<1> DEFINE o == op[s]
<1>1. o.pc = "saveRound"
  BY DEF SaveRound, At
<1>2. PICK r \in RoundIds :
        /\ rounds[r] = NoRound
        /\ rounds' = [rounds EXCEPT ![r] = [match |-> o.mid, status |-> "ACTIVE"]]
        /\ op' = [op EXCEPT ![s] = Decided([o EXCEPT !.rid = r, !.rstat = "ACTIVE"])]
        /\ UNCHANGED <<room, matches, timer, server, unbuilt>>
  BY DEF SaveRound, Becomes, FreshRoundId
<1> DEFINE noted == [o EXCEPT !.rid = r, !.rstat = "ACTIVE"]
<1>w. o.pc # "idle" /\ o.pc \notin HasWritten /\ ~InHand(o)
  BY <1>1, Reading
<1>3. /\ o \in Ops /\ o.kind = "startRound" /\ AsStored(o, room, matches)
      /\ Numbers(matches, rounds)
  BY <1>1, <1>w, Worker, Working DEF KindFits, Current, TransitionReads
<1>r. o \in Ops /\ noted = [o EXCEPT !.rid = r, !.rstat = "ACTIVE"]
      /\ op' = [op EXCEPT ![s] = Decided(noted)]
  BY <1>2, <1>3
<1>4. /\ o.match \in MatchDocs /\ o.room \in RoomDocs
      /\ o.match.phase = "COUNTDOWN" /\ PauseFits(o.match.phase, o.match.paused)
      /\ Counted(o.mid, o.match, rounds) /\ room.phase = "COUNTDOWN"
  BY <1>w, <1>3, ReadIs
<1>5. rounds'[r].status = "ACTIVE" /\ \A k \in RoundIds \ {r} : rounds'[k] = rounds[k]
  BY <1>2 DEF Fits, StoreFits, StoreTypes
<1>6. \A m : EndedOf(m, rounds') = EndedOf(m, rounds)
  BY <1>2, <1>5 DEF EndedOf, NoRound
<1>7. \A m, doc : Counted(m, doc, rounds) => Counted(m, doc, rounds')
  BY <1>6, EndedSame
<1> HIDE DEF noted, o
<1>8. /\ noted \in Ops /\ noted.kind = o.kind /\ noted.room = o.room
      /\ noted.mid = o.mid /\ noted.match = o.match /\ noted.rid = r
  BY <1>r DEF Ops
<1>9. Outcome(noted).ok
  BY <1>3, <1>4, <1>8, NeverRefused
<1>10. MayMove(noted, rounds')
  <2>1. FollowsAs(o.mid, o.match.phase, o.match.paused, o.match, rounds')
    BY <1>4, FollowsTrivially DEF Shown
  <2> QED
    BY <1>3, <1>4, <1>5, <1>7, <1>8, <2>1 DEF MayMove, Movers
<1>11. Numbers(matches', rounds')
  BY <1>2, <1>3, <1>7 DEF Numbers
<1> QED
  BY <1>2, <1>r, <1>w, <1>3, <1>4, <1>8, <1>9, <1>10, <1>11, Acts DEF o

LEMMA SaveEndedPaced ==
  ASSUME Fits, SoloInv, PaceInv, NEW s \in Slots, SaveEnded(s)
  PROVE  PaceInv'
<1> DEFINE o == op[s]
<1>1. /\ o.pc = "saveEnded" /\ UNCHANGED <<room, matches, timer, server, unbuilt>>
      /\ rounds' = [rounds EXCEPT ![o.rid] = [match |-> o.mid, status |-> "ENDED"]]
      /\ op' = [op EXCEPT ![s] = Decided(o)]
  BY DEF SaveEnded, At, Becomes
<1>w. o.pc # "idle" /\ o.pc \notin HasWritten /\ ~InHand(o)
  BY <1>1, Reading
<1>2. /\ o \in Ops /\ o.kind = "endRound" /\ AsStored(o, room, matches)
      /\ o.rid = CurrentRoundId(o.match) /\ o.mid \in MatchIds
      /\ MatchFits(o.mid, o.match, rounds) /\ Numbers(matches, rounds)
  BY <1>1, <1>w, Worker, Working DEF KindFits, Current, TransitionReads, AsStored
<1>3. /\ o.match \in MatchDocs /\ o.room \in RoomDocs
      /\ o.match.phase = "ROUND_ACTIVE" /\ PauseFits(o.match.phase, o.match.paused)
      /\ Counted(o.mid, o.match, rounds) /\ room.phase = "ROUND_ACTIVE"
      /\ FollowsAs(o.mid, o.match.phase, o.match.paused, o.match, rounds)
  BY <1>w, <1>2, ReadIs
<1>4. o.match.roundIds # <<>> /\ rounds[o.rid].status = "ACTIVE"
  BY <1>2, <1>3 DEF FollowsAs, Shown, Follows
<1>5. o.rid \in RoundIds /\ rounds[o.rid].match = o.mid
  BY <1>2, <1>3, <1>4, LastRoundIs
<1>6. /\ rounds'[o.rid].match = o.mid /\ rounds'[o.rid].status = "ENDED"
      /\ \A k \in RoundIds \ {o.rid} : rounds'[k] = rounds[k]
  BY <1>1, <1>5 DEF Fits, StoreFits, StoreTypes
<1>7. Cardinality(EndedOf(o.mid, rounds')) = Cardinality(EndedOf(o.mid, rounds)) + 1
  BY <1>4, <1>5, <1>6, EndedOneMore
<1>8. \A m : m # o.mid => EndedOf(m, rounds') = EndedOf(m, rounds)
  BY <1>5, <1>6 DEF EndedOf
<1>i. \A m \in MatchIds : (matches[m] \in MatchDocs \cup {NoMatch})
  BY Worker
<1>9. ASSUME NEW m \in MatchIds
      PROVE  Counted(m, matches[m], rounds')
  <2>1. Counted(m, matches[m], rounds)
    BY <1>2 DEF Numbers
  <2>2. CASE m # o.mid
    BY <1>8, <2>1, <2>2, EndedSame
  <2>3. CASE m = o.mid
    <3>1. matches[m].roundIndex \in Nat
      BY <1>i DEF MatchDocs, NoMatch
    <3>2. Cardinality(EndedOf(m, rounds)) \in Nat
      BY EndedIsFinite
    <3> QED
      BY <1>7, <2>1, <2>3, <3>1, <3>2 DEF Counted
  <2> QED
    BY <2>2, <2>3
<1>10. Counted(o.mid, o.match, rounds')
  BY <1>2, <1>9 DEF AsStored
<1>11. Follows(o.mid, "ROUND_RESULT", o.match, rounds')
  <2>1. o.match.roundIndex \in Nat
    BY <1>3 DEF MatchDocs
  <2>2. o.match.roundIndex < Cardinality(EndedOf(o.mid, rounds'))
    BY <1>3, <1>7, <2>1, EndedIsFinite DEF Counted
  <2> QED
    BY <1>2, <1>4, <1>6, <2>2 DEF Follows
<1>12. MayMove(o, rounds')
  BY <1>2, <1>10, <1>11 DEF MayMove, Movers
<1>13. Outcome(o).ok
  BY <1>2, <1>3, NeverRefused
<1>14. Numbers(matches', rounds')
  BY <1>1, <1>9 DEF Numbers
<1> QED
  BY <1>1, <1>w, <1>2, <1>3, <1>12, <1>13, <1>14, Acts

\* The bookkeeping of a transition that is still to be swapped in.
LEMMA SaveMatchPaced ==
  ASSUME Fits, SoloInv, PaceInv, NEW s \in Slots, SaveMatch(s)
  PROVE  PaceInv'
<1> DEFINE o == op[s]
           moved == [o EXCEPT !.pc = "swap"]
<1>1. /\ o.pc = "saveMatch" /\ UNCHANGED <<room, rounds, timer, server, unbuilt>>
      /\ matches' = [matches EXCEPT ![o.mid] = Patched(o)]
      /\ op' = [op EXCEPT ![s] = moved]
  BY DEF SaveMatch, At, Becomes
<1>2. /\ o \in Ops /\ AsStored(o, room, matches) /\ KindFits(o)
      /\ o.match \in MatchDocs /\ o.mid \in MatchIds
      /\ AtWork(o, room, matches, rounds, timer, server, unbuilt) /\ Numbers(matches, rounds)
  BY <1>1, Worker, Working DEF Current, TransitionReads, AsStored
<1>3. /\ moved.pc = "swap" /\ moved.kind = o.kind /\ moved.mid = o.mid
      /\ moved.match = o.match /\ moved.rid = o.rid /\ moved.rstat = o.rstat
      /\ moved.next = o.next /\ moved.paused = o.paused /\ Patched(moved) = Patched(o)
  BY <1>2, OnlyPlace DEF SwapPlaces
<1> HIDE DEF moved
<1>4. InHand(o) /\ InHand(moved) /\ o.pc \notin HasWritten /\ moved.pc \notin HasWritten
  BY <1>1, <1>2, <1>3 DEF KindFits, InHand, HasWritten
<1>5. /\ matches'[o.mid] = Patched(o)
      /\ \A m \in MatchIds \ {o.mid} : matches'[m] = matches[m]
  BY <1>1, <1>2, Worker
<1>6. Promises(o, rounds)
  BY <1>2, <1>4 DEF AtWork
<1>7. Promises(moved, rounds)
  BY <1>3, <1>6 DEF Promises
<1>8. Numbers(matches', rounds')
  BY <1>1, <1>2, <1>5, <1>6 DEF Numbers, Promises
<1>9. room.phase = "PAUSED" => StoreFollows(room', matches', rounds')
  <2> SUFFICES ASSUME room.phase = "PAUSED"
               PROVE  StoreFollows(room, matches', rounds)
    BY <1>1
  <2>1. o.match.phase = "PAUSED" /\ o.kind # "startRound"
    BY <1>2, <1>4
       DEF AsStored, SoloInv, Projects, AtWork, PhaseFor, Clock
  <2>2. /\ Patched(o).roundIndex = o.match.roundIndex
        /\ Patched(o).roundIds = o.match.roundIds
        /\ Patched(o).phase = o.match.phase /\ Patched(o).paused = o.match.paused
    BY <1>2, <2>1, PatchedRounds, PatchedKeeps DEF EntersNextRound
  <2>3. FollowsAs(o.mid, o.match.phase, o.match.paused, o.match, rounds)
    BY <1>2 DEF AtWork, StoreFollows, AsStored
  <2>4. FollowsAs(o.mid, o.match.phase, o.match.paused, Patched(o), rounds)
    BY <2>2, <2>3, FollowsSame DEF FollowsAs
  <2> QED
    BY <1>2, <1>5, <2>2, <2>4 DEF StoreFollows, AsStored
<1>10. o.kind = "resume" => HasRound(moved, rounds)
  BY <1>1, <1>2, <1>3 DEF AtWork, HasRound
<1>11. AtWork(moved, room', matches', rounds', timer', server', unbuilt')
  BY <1>1, <1>2, <1>3, <1>4, <1>7, <1>9, <1>10 DEF AtWork, PhaseFor, RefusedFor
<1> QED
  BY <1>1, <1>3, <1>8, <1>11, PaceStep

\* The swap keeps what was promised.
LEMMA SwapPhasePaced ==
  ASSUME Fits, SoloInv, PaceInv, NEW s \in Slots, SwapPhase(s)
  PROVE  PaceInv'
<1> DEFINE o == op[s]
           place == IF o.kind = "rematch" THEN "reloadRoom" ELSE "touchRoom"
           moved == [o EXCEPT !.pc = place]
<1>1. /\ o.pc = "swap" /\ o \in Ops /\ OpFits(o, matches, rounds)
      /\ TransitionReads(o, room, matches) /\ RematchReads(o, room, matches)
      /\ room \in RoomDocs /\ o.pc \notin HasWritten /\ o.pc # "idle"
  BY Worker DEF SwapPhase, At, Current, HasWritten
<1>2. AtWork(o, room, matches, rounds, timer, server, unbuilt) /\ Numbers(matches, rounds)
  BY <1>1, Working
<1>3. /\ o.mid \in MatchIds /\ matches[o.mid] \in MatchDocs /\ o.match \in MatchDocs
  <2>1. o.mid # 0 /\ o.mid \in MatchIds \cup {0} /\ o.match # NoMatch
    BY <1>1 DEF TransitionReads, RematchReads, OpFits, PlaceFits, HoldsMatch, Ops
  <2> QED
    BY <1>1, <2>1, HolderMatch DEF OpFits, MatchFits
<1>4. UNCHANGED <<rounds, timer, server>>
  BY DEF SwapPhase, Becomes
<1>5. ASSUME o.kind # "rematch"
      PROVE  /\ o.mid = room.currentMatchId /\ o.mid # 0
             /\ matches[o.mid] = Patched(o) /\ Verdict(o) /\ PhasesAreAsRead(o)
  <2>1. /\ o.mid = room.currentMatchId /\ o.mid # 0
        /\ matches[o.mid] = Patched(o) /\ Verdict(o)
    BY <1>1, <1>5 DEF TransitionReads
  <2>2. matches[o.mid].phase = o.match.phase
    BY <1>1, <1>3, <2>1, PatchedKeeps
  <2>3. o.match.phase # "FINISHED"
    BY <1>1, <2>1, FinishedStops DEF Verdict
  <2> QED
    BY <2>1, <2>2, <2>3 DEF SoloInv, Projects, PhasesAreAsRead
<1>6. CASE ~PhasesAreAsRead(o)
  <2>1. op' = [op EXCEPT ![s] = Idle] /\ UNCHANGED <<room, matches, unbuilt>>
    BY <1>6 DEF SwapPhase, Becomes
  <2>2. o.kind = "rematch"
    BY <1>5, <1>6
  <2> QED
    BY <1>1, <1>4, <2>1, <2>2, TurnsBack DEF InHand, TimerKinds
<1>7. CASE PhasesAreAsRead(o)
  <2>1. /\ room' = [room EXCEPT !.phase = o.next]
        /\ matches' = [matches EXCEPT ![o.mid].phase = o.next,
                                     ![o.mid].paused = o.paused]
        /\ op' = [op EXCEPT ![s] = moved] /\ unbuilt' = FALSE
        /\ room.phase = o.match.phase
    BY <1>7 DEF SwapPhase, Becomes, PhasesAreAsRead
  <2>2. /\ room'.phase = o.next /\ room'.currentMatchId = room.currentMatchId
        /\ room'.config = room.config
    BY <1>1, <2>1 DEF RoomDocs
  <2>3. /\ matches'[o.mid] = [matches[o.mid] EXCEPT !.phase = o.next, !.paused = o.paused]
        /\ \A m \in MatchIds \ {o.mid} : matches'[m] = matches[m]
    BY <1>3, <2>1, Worker
  <2>4. /\ matches'[o.mid].phase = o.next /\ matches'[o.mid].paused = o.paused
        /\ matches'[o.mid].roundIndex = matches[o.mid].roundIndex
        /\ matches'[o.mid].roundIds = matches[o.mid].roundIds
    BY <1>3, <2>3 DEF MatchDocs
  <2>5. Numbers(matches', rounds')
    <3>1. Counted(o.mid, matches'[o.mid], rounds)
      BY <1>2, <1>3, <2>4, FollowsSame DEF Numbers
    <3> QED
      BY <1>2, <1>4, <2>3, <3>1 DEF Numbers
  <2>6. /\ moved.pc = place /\ moved.kind = o.kind /\ moved.mid = o.mid
        /\ moved.match = o.match /\ moved.rid = o.rid /\ moved.rstat = o.rstat
    <3>1. o \in Ops /\ place \in SwapPlaces /\ moved = [o EXCEPT !.pc = place]
      BY <1>1 DEF SwapPlaces
    <3> HIDE DEF place, o, moved
    <3> QED
      BY <3>1, OnlyPlace
  <2> HIDE DEF moved
  <2>7. ~InHand(moved) /\ moved.pc \notin {"idle", "swap", "saveMatch"}
    BY <2>6 DEF InHand
  <2>8. CASE o.kind # "rematch"
    <3>1. Promises(o, rounds)
      BY <1>1, <1>2, <2>8 DEF AtWork, InHand
    <3>2. FollowsAs(o.mid, o.next, o.paused, matches'[o.mid], rounds)
      BY <1>5, <2>4, <2>8, <3>1, FollowsSame DEF Promises, FollowsAs
    <3>3. StoreFollows(room', matches', rounds')
      BY <1>4, <1>5, <2>2, <2>4, <2>8, <3>2 DEF StoreFollows
    <3>4. PhaseFor(moved, room') = PhaseFor(o, room)
      BY <1>1, <2>1, <2>6, <2>8 DEF PhaseFor, HasWritten
    <3>5. o.kind = "resume" => HasRound(moved, rounds)
      BY <1>1, <1>2, <2>6 DEF AtWork, HasRound
    <3>6. Clock(o.kind, PhaseFor(o, room), room.config, timer, BOOLEAN)
      <4>1. Clock(o.kind, PhaseFor(o, room), room.config, timer, {unbuilt})
        BY <1>1, <1>2 DEF AtWork, RefusedFor
      <4>2. unbuilt \in BOOLEAN
        BY <1>2 DEF AtWork
      <4> QED
        BY <4>1, <4>2, ClockGrows
    <3>7. Clock(moved.kind, PhaseFor(moved, room'), room'.config, timer,
                RefusedFor(moved, FALSE))
      BY <2>2, <2>6, <2>8, <3>4, <3>6 DEF RefusedFor, HasWritten
    <3>8. AtWork(moved, room', matches', rounds', timer', server', unbuilt')
      BY <1>2, <1>4, <2>1, <2>2, <2>6, <2>7, <2>8, <3>3, <3>5, <3>7 DEF AtWork
    <3> QED
      BY <1>1, <2>1, <2>5, <2>7, <3>8, PaceStep
  <2>9. CASE o.kind = "rematch"
    <3>1. /\ room.currentMatchId # 0 /\ o.mid # room.currentMatchId
          /\ matches[room.currentMatchId].phase = "FINISHED"
          /\ o.next = "LOBBY" /\ o.match.phase = "FINISHED"
      BY <1>1, <2>9 DEF RematchReads
    <3>2. /\ room.currentMatchId \in MatchIds
          /\ matches'[room.currentMatchId] = matches[room.currentMatchId]
      BY <2>3, <3>1, Worker
    <3>3. StoreFollows(room', matches', rounds')
      BY <2>2, <3>1, <3>2, FollowsTrivially DEF StoreFollows, Shown
    <3>4. timer \in TimersOf("FINISHED", room.config, {unbuilt})
      BY <1>1, <1>2, <2>1, <2>9, <3>1 DEF AtWork, PhaseFor, RefusedFor, Clock, HostKinds
    <3>5. TimersOf("FINISHED", room.config, {unbuilt}) = TimersOf("LOBBY", room.config, {FALSE})
      BY DEF TimersOf
    <3>6. Clock(o.kind, PhaseFor(moved, room'), room'.config, timer, {FALSE})
      BY <2>2, <2>6, <2>9, <3>1, <3>4, <3>5 DEF Clock, PhaseFor, HasWritten
    <3>7. AtWork(moved, room', matches', rounds', timer', server', unbuilt')
      BY <1>2, <1>4, <2>1, <2>6, <2>7, <2>9, <3>3, <3>6 DEF AtWork, RefusedFor, HasWritten
    <3> QED
      BY <1>1, <2>1, <2>5, <2>7, <3>7, PaceStep
  <2> QED
    BY <2>8, <2>9
<1> QED
  BY <1>6, <1>7

-----------------------------------------------------------------------------
(* What follows the swap.                                                  *)

LEMMA WrittenPaced ==
  ASSUME Fits, SoloInv, PaceInv, NEW s \in Slots, op[s].pc \in HasWritten,
         NEW place \in {"saveResumed", "after"},
         place = "saveResumed" => op[s].kind = "resume",
         op' = [op EXCEPT ![s] = [op[s] EXCEPT !.pc = place]],
         UNCHANGED <<room, matches, rounds, timer, server, unbuilt>>
  PROVE  PaceInv'
<1> DEFINE o == op[s]
           moved == [o EXCEPT !.pc = place]
<1>1. op[s].pc # "idle"
  BY DEF HasWritten
<1>2. /\ o \in Ops /\ AtWork(o, room, matches, rounds, timer, server, unbuilt)
      /\ Numbers(matches, rounds)
  BY <1>1, Working, Holder
<1>3. /\ moved.pc = place /\ moved.kind = o.kind /\ moved.match = o.match
      /\ moved.rid = o.rid /\ moved.rstat = o.rstat
  <2>1. o \in Ops /\ place \in SwapPlaces /\ moved = [o EXCEPT !.pc = place]
    BY <1>2 DEF SwapPlaces
  <2> HIDE DEF o, moved
  <2> QED
    BY <2>1, OnlyPlace
<1>4. op' = [op EXCEPT ![s] = moved]
  OBVIOUS
<1> HIDE DEF moved
<1>5. /\ ~InHand(moved) /\ ~InHand(o) /\ moved.pc \in HasWritten
      /\ moved.pc \notin {"idle", "loadRound"}
  BY <1>3 DEF InHand, HasWritten
<1>6. /\ PhaseFor(moved, room) = PhaseFor(o, room)
      /\ RefusedFor(moved, unbuilt) = RefusedFor(o, unbuilt)
  BY <1>3, <1>5 DEF PhaseFor, RefusedFor
<1>7. o.kind = "resume" => HasRound(moved, rounds)
  BY <1>2, <1>3 DEF AtWork, HasRound
<1>8. AtWork(moved, room, matches, rounds, timer, server, unbuilt)
  BY <1>2, <1>3, <1>5, <1>6, <1>7 DEF AtWork
<1> QED
  BY <1>1, <1>2, <1>4, <1>5, <1>8, PaceStep

LEMMA TouchRoomPaced ==
  ASSUME Fits, SoloInv, PaceInv, NEW s \in Slots, TouchRoom(s)
  PROVE  PaceInv'
<1>1. /\ op[s].pc = "touchRoom" /\ UNCHANGED <<matches, rounds, timer, server, unbuilt>>
      /\ room' = [op[s].room EXCEPT !.phase = op[s].next]
      /\ \/ /\ op' = [op EXCEPT ![s] = [op[s] EXCEPT !.pc = "saveResumed"]]
            /\ op[s].kind = "resume"
         \/ op' = [op EXCEPT ![s] = [op[s] EXCEPT !.pc = "after"]]
  BY DEF TouchRoom, At, Becomes, ResumesRound
<1>2. room' = room
  BY <1>1, Worker DEF Current, TransitionReads, HasWritten
<1> QED
  BY <1>1, <1>2, WrittenPaced DEF HasWritten

\* A resumed round is stored as it was read: nothing changes.
LEMMA SaveResumedPaced ==
  ASSUME Fits, SoloInv, PaceInv, NEW s \in Slots, SaveResumed(s)
  PROVE  PaceInv'
<1> DEFINE o == op[s]
<1>1. /\ o.pc = "saveResumed" /\ UNCHANGED <<room, matches, timer, server, unbuilt>>
      /\ rounds' = [rounds EXCEPT ![o.rid] = [match |-> o.mid, status |-> o.rstat]]
      /\ op' = [op EXCEPT ![s] = [o EXCEPT !.pc = "after"]]
  BY DEF SaveResumed, At, Becomes
<1>2. /\ OpFits(o, matches, rounds) /\ o \in Ops
      /\ AtWork(o, room, matches, rounds, timer, server, unbuilt)
  BY <1>1, Worker, Working
<1>3. /\ o.rid # 0 /\ o.rid \in RoundIds /\ rounds[o.rid].match = o.mid
      /\ o.mid \in MatchIds
  BY <1>1, <1>2 DEF OpFits, PlaceFits, Ops
<1>4. o.kind = "resume"
  BY <1>1, <1>2 DEF AtWork
<1>5. rounds[o.rid].status = o.rstat
  BY <1>1, <1>2, <1>3, <1>4 DEF AtWork, HasWritten, HasRound
<1>6. rounds[o.rid] \in RoundDocs
  BY <1>3 DEF Fits, StoreFits, StoreTypes, NoRound, MatchIds
<1>7. rounds[o.rid] = [match |-> o.mid, status |-> o.rstat]
  BY <1>3, <1>5, <1>6 DEF RoundDocs
<1>8. rounds' = rounds
  BY <1>1, <1>3, <1>7 DEF Fits, StoreFits, StoreTypes
<1> QED
  BY <1>1, <1>8, WrittenPaced DEF HasWritten

\* What a swapped document says.
LEMMA SwappedShows ==
  ASSUME NEW o, o.match \in MatchDocs
  PROVE  /\ Swapped(o).phase = o.next /\ Swapped(o).paused = o.paused
         /\ o.kind # "startRound" => Swapped(o).roundIds = o.match.roundIds
<1>1. /\ Patched(o) = [o.match EXCEPT !.roundIndex = Patched(o).roundIndex,
                                      !.finished = Patched(o).finished,
                                      !.roundIds = Patched(o).roundIds]
      /\ o.kind # "startRound" => Patched(o).roundIds = o.match.roundIds
  BY DEF Patched, MatchDocs
<1> QED
  BY <1>1 DEF Swapped, MatchDocs

\* How a handler stands when its transition is done.
LEMMA Done ==
  ASSUME Fits, SoloInv, PaceInv, NEW s \in Slots, op[s].pc = "after"
  PROVE  LET o == op[s] IN
         /\ o \in Ops /\ o.kind \in Movers /\ Verdict(o) /\ o.match \in MatchDocs
         /\ PauseFits(o.match.phase, o.match.paused)
         /\ room.phase = o.next /\ room.config = o.room.config
         /\ room.currentMatchId # 0 /\ matches[room.currentMatchId] = Swapped(o)
         /\ Clock(o.kind, o.match.phase, room.config, timer, BOOLEAN) /\ unbuilt = FALSE
         /\ server = IF o.kind = "recover" THEN "recovering" ELSE "up"
         /\ room.phase = "PAUSED" \/ server = "up" => StoreFollows(room, matches, rounds)
         /\ o.kind = "resume" => HasRound(o, rounds)
         /\ Numbers(matches, rounds)
<1> DEFINE o == op[s]
<1>1. /\ o \in Ops /\ KindFits(o) /\ OpFits(o, matches, rounds) /\ PlaceFits(o)
      /\ TransitionReads(o, room, matches)
  BY Worker DEF Current
<1>2. AtWork(o, room, matches, rounds, timer, server, unbuilt) /\ Numbers(matches, rounds)
  BY Working
<1>3. o.kind \in Movers
  BY <1>1, <1>2 DEF KindFits, Movers, AtWork, Ops, HostKinds, TimerKinds
<1>4. /\ Verdict(o) /\ room = [o.room EXCEPT !.phase = o.next]
      /\ o.mid = room.currentMatchId /\ o.mid # 0 /\ matches[o.mid] = Swapped(o)
  BY <1>1 DEF TransitionReads, HasWritten
<1>5. /\ o.match \in MatchDocs /\ PauseFits(o.match.phase, o.match.paused)
      /\ o.room \in RoomDocs
  BY <1>1 DEF PlaceFits, HoldsMatch, HoldsRoom, OpFits, MatchFits, RoomFits
<1>6. room.phase = o.next /\ room.config = o.room.config
  BY <1>4, <1>5 DEF RoomDocs
<1>7. PhaseFor(o, room) = o.match.phase /\ ~InHand(o)
  BY DEF PhaseFor, HasWritten, InHand
<1>8. room.phase = "PAUSED" \/ server = "up" => StoreFollows(room, matches, rounds)
  BY <1>2, <1>7 DEF AtWork
<1>9. o.kind = "resume" => HasRound(o, rounds)
  BY <1>2 DEF AtWork, HasWritten
<1>10. /\ Clock(o.kind, o.match.phase, room.config, timer, BOOLEAN) /\ unbuilt = FALSE
       /\ server = IF o.kind = "recover" THEN "recovering" ELSE "up"
  BY <1>2, <1>7 DEF AtWork, RefusedFor, HasWritten
<1>11. room.currentMatchId # 0 /\ matches[room.currentMatchId] = Swapped(o)
  BY <1>4
<1> HIDE DEF o
<1>12. /\ o \in Ops /\ o.kind \in Movers /\ Verdict(o) /\ o.match \in MatchDocs
       /\ PauseFits(o.match.phase, o.match.paused)
       /\ room.phase = o.next /\ room.config = o.room.config
       /\ Numbers(matches, rounds)
  BY <1>1, <1>2, <1>3, <1>4, <1>5, <1>6
<1> QED
  BY <1>8, <1>9, <1>10, <1>11, <1>12 DEF o

\* The handlers whose last word the pump turns into the next step.
Pumped == {"resume", "next", "advance", "endRound"}

\* What the pump may be asked to continue with.
LEMMA PumpedNext ==
  ASSUME NEW o \in Ops, o.kind \in Pumped, Verdict(o), o.match \in MatchDocs,
         PauseFits(o.match.phase, o.match.paused), NEW tm,
         Clock(o.kind, o.match.phase, o.room.config, tm, BOOLEAN)
  PROVE  /\ o.next \in {"COUNTDOWN", "ROUND_ACTIVE", "ROUND_RESULT", "SCOREBOARD",
                        "FINISHED"}
         /\ o.paused = NoPause
         /\ o.next = "ROUND_ACTIVE" => o.kind = "resume"
         /\ o.next \in {"COUNTDOWN", "SCOREBOARD"} => tm = "none"
<1>1. \A phase : Accept(phase).phase = phase /\ Accept(phase).paused = NoPause
  BY DEF Accept
<1>2. o.next = Outcome(o).phase /\ o.paused = Outcome(o).paused /\ Outcome(o).ok
  BY DEF Verdict
<1>3. AfterRound(o) \in {"COUNTDOWN", "FINISHED"}
  BY DEF AfterRound
<1>4. CASE o.kind = "resume"
  <2>1. /\ o.match.phase = "PAUSED" /\ o.paused = NoPause
        /\ o.next = Shown(o.match.phase, o.match.paused)
    BY <1>1, <1>2, <1>4, VerdictIs
  <2>2. o.match.paused \in PausedStates
    BY <2>1 DEF PauseFits, MatchDocs
  <2>3. o.next \in {"COUNTDOWN", "ROUND_ACTIVE", "ROUND_RESULT", "SCOREBOARD"}
    BY <2>1, <2>2 DEF Shown, PausedStates, PausablePhases
  <2>4. tm = "none"
    BY <1>4, <2>1 DEF Clock, HostKinds, TimersOf
  <2> QED
    BY <1>4, <2>1, <2>3, <2>4
<1>5. CASE o.kind = "next"
  <2>1. /\ o.match.phase = "SCOREBOARD" /\ o.room.config.pacing = "host"
        /\ o.next = AfterRound(o) /\ o.paused = NoPause
    BY <1>1, <1>2, <1>5, VerdictIs, Resolves
  <2>2. tm = "none"
    BY <1>5, <2>1 DEF Clock, HostKinds, TimersOf
  <2> QED
    BY <1>3, <2>1, <2>2
<1>6. CASE o.kind = "advance"
  <2>1. o.match.phase \in {"ROUND_RESULT", "SCOREBOARD"} /\ tm = "none"
    BY <1>6 DEF Clock
  <2>2. o.next = ResolveNextPhase(o.room.config, o.match) /\ o.paused = NoPause
    BY <1>1, <1>2, <1>6, VerdictIs
  <2>3. o.next \in {"SCOREBOARD", AfterRound(o)}
    BY <2>1, <2>2, Resolves
  <2> QED
    BY <1>3, <2>1, <2>2, <2>3
<1>7. CASE o.kind = "endRound"
  <2>1. o.next = "ROUND_RESULT" /\ o.paused = NoPause
    BY <1>1, <1>2, <1>7, VerdictIs
  <2> QED
    BY <2>1
<1> QED
  BY <1>4, <1>5, <1>6, <1>7 DEF Pumped

\* The pump sets the timer for the phase it leaves behind, or goes on at once.
LEMMA AfterPaced ==
  ASSUME Fits, SoloInv, PaceInv, NEW s \in Slots, After(s)
  PROVE  PaceInv'
<1> DEFINE o == op[s]
<1>1. /\ o.pc = "after" /\ UNCHANGED <<room, matches, rounds, server, unbuilt>>
      /\ timer' = TimerAfter(o) /\ op' = [op EXCEPT ![s] = ContinuesAs(o)]
  BY DEF After, At, Becomes
<1>2. /\ o \in Ops /\ o.kind \in Movers /\ Verdict(o) /\ o.match \in MatchDocs
      /\ PauseFits(o.match.phase, o.match.paused)
      /\ room.phase = o.next /\ room.config = o.room.config
      /\ room.currentMatchId # 0 /\ matches[room.currentMatchId] = Swapped(o)
      /\ Clock(o.kind, o.match.phase, room.config, timer, BOOLEAN) /\ unbuilt = FALSE
      /\ server = IF o.kind = "recover" THEN "recovering" ELSE "up"
      /\ room.phase = "PAUSED" \/ server = "up" => StoreFollows(room, matches, rounds)
      /\ o.kind = "resume" => HasRound(o, rounds)
      /\ Numbers(matches, rounds)
  BY <1>1, Done
<1> HIDE DEF o
<1>3. o.next = Outcome(o).phase /\ Outcome(o).ok
  BY <1>2 DEF Verdict
<1>4. \A phase : Accept(phase).phase = phase
  BY DEF Accept
<1>a. op[s].pc # "idle" /\ Idle.pc = "idle"
  BY <1>1 DEF o, Idle
<1>5. ASSUME ContinuesAs(o) = Idle,
             o.kind = "recover" => room.phase \in RestingPhases,
             timer' \in TimersOf(room.phase, room.config, {FALSE})
      PROVE  PaceInv'
  <2>1. AtRest(room', matches', rounds', timer', server', unbuilt')
    BY <1>1, <1>2, <1>5 DEF AtRest
  <2> QED
    BY <1>1, <1>2, <1>5, <1>a, <2>1, PaceStep
<1>6. ASSUME NEW kind \in {"startRound", "finish"}, ContinuesAs(o) = Begin(kind),
             timer' = "none", server = "up",
             kind = "startRound" => room.phase = "COUNTDOWN"
      PROVE  PaceInv'
  <2>1. Begin(kind).kind = kind /\ Begin(kind).pc = "loadRoom"
    BY DEF Begin, Idle
  <2>2. Clock(kind, room.phase, room.config, timer', {unbuilt})
    BY <1>6 DEF Clock, HostKinds
  <2>3. AtWork(Begin(kind), room', matches', rounds', timer', server', unbuilt')
    BY <1>1, <1>2, <1>6, <2>1, <2>2 DEF AtWork, PhaseFor, RefusedFor, InHand, HasWritten
  <2> QED
    BY <1>1, <1>2, <1>6, <1>a, <2>1, <2>3, PaceStep
<1>7. CASE o.kind \notin Pumped
  <2>1. ContinuesAs(o) = Idle
    <3>1. o.kind \notin {"resume", "next", "advance", "endRound"}
      BY <1>7 DEF Pumped
    <3> QED
      BY <3>1 DEF ContinuesAs
  <2>2. CASE o.kind = "start"
    <3>1. room.phase = "COUNTDOWN" /\ TimerAfter(o) = "startRound"
      BY <1>2, <1>3, <1>4, <2>2, VerdictIs DEF TimerAfter
    <3> QED
      BY <1>1, <1>5, <2>1, <2>2, <3>1 DEF TimersOf
  <2>3. CASE o.kind = "pause"
    <3>1. room.phase = "PAUSED" /\ TimerAfter(o) = "none"
      BY <1>2, <1>3, <2>3, VerdictIs DEF TimerAfter
    <3> QED
      BY <1>1, <1>5, <2>1, <2>3, <3>1 DEF TimersOf
  <2>4. CASE o.kind = "startRound"
    <3>1. room.phase = "ROUND_ACTIVE" /\ timer = "none"
      BY <1>2, <1>3, <1>4, <2>4, VerdictIs DEF Clock
    <3>2. TimerAfter(o) = IF room.config.autoReveal THEN "endRound" ELSE timer
      BY <1>2, <2>4, <3>1 DEF TimerAfter, ResumesRound
    <3> QED
      BY <1>1, <1>5, <2>1, <2>4, <3>1, <3>2 DEF TimersOf
  <2>5. CASE o.kind \in {"finish", "recover"}
    <3>1. room.phase \in {"FINISHED", "PAUSED"} /\ timer = "none"
      BY <1>2, <1>3, <1>4, <2>5, VerdictIs DEF Clock
    <3>2. TimerAfter(o) = "none"
      BY <1>2, <2>5, <3>1 DEF TimerAfter
    <3> QED
      BY <1>1, <1>5, <2>1, <3>1, <3>2 DEF TimersOf, RestingPhases
  <2> QED
    BY <1>2, <1>7, <2>2, <2>3, <2>4, <2>5 DEF Movers, Pumped
<1>8. CASE o.kind \in Pumped
  <2>1. /\ o.next \in {"COUNTDOWN", "ROUND_ACTIVE", "ROUND_RESULT", "SCOREBOARD",
                       "FINISHED"}
        /\ o.paused = NoPause
        /\ o.next = "ROUND_ACTIVE" => o.kind = "resume"
        /\ o.next \in {"COUNTDOWN", "SCOREBOARD"} => timer = "none"
    BY <1>2, <1>8, PumpedNext
  <2>2. server = "up" /\ o.kind # "recover"
    BY <1>2, <1>8 DEF Pumped
  <2>k. o.kind \notin {"start", "pause", "startRound", "finish", "recover"}
    BY <1>8 DEF Pumped
  <2>3. CASE o.next = "COUNTDOWN" /\ ~BeforeFirstRound /\ o.kind # "resume"
    <3>1. ContinuesAs(o) = Begin("startRound")
      BY <1>8, <2>3 DEF ContinuesAs, Pumped
    <3>2. TimerAfter(o) = timer
      BY <2>k, <2>3 DEF TimerAfter
    <3> QED
      BY <1>1, <1>2, <1>6, <2>1, <2>2, <2>3, <3>1, <3>2
  <2>4. CASE o.next = "COUNTDOWN" /\ (BeforeFirstRound \/ o.kind = "resume")
    <3>1. ContinuesAs(o) = Idle
      BY <1>8, <2>4 DEF ContinuesAs, Pumped
    <3>2. TimerAfter(o) = "startRound"
      BY <2>k, <2>4 DEF TimerAfter
    <3> QED
      BY <1>1, <1>2, <1>5, <2>2, <2>4, <3>1, <3>2 DEF TimersOf
  <2>5. CASE o.next = "FINISHED"
    <3>1. ContinuesAs(o) = Begin("finish")
      BY <1>8, <2>5 DEF ContinuesAs, Pumped
    <3>2. TimerAfter(o) = "none"
      BY <2>k, <2>5 DEF TimerAfter
    <3> QED
      BY <1>1, <1>6, <2>2, <3>1, <3>2
  <2>6. CASE o.next = "ROUND_ACTIVE"
    <3>1. Follows(room.currentMatchId, "ROUND_ACTIVE", Swapped(o), rounds)
      BY <1>2, <2>1, <2>2, <2>6, SwappedShows DEF StoreFollows, FollowsAs, Shown
    <3>2. Swapped(o).roundIds = o.match.roundIds
      BY <1>2, <2>1, <2>6, SwappedShows
    <3>3. o.rid # 0
      BY <1>2, <2>1, <2>6, <3>1, <3>2 DEF Follows, HasRound
    <3>4. ContinuesAs(o) = Idle
      BY <1>8, <2>6 DEF ContinuesAs, Pumped
    <3>5. TimerAfter(o) = "endRound"
      BY <2>k, <2>1, <2>6, <3>3 DEF TimerAfter, ResumesRound
    <3> QED
      BY <1>1, <1>2, <1>5, <2>2, <2>6, <3>4, <3>5 DEF TimersOf
  <2>7. CASE o.next = "ROUND_RESULT"
    <3>1. ContinuesAs(o) = Idle /\ TimerAfter(o) = "advance"
      BY <1>8, <2>k, <2>7 DEF ContinuesAs, TimerAfter, Pumped, ResumesRound
    <3> QED
      BY <1>1, <1>2, <1>5, <2>2, <2>7, <3>1 DEF TimersOf
  <2>8. CASE o.next = "SCOREBOARD"
    <3>1. ContinuesAs(o) = Idle
      BY <1>8, <2>8 DEF ContinuesAs, Pumped
    <3>2. TimerAfter(o) = IF room.config.pacing = "auto" THEN "advance" ELSE timer
      BY <1>2, <2>k, <2>8 DEF TimerAfter, ResumesRound
    <3> QED
      BY <1>1, <1>2, <1>5, <2>1, <2>2, <2>8, <3>1, <3>2 DEF TimersOf
  <2> QED
    BY <2>1, <2>3, <2>4, <2>5, <2>6, <2>7, <2>8
<1> QED
  BY <1>7, <1>8

-----------------------------------------------------------------------------
(* Rematches, and edits of the room.                                       *)

LEMMA SaveNextPaced ==
  ASSUME Fits, SoloInv, PaceInv, NEW s \in Slots, SaveNext(s)
  PROVE  PaceInv'
<1> DEFINE o == op[s]
           doc == NewMatch(o.match.sequence + 1, "FINISHED")
<1>1. o.pc = "saveNext"
  BY DEF SaveNext, At
<1>2. PICK m \in MatchIds :
        /\ FreshMatchId(m) /\ matches' = [matches EXCEPT ![m] = doc]
        /\ UNCHANGED <<room, rounds, timer, server, unbuilt>>
        /\ op' = [op EXCEPT ![s] = [o EXCEPT !.mid = m, !.match = doc,
                                             !.next = "LOBBY", !.pc = "swap"]]
  BY DEF SaveNext, Becomes
<1>w. o.pc # "idle" /\ o.pc \notin HasWritten /\ ~InHand(o)
  BY <1>1, Reading
<1>3. /\ o \in Ops /\ o.kind = "rematch"
      /\ AtWork(o, room, matches, rounds, timer, server, unbuilt) /\ Numbers(matches, rounds)
  BY <1>1, <1>w, Worker, Working DEF KindFits
<1>4. m # room.currentMatchId
  BY <1>2, FreshIsOther
<1>5. Counted(m, doc, rounds)
  BY NewCounts
<1> DEFINE next == [o EXCEPT !.mid = m, !.match = doc, !.next = "LOBBY", !.pc = "swap"]
<1> HIDE DEF doc
<1>6. next.kind = "rematch" /\ next.pc = "swap"
  BY <1>3 DEF Ops
<1> HIDE DEF next
<1>7. Numbers(matches', rounds')
  BY <1>2, <1>3, <1>5, Worker DEF Numbers
<1>8. room.currentMatchId # 0 =>
        matches'[room.currentMatchId] = matches[room.currentMatchId]
  BY <1>2, <1>4, Worker
<1>9. AtWork(next, room', matches', rounds', timer', server', unbuilt')
  BY <1>2, <1>3, <1>6, <1>8, <1>w DEF AtWork, PhaseFor, RefusedFor, InHand, HasWritten, StoreFollows
<1> QED
  BY <1>2, <1>6, <1>7, <1>9, <1>w, PaceStep DEF next

LEMMA ReloadRoomPaced ==
  ASSUME Fits, SoloInv, PaceInv, NEW s \in Slots, ReloadRoom(s)
  PROVE  PaceInv'
<1> DEFINE o == op[s]
           loaded == [o EXCEPT !.room = room, !.pc = "touchRematch"]
<1>1. /\ o.pc = "reloadRoom" /\ UNCHANGED <<room, matches, rounds, timer, server, unbuilt>>
      /\ op' = [op EXCEPT ![s] = loaded]
  BY DEF ReloadRoom, At, Becomes
<1>2. o \in Ops
  BY Worker
<1>3. loaded.kind = o.kind /\ loaded.pc = "touchRematch"
  BY <1>2 DEF Ops
<1>w. o.pc # "idle" /\ o.pc \notin HasWritten /\ ~InHand(o)
  BY <1>1, Reading
<1> HIDE DEF loaded
<1> QED
  BY <1>1, <1>3, <1>w, ReadsOn DEF HasWritten

\* The room points to a match that has not begun.
LEMMA TouchRematchPaced ==
  ASSUME Fits, SoloInv, PaceInv, NEW s \in Slots, TouchRematch(s)
  PROVE  PaceInv'
<1> DEFINE o == op[s]
<1>1. /\ o.pc = "touchRematch" /\ UNCHANGED <<matches, rounds, timer, server, unbuilt>>
      /\ room' = [o.room EXCEPT !.currentMatchId = o.mid]
      /\ op' = [op EXCEPT ![s] = Idle]
  BY DEF TouchRematch, At, Becomes
<1>w. o.pc # "idle" /\ o.pc \notin HasWritten /\ ~InHand(o)
  BY <1>1, Reading
<1>2. /\ o.room = room /\ room.phase = "LOBBY" /\ matches[o.mid].phase = "LOBBY"
      /\ room \in RoomDocs /\ o.kind = "rematch"
      /\ AtWork(o, room, matches, rounds, timer, server, unbuilt) /\ Numbers(matches, rounds)
  BY <1>1, <1>w, Worker, Working DEF Current, RematchReads, KindFits
<1>3. /\ room'.phase = "LOBBY" /\ room'.currentMatchId = o.mid
      /\ room'.config = room.config
  BY <1>1, <1>2 DEF RoomDocs
<1>4. StoreFollows(room', matches', rounds')
  BY <1>1, <1>2, <1>3, FollowsTrivially DEF StoreFollows, Shown
<1>5. server = "up" /\ timer \in TimersOf("LOBBY", room.config, {unbuilt})
      /\ unbuilt \in BOOLEAN
  BY <1>2, <1>w DEF AtWork, PhaseFor, RefusedFor, Clock, HostKinds
<1>6. AtRest(room', matches', rounds', timer', server', unbuilt')
  BY <1>1, <1>3, <1>4, <1>5 DEF AtRest
<1>7. Idle.pc = "idle"
  BY DEF Idle
<1> QED
  BY <1>1, <1>w, <1>2, <1>6, <1>7, PaceStep

LEMMA EditRoomPaced ==
  ASSUME Fits, SoloInv, PaceInv, NEW s \in Slots, EditRoom(s)
  PROVE  PaceInv'
<1> DEFINE o == op[s]
<1>1. o \in Ops /\ o.pc = "loadRoom"
  BY Worker DEF EditRoom, At
<1>2. /\ UNCHANGED <<room, matches, rounds, timer, server, unbuilt>> /\ o.kind \in {"lock", "config"}
      /\ \/ op' = [op EXCEPT ![s] = Idle]
         \/ \E copy : op' = [op EXCEPT ![s] = [o EXCEPT !.room = copy, !.pc = "saveRoom"]]
  BY DEF EditRoom, Becomes
<1>w. o.pc # "idle" /\ o.pc \notin HasWritten /\ ~InHand(o)
  BY <1>1, Reading
<1>3. CASE op' = [op EXCEPT ![s] = Idle]
  BY <1>2, <1>w, <1>3, TurnsBack DEF TimerKinds
<1>4. ASSUME NEW copy, op' = [op EXCEPT ![s] = [o EXCEPT !.room = copy, !.pc = "saveRoom"]]
      PROVE  PaceInv'
  <2> DEFINE edited == [o EXCEPT !.room = copy, !.pc = "saveRoom"]
  <2>1. edited.kind = o.kind /\ edited.pc = "saveRoom"
    BY <1>1 DEF Ops
  <2> HIDE DEF edited
  <2> QED
    BY <1>2, <1>w, <1>4, <2>1, ReadsOn DEF edited, HasWritten
<1> QED
  BY <1>2, <1>3, <1>4

\* The configuration changes in the lobby only, where no timer depends on it.
LEMMA SaveRoomPaced ==
  ASSUME Fits, SoloInv, PaceInv, NEW s \in Slots, SaveRoom(s)
  PROVE  PaceInv'
<1> DEFINE o == op[s]
<1>1. /\ o.pc = "saveRoom" /\ room' = o.room /\ UNCHANGED <<matches, rounds, timer, server, unbuilt>>
      /\ op' = [op EXCEPT ![s] = Idle]
  BY DEF SaveRoom, At, Becomes
<1>w. o.pc # "idle" /\ o.pc \notin HasWritten /\ ~InHand(o)
  BY <1>1, Reading
<1>2. /\ room'.phase = room.phase /\ room'.currentMatchId = room.currentMatchId
      /\ room'.config = room.config \/ room.phase = "LOBBY"
      /\ o.kind \in {"lock", "config"}
      /\ AtWork(o, room, matches, rounds, timer, server, unbuilt) /\ Numbers(matches, rounds)
  BY <1>1, <1>w, Worker, Working DEF Current, EditReads, KindFits
<1>3. server = "up" /\ timer \in TimersOf(room.phase, room.config, {unbuilt})
      /\ unbuilt \in BOOLEAN
  BY <1>2, <1>w DEF AtWork, PhaseFor, RefusedFor, Clock, HostKinds
<1>4. timer \in TimersOf(room'.phase, room'.config, {unbuilt})
  BY <1>2, <1>3 DEF TimersOf
<1>5. StoreFollows(room', matches', rounds')
  BY <1>1, <1>2, <1>w DEF AtWork, StoreFollows
<1>6. AtRest(room', matches', rounds', timer', server', unbuilt')
  BY <1>1, <1>3, <1>4, <1>5 DEF AtRest
<1>7. Idle.pc = "idle"
  BY DEF Idle
<1> QED
  BY <1>1, <1>w, <1>2, <1>6, <1>7, PaceStep

\* The content refuses the round: the timer that was to build it has gone off.
LEMMA RefuseRoundPaced ==
  ASSUME Fits, SoloInv, PaceInv, NEW s \in Slots, RefuseRound(s)
  PROVE  PaceInv'
<1> DEFINE o == op[s]
<1>1. /\ o.pc = "loadMatch" /\ o.kind = "startRound" /\ unbuilt' = TRUE
      /\ UNCHANGED <<room, matches, rounds, timer, server>>
      /\ op' = [op EXCEPT ![s] = Idle]
  BY DEF RefuseRound, At, Becomes
<1>w. o.pc # "idle" /\ o.pc \notin HasWritten /\ ~InHand(o)
  BY <1>1, Reading
<1>2. AtWork(o, room, matches, rounds, timer, server, unbuilt) /\ Numbers(matches, rounds)
  BY <1>w, Working
<1>3. /\ room.phase = "COUNTDOWN" /\ timer = "none" /\ server = "up"
      /\ StoreFollows(room, matches, rounds)
  BY <1>1, <1>2, <1>w DEF AtWork, PhaseFor, Clock
<1>4. AtRest(room', matches', rounds', timer', server', unbuilt')
  BY <1>1, <1>3 DEF AtRest, TimersOf
<1>5. Idle.pc = "idle"
  BY DEF Idle
<1> QED
  BY <1>1, <1>w, <1>2, <1>4, <1>5, PaceStep

LEMMA HandlerPaced ==
  ASSUME Fits, SoloInv, PaceInv, NEW s \in Slots, Step(s)
  PROVE  PaceInv'
BY LoadRoomPaced, LoadMatchPaced, RefuseRoundPaced, ListPlayersPaced,
   LoadRoundPaced, GateRevealPaced,
   CreateMatchPaced, TouchStartPaced, SaveRoundPaced, SaveEndedPaced, SaveMatchPaced,
   SwapPhasePaced, TouchRoomPaced, SaveResumedPaced, SaveNextPaced, ReloadRoomPaced,
   TouchRematchPaced, EditRoomPaced, SaveRoomPaced, AfterPaced DEF Step

-----------------------------------------------------------------------------
(* How handlers begin and stop, when no call throws.                       *)

LEMMA BeginPaced ==
  ASSUME Fits, Quiet, PaceInv, NEW s \in Slots, NEW kind, kind # "none",
         op' = [op EXCEPT ![s] = Begin(kind)], UNCHANGED <<room, matches, rounds, unbuilt>>,
         server' = IF kind = "recover" THEN "recovering" ELSE "up",
         kind # "recover" => server = "up",
         Clock(kind, room.phase, room.config, timer', {unbuilt})
  PROVE  PaceInv'
<1>1. Begin(kind).kind = kind /\ Begin(kind).pc = "loadRoom"
  BY DEF Begin, Idle
<1>2. AtRest(room, matches, rounds, timer, server, unbuilt) /\ Numbers(matches, rounds)
  BY DEF PaceInv
<1>3. AtWork(Begin(kind), room', matches', rounds', timer', server', unbuilt')
  BY <1>1, <1>2 DEF AtWork, AtRest, PhaseFor, RefusedFor, InHand, HasWritten
<1>4. \A t \in Slots : op'[t] = IF t = s THEN Begin(kind) ELSE op[t]
  BY DEF Fits
<1> QED
  BY <1>1, <1>2, <1>3, <1>4 DEF PaceInv, Quiet

\* Every step of the system keeps the invariant.
LEMMA NextPaced ==
  ASSUME Interleaved = FALSE, MaxFaults = 0, SerialInv, PaceInv, [Next]_vars
  PROVE  PaceInv'
<1>1. Fits /\ SoloInv /\ Control /\ DownIsQuiet
  BY DEF SerialInv, IInv
<1>2. Quiet => AtRest(room, matches, rounds, timer, server, unbuilt)
  BY DEF PaceInv
<1>3. ASSUME NEW s \in Slots, NEW kind \in HostKinds, BeginHostEvent(s, kind)
      PROVE  PaceInv'
  <2>1. /\ Quiet /\ server = "up" /\ op' = [op EXCEPT ![s] = Begin(kind)]
        /\ UNCHANGED <<room, matches, rounds, server, unbuilt>>
        /\ timer' = IF kind = "finish" THEN "none" ELSE timer
    BY <1>3 DEF BeginHostEvent, MayBegin
  <2>2. timer \in TimersOf(room.phase, room.config, {unbuilt})
    BY <1>2, <2>1 DEF AtRest
  <2>3. kind \notin TimerKinds \cup {"recover", "none"}
    BY DEF HostKinds, TimerKinds
  <2>4. Clock(kind, room.phase, room.config, timer', {unbuilt})
    BY <2>1, <2>2, <2>3 DEF Clock, TimerKinds
  <2> QED
    BY <1>1, <2>1, <2>3, <2>4, BeginPaced
<1>4. ASSUME NEW s \in Slots, FireTimer(s)
      PROVE  PaceInv'
  <2>1. /\ Quiet /\ server = "up" /\ op' = [op EXCEPT ![s] = Begin(timer)]
        /\ UNCHANGED <<room, matches, rounds, server, unbuilt>>
        /\ timer' = "none" /\ timer \in TimerKinds
    BY <1>1, <1>4 DEF FireTimer, MayBegin, Control
  <2>2. timer \in TimersOf(room.phase, room.config, {unbuilt})
    BY <1>2, <2>1 DEF AtRest
  <2>3. timer \notin HostKinds \cup {"recover", "none"}
    BY <2>1 DEF HostKinds, TimerKinds
  <2>4. Clock(timer, room.phase, room.config, timer', {unbuilt})
    BY <2>1, <2>2, <2>3 DEF Clock, TimersOf, TimerKinds, HostKinds
  <2> QED
    BY <1>1, <2>1, <2>3, <2>4, BeginPaced
<1>5. ASSUME NEW s \in Slots, Step(s)
      PROVE  PaceInv'
  BY <1>1, <1>5, HandlerPaced
<1>6. ASSUME NEW s \in Slots, Fault(s)
      PROVE  FALSE
  BY <1>1, <1>6 DEF Fault, Control
<1>7. ASSUME NEW s \in Slots, Restart(s)
      PROVE  PaceInv'
  <2>1. /\ Quiet /\ server = "down" /\ op' = [op EXCEPT ![s] = Begin("recover")]
        /\ UNCHANGED <<room, matches, rounds, timer, unbuilt>> /\ server' = "recovering"
    BY <1>1, <1>7 DEF Restart, DownIsQuiet
  <2>2. Clock("recover", room.phase, room.config, timer', {unbuilt})
    BY <1>2, <2>1 DEF AtRest, Clock, HostKinds
  <2> QED
    BY <1>1, <2>1, <2>2, BeginPaced
<1>8. CASE Crash
  <2>1. /\ op' = [s \in Slots |-> Idle] /\ UNCHANGED <<room, matches, rounds, unbuilt>>
        /\ timer' = "none" /\ server' = "down"
    BY <1>8 DEF Crash
  <2>2. unbuilt \in BOOLEAN /\ (room.phase = "PAUSED" => StoreFollows(room, matches, rounds))
    BY DEF PaceInv, AtRest, AtWork, Quiet
  <2>3. AtRest(room', matches', rounds', timer', server', unbuilt')
    BY <2>1, <2>2 DEF AtRest
  <2>4. \A s \in Slots : op'[s].pc = "idle"
    BY <2>1 DEF Idle
  <2> QED
    BY <2>1, <2>3, <2>4 DEF PaceInv
<1>9. CASE AcceptSockets
  <2>1. /\ Quiet /\ server = "recovering" /\ server' = "up"
        /\ UNCHANGED <<room, matches, rounds, timer, op, unbuilt>>
    BY <1>9 DEF AcceptSockets
  <2>2. AtRest(room, matches, rounds, timer, server, unbuilt) /\ room.phase \in RestingPhases
    BY <1>2, <2>1 DEF AtRest
  <2>3. CASE room.phase = "PAUSED"
    BY <2>1, <2>2, <2>3 DEF PaceInv, AtRest, Quiet
  <2>4. CASE room.phase \in {"LOBBY", "FINISHED"}
    <3>1. ASSUME room.currentMatchId # 0
          PROVE  matches[room.currentMatchId].phase \in {"LOBBY", "FINISHED"}
      BY <1>1, <2>4, <3>1 DEF SoloInv, Projects
    <3>2. StoreFollows(room, matches, rounds)
      BY <3>1, FollowsTrivially DEF StoreFollows, Shown
    <3> QED
      BY <2>1, <2>2, <3>2 DEF PaceInv, AtRest, Quiet
  <2> QED
    BY <2>2, <2>3, <2>4 DEF RestingPhases
<1>10. CASE UNCHANGED vars
  BY <1>10 DEF vars, PaceInv, Quiet
<1> QED
  BY <1>3, <1>4, <1>5, <1>6, <1>7, <1>8, <1>9, <1>10 DEF Next

LEMMA InitPaced == Init => PaceInv
<1> SUFFICES ASSUME Init PROVE PaceInv
  OBVIOUS
<1>1. /\ matches = [m \in MatchIds |-> NoMatch] /\ room.currentMatchId = 0
      /\ room.phase = "LOBBY" /\ timer = "none" /\ server = "up" /\ unbuilt = FALSE
      /\ \A s \in Slots : op[s].pc = "idle"
  BY DEF Init, Idle
<1>2. Numbers(matches, rounds)
  BY <1>1, EndedIsFinite, ConfigAssumption DEF Numbers, Counted, NoMatch
<1>3. AtRest(room, matches, rounds, timer, server, unbuilt)
  BY <1>1 DEF AtRest, TimersOf, StoreFollows
<1> QED
  BY <1>1, <1>2, <1>3 DEF PaceInv

THEOREM PaceInvariance ==
  ASSUME Interleaved = FALSE, MaxFaults = 0
  PROVE  Spec => [](SerialInv /\ PaceInv)
<1>1. Init => SerialInv /\ PaceInv
  BY InitKeeps, InitPaced
<1>2. SerialInv /\ PaceInv /\ [Next]_vars => (SerialInv /\ PaceInv)'
  BY NextKeeps, NextFits, NextPaced DEF SerialInv, Keeps
<1> QED
  BY <1>1, <1>2, PTL DEF Spec

(* As long as no store call throws, and however often the process dies:    *)
(* when no handler runs, the timer is the one the phase waits for.  A      *)
(* countdown to a round the content refused is the one phase left without  *)
(* one: runStartRound logs the refusal and sets no timer.                  *)
THEOREM PumpIsArmed ==
  ASSUME Interleaved = FALSE, MaxFaults = 0
  PROVE  Spec => []PumpArmed
<1>1. PaceInv => PumpArmed
  BY DEF PaceInv, AtRest, PumpArmed, Settled, ExpectedTimers, TimersOf
<1> QED
  BY <1>1, PaceInvariance, PTL

(* As long as no store call throws: in ROUND_ACTIVE the last round takes   *)
(* answers, once its result is shown it is closed, and roundIndex counts   *)
(* the rounds that were closed and never passes the last.                  *)
THEOREM RoundsKeptPace ==
  ASSUME Interleaved = FALSE, MaxFaults = 0
  PROVE  Spec => []RoundsKeepPace
<1>1. SerialInv /\ PaceInv => RoundsKeepPace
  <2> SUFFICES ASSUME SerialInv, PaceInv PROVE RoundsKeepPace
    OBVIOUS
  <2>1. Fits /\ SoloInv
    BY DEF SerialInv, IInv
  <2>2. \A m : EndedRounds(m) = EndedOf(m, rounds)
    BY DEF EndedRounds, EndedOf
  <2>3. ASSUME Settled, room.currentMatchId # 0
        PROVE  /\ FollowsAs(room.currentMatchId, CurrentMatch.phase, CurrentMatch.paused,
                            CurrentMatch, rounds)
               /\ Counted(room.currentMatchId, CurrentMatch, rounds)
               /\ CurrentMatch.roundIndex \in Nat
               /\ room.phase \in {"ROUND_ACTIVE", "ROUND_RESULT", "SCOREBOARD"} =>
                    CurrentMatch.phase = room.phase
    <3>1. StoreFollows(room, matches, rounds) /\ Numbers(matches, rounds)
      BY <2>3 DEF PaceInv, AtRest, Settled
    <3>2. room.currentMatchId \in MatchIds /\ CurrentMatch \in MatchDocs
      BY <2>1, <2>3, Worker, SlotsAssumption DEF CurrentMatch
    <3>3. Projects(room, matches)
      BY <2>1 DEF SoloInv
    <3> QED
      BY <2>3, <3>1, <3>2, <3>3 DEF StoreFollows, Numbers, CurrentMatch, MatchDocs, Projects
  <2>4. room.currentMatchId = 0 => room.phase = "LOBBY"
    BY <2>1 DEF SoloInv, Projects
  <2>5. RoundFollowsPhase
    BY <2>3, <2>4 DEF RoundFollowsPhase, FollowsAs, Follows, Shown, LastRound
  <2>6. RoundNumbers
    <3> SUFFICES ASSUME Settled, room.currentMatchId # 0
                 PROVE  /\ CurrentMatch.roundIndex < TotalRounds
                        /\ room.phase \in {"ROUND_RESULT", "SCOREBOARD"} =>
                             Cardinality(EndedRounds(room.currentMatchId))
                               > CurrentMatch.roundIndex
      BY DEF RoundNumbers
    <3>1. CurrentMatch.roundIndex < TotalRounds
      BY <2>3 DEF Counted
    <3>2. ASSUME room.phase \in {"ROUND_RESULT", "SCOREBOARD"}
          PROVE  CurrentMatch.roundIndex < Cardinality(EndedOf(room.currentMatchId, rounds))
      BY <2>3, <3>2 DEF FollowsAs, Follows, Shown
    <3>3. Cardinality(EndedOf(room.currentMatchId, rounds)) \in Nat
      BY EndedIsFinite
    <3> QED
      BY <2>2, <2>3, <3>1, <3>2, <3>3
  <2> QED
    BY <2>5, <2>6 DEF RoundsKeepPace
<1> QED
  BY <1>1, PaceInvariance, PTL
=============================================================================
