----------------------- MODULE MatchLifecycle_proofs -----------------------
(***************************************************************************)
(* Proofs, for every value of the constants, of the properties of          *)
(* MatchLifecycle that hold however handlers interleave, fail or crash:    *)
(* the type invariant, that the pause state goes with the phase, and that  *)
(* no stored document points to one that is not stored.                    *)
(*                                                                         *)
(* The properties speak of the store only; what makes them inductive is    *)
(* that the copies in the handlers satisfy them too, because every copy    *)
(* may be written back later.  Fits says so for one document or handler,   *)
(* relative to a store ms, rs; it survives every change of the store that  *)
(* removes nothing (Grows).                                                *)
(***************************************************************************)
EXTENDS MatchLifecycle, TLAPS

RoomFits(r, ms) ==
  /\ r \in RoomDocs
  /\ r.currentMatchId # 0 => ms[r.currentMatchId] # NoMatch

PauseFits(phase, pause) == phase = "PAUSED" <=> pause # NoPause

MatchFits(m, doc, rs) ==
  /\ doc \in MatchDocs
  /\ PauseFits(doc.phase, doc.paused)
  /\ \A i \in 1..Len(doc.roundIds) : rs[doc.roundIds[i]].match = m

HoldsRoom == {"loadMatch", "listPlayers", "loadRound", "createMatch",
              "touchStart", "saveRound", "saveEnded", "saveMatch", "swap",
              "touchRoom", "saveResumed", "saveNext", "reloadRoom",
              "touchRematch", "saveRoom", "after"}
HoldsMatch == {"loadRound", "touchStart", "saveRound", "saveEnded",
               "saveMatch", "swap", "touchRoom", "saveResumed", "saveNext",
               "reloadRoom", "touchRematch", "after"}
HoldsNext == {"saveMatch", "swap", "touchRoom"}
BeforeVerdict == {"loadRoom", "loadMatch", "listPlayers", "createMatch",
                  "touchStart", "saveNext"}
OfStart == {"listPlayers", "createMatch", "touchStart"}

\* What a handler has read by the time it waits at its pc.
PlaceFits(o) ==
  /\ o.pc \in HoldsRoom => o.room # NoRoom
  /\ o.pc = "loadMatch" => o.mid # 0
  /\ o.pc \in HoldsMatch => o.match # NoMatch
  /\ o.pc = "loadRound" => o.match.roundIds # <<>>
  /\ o.pc \in {"saveEnded", "saveResumed"} => o.rid # 0
  /\ o.pc = "saveMatch" /\ o.kind = "startRound" => o.rid # 0
  /\ o.pc \in HoldsNext => o.next # "none"
  /\ o.pc \in BeforeVerdict => o.rid = 0 /\ o.next = "none"
  /\ o.pc = "loadRoom" => o.match = NoMatch
  /\ o.pc \in OfStart => o.kind = "start"

OpFits(o, ms, rs) ==
  /\ o \in Ops
  /\ o.room = NoRoom \/ RoomFits(o.room, ms)
  /\ o.mid # 0 => ms[o.mid] # NoMatch
  /\ o.match = NoMatch \/ (o.mid # 0 /\ MatchFits(o.mid, o.match, rs))
  /\ o.rid # 0 => o.mid # 0 /\ rs[o.rid].match = o.mid /\ o.rstat # "none"
  /\ PauseFits(o.next, o.paused)
  /\ PlaceFits(o)

StoreTypes(ms, rs) ==
  /\ ms \in [MatchIds -> MatchDocs \cup {NoMatch}]
  /\ rs \in [RoundIds -> RoundDocs \cup {NoRound}]

StoreFits(r, ms, rs) ==
  /\ StoreTypes(ms, rs)
  /\ RoomFits(r, ms)
  /\ \A m \in MatchIds : ms[m] = NoMatch \/ MatchFits(m, ms[m], rs)

\* The inductive invariant.
Fits ==
  /\ StoreFits(room, matches, rounds)
  /\ op \in [Slots -> Ops]
  /\ \A s \in Slots : OpFits(op[s], matches, rounds)

Grows(ms, rs, ms2, rs2) ==
  /\ \A m \in MatchIds : ms[m] # NoMatch => ms2[m] # NoMatch
  /\ \A r \in RoundIds : rs[r] # NoRound => rs2[r].match = rs[r].match

-----------------------------------------------------------------------------
(* The documents and the reducer.                                          *)

\* No null document is one of the stored shapes, and a stored round names a
\* match (fromStoredDocument returns null or a checked document).
LEMMA NullDocs ==
  /\ NoRoom \notin RoomDocs
  /\ NoMatch \notin MatchDocs
  /\ NoRound \notin RoundDocs
  /\ \A d \in RoundDocs : d.match # 0 /\ d.match \in MatchIds
BY DEF NoRoom, RoomDocs, NoMatch, MatchDocs, NoRound, RoundDocs, Phases,
       MatchIds

\* A slot without a handler holds nothing that could dangle.
LEMMA IdleFits ==
  ASSUME NEW ms, NEW rs
  PROVE  OpFits(Idle, ms, rs)
BY DEF OpFits, Idle, Ops, PlaceFits, PauseFits, HoldsRoom, HoldsMatch,
       HoldsNext, BeforeVerdict, OfStart

\* A handler begins with empty hands.
LEMMA BeginFits ==
  ASSUME NEW ms, NEW rs,
         NEW kind \in HostKinds \cup TimerKinds \cup {"recover"}
  PROVE  OpFits(Begin(kind), ms, rs)
BY DEF OpFits, Begin, Idle, Ops, PlaceFits, PauseFits, HoldsRoom, HoldsMatch,
       HoldsNext, BeforeVerdict, OfStart

EventRecords ==
  [type : EventTypes, nextPhase : Phases \cup {"none"},
   reason : Reasons \cup {"none"}, remaining : BOOLEAN]

\* What the reducer accepts is a phase, with a pause state exactly if that
\* phase is PAUSED (invariant 1 of state-machine.js).
LEMMA TransitionFits ==
  ASSUME NEW phase \in Phases, NEW event \in EventRecords, NEW pacing,
         Transition(phase, event, pacing).ok
  PROVE  /\ Transition(phase, event, pacing).phase \in Phases
         /\ Transition(phase, event, pacing).paused
              \in PausedStates \cup {NoPause}
         /\ PauseFits(Transition(phase, event, pacing).phase,
                      Transition(phase, event, pacing).paused)
<1> DEFINE result == Transition(phase, event, pacing)
           Good(x) == /\ x.phase \in Phases
                      /\ x.paused \in PausedStates \cup {NoPause}
                      /\ PauseFits(x.phase, x.paused)
<1> SUFFICES Good(result)
  OBVIOUS
<1>1. \A p \in Phases \ {"PAUSED"} : Good(Accept(p))
  BY DEF Accept, PauseFits, NoPause
<1>2. \A code : ~Reject(code).ok
  BY DEF Reject
<1>3. CASE event.type = "HOST_PAUSE"
  <2>1. result = PauseTransition(phase, event)
    BY <1>3 DEF Transition
  <2>2. /\ phase \in PausablePhases
        /\ event.remaining /\ event.reason # "none"
    BY <2>1, <1>2 DEF PauseTransition
  <2>3. /\ result.phase = "PAUSED"
        /\ result.paused = [previousPhase |-> phase, reason |-> event.reason]
    BY <2>1, <2>2 DEF PauseTransition
  <2>4. result.paused \in PausedStates /\ result.paused # NoPause
    BY <2>2, <2>3 DEF PausedStates, NoPause, EventRecords, PausablePhases
  <2> QED
    BY <2>3, <2>4 DEF PauseFits, Phases
<1>4. CASE event.type \in {"HOST_RESUME", "RECOVERY_RESUME"}
  <2>1. \E allowed \in {ResumablePhases, RecoveryResumablePhases} :
          result = ResumeTransition(phase, event, allowed)
    BY <1>4 DEF Transition
  <2>2. result = Accept(event.nextPhase)
        /\ event.nextPhase \in ResumablePhases
    BY <2>1, <1>2 DEF ResumeTransition, ResumablePhases,
                      RecoveryResumablePhases
  <2> QED
    BY <2>2, <1>1 DEF ResumablePhases, Phases
<1>5. CASE event.type = "HOST_FINISH"
  BY <1>5, <1>1, <1>2 DEF Transition, FinishTransition, Phases
<1>6. CASE event.type \in {"HOST_START", "TIMER_ELAPSED", "HOST_NEXT"}
  <2>1. result = TableTransition(phase, event, pacing)
    BY <1>6 DEF Transition
  <2>2. PICK t \in Targets(phase, event.type) : t[1] = Requested(event)
    BY <2>1, <1>2 DEF TableTransition
  <2>3. result = Accept(Requested(event))
    BY <2>1, <1>2 DEF TableTransition
  <2>4. t[1] \in Phases \ {"PAUSED"}
    BY DEF Targets, Phases
  <2> QED
    BY <2>2, <2>3, <2>4, <1>1
<1> QED
  BY <1>3, <1>4, <1>5, <1>6 DEF EventRecords, EventTypes

\* The event a handler builds is one the reducer understands.
LEMMA EventFits ==
  ASSUME NEW o \in Ops, o.match \in MatchDocs
  PROVE  EventOf(o) \in EventRecords
<1>1. ResolveNextPhase(o.room.config, o.match) \in Phases \cup {"none"}
  <2>1. o.match.paused \in PausedStates \cup {NoPause}
    BY DEF MatchDocs
  <2>2. o.match.paused # NoPause => o.match.paused.previousPhase \in Phases
    BY <2>1 DEF PausedStates, PausablePhases, Phases
  <2> QED
    BY <2>2, Zenon DEF ResolveNextPhase, Phases
<1>2. \A type \in EventTypes, next \in Phases \cup {"none"} :
        EventTo(type, next) \in EventRecords
  BY DEF EventTo, EventRecords
<1>3. \A reason \in Reasons, remaining \in BOOLEAN :
        PauseEvent(reason, remaining) \in EventRecords
  BY DEF PauseEvent, EventRecords, EventTypes
<1>4. \/ EventOf(o) \in {PauseEvent("host", o.match.phase = "ROUND_ACTIVE"
                                              /\ o.rstat # "none"),
                         PauseEvent("server_recovery", TRUE)}
      \/ \E type \in EventTypes,
            next \in {"none", "COUNTDOWN", "ROUND_ACTIVE", "ROUND_RESULT",
                      ResolveNextPhase(o.room.config, o.match)} :
           EventOf(o) = EventTo(type, next)
  BY Zenon DEF EventOf, EventTypes
<1> QED
  BY <1>1, <1>2, <1>3, <1>4 DEF Reasons, Phases

\* The bookkeeping of applyTransition writes a document that fits: it keeps
\* the phase and pause state that were read together, and adds the new round.
LEMMA PatchedFits ==
  ASSUME NEW o \in Ops, NEW m, NEW rs,
         MatchFits(m, o.match, rs),
         o.kind = "startRound" => o.rid # 0 /\ rs[o.rid].match = m
  PROVE  MatchFits(m, Patched(o), rs)
<1> DEFINE doc == o.match
<1>1. doc \in MatchDocs
  BY DEF MatchFits
<1>2. doc.roundIds \in Seq(RoundIds) /\ doc.roundIndex \in Nat
      /\ doc.finished \in BOOLEAN
  BY <1>1 DEF MatchDocs
<1>3. o.kind = "startRound" => o.rid \in RoundIds
  BY DEF Ops
<1> DEFINE ids == IF o.kind = "startRound" THEN Append(doc.roundIds, o.rid)
                                           ELSE doc.roundIds
           index == IF EntersNextRound(o) THEN doc.roundIndex + 1
                                          ELSE doc.roundIndex
           done == doc.finished \/ o.next = "FINISHED"
<1>4. Patched(o) = [doc EXCEPT !.roundIndex = index, !.finished = done,
                               !.roundIds = ids]
  BY <1>1 DEF Patched, MatchDocs
<1>5. ids \in Seq(RoundIds) /\ \A i \in 1..Len(ids) : rs[ids[i]].match = m
  <2>1. \A i \in 1..Len(doc.roundIds) : rs[doc.roundIds[i]].match = m
    BY DEF MatchFits
  <2>2. CASE o.kind = "startRound"
    BY <1>2, <1>3, <2>1, <2>2
  <2> QED
    BY <1>2, <2>1, <2>2
<1>6. index \in Nat /\ done \in BOOLEAN
  BY <1>2
<1> HIDE DEF ids, index, done
<1>7. /\ Patched(o) \in MatchDocs
      /\ Patched(o).phase = doc.phase /\ Patched(o).paused = doc.paused
      /\ Patched(o).roundIds = ids
  BY <1>1, <1>4, <1>5, <1>6 DEF MatchDocs
<1> QED
  BY <1>5, <1>7 DEF MatchFits

\* A handler that fits still fits with the verdict of the reducer in it.
LEMMA DecidedFits ==
  ASSUME NEW o, NEW ms, NEW rs,
         OpFits(o, ms, rs), o.room # NoRoom, o.mid # 0, o.match # NoMatch,
         o.kind = "startRound" => o.rid # 0
  PROVE  OpFits(Decided(o), ms, rs)
<1> DEFINE result == Outcome(o)
           accepted == [o EXCEPT !.next = result.phase,
                                 !.paused = result.paused]
           place == IF Patched(accepted) = o.match THEN "swap" ELSE "saveMatch"
<1>1. CASE ~result.ok
  BY <1>1, IdleFits DEF Decided
<1>2. CASE result.ok
  <2>1. o \in Ops /\ o.match \in MatchDocs
    BY DEF OpFits, MatchFits
  <2>2. o.match.phase \in Phases /\ EventOf(o) \in EventRecords
    BY <2>1, EventFits DEF MatchDocs
  <2>3. /\ result.phase \in Phases
        /\ result.paused \in PausedStates \cup {NoPause}
        /\ PauseFits(result.phase, result.paused)
    BY <1>2, <2>2, TransitionFits DEF Outcome
  <2>4. Decided(o) = [accepted EXCEPT !.pc = place]
    BY <1>2 DEF Decided
  <2>5. place \in {"swap", "saveMatch"}
    OBVIOUS
  <2> HIDE DEF result, place
  <2>6. Decided(o) = [o EXCEPT !.next = result.phase,
                               !.paused = result.paused, !.pc = place]
    BY <2>1, <2>4 DEF Ops
  <2>7. /\ Decided(o).kind = o.kind /\ Decided(o).room = o.room
        /\ Decided(o).mid = o.mid /\ Decided(o).match = o.match
        /\ Decided(o).rid = o.rid /\ Decided(o).rstat = o.rstat
        /\ Decided(o).pc = place /\ Decided(o).next = result.phase
        /\ Decided(o).paused = result.paused
        /\ Decided(o) \in Ops
    BY <2>1, <2>3, <2>5, <2>6 DEF Ops
  <2>8. PlaceFits(Decided(o))
    BY <2>3, <2>5, <2>7 DEF PlaceFits, Phases, BeforeVerdict, OfStart
  <2> QED
    BY <2>3, <2>7, <2>8 DEF OpFits
<1> QED
  BY <1>1, <1>2

-----------------------------------------------------------------------------
(* Changes of the store.                                                   *)

\* A document that fits keeps fitting a store that has only grown.
LEMMA GrowsKeepsMatch ==
  ASSUME NEW m \in MatchIds, NEW doc, NEW ms, NEW rs, NEW ms2, NEW rs2,
         MatchFits(m, doc, rs), Grows(ms, rs, ms2, rs2)
  PROVE  MatchFits(m, doc, rs2)
<1> SUFFICES ASSUME NEW i \in 1..Len(doc.roundIds)
             PROVE  rs2[doc.roundIds[i]].match = m
  BY DEF MatchFits
<1>1. doc.roundIds \in Seq(RoundIds)
  BY DEF MatchFits, MatchDocs
<1>2. doc.roundIds[i] \in RoundIds
  BY <1>1
<1>3. rs[doc.roundIds[i]].match = m
  BY DEF MatchFits
<1>4. rs[doc.roundIds[i]] # NoRound
  BY <1>3 DEF NoRound, MatchIds
<1> QED
  BY <1>2, <1>3, <1>4 DEF Grows

\* A copy of the room keeps fitting a store that has only grown.
LEMMA GrowsKeepsRoom ==
  ASSUME NEW r, NEW ms, NEW rs, NEW ms2, NEW rs2,
         RoomFits(r, ms), Grows(ms, rs, ms2, rs2)
  PROVE  RoomFits(r, ms2)
BY DEF RoomFits, Grows, RoomDocs

\* A handler keeps fitting a store that has only grown.
LEMMA GrowsKeepsOp ==
  ASSUME NEW o, NEW ms, NEW rs, NEW ms2, NEW rs2,
         OpFits(o, ms, rs), Grows(ms, rs, ms2, rs2)
  PROVE  OpFits(o, ms2, rs2)
<1>1. o \in Ops
  BY DEF OpFits
<1>2. o.mid # 0 => o.mid \in MatchIds
  BY <1>1 DEF Ops
<1>3. o.rid # 0 => o.rid \in RoundIds
  BY <1>1 DEF Ops
<1>4. o.room = NoRoom \/ RoomFits(o.room, ms2)
  BY GrowsKeepsRoom DEF OpFits
<1>5. o.mid # 0 => ms2[o.mid] # NoMatch
  BY <1>2 DEF OpFits, Grows
<1>6. o.match = NoMatch \/ (o.mid # 0 /\ MatchFits(o.mid, o.match, rs2))
  BY <1>2, GrowsKeepsMatch DEF OpFits
<1>7. o.rid # 0 => o.mid # 0 /\ rs2[o.rid].match = o.mid /\ o.rstat # "none"
  <2> SUFFICES ASSUME o.rid # 0
               PROVE  rs2[o.rid].match = o.mid
    BY DEF OpFits
  <2>1. o.mid # 0 /\ rs[o.rid].match = o.mid
    BY DEF OpFits
  <2>2. rs[o.rid] # NoRound
    BY <2>1 DEF NoRound
  <2> QED
    BY <1>3, <2>1, <2>2 DEF Grows
<1> QED
  BY <1>1, <1>4, <1>5, <1>6, <1>7 DEF OpFits

\* One handler moves and the store grows: the invariant is kept if what was
\* written fits and the handler fits the new store.
LEMMA StepFits ==
  ASSUME Fits, NEW s \in Slots, NEW o,
         op' = [op EXCEPT ![s] = o],
         Grows(matches, rounds, matches', rounds'),
         StoreFits(room', matches', rounds'),
         OpFits(o, matches', rounds')
  PROVE  Fits'
<1>1. o \in Ops
  BY DEF OpFits
<1>2. op' \in [Slots -> Ops]
  BY <1>1 DEF Fits
<1>3. ASSUME NEW t \in Slots
      PROVE  OpFits(op'[t], matches', rounds')
  <2>1. CASE t = s
    BY <2>1 DEF Fits
  <2>2. CASE t # s
    <3>1. op'[t] = op[t]
      BY <2>2 DEF Fits
    <3>2. OpFits(op[t], matches, rounds)
      BY DEF Fits
    <3> QED
      BY <3>1, <3>2, GrowsKeepsOp
  <2> QED
    BY <2>1, <2>2
<1> QED
  BY <1>2, <1>3 DEF Fits

\* The same for a step that leaves the store alone.
LEMMA ReadFits ==
  ASSUME Fits, NEW s \in Slots, NEW o,
         op' = [op EXCEPT ![s] = o],
         UNCHANGED <<room, matches, rounds>>,
         OpFits(o, matches, rounds)
  PROVE  Fits'
<1>1. Grows(matches, rounds, matches', rounds')
  BY DEF Grows
<1>2. StoreFits(room', matches', rounds')
  BY DEF Fits
<1> QED
  BY <1>1, <1>2, StepFits

\* Writing the room document, when what is written fits.
LEMMA WriteRoom ==
  ASSUME Fits, UNCHANGED <<matches, rounds>>, RoomFits(room', matches)
  PROVE  /\ Grows(matches, rounds, matches', rounds')
         /\ StoreFits(room', matches', rounds')
BY DEF Fits, StoreFits, Grows

\* Writing one match document that fits.
LEMMA WriteMatch ==
  ASSUME Fits, NEW m \in MatchIds, NEW doc,
         matches' = [matches EXCEPT ![m] = doc],
         MatchFits(m, doc, rounds),
         UNCHANGED rounds, room'.currentMatchId = room.currentMatchId,
         room' \in RoomDocs
  PROVE  /\ Grows(matches, rounds, matches', rounds')
         /\ StoreFits(room', matches', rounds')
<1>1. doc \in MatchDocs /\ doc # NoMatch
  BY NullDocs DEF MatchFits
<1>2. matches \in [MatchIds -> MatchDocs \cup {NoMatch}]
  BY DEF Fits, StoreFits, StoreTypes
<1>3. matches' \in [MatchIds -> MatchDocs \cup {NoMatch}]
  BY <1>1, <1>2
<1>4. \A k \in MatchIds : matches'[k] = IF k = m THEN doc ELSE matches[k]
  BY <1>2
<1>5. Grows(matches, rounds, matches', rounds')
  BY <1>1, <1>4 DEF Grows
<1>6. RoomFits(room', matches')
  BY <1>5 DEF Fits, StoreFits, RoomFits, RoomDocs, Grows
<1>7. \A k \in MatchIds :
        matches'[k] = NoMatch \/ MatchFits(k, matches'[k], rounds')
  BY <1>4 DEF Fits, StoreFits
<1> QED
  BY <1>3, <1>5, <1>6, <1>7 DEF StoreFits, StoreTypes, Fits

\* Writing one round document that stays with its match.
LEMMA WriteRound ==
  ASSUME Fits, NEW r \in RoundIds, NEW doc \in RoundDocs,
         rounds' = [rounds EXCEPT ![r] = doc],
         rounds[r] # NoRound => rounds[r].match = doc.match,
         UNCHANGED <<room, matches>>
  PROVE  /\ Grows(matches, rounds, matches', rounds')
         /\ StoreFits(room', matches', rounds')
<1>1. rounds \in [RoundIds -> RoundDocs \cup {NoRound}]
  BY DEF Fits, StoreFits, StoreTypes
<1>2. Grows(matches, rounds, matches', rounds')
  BY <1>1 DEF Grows
<1>3. rounds' \in [RoundIds -> RoundDocs \cup {NoRound}]
  BY <1>1
<1>4. \A m \in MatchIds :
        matches[m] = NoMatch \/ MatchFits(m, matches[m], rounds')
  BY <1>2, GrowsKeepsMatch DEF Fits, StoreFits
<1> QED
  BY <1>2, <1>3, <1>4 DEF Fits, StoreFits, StoreTypes
-----------------------------------------------------------------------------
(* The actions of a handler.                                               *)

\* What the invariant says of the handler in one slot.
LEMMA Holder ==
  ASSUME Fits, NEW s \in Slots
  PROVE  /\ OpFits(op[s], matches, rounds)
         /\ op[s] \in Ops
BY DEF Fits, OpFits

\* The match a handler works on is stored, and fits.
LEMMA HolderMatch ==
  ASSUME Fits, NEW m \in MatchIds, matches[m] # NoMatch
  PROVE  MatchFits(m, matches[m], rounds)
BY DEF Fits, StoreFits

\* Loading the room, and with it the id of the current match.
LEMMA LoadRoomFits ==
  ASSUME Fits, NEW s \in Slots, LoadRoom(s)
  PROVE  Fits'
<1> DEFINE o == op[s]
           place == IF room.currentMatchId = 0 THEN "listPlayers"
                                               ELSE "loadMatch"
           loaded == [o EXCEPT !.room = room, !.mid = room.currentMatchId,
                               !.pc = place]
<1>1. o.pc = "loadRoom" /\ OpFits(o, matches, rounds) /\ o \in Ops
  BY Holder DEF LoadRoom, At
<1>2. RoomFits(room, matches) /\ room \in RoomDocs /\ room # NoRoom
  BY NullDocs DEF Fits, StoreFits, RoomFits
<1>3. \/ op' = [op EXCEPT ![s] = Idle]
      \/ /\ op' = [op EXCEPT ![s] = loaded]
         /\ room.currentMatchId = 0 => o.kind = "start"
  BY DEF LoadRoom, Becomes
<1>4. UNCHANGED <<room, matches, rounds>>
  BY DEF LoadRoom
<1>5. ASSUME room.currentMatchId = 0 => o.kind = "start"
      PROVE  OpFits(loaded, matches, rounds)
  <2>1. o.rid = 0 /\ o.next = "none" /\ o.match = NoMatch
    BY <1>1 DEF OpFits, PlaceFits, BeforeVerdict
  <2>2. room.currentMatchId \in MatchIds \cup {0}
    BY <1>2 DEF RoomDocs
  <2>p. place \in {"listPlayers", "loadMatch"}
    OBVIOUS
  <2> HIDE DEF place
  <2>3. /\ loaded \in Ops
        /\ loaded.room = room /\ loaded.mid = room.currentMatchId
        /\ loaded.pc = place /\ loaded.kind = o.kind
        /\ loaded.rid = 0 /\ loaded.next = "none" /\ loaded.match = NoMatch
        /\ loaded.paused = o.paused
    BY <1>1, <1>2, <2>1, <2>2, <2>p DEF Ops
  <2>4. PlaceFits(loaded)
    BY <1>2, <1>5, <2>3 DEF place, PlaceFits, HoldsMatch, HoldsNext, OfStart
  <2>5. room.currentMatchId # 0 => matches[room.currentMatchId] # NoMatch
    BY <1>2 DEF RoomFits
  <2>6. PauseFits(loaded.next, loaded.paused)
    BY <1>1, <2>1, <2>3 DEF OpFits
  <2> HIDE DEF loaded
  <2> QED
    BY <1>2, <2>3, <2>4, <2>5, <2>6 DEF OpFits
<1> HIDE DEF loaded
<1> QED
  BY <1>3, <1>4, <1>5, IdleFits, ReadFits

\* Loading the match: stop there, go on, or decide at once.
LEMMA LoadMatchFits ==
  ASSUME Fits, NEW s \in Slots, LoadMatch(s)
  PROVE  Fits'
<1> DEFINE o == op[s]
           loaded == [o EXCEPT !.match = matches[o.mid]]
           placed == [loaded EXCEPT !.pc = PlaceAfterMatch(loaded.kind)]
<1>1. o.pc = "loadMatch" /\ OpFits(o, matches, rounds) /\ o \in Ops
  BY Holder DEF LoadMatch, At
<1>2. /\ o.room # NoRoom /\ o.mid # 0 /\ o.mid \in MatchIds
      /\ o.rid = 0 /\ o.next = "none"
  BY <1>1 DEF OpFits, PlaceFits, HoldsRoom, BeforeVerdict, Ops
<1>3. matches[o.mid] # NoMatch /\ MatchFits(o.mid, matches[o.mid], rounds)
  BY <1>1, <1>2, HolderMatch DEF OpFits
<1>4. matches[o.mid] \in MatchDocs
  BY <1>3 DEF MatchFits
<1>5. /\ loaded \in Ops
      /\ loaded.kind = o.kind /\ loaded.pc = o.pc /\ loaded.room = o.room
      /\ loaded.mid = o.mid /\ loaded.match = matches[o.mid]
      /\ loaded.rid = o.rid /\ loaded.rstat = o.rstat
      /\ loaded.next = o.next /\ loaded.paused = o.paused
  BY <1>1, <1>4 DEF Ops
<1> HIDE DEF loaded
<1>6. OpFits(loaded, matches, rounds)
  <2>1. PlaceFits(loaded)
    BY <1>1, <1>2, <1>5 DEF PlaceFits, HoldsMatch, HoldsNext, OfStart
  <2> QED
    BY <1>1, <1>2, <1>3, <1>5, <2>1 DEF OpFits
<1>7. ASSUME ReadsRound(loaded)
               \/ loaded.kind \in {"start", "startRound", "rematch"}
      PROVE  OpFits(placed, matches, rounds)
  <2>1. /\ PlaceAfterMatch(o.kind)
             \in {"listPlayers", "saveRound", "saveNext", "loadRound"}
        /\ PlaceAfterMatch(o.kind) = "listPlayers" => o.kind = "start"
        /\ PlaceAfterMatch(o.kind) = "loadRound"
             => o.kind \notin {"start", "startRound", "rematch"}
    BY Zenon DEF PlaceAfterMatch
  <2>2. PlaceAfterMatch(o.kind) = "loadRound" => loaded.match.roundIds # <<>>
    BY <1>5, <1>7, <2>1 DEF ReadsRound
  <2>3. /\ placed \in Ops
        /\ placed.pc = PlaceAfterMatch(o.kind)
        /\ placed.kind = loaded.kind /\ placed.room = loaded.room
        /\ placed.mid = loaded.mid /\ placed.match = loaded.match
        /\ placed.rid = loaded.rid /\ placed.rstat = loaded.rstat
        /\ placed.next = loaded.next /\ placed.paused = loaded.paused
    BY <1>5, <2>1 DEF Ops
  <2> HIDE DEF placed
  <2>4. PlaceFits(placed)
    BY <1>2, <1>3, <1>5, <2>1, <2>2, <2>3 DEF PlaceFits, HoldsNext, OfStart
  <2> QED
    BY <1>6, <2>3, <2>4 DEF OpFits
<1>8. ASSUME loaded.kind \notin {"start", "startRound", "rematch"}
      PROVE  OpFits(Decided(loaded), matches, rounds)
  BY <1>2, <1>3, <1>5, <1>6, <1>8, DecidedFits
<1>9. /\ op' = [op EXCEPT ![s] = WithMatch(loaded)]
      /\ UNCHANGED <<room, matches, rounds>>
  BY DEF LoadMatch, Becomes, loaded
<1>10. OpFits(WithMatch(loaded), matches, rounds)
  BY <1>7, <1>8, IdleFits DEF WithMatch
<1> QED
  BY <1>9, <1>10, ReadFits

\* Listing the players only decides where the start goes on.
LEMMA ListPlayersFits ==
  ASSUME Fits, NEW s \in Slots, ListPlayers(s)
  PROVE  Fits'
<1> DEFINE o == op[s]
           place == IF o.match = NoMatch THEN "createMatch" ELSE "touchStart"
           placed == [o EXCEPT !.pc = place]
<1>1. o.pc = "listPlayers" /\ OpFits(o, matches, rounds) /\ o \in Ops
  BY Holder DEF ListPlayers, At
<1>2. /\ placed \in Ops
      /\ placed.pc = place /\ placed.kind = o.kind /\ placed.room = o.room
      /\ placed.mid = o.mid /\ placed.match = o.match /\ placed.rid = o.rid
      /\ placed.rstat = o.rstat /\ placed.next = o.next
      /\ placed.paused = o.paused
  BY <1>1 DEF Ops
<1>3. PlaceFits(placed)
  BY <1>1, <1>2 DEF OpFits, PlaceFits, HoldsRoom, HoldsMatch, HoldsNext,
                    BeforeVerdict, OfStart
<1>4. /\ \/ op' = [op EXCEPT ![s] = Idle]
         \/ op' = [op EXCEPT ![s] = placed]
      /\ UNCHANGED <<room, matches, rounds>>
  BY DEF ListPlayers, Becomes
<1> HIDE DEF placed
<1>5. OpFits(placed, matches, rounds)
  BY <1>1, <1>2, <1>3 DEF OpFits
<1> QED
  BY <1>4, <1>5, IdleFits, ReadFits

\* Loading the current round: it is stored, and it is a round of the match.
LEMMA LoadRoundFits ==
  ASSUME Fits, NEW s \in Slots, LoadRound(s)
  PROVE  Fits'
<1> DEFINE o == op[s]
           last == CurrentRoundId(o.match)
           status == rounds[last].status
           loaded == [o EXCEPT !.rid = last, !.rstat = status]
           ended == [loaded EXCEPT !.pc = "saveEnded"]
<1>1. o.pc = "loadRound" /\ OpFits(o, matches, rounds) /\ o \in Ops
  BY Holder DEF LoadRound, At
<1>2. /\ o.room # NoRoom /\ o.match # NoMatch /\ o.match.roundIds # <<>>
      /\ o.mid # 0 /\ o.mid \in MatchIds /\ MatchFits(o.mid, o.match, rounds)
  BY <1>1 DEF OpFits, PlaceFits, HoldsRoom, HoldsMatch, Ops
<1>3. last \in RoundIds /\ rounds[last].match = o.mid
  <2>1. o.match.roundIds \in Seq(RoundIds)
    BY <1>2 DEF MatchFits, MatchDocs
  <2>2. Len(o.match.roundIds) \in 1..Len(o.match.roundIds)
    BY <1>2, <2>1
  <2> QED
    BY <1>2, <2>1, <2>2 DEF CurrentRoundId, MatchFits
<1>4. status \in {"ACTIVE", "ENDED"}
  <2>1. rounds[last] \in RoundDocs \cup {NoRound}
    BY <1>3 DEF Fits, StoreFits, StoreTypes
  <2> QED
    BY <1>2, <1>3, <2>1 DEF NoRound, RoundDocs
<1> HIDE DEF last, status
<1>r. o \in Ops /\ last \in RoundIds \cup {0}
  BY <1>1, <1>3
<1>l. loaded = [o EXCEPT !.rid = last, !.rstat = status]
  OBVIOUS
<1> HIDE DEF loaded, o
<1>5. /\ loaded \in Ops
      /\ loaded.kind = o.kind /\ loaded.pc = o.pc /\ loaded.room = o.room
      /\ loaded.mid = o.mid /\ loaded.match = o.match /\ loaded.rid = last
      /\ loaded.rstat = status
      /\ loaded.next = o.next /\ loaded.paused = o.paused
  BY <1>r, <1>l, <1>4 DEF Ops
<1>6. last # 0
  BY <1>3 DEF RoundIds
<1>7. OpFits(loaded, matches, rounds)
  <2>1. PlaceFits(loaded)
    BY <1>1, <1>2, <1>5, <1>6
    DEF PlaceFits, HoldsNext, BeforeVerdict, OfStart
  <2> QED
    BY <1>1, <1>2, <1>3, <1>4, <1>5, <2>1 DEF OpFits
<1>8. OpFits(Decided(loaded), matches, rounds)
  BY <1>2, <1>5, <1>6, <1>7, DecidedFits
<1>9. OpFits(ended, matches, rounds)
  <2>1. /\ ended \in Ops
        /\ ended.kind = loaded.kind /\ ended.pc = "saveEnded"
        /\ ended.room = loaded.room /\ ended.mid = loaded.mid
        /\ ended.match = loaded.match /\ ended.rid = loaded.rid
        /\ ended.rstat = loaded.rstat /\ ended.next = loaded.next
        /\ ended.paused = loaded.paused
    BY <1>5 DEF Ops
  <2> HIDE DEF ended
  <2>2. PlaceFits(ended)
    BY <1>2, <1>5, <1>6, <2>1
    DEF PlaceFits, HoldsNext, BeforeVerdict, OfStart
  <2> QED
    BY <1>7, <2>1, <2>2 DEF OpFits
<1>10. /\ op' \in {[op EXCEPT ![s] = Decided(loaded)],
                   [op EXCEPT ![s] = ended], [op EXCEPT ![s] = Idle]}
       /\ UNCHANGED <<room, matches, rounds>>
  BY DEF LoadRound, Becomes, loaded, last, status, o
<1> HIDE DEF ended
<1> QED
  BY <1>8, <1>9, <1>10, IdleFits, ReadFits

\* game:reveal ends, or begins anew as endRound.
\* A refused round leaves the documents as they are.
LEMMA RefuseRoundFits ==
  ASSUME Fits, NEW s \in Slots, RefuseRound(s)
  PROVE  Fits'
<1>1. op' = [op EXCEPT ![s] = Idle] /\ UNCHANGED <<room, matches, rounds>>
  BY DEF RefuseRound, Becomes
<1> QED
  BY <1>1, IdleFits, ReadFits

LEMMA GateRevealFits ==
  ASSUME Fits, NEW s \in Slots, GateReveal(s)
  PROVE  Fits'
<1>1. /\ op' \in {[op EXCEPT ![s] = Begin("endRound")],
                  [op EXCEPT ![s] = Idle]}
      /\ UNCHANGED <<room, matches, rounds>>
  BY DEF GateReveal, Becomes
<1>2. OpFits(Begin("endRound"), matches, rounds)
  BY BeginFits DEF TimerKinds
<1> QED
  BY <1>1, <1>2, IdleFits, ReadFits
\* A first match: it has no rounds, so nothing in it can dangle.
LEMMA NewMatchFits ==
  ASSUME NEW m, NEW rs, NEW sequence \in Nat \ {0},
         NEW phase \in Phases \ {"PAUSED"}
  PROVE  /\ MatchFits(m, NewMatch(sequence, phase), rs)
         /\ NewMatch(sequence, phase) # NoMatch
         /\ NewMatch(sequence, phase) \in MatchDocs
<1> DEFINE doc == NewMatch(sequence, phase)
<1>1. /\ doc.phase = phase /\ doc.paused = NoPause /\ doc.roundIds = <<>>
  BY DEF NewMatch
<1>2. <<>> \in Seq(RoundIds)
  OBVIOUS
<1>3. doc \in MatchDocs
  BY <1>2 DEF MatchDocs, NewMatch
<1> HIDE DEF doc
<1>4. PauseFits(doc.phase, doc.paused)
  BY <1>1 DEF PauseFits
<1>5. MatchFits(m, doc, rs)
  BY <1>1, <1>3, <1>4 DEF MatchFits
<1> QED
  BY <1>3, <1>5, NullDocs DEF doc

\* Storing the first match of the room.
LEMMA CreateMatchFits ==
  ASSUME Fits, NEW s \in Slots, CreateMatch(s)
  PROVE  Fits'
<1>1. PICK m \in MatchIds :
        /\ FreshMatchId(m)
        /\ matches' = [matches EXCEPT ![m] = NewMatch(1, "LOBBY")]
        /\ op' = [op EXCEPT ![s] = [op[s] EXCEPT !.mid = m,
                 !.pc = "touchStart", !.match = NewMatch(1, "LOBBY")]]
        /\ UNCHANGED <<room, rounds>>
  BY DEF CreateMatch, Becomes
<1> DEFINE o == op[s]
           match == NewMatch(1, "LOBBY")
           created == [o EXCEPT !.mid = m, !.pc = "touchStart",
                                !.match = match]
<1>2. o.pc = "createMatch" /\ OpFits(o, matches, rounds) /\ o \in Ops
  BY Holder DEF CreateMatch, At
<1>3. /\ MatchFits(m, match, rounds) /\ match # NoMatch
      /\ match \in MatchDocs
  BY NewMatchFits DEF Phases
<1>4. /\ o.room # NoRoom /\ o.rid = 0 /\ o.next = "none"
      /\ o.kind = "start"
  BY <1>2 DEF OpFits, PlaceFits, HoldsRoom, BeforeVerdict, OfStart
<1>5. o \in Ops /\ match \in MatchDocs /\ m # 0
  BY <1>2, <1>3 DEF MatchIds
<1>6. created = [o EXCEPT !.mid = m, !.pc = "touchStart", !.match = match]
  OBVIOUS
<1>7. op' = [op EXCEPT ![s] = created]
  BY <1>1
<1>8. matches' = [matches EXCEPT ![m] = match]
  BY <1>1
<1> HIDE DEF match, created, o
<1>9. /\ created \in Ops
      /\ created.kind = o.kind /\ created.pc = "touchStart"
      /\ created.room = o.room /\ created.mid = m
      /\ created.match = match /\ created.rid = o.rid
      /\ created.rstat = o.rstat /\ created.next = o.next
      /\ created.paused = o.paused
  BY <1>5, <1>6 DEF Ops
<1>10. PlaceFits(created)
  BY <1>3, <1>4, <1>9 DEF PlaceFits, HoldsNext
<1>11. /\ Grows(matches, rounds, matches', rounds')
       /\ StoreFits(room', matches', rounds')
  <2>1. room' \in RoomDocs
    BY <1>1 DEF Fits, StoreFits, RoomFits
  <2> QED
    BY <1>1, <1>3, <1>8, <2>1, WriteMatch
<1>12. OpFits(created, matches', rounds')
  <2>1. matches'[m] # NoMatch
    BY <1>3, <1>8 DEF Fits, StoreFits, StoreTypes
  <2>2. created.room = NoRoom \/ RoomFits(created.room, matches')
    BY <1>2, <1>9, <1>11, GrowsKeepsRoom DEF OpFits
  <2>3. PauseFits(created.next, created.paused)
    BY <1>2, <1>9 DEF OpFits
  <2> QED
    BY <1>1, <1>3, <1>4, <1>5, <1>9, <1>10, <2>1, <2>2, <2>3 DEF OpFits
<1> QED
  BY <1>7, <1>11, <1>12, StepFits

\* Pointing the room to the match a handler works on, which is stored.
LEMMA PointsFits ==
  ASSUME NEW o \in Ops, NEW r, NEW ms, RoomFits(r, ms),
         o.mid # 0 => ms[o.mid] # NoMatch
  PROVE  RoomFits([r EXCEPT !.currentMatchId = o.mid], ms)
BY DEF RoomFits, RoomDocs, Ops

\* startMatch writes currentMatchId and decides.
LEMMA TouchStartFits ==
  ASSUME Fits, NEW s \in Slots, TouchStart(s)
  PROVE  Fits'
<1> DEFINE o == op[s]
           r == [o.room EXCEPT !.currentMatchId = o.mid]
           touched == [o EXCEPT !.room = r]
<1>1. o.pc = "touchStart" /\ OpFits(o, matches, rounds) /\ o \in Ops
  BY Holder DEF TouchStart, At
<1>2. /\ o.room # NoRoom /\ o.rid = 0 /\ o.next = "none"
      /\ o.kind = "start" /\ o.match # NoMatch /\ o.mid # 0
  BY <1>1 DEF OpFits, PlaceFits, HoldsRoom, HoldsMatch, BeforeVerdict, OfStart
<1>3. RoomFits(r, matches)
  BY <1>1, <1>2, PointsFits DEF OpFits
<1>4. o \in Ops /\ r \in RoomDocs /\ touched = [o EXCEPT !.room = r]
  BY <1>1, <1>3 DEF RoomFits
<1>5. /\ room' = r /\ op' = [op EXCEPT ![s] = Decided(touched)]
      /\ UNCHANGED <<matches, rounds>>
  BY DEF TouchStart, Becomes
<1> HIDE DEF touched, o, r
<1>6. /\ touched \in Ops
      /\ touched.kind = o.kind /\ touched.pc = o.pc
      /\ touched.room = r /\ touched.mid = o.mid
      /\ touched.match = o.match /\ touched.rid = o.rid
      /\ touched.rstat = o.rstat /\ touched.next = o.next
      /\ touched.paused = o.paused
  BY <1>4 DEF Ops
<1>7. r # NoRoom
  BY <1>4, NullDocs
<1>8. PlaceFits(touched)
  BY <1>1, <1>2, <1>6, <1>7 DEF PlaceFits, HoldsNext
<1>9. OpFits(touched, matches, rounds)
  BY <1>1, <1>3, <1>6, <1>8 DEF OpFits
<1>10. OpFits(Decided(touched), matches, rounds)
  BY <1>2, <1>6, <1>7, <1>9, DecidedFits
<1>11. /\ Grows(matches, rounds, matches', rounds')
       /\ StoreFits(room', matches', rounds')
  BY <1>3, <1>5, WriteRoom
<1>12. OpFits(Decided(touched), matches', rounds')
  BY <1>5, <1>10
<1> QED
  BY <1>5, <1>11, <1>12, StepFits
\* A handler that has its verdict and only moves on to its next call.
LEMMA MovedFits ==
  ASSUME NEW o, NEW ms, NEW rs, OpFits(o, ms, rs),
         NEW pc \in {"swap", "touchRoom", "reloadRoom", "saveResumed",
                     "after"},
         o.room # NoRoom, o.match # NoMatch,
         pc \in HoldsNext => o.next # "none",
         pc = "saveResumed" => o.rid # 0
  PROVE  OpFits([o EXCEPT !.pc = pc], ms, rs)
<1> DEFINE moved == [o EXCEPT !.pc = pc]
<1>1. o \in Ops
  BY DEF OpFits
<1>2. /\ moved \in Ops
      /\ moved.kind = o.kind /\ moved.pc = pc /\ moved.room = o.room
      /\ moved.mid = o.mid /\ moved.match = o.match /\ moved.rid = o.rid
      /\ moved.rstat = o.rstat /\ moved.next = o.next
      /\ moved.paused = o.paused
  BY <1>1 DEF Ops
<1> HIDE DEF moved
<1>3. PlaceFits(moved)
  BY <1>2 DEF PlaceFits, BeforeVerdict, OfStart
<1>4. OpFits(moved, ms, rs)
  BY <1>2, <1>3 DEF OpFits
<1> QED
  BY <1>4 DEF moved

\* What a handler holds once it is past the loading of its match.
LEMMA HeldFits ==
  ASSUME Fits, NEW s \in Slots, op[s].pc \in HoldsMatch \cap HoldsRoom
  PROVE  /\ OpFits(op[s], matches, rounds) /\ op[s] \in Ops
         /\ op[s].room # NoRoom /\ RoomFits(op[s].room, matches)
         /\ op[s].match # NoMatch /\ op[s].mid # 0 /\ op[s].mid \in MatchIds
         /\ MatchFits(op[s].mid, op[s].match, rounds)
         /\ matches[op[s].mid] # NoMatch
<1>1. OpFits(op[s], matches, rounds) /\ op[s] \in Ops
  BY Holder
<1> QED
  BY <1>1 DEF OpFits, PlaceFits, Ops

\* startRound stores a new round of its match.
LEMMA SaveRoundFits ==
  ASSUME Fits, NEW s \in Slots, SaveRound(s)
  PROVE  Fits'
<1> DEFINE o == op[s]
<1>1. o.pc = "saveRound"
  BY DEF SaveRound, At
<1>2. /\ OpFits(o, matches, rounds) /\ o \in Ops
      /\ o.room # NoRoom /\ RoomFits(o.room, matches)
      /\ o.match # NoMatch /\ o.mid # 0 /\ o.mid \in MatchIds
      /\ MatchFits(o.mid, o.match, rounds) /\ matches[o.mid] # NoMatch
  BY <1>1, HeldFits DEF HoldsMatch, HoldsRoom
<1>3. PICK r \in RoundIds :
        /\ FreshRoundId(r)
        /\ rounds' = [rounds EXCEPT
                        ![r] = [match |-> o.mid, status |-> "ACTIVE"]]
        /\ op' = [op EXCEPT ![s] =
                    Decided([o EXCEPT !.rid = r, !.rstat = "ACTIVE"])]
        /\ UNCHANGED <<room, matches>>
  BY DEF SaveRound, Becomes
<1> DEFINE doc == [match |-> o.mid, status |-> "ACTIVE"]
           noted == [o EXCEPT !.rid = r, !.rstat = "ACTIVE"]
<1>4. doc \in RoundDocs /\ doc.match = o.mid
  BY <1>2 DEF RoundDocs
<1>5. /\ Grows(matches, rounds, matches', rounds')
      /\ StoreFits(room', matches', rounds')
  <2>1. rounds[r] = NoRound
    BY <1>3 DEF FreshRoundId
  <2> HIDE DEF doc
  <2> QED
    BY <1>3, <1>4, <2>1, WriteRound DEF doc
<1>6. rounds'[r].match = o.mid
  BY <1>3 DEF Fits, StoreFits, StoreTypes
<1>7. r # 0
  BY <1>3 DEF RoundIds
<1>8. noted = [o EXCEPT !.rid = r, !.rstat = "ACTIVE"] /\ o \in Ops
  BY <1>2
<1>9. op' = [op EXCEPT ![s] = Decided(noted)]
  BY <1>3
<1>10. OpFits(o, matches', rounds')
  BY <1>2, <1>5, GrowsKeepsOp
<1> HIDE DEF noted, o
<1>11. /\ noted \in Ops
       /\ noted.kind = o.kind /\ noted.pc = o.pc /\ noted.room = o.room
       /\ noted.mid = o.mid /\ noted.match = o.match /\ noted.rid = r
       /\ noted.rstat = "ACTIVE" /\ noted.next = o.next
       /\ noted.paused = o.paused
  BY <1>8 DEF Ops
<1>12. PlaceFits(noted)
  BY <1>1, <1>2, <1>7, <1>11 DEF PlaceFits, HoldsNext, BeforeVerdict, OfStart
<1>13. OpFits(noted, matches', rounds')
  BY <1>2, <1>6, <1>7, <1>10, <1>11, <1>12 DEF OpFits
<1>14. OpFits(Decided(noted), matches', rounds')
  BY <1>2, <1>7, <1>11, <1>13, DecidedFits
<1> QED
  BY <1>5, <1>9, <1>14, StepFits

\* Writing back a round that was read: it stays a round of the same match.
LEMMA RewriteRound ==
  ASSUME Fits, NEW s \in Slots, op[s].rid # 0,
         NEW status \in {"ACTIVE", "ENDED"},
         rounds' = [rounds EXCEPT ![op[s].rid] = [match |-> op[s].mid,
                                                  status |-> status]],
         UNCHANGED <<room, matches>>
  PROVE  /\ Grows(matches, rounds, matches', rounds')
         /\ StoreFits(room', matches', rounds')
<1> DEFINE o == op[s]
           doc == [match |-> o.mid, status |-> status]
<1>1. /\ o.rid \in RoundIds /\ o.mid \in MatchIds
      /\ rounds[o.rid].match = o.mid
  BY Holder DEF OpFits, Ops
<1>2. doc \in RoundDocs /\ doc.match = o.mid
  BY <1>1 DEF RoundDocs
<1>3. rounds' = [rounds EXCEPT ![o.rid] = doc]
  OBVIOUS
<1> HIDE DEF doc
<1> QED
  BY <1>1, <1>2, <1>3, WriteRound

\* endRound closes its round, then asks the reducer.
LEMMA SaveEndedFits ==
  ASSUME Fits, NEW s \in Slots, SaveEnded(s)
  PROVE  Fits'
<1> DEFINE o == op[s]
<1>1. o.pc = "saveEnded"
  BY DEF SaveEnded, At
<1>2. /\ OpFits(o, matches, rounds) /\ o.room # NoRoom
      /\ o.match # NoMatch /\ o.mid # 0
  BY <1>1, HeldFits DEF HoldsMatch, HoldsRoom
<1>3. o.rid # 0
  BY <1>1, <1>2 DEF OpFits, PlaceFits
<1>4. OpFits(Decided(o), matches, rounds)
  BY <1>2, <1>3, DecidedFits
<1>5. /\ op' = [op EXCEPT ![s] = Decided(o)]
      /\ rounds' = [rounds EXCEPT ![o.rid] = [match |-> o.mid,
                                             status |-> "ENDED"]]
      /\ UNCHANGED <<room, matches>>
  BY DEF SaveEnded, Becomes
<1>6. /\ Grows(matches, rounds, matches', rounds')
      /\ StoreFits(room', matches', rounds')
  BY <1>3, <1>5, RewriteRound
<1>7. OpFits(Decided(o), matches', rounds')
  BY <1>4, <1>6, GrowsKeepsOp
<1> QED
  BY <1>5, <1>6, <1>7, StepFits

\* The deadline of a resumed round, with the status it was read with.
LEMMA SaveResumedFits ==
  ASSUME Fits, NEW s \in Slots, SaveResumed(s)
  PROVE  Fits'
<1> DEFINE o == op[s]
<1>1. o.pc = "saveResumed"
  BY DEF SaveResumed, At
<1>2. /\ OpFits(o, matches, rounds) /\ o \in Ops /\ o.room # NoRoom
      /\ o.match # NoMatch /\ o.mid # 0
  BY <1>1, HeldFits DEF HoldsMatch, HoldsRoom
<1>3. o.rid # 0 /\ o.rstat \in {"ACTIVE", "ENDED"}
  BY <1>1, <1>2 DEF OpFits, PlaceFits, Ops
<1>4. OpFits([o EXCEPT !.pc = "after"], matches, rounds)
  BY <1>2, MovedFits DEF HoldsNext
<1>5. /\ op' = [op EXCEPT ![s] = [o EXCEPT !.pc = "after"]]
      /\ rounds' = [rounds EXCEPT ![o.rid] = [match |-> o.mid,
                                             status |-> o.rstat]]
      /\ UNCHANGED <<room, matches>>
  BY DEF SaveResumed, Becomes
<1>6. /\ Grows(matches, rounds, matches', rounds')
      /\ StoreFits(room', matches', rounds')
  BY <1>3, <1>5, RewriteRound
<1>7. OpFits([o EXCEPT !.pc = "after"], matches', rounds')
  BY <1>4, <1>6, GrowsKeepsOp
<1> QED
  BY <1>5, <1>6, <1>7, StepFits
\* The bookkeeping of applyTransition: an old phase may come back, but with
\* its own pause state.
LEMMA SaveMatchFits ==
  ASSUME Fits, NEW s \in Slots, SaveMatch(s)
  PROVE  Fits'
<1> DEFINE o == op[s]
<1>1. o.pc = "saveMatch"
  BY DEF SaveMatch, At
<1>2. /\ OpFits(o, matches, rounds) /\ o \in Ops /\ o.room # NoRoom
      /\ o.match # NoMatch /\ o.mid # 0 /\ o.mid \in MatchIds
      /\ MatchFits(o.mid, o.match, rounds)
  BY <1>1, HeldFits DEF HoldsMatch, HoldsRoom
<1>3. /\ o.next # "none"
      /\ o.kind = "startRound" => o.rid # 0 /\ rounds[o.rid].match = o.mid
  BY <1>1, <1>2 DEF OpFits, PlaceFits, HoldsNext
<1>4. MatchFits(o.mid, Patched(o), rounds)
  BY <1>2, <1>3, PatchedFits
<1>5. OpFits([o EXCEPT !.pc = "swap"], matches, rounds)
  BY <1>2, <1>3, MovedFits
<1>6. /\ op' = [op EXCEPT ![s] = [o EXCEPT !.pc = "swap"]]
      /\ matches' = [matches EXCEPT ![o.mid] = Patched(o)]
      /\ UNCHANGED <<room, rounds>>
  BY DEF SaveMatch, Becomes
<1>7. room' \in RoomDocs
  BY <1>6 DEF Fits, StoreFits, RoomFits
<1>8. /\ Grows(matches, rounds, matches', rounds')
      /\ StoreFits(room', matches', rounds')
  BY <1>2, <1>4, <1>6, <1>7, WriteMatch
<1>9. OpFits([o EXCEPT !.pc = "swap"], matches', rounds')
  BY <1>5, <1>8, GrowsKeepsOp
<1> QED
  BY <1>6, <1>8, <1>9, StepFits

\* A stored match that gets a phase together with its pause state still fits.
LEMMA SwappedFits ==
  ASSUME NEW m, NEW doc, NEW rs, MatchFits(m, doc, rs),
         NEW phase \in Phases, NEW pause \in PausedStates \cup {NoPause},
         PauseFits(phase, pause)
  PROVE  MatchFits(m, [doc EXCEPT !.phase = phase, !.paused = pause], rs)
<1> DEFINE swapped == [doc EXCEPT !.phase = phase, !.paused = pause]
<1>1. doc \in MatchDocs
  BY DEF MatchFits
<1>2. /\ swapped \in MatchDocs
      /\ swapped.phase = phase /\ swapped.paused = pause
      /\ swapped.roundIds = doc.roundIds
  BY <1>1 DEF MatchDocs
<1> HIDE DEF swapped
<1>3. MatchFits(m, swapped, rs)
  BY <1>2 DEF MatchFits
<1> QED
  BY <1>3 DEF swapped

\* The swap writes phase and pause state together, on both documents.
LEMMA SwapPhaseFits ==
  ASSUME Fits, NEW s \in Slots, SwapPhase(s)
  PROVE  Fits'
<1> DEFINE o == op[s]
           place == IF o.kind = "rematch" THEN "reloadRoom" ELSE "touchRoom"
           swapped == [matches[o.mid] EXCEPT !.phase = o.next,
                                             !.paused = o.paused]
<1>1. o.pc = "swap"
  BY DEF SwapPhase, At
<1>2. /\ OpFits(o, matches, rounds) /\ o \in Ops /\ o.room # NoRoom
      /\ o.match # NoMatch /\ o.mid # 0 /\ o.mid \in MatchIds
      /\ matches[o.mid] # NoMatch
  BY <1>1, HeldFits DEF HoldsMatch, HoldsRoom
<1>3. /\ o.next \in Phases /\ o.paused \in PausedStates \cup {NoPause}
      /\ PauseFits(o.next, o.paused)
  BY <1>1, <1>2 DEF OpFits, PlaceFits, HoldsNext, Ops
<1>4. CASE PhasesAreAsRead(o)
  <2>1. /\ op' = [op EXCEPT ![s] = [o EXCEPT !.pc = place]]
        /\ room' = [room EXCEPT !.phase = o.next]
        /\ matches' = [matches EXCEPT ![o.mid].phase = o.next,
                                      ![o.mid].paused = o.paused]
        /\ UNCHANGED rounds
    BY <1>4 DEF SwapPhase, Becomes
  <2>2. MatchFits(o.mid, swapped, rounds)
    BY <1>2, <1>3, HolderMatch, SwappedFits
  <2>3. matches' = [matches EXCEPT ![o.mid] = swapped]
    <3>1. matches \in [MatchIds -> MatchDocs \cup {NoMatch}]
      BY DEF Fits, StoreFits, StoreTypes
    <3> QED
      BY <1>2, <2>1, <3>1, Zenon
  <2>4. room' \in RoomDocs /\ room'.currentMatchId = room.currentMatchId
    BY <1>3, <2>1 DEF Fits, StoreFits, RoomFits, RoomDocs
  <2> HIDE DEF swapped
  <2>5. /\ Grows(matches, rounds, matches', rounds')
        /\ StoreFits(room', matches', rounds')
    BY <1>2, <2>1, <2>2, <2>3, <2>4, WriteMatch
  <2>6. o.next # "none"
    BY <1>3 DEF Phases
  <2>7. place \in {"reloadRoom", "touchRoom"}
    OBVIOUS
  <2> HIDE DEF place
  <2>8. OpFits([o EXCEPT !.pc = place], matches, rounds)
    BY <1>2, <2>6, <2>7, MovedFits
  <2>9. OpFits([o EXCEPT !.pc = place], matches', rounds')
    BY <2>5, <2>8, GrowsKeepsOp
  <2> QED
    BY <2>1, <2>5, <2>9, StepFits
<1>5. CASE ~PhasesAreAsRead(o)
  <2>1. /\ op' = [op EXCEPT ![s] = Idle]
        /\ UNCHANGED <<room, matches, rounds>>
    BY <1>5 DEF SwapPhase, Becomes
  <2> QED
    BY <2>1, IdleFits, ReadFits
<1> QED
  BY <1>4, <1>5

\* applyTransition's touchRoom.
LEMMA TouchRoomFits ==
  ASSUME Fits, NEW s \in Slots, TouchRoom(s)
  PROVE  Fits'
<1> DEFINE o == op[s]
           place == IF ResumesRound(o) THEN "saveResumed" ELSE "after"
<1>1. o.pc = "touchRoom"
  BY DEF TouchRoom, At
<1>2. /\ OpFits(o, matches, rounds) /\ o \in Ops /\ o.room # NoRoom
      /\ RoomFits(o.room, matches) /\ o.match # NoMatch
  BY <1>1, HeldFits DEF HoldsMatch, HoldsRoom
<1>3. o.next \in Phases
  BY <1>1, <1>2 DEF OpFits, PlaceFits, HoldsNext, Ops
<1>4. place \in {"saveResumed", "after"} /\ (place = "saveResumed" => o.rid # 0)
  BY DEF ResumesRound
<1>5. /\ op' = [op EXCEPT ![s] = [o EXCEPT !.pc = place]]
      /\ room' = [o.room EXCEPT !.phase = o.next]
      /\ UNCHANGED <<matches, rounds>>
  BY DEF TouchRoom, Becomes
<1> HIDE DEF place
<1>6. OpFits([o EXCEPT !.pc = place], matches, rounds)
  BY <1>2, <1>4, MovedFits DEF HoldsNext
<1>7. RoomFits(room', matches)
  BY <1>2, <1>3, <1>5 DEF RoomFits, RoomDocs
<1>8. /\ Grows(matches, rounds, matches', rounds')
      /\ StoreFits(room', matches', rounds')
  BY <1>5, <1>7, WriteRoom
<1>9. OpFits([o EXCEPT !.pc = place], matches', rounds')
  BY <1>6, <1>8, GrowsKeepsOp
<1> QED
  BY <1>5, <1>8, <1>9, StepFits
\* rematch stores the next match.
LEMMA SaveNextFits ==
  ASSUME Fits, NEW s \in Slots, SaveNext(s)
  PROVE  Fits'
<1> DEFINE o == op[s]
           match == NewMatch(o.match.sequence + 1, "FINISHED")
<1>1. o.pc = "saveNext"
  BY DEF SaveNext, At
<1>2. PICK m \in MatchIds :
        /\ matches' = [matches EXCEPT ![m] = match]
        /\ op' = [op EXCEPT ![s] =
             [o EXCEPT !.mid = m, !.match = match, !.next = "LOBBY",
                       !.pc = "swap"]]
        /\ UNCHANGED <<room, rounds>>
  BY DEF SaveNext, Becomes
<1> DEFINE stored == [o EXCEPT !.mid = m, !.match = match, !.next = "LOBBY",
                               !.pc = "swap"]
<1>3. /\ OpFits(o, matches, rounds) /\ o \in Ops /\ o.room # NoRoom
      /\ o.match # NoMatch
  BY <1>1, HeldFits DEF HoldsMatch, HoldsRoom
<1>4. /\ o.rid = 0 /\ o.paused = NoPause
  BY <1>1, <1>3 DEF OpFits, PlaceFits, BeforeVerdict, PauseFits
<1>5. o.match.sequence + 1 \in Nat \ {0}
  BY <1>3 DEF OpFits, MatchFits, MatchDocs
<1>6. /\ MatchFits(m, match, rounds) /\ match # NoMatch
      /\ match \in MatchDocs
  BY <1>5, NewMatchFits DEF Phases
<1>7. /\ o \in Ops /\ m # 0
      /\ stored = [o EXCEPT !.mid = m, !.match = match, !.next = "LOBBY",
                             !.pc = "swap"]
  BY <1>3 DEF MatchIds
<1>8. op' = [op EXCEPT ![s] = stored]
  BY <1>2
<1> HIDE DEF match
<1>9. room' \in RoomDocs
  BY <1>2 DEF Fits, StoreFits, RoomFits
<1>10. /\ Grows(matches, rounds, matches', rounds')
       /\ StoreFits(room', matches', rounds')
  BY <1>2, <1>6, <1>9, WriteMatch
<1>11. matches'[m] # NoMatch
  BY <1>2, <1>6 DEF Fits, StoreFits, StoreTypes
<1>12. o.room = NoRoom \/ RoomFits(o.room, matches')
  BY <1>3, <1>10, GrowsKeepsRoom DEF OpFits
<1>13. "LOBBY" \in Phases
  BY DEF Phases
<1> HIDE DEF stored, o
<1>14. /\ stored \in Ops
       /\ stored.kind = o.kind /\ stored.pc = "swap"
       /\ stored.room = o.room /\ stored.mid = m /\ stored.match = match
       /\ stored.rid = o.rid /\ stored.rstat = o.rstat
       /\ stored.next = "LOBBY" /\ stored.paused = o.paused
  BY <1>6, <1>7, <1>13 DEF Ops
<1>15. PlaceFits(stored)
  BY <1>3, <1>6, <1>14 DEF PlaceFits, BeforeVerdict, OfStart
<1>16. OpFits(stored, matches', rounds')
  BY <1>2, <1>4, <1>6, <1>7, <1>11, <1>12, <1>14, <1>15
  DEF OpFits, PauseFits
<1> QED
  BY <1>8, <1>10, <1>16, StepFits

\* touchRoom of a rematch reads the room once more.
LEMMA ReloadRoomFits ==
  ASSUME Fits, NEW s \in Slots, ReloadRoom(s)
  PROVE  Fits'
<1> DEFINE o == op[s]
           reloaded == [o EXCEPT !.room = room, !.pc = "touchRematch"]
<1>1. o.pc = "reloadRoom"
  BY DEF ReloadRoom, At
<1>2. /\ OpFits(o, matches, rounds) /\ o.match # NoMatch
  BY <1>1, HeldFits DEF HoldsMatch, HoldsRoom
<1>3. RoomFits(room, matches) /\ room \in RoomDocs /\ room # NoRoom
  BY NullDocs DEF Fits, StoreFits, RoomFits
<1>4. /\ o \in Ops
      /\ reloaded = [o EXCEPT !.room = room, !.pc = "touchRematch"]
  BY <1>2 DEF OpFits
<1>5. /\ op' = [op EXCEPT ![s] = reloaded]
      /\ UNCHANGED <<room, matches, rounds>>
  BY DEF ReloadRoom, Becomes
<1> HIDE DEF reloaded, o
<1>6. /\ reloaded \in Ops
      /\ reloaded.kind = o.kind /\ reloaded.pc = "touchRematch"
      /\ reloaded.room = room /\ reloaded.mid = o.mid
      /\ reloaded.match = o.match /\ reloaded.rid = o.rid
      /\ reloaded.rstat = o.rstat /\ reloaded.next = o.next
      /\ reloaded.paused = o.paused
  BY <1>3, <1>4 DEF Ops
<1>7. PlaceFits(reloaded)
  BY <1>2, <1>3, <1>6 DEF PlaceFits, HoldsNext, BeforeVerdict, OfStart
<1>8. OpFits(reloaded, matches, rounds)
  BY <1>2, <1>3, <1>6, <1>7 DEF OpFits
<1> QED
  BY <1>5, <1>8, ReadFits

\* The room points to the match the rematch has stored.
LEMMA TouchRematchFits ==
  ASSUME Fits, NEW s \in Slots, TouchRematch(s)
  PROVE  Fits'
<1> DEFINE o == op[s]
<1>1. o.pc = "touchRematch"
  BY DEF TouchRematch, At
<1>2. /\ o \in Ops /\ RoomFits(o.room, matches)
      /\ matches[o.mid] # NoMatch
  BY <1>1, HeldFits DEF HoldsMatch, HoldsRoom
<1>3. /\ op' = [op EXCEPT ![s] = Idle]
      /\ room' = [o.room EXCEPT !.currentMatchId = o.mid]
      /\ UNCHANGED <<matches, rounds>>
  BY DEF TouchRematch, Becomes
<1>4. RoomFits(room', matches)
  BY <1>2, <1>3, PointsFits
<1>5. /\ Grows(matches, rounds, matches', rounds')
      /\ StoreFits(room', matches', rounds')
  BY <1>3, <1>4, WriteRoom
<1> QED
  BY <1>3, <1>5, IdleFits, StepFits

\* game:lock and game:update-config: a copy of the room, then its write.
LEMMA EditRoomFits ==
  ASSUME Fits, NEW s \in Slots, EditRoom(s)
  PROVE  Fits'
<1> DEFINE o == op[s]
<1>1. OpFits(o, matches, rounds) /\ o \in Ops /\ o.pc = "loadRoom"
  BY Holder DEF EditRoom, At
<1>2. o.rid = 0 /\ o.next = "none" /\ o.match = NoMatch
  BY <1>1 DEF OpFits, PlaceFits, BeforeVerdict
<1>3. RoomFits(room, matches)
  BY DEF Fits, StoreFits
<1>4. ASSUME NEW r, RoomFits(r, matches)
      PROVE  OpFits([o EXCEPT !.room = r, !.pc = "saveRoom"],
                    matches, rounds)
  <2> DEFINE edited == [o EXCEPT !.room = r, !.pc = "saveRoom"]
  <2>1. o \in Ops /\ r \in RoomDocs /\ r # NoRoom
    BY <1>1, <1>4, NullDocs DEF RoomFits
  <2>2. edited = [o EXCEPT !.room = r, !.pc = "saveRoom"]
    OBVIOUS
  <2> HIDE DEF edited, o
  <2>3. /\ edited \in Ops
        /\ edited.kind = o.kind /\ edited.pc = "saveRoom"
        /\ edited.room = r /\ edited.mid = o.mid
        /\ edited.match = o.match /\ edited.rid = o.rid
        /\ edited.rstat = o.rstat /\ edited.next = o.next
        /\ edited.paused = o.paused
    BY <2>1, <2>2 DEF Ops
  <2>4. PlaceFits(edited)
    BY <2>1, <2>3 DEF PlaceFits, HoldsMatch, HoldsNext, BeforeVerdict, OfStart
  <2>5. OpFits(edited, matches, rounds)
    BY <1>1, <1>2, <1>4, <2>3, <2>4 DEF OpFits
  <2> QED
    BY <2>2, <2>5
<1>5. \A locked \in BOOLEAN : RoomFits([room EXCEPT !.locked = locked], matches)
  BY <1>3 DEF RoomFits, RoomDocs
<1>6. \A config \in Configs : RoomFits([room EXCEPT !.config = config], matches)
  BY <1>3 DEF RoomFits, RoomDocs
<1>7. /\ \/ op' = [op EXCEPT ![s] = Idle]
         \/ \E locked \in BOOLEAN :
              op' = [op EXCEPT ![s] =
                [o EXCEPT !.room = [room EXCEPT !.locked = locked],
                          !.pc = "saveRoom"]]
         \/ \E config \in Configs :
              op' = [op EXCEPT ![s] =
                [o EXCEPT !.room = [room EXCEPT !.config = config],
                          !.pc = "saveRoom"]]
      /\ UNCHANGED <<room, matches, rounds>>
  BY DEF EditRoom, Becomes
<1>8. CASE op' = [op EXCEPT ![s] = Idle]
  BY <1>7, <1>8, IdleFits, ReadFits
<1>9. ASSUME NEW r, RoomFits(r, matches),
             op' = [op EXCEPT ![s] = [o EXCEPT !.room = r, !.pc = "saveRoom"]]
      PROVE  Fits'
  BY <1>4, <1>7, <1>9, ReadFits
<1> QED
  BY <1>5, <1>6, <1>7, <1>8, <1>9

\* The edited room is written back whole.
LEMMA SaveRoomFits ==
  ASSUME Fits, NEW s \in Slots, SaveRoom(s)
  PROVE  Fits'
<1> DEFINE o == op[s]
<1>1. o.pc = "saveRoom" /\ OpFits(o, matches, rounds)
  BY Holder DEF SaveRoom, At
<1>2. RoomFits(o.room, matches)
  BY <1>1 DEF OpFits, PlaceFits, HoldsRoom
<1>3. /\ op' = [op EXCEPT ![s] = Idle] /\ room' = o.room
      /\ UNCHANGED <<matches, rounds>>
  BY DEF SaveRoom, Becomes
<1>4. /\ Grows(matches, rounds, matches', rounds')
      /\ StoreFits(room', matches', rounds')
  BY <1>2, <1>3, WriteRoom
<1> QED
  BY <1>3, <1>4, IdleFits, StepFits

\* The pump: nothing more, or a new handler.
LEMMA AfterFits ==
  ASSUME Fits, NEW s \in Slots, After(s)
  PROVE  Fits'
<1>1. /\ op' = [op EXCEPT ![s] = ContinuesAs(op[s])]
      /\ UNCHANGED <<room, matches, rounds>>
  BY DEF After, Becomes
<1>2. ContinuesAs(op[s]) \in {Idle, Begin("startRound"), Begin("finish")}
  BY Zenon DEF ContinuesAs
<1>3. OpFits(ContinuesAs(op[s]), matches, rounds)
  BY <1>2, IdleFits, BeginFits DEF HostKinds, TimerKinds
<1> QED
  BY <1>1, <1>3, ReadFits
-----------------------------------------------------------------------------
(* The whole specification.                                                *)

\* The variables outside the store and the handlers.
Control ==
  /\ timer \in TimerKinds \cup {"none"}
  /\ server \in {"up", "down", "recovering"} /\ unbuilt \in BOOLEAN
  /\ hostEvents \in 0..MaxHostEvents
  /\ crashes \in 0..MaxCrashes
  /\ faults \in 0..MaxFaults

IInv == Fits /\ Control

\* An empty room and an empty store fit.
LEMMA InitFits == Init => IInv
<1> SUFFICES ASSUME Init PROVE IInv
  OBVIOUS
<1>1. /\ room \in RoomDocs /\ room.currentMatchId = 0
  BY DEF Init, RoomDocs, Phases
<1>2. StoreFits(room, matches, rounds)
  BY <1>1 DEF Init, StoreFits, StoreTypes, RoomFits
<1>3. Idle \in Ops
  BY IdleFits DEF OpFits
<1>4. op \in [Slots -> Ops] /\ \A s \in Slots : op[s] = Idle
  BY <1>3 DEF Init
<1>5. Fits
  BY <1>2, <1>4, IdleFits DEF Fits
<1>6. Control
  <2>1. unbuilt \in BOOLEAN
    BY Zenon DEF Init
  <2> QED
    BY <2>1, BoundsAssumption DEF Init, Control
<1> QED
  BY <1>5, <1>6 DEF IInv

\* Whatever one handler does next keeps the invariant.
LEMMA HandlerStepFits ==
  ASSUME IInv, NEW s \in Slots, Step(s)
  PROVE  IInv'
<1>1. Fits
  BY DEF IInv
<1>2. Fits'
  BY <1>1, LoadRoomFits, LoadMatchFits, RefuseRoundFits, ListPlayersFits,
     LoadRoundFits, GateRevealFits, CreateMatchFits, TouchStartFits, SaveRoundFits,
     SaveEndedFits, SaveMatchFits, SwapPhaseFits, TouchRoomFits,
     SaveResumedFits, SaveNextFits, ReloadRoomFits, TouchRematchFits,
     EditRoomFits, SaveRoomFits, AfterFits DEF Step
<1>3. UNCHANGED <<server, hostEvents, crashes, faults>>
  BY DEF Step, LoadRoom, LoadMatch, RefuseRound, ListPlayers, LoadRound, GateReveal,
         CreateMatch, TouchStart, SaveRound, SaveEnded, SaveMatch, SwapPhase,
         TouchRoom, SaveResumed, SaveNext, ReloadRoom, TouchRematch,
         EditRoom, SaveRoom, After, Becomes
<1>4. \A o : timer \in TimerKinds \cup {"none"}
              => TimerAfter(o) \in TimerKinds \cup {"none"}
  BY Zenon DEF TimerAfter, TimerKinds
<1>5. timer' = timer \/ timer' = TimerAfter(op[s])
  BY DEF Step, LoadRoom, LoadMatch, RefuseRound, ListPlayers, LoadRound, GateReveal,
         CreateMatch, TouchStart, SaveRound, SaveEnded, SaveMatch, SwapPhase,
         TouchRoom, SaveResumed, SaveNext, ReloadRoom, TouchRematch,
         EditRoom, SaveRoom, After
<1>6. timer' \in TimerKinds \cup {"none"}
  BY <1>4, <1>5 DEF IInv, Control
<1>7. unbuilt' \in {unbuilt, TRUE, FALSE}
  BY DEF Step, LoadRoom, LoadMatch, RefuseRound, ListPlayers, LoadRound, GateReveal,
         CreateMatch, TouchStart, SaveRound, SaveEnded, SaveMatch, SwapPhase,
         TouchRoom, SaveResumed, SaveNext, ReloadRoom, TouchRematch,
         EditRoom, SaveRoom, After
<1>8. unbuilt' \in BOOLEAN
  BY <1>7 DEF IInv, Control
<1> QED
  BY <1>2, <1>3, <1>6, <1>8 DEF IInv, Control

\* The invariant is inductive.
LEMMA NextFits ==
  ASSUME IInv, [Next]_vars
  PROVE  IInv'
<1> USE DEF IInv
<1>1. ASSUME NEW s \in Slots, NEW kind \in HostKinds, BeginHostEvent(s, kind)
      PROVE  IInv'
  <2>1. /\ op' = [op EXCEPT ![s] = Begin(kind)]
        /\ UNCHANGED <<room, matches, rounds>>
    BY <1>1 DEF BeginHostEvent
  <2>2. OpFits(Begin(kind), matches, rounds)
    BY BeginFits
  <2>3. Fits'
    BY <2>1, <2>2, ReadFits
  <2>4. Control'
    BY <1>1, BoundsAssumption DEF BeginHostEvent, Control
  <2> QED
    BY <2>3, <2>4
<1>2. ASSUME NEW s \in Slots, FireTimer(s)
      PROVE  IInv'
  <2>1. /\ op' = [op EXCEPT ![s] = Begin(timer)]
        /\ UNCHANGED <<room, matches, rounds>>
    BY <1>2 DEF FireTimer
  <2>2. timer \in TimerKinds
    BY <1>2 DEF FireTimer, Control
  <2>3. OpFits(Begin(timer), matches, rounds)
    BY <2>2, BeginFits
  <2>4. Fits'
    BY <2>1, <2>3, ReadFits
  <2>5. Control'
    BY <1>2 DEF FireTimer, Control
  <2> QED
    BY <2>4, <2>5
<1>3. ASSUME NEW s \in Slots, Step(s)
      PROVE  IInv'
  BY <1>3, HandlerStepFits
<1>4. ASSUME NEW s \in Slots, Fault(s)
      PROVE  IInv'
  <2>1. Fits'
    BY <1>4, IdleFits, ReadFits DEF Fault
  <2>2. Control'
    BY <1>4, BoundsAssumption DEF Fault, Control
  <2> QED
    BY <2>1, <2>2
<1>5. ASSUME NEW s \in Slots, Restart(s)
      PROVE  IInv'
  <2>1. /\ op' = [op EXCEPT ![s] = Begin("recover")]
        /\ UNCHANGED <<room, matches, rounds>>
    BY <1>5 DEF Restart
  <2>2. OpFits(Begin("recover"), matches, rounds)
    BY BeginFits
  <2>3. Fits'
    BY <2>1, <2>2, ReadFits
  <2>4. Control'
    BY <1>5 DEF Restart, Control
  <2> QED
    BY <2>3, <2>4
<1>6. CASE Crash
  <2>1. Idle \in Ops
    BY IdleFits DEF OpFits
  <2>2. op' \in [Slots -> Ops] /\ \A s \in Slots : op'[s] = Idle
    BY <1>6, <2>1 DEF Crash
  <2>3. StoreFits(room', matches', rounds')
    BY <1>6 DEF Crash, Fits
  <2>4. Fits'
    BY <2>2, <2>3, IdleFits DEF Fits
  <2>5. Control'
    BY <1>6, BoundsAssumption DEF Crash, Control
  <2> QED
    BY <2>4, <2>5
<1>7. CASE AcceptSockets
  <2>1. Fits'
    BY <1>7 DEF AcceptSockets, Fits
  <2>2. Control'
    BY <1>7 DEF AcceptSockets, Control
  <2> QED
    BY <2>1, <2>2
<1>8. CASE UNCHANGED vars
  BY <1>8 DEF vars, Fits, Control
<1> QED
  BY <1>1, <1>2, <1>3, <1>4, <1>5, <1>6, <1>7, <1>8 DEF Next

\* Every reachable state satisfies the inductive invariant.
THEOREM Invariance == Spec => []IInv
<1>1. Init => IInv
  BY InitFits
<1>2. IInv /\ [Next]_vars => IInv'
  BY NextFits
<1> QED
  BY <1>1, <1>2, PTL DEF Spec

-----------------------------------------------------------------------------
(* The properties.                                                         *)

\* Every document, stored or held by a handler, keeps its shape.
THEOREM TypeCorrect == Spec => []TypeOK
<1>1. IInv => TypeOK
  BY DEF IInv, Fits, Control, StoreFits, StoreTypes, RoomFits, TypeOK
<1> QED
  BY <1>1, Invariance, PTL

\* However handlers overlap, and whatever stale copy is written back, a match
\* has a pause state exactly while it is paused.
THEOREM PauseStateCorrect == Spec => []PausedStateMatchesPhase
<1>1. IInv => PausedStateMatchesPhase
  <2> SUFFICES ASSUME IInv, NEW m \in MatchIds
               PROVE  matches[m].phase = "PAUSED" <=> matches[m].paused # NoPause
    BY DEF PausedStateMatchesPhase
  <2>1. matches[m] = NoMatch \/ MatchFits(m, matches[m], rounds)
    BY DEF IInv, Fits, StoreFits
  <2> QED
    BY <2>1 DEF MatchFits, PauseFits, NoMatch
<1> QED
  BY <1>1, Invariance, PTL

\* However handlers overlap, fail or crash half-way, no stored document
\* points to one that is not stored, nor a match to another match's round.
THEOREM NoDanglingReference == Spec => []ReferencesStored
<1>1. IInv => ReferencesStored
  <2> SUFFICES ASSUME IInv
               PROVE  ReferencesStored
    OBVIOUS
  <2>1. room.currentMatchId # 0 => matches[room.currentMatchId] # NoMatch
    BY DEF IInv, Fits, StoreFits, RoomFits
  <2>2. ASSUME NEW m \in MatchIds, NEW i \in 1..Len(matches[m].roundIds)
        PROVE  rounds[matches[m].roundIds[i]].match = m
    <3>1. CASE matches[m] = NoMatch
      BY <3>1 DEF NoMatch
    <3>2. CASE MatchFits(m, matches[m], rounds)
      BY <3>2 DEF MatchFits
    <3> QED
      BY <3>1, <3>2 DEF IInv, Fits, StoreFits
  <2> QED
    BY <2>1, <2>2 DEF ReferencesStored
<1> QED
  BY <1>1, Invariance, PTL
=============================================================================
