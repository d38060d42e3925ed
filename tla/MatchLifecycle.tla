--------------------------- MODULE MatchLifecycle ---------------------------
(***************************************************************************)
(* One room of the game server: the Room, Match and Round documents in the *)
(* store, the room's single phase timer, and the handlers that move the    *)
(* match (server/composition/match/*.mjs, called from                      *)
(* server/transport/socket/clientevents.mjs and fasepomp.mjs, and from the *)
(* recovery at start-up).                                                  *)
(*                                                                         *)
(* A handler is an operation held in a slot of op.  Every action is one    *)
(* call on the store together with the local computation up to the next    *)
(* await, so operations of several slots interleave exactly where the      *)
(* handlers can.  What an operation read stays in its record: its copies   *)
(* of the documents may be stale by the time it writes them back.          *)
(*                                                                         *)
(* Interleaved = FALSE restricts the behaviours to those in which no       *)
(* handler begins while another is running (what the in-memory store       *)
(* gives, and what any store gives to a room with one slow host).          *)
(***************************************************************************)
EXTENDS MatchStateMachine, Sequences, FiniteSets

CONSTANTS
  Slots,          \* handlers that may run at the same time
  MaxMatches,     \* bound: match documents a room can hold
  MaxRounds,      \* bound: round documents a room can hold
  TotalRounds,    \* config.totalRounds
  Configs,        \* the configurations the host may choose
  Interleaved,    \* may a handler begin while another runs
  MaxHostEvents,  \* bound: host events of a behaviour
  MaxCrashes,     \* bound: crashes of the server process
  MaxFaults       \* bound: store calls that throw

Frequencies == {"every_round", "periodic", "off"}

ConfigRecords ==
  [pacing : Pacings, frequency : Frequencies, autoReveal : BOOLEAN]

ASSUME SlotsAssumption == IsFiniteSet(Slots) /\ Slots # {}
ASSUME BoundsAssumption ==
  /\ MaxMatches \in Nat /\ MaxRounds \in Nat
  /\ MaxHostEvents \in Nat /\ MaxCrashes \in Nat /\ MaxFaults \in Nat
ASSUME ConfigAssumption ==
  /\ TotalRounds \in Nat \ {0}
  /\ Configs \subseteq ConfigRecords
  /\ Interleaved \in BOOLEAN

MatchIds == 1..MaxMatches
RoundIds == 1..MaxRounds

RoomDocs ==
  [phase : Phases, currentMatchId : MatchIds \cup {0}, locked : BOOLEAN,
   config : Configs]

MatchDocs ==
  [sequence : Nat \ {0}, phase : Phases, paused : PausedStates \cup {NoPause},
   roundIndex : Nat, roundIds : Seq(RoundIds), finished : BOOLEAN]

RoundDocs == [match : MatchIds, status : {"ACTIVE", "ENDED"}]

\* Documents that are not in the store (null).
NoConfig == [pacing |-> "none", frequency |-> "none", autoReveal |-> FALSE]
NoRoom == [phase |-> "none", currentMatchId |-> 0, locked |-> FALSE,
           config |-> NoConfig]
NoMatch == [sequence |-> 0, phase |-> "none", paused |-> NoPause,
            roundIndex |-> 0, roundIds |-> <<>>, finished |-> FALSE]
NoRound == [match |-> 0, status |-> "none"]

VARIABLES
  room,       \* the stored Room document
  matches,    \* the stored Match documents, by id
  rounds,     \* the stored Round documents, by id
  timer,      \* what the room's one runtime timer will run, or "none"
  op,         \* the handlers that are running, by slot
  server,     \* "up", "down", or "recovering"
  unbuilt,    \* history: the content refused the round the match waits for
  hostEvents, crashes, faults   \* how often each has happened

vars == <<room, matches, rounds, timer, op, server, unbuilt, hostEvents,
          crashes, faults>>

HostKinds == {"start", "pause", "resume", "next", "reveal", "lock", "config",
              "finish", "rematch"}
TimerKinds == {"startRound", "endRound", "advance"}

\* A handler: what it does, where it waits, and the copies it holds.  mid
\* and rid are the ids of the match and round it works on (0 is null), rstat
\* the status of the round it read, next and paused the outcome the reducer
\* gave it.
Idle == [kind |-> "none", pc |-> "idle", room |-> NoRoom, mid |-> 0,
         match |-> NoMatch, rid |-> 0, rstat |-> "none", next |-> "none",
         paused |-> NoPause]

Begin(kind) == [Idle EXCEPT !.kind = kind, !.pc = "loadRoom"]

-----------------------------------------------------------------------------
(* fases.mjs: which phase comes next.                                      *)

ShowsScoreboard(config, roundNumber) ==
  \/ config.frequency = "every_round"
  \/ /\ config.frequency = "periodic"
     /\ roundNumber % 3 = 0 \/ roundNumber >= TotalRounds

ResolveNextPhase(config, match) ==
  LET roundNumber == match.roundIndex + 1
      afterRound == IF roundNumber >= TotalRounds THEN "FINISHED"
                                                  ELSE "COUNTDOWN"
  IN CASE match.phase = "LOBBY" -> "COUNTDOWN"
       [] match.phase = "COUNTDOWN" -> "ROUND_ACTIVE"
       [] match.phase = "ROUND_ACTIVE" -> "ROUND_RESULT"
       [] match.phase = "ROUND_RESULT" ->
            IF config.pacing = "host" \/ ShowsScoreboard(config, roundNumber)
            THEN "SCOREBOARD" ELSE afterRound
       [] match.phase = "SCOREBOARD" -> afterRound
       [] match.phase = "PAUSED" /\ match.paused # NoPause ->
            IF match.paused.reason = "server_recovery"
            THEN "COUNTDOWN" ELSE match.paused.previousPhase
       [] OTHER -> "none"

\* The event a handler hands to the reducer.  A pause by the host carries no
\* remainingMs: only that of a running round can be derived.
EventOf(o) ==
  LET resolved == ResolveNextPhase(o.room.config, o.match)
  IN CASE o.kind = "start" -> EventTo("HOST_START", "COUNTDOWN")
       [] o.kind = "pause" ->
            PauseEvent("host", o.match.phase = "ROUND_ACTIVE"
                               /\ o.rstat # "none")
       [] o.kind = "recover" -> PauseEvent("server_recovery", TRUE)
       [] o.kind = "resume" -> EventTo("HOST_RESUME", resolved)
       [] o.kind = "next" -> EventTo("HOST_NEXT", resolved)
       [] o.kind = "advance" -> EventTo("TIMER_ELAPSED", resolved)
       [] o.kind = "startRound" -> EventTo("TIMER_ELAPSED", "ROUND_ACTIVE")
       [] o.kind = "endRound" -> EventTo("TIMER_ELAPSED", "ROUND_RESULT")
       [] OTHER -> EventTo("HOST_FINISH", "none")

Outcome(o) == Transition(o.match.phase, EventOf(o), o.room.config.pacing)

-----------------------------------------------------------------------------
(* gedeeld.mjs: applyTransition, the one road to another phase.            *)

\* Mutant: resuming counts as entering the next round.
EntersNextRoundOnResume(o) ==
  /\ o.match.phase \in {"ROUND_RESULT", "SCOREBOARD", "PAUSED"}
  /\ o.next \in {"COUNTDOWN", "ROUND_ACTIVE"}

EntersNextRound(o) ==
  /\ o.match.phase \in {"ROUND_RESULT", "SCOREBOARD"}
  /\ o.next \in {"COUNTDOWN", "ROUND_ACTIVE"}

\* transitionPatch and extraPatch on the copy the handler read: phase and
\* pausedState stay as they were read.
Patched(o) ==
  [o.match EXCEPT
     !.roundIndex = IF EntersNextRound(o) THEN @ + 1 ELSE @,
     !.finished = @ \/ o.next = "FINISHED",
     !.roundIds = IF o.kind = "startRound" THEN Append(@, o.rid) ELSE @]

\* applyTransition up to its first store call: rejected by the reducer, or on
\* to the bookkeeping when there is any, else straight to the swap.
Decided(o) ==
  LET result == Outcome(o)
      accepted == [o EXCEPT !.next = result.phase, !.paused = result.paused]
  IN  IF ~result.ok THEN Idle
      ELSE [accepted EXCEPT
              !.pc = IF Patched(accepted) = o.match THEN "swap"
                                                    ELSE "saveMatch"]

-----------------------------------------------------------------------------
(* How a handler begins and ends.                                          *)

Init ==
  /\ room \in [phase : {"LOBBY"}, currentMatchId : {0}, locked : {FALSE},
               config : Configs]
  /\ matches = [m \in MatchIds |-> NoMatch]
  /\ rounds = [r \in RoundIds |-> NoRound]
  /\ timer = "none"
  /\ op = [s \in Slots |-> Idle]
  /\ server = "up" /\ unbuilt = FALSE
  /\ hostEvents = 0 /\ crashes = 0 /\ faults = 0

Quiet == \A s \in Slots : op[s].pc = "idle"

MayBegin(s) == op[s].pc = "idle" /\ (Interleaved \/ Quiet)

\* A host event arrives.  game:finish stops the timer before anything else.
BeginHostEvent(s, kind) ==
  /\ server = "up" /\ MayBegin(s) /\ hostEvents < MaxHostEvents
  /\ hostEvents' = hostEvents + 1
  /\ op' = [op EXCEPT ![s] = Begin(kind)]
  /\ timer' = IF kind = "finish" THEN "none" ELSE timer
  /\ UNCHANGED <<room, matches, rounds, server, unbuilt, crashes, faults>>

\* scheduleAt's callback: the runtime forgets the timer, then runs.
FireTimer(s) ==
  /\ server = "up" /\ MayBegin(s) /\ timer # "none"
  /\ op' = [op EXCEPT ![s] = Begin(timer)]
  /\ timer' = "none"
  /\ UNCHANGED <<room, matches, rounds, server, unbuilt, hostEvents, crashes,
                 faults>>

\* A step of the handler in slot s: it becomes o, the store is what the
\* action says, and nothing else moves.
Becomes(s, o) ==
  /\ op' = [op EXCEPT ![s] = o]
  /\ UNCHANGED <<server, hostEvents, crashes, faults>>

At(s, pc) == op[s].pc = pc

-----------------------------------------------------------------------------
(* Reading the documents.                                                  *)

MatchKinds == {"start", "pause", "resume", "next", "reveal", "finish",
               "rematch", "startRound", "endRound", "advance", "recover"}

LoadRoom(s) ==
  /\ At(s, "loadRoom") /\ op[s].kind \in MatchKinds
  /\ Becomes(s,
       IF \/ room.currentMatchId = 0 /\ op[s].kind # "start"
          \/ op[s].kind = "reveal" /\ room.config.autoReveal
       THEN Idle
       ELSE [op[s] EXCEPT !.room = room, !.mid = room.currentMatchId,
               !.pc = IF room.currentMatchId = 0 THEN "listPlayers"
                                                 ELSE "loadMatch"])
  /\ UNCHANGED <<room, matches, rounds, timer, unbuilt>>

RecoverablePhases == {"COUNTDOWN", "ROUND_ACTIVE", "ROUND_RESULT",
                      "SCOREBOARD"}

ReadsRound(o) ==
  /\ o.kind \in {"pause", "resume", "next", "advance", "reveal", "endRound"}
  /\ o.match.roundIds # <<>>

\* The handlers that stop at the match they have just read.
RefusesMatch(o) ==
  \/ o.kind = "start" /\ (o.match.phase # "LOBBY" \/ o.room.phase # "LOBBY")
  \/ o.kind = "reveal" /\ (o.match.phase # "ROUND_ACTIVE" \/ ~ReadsRound(o))
  \/ o.kind = "endRound" /\ ~ReadsRound(o)
  \/ o.kind = "startRound" /\ ~Outcome(o).ok
  \/ o.kind = "finish" /\ o.match.phase = "FINISHED"
  \/ o.kind = "rematch" /\ o.match.phase # "FINISHED"
  \/ o.kind = "recover" /\ o.match.phase \notin RecoverablePhases

PlaceAfterMatch(kind) ==
  CASE kind = "start" -> "listPlayers"
    [] kind = "startRound" -> "saveRound"
    [] kind = "rematch" -> "saveNext"
    [] OTHER -> "loadRound"

WithMatch(o) ==
  IF RefusesMatch(o) THEN Idle
  ELSE IF ReadsRound(o) \/ o.kind \in {"start", "startRound", "rematch"}
       THEN [o EXCEPT !.pc = PlaceAfterMatch(o.kind)]
       ELSE Decided(o)

LoadMatch(s) ==
  /\ At(s, "loadMatch")
  /\ Becomes(s, WithMatch([op[s] EXCEPT !.match = matches[op[s].mid]]))
  /\ UNCHANGED <<room, matches, rounds, timer, unbuilt>>

\* startRound asks the content for a question before it stores the round.
\* When none can be built, runStartRound only logs the refusal.
RefuseRound(s) ==
  /\ At(s, "loadMatch") /\ op[s].kind = "startRound"
  /\ ~RefusesMatch([op[s] EXCEPT !.match = matches[op[s].mid]])
  /\ unbuilt' = TRUE
  /\ Becomes(s, Idle)
  /\ UNCHANGED <<room, matches, rounds, timer>>

\* startMatch refuses a room without active players.
ListPlayers(s) ==
  /\ At(s, "listPlayers")
  /\ \E present \in BOOLEAN :
       Becomes(s,
         IF ~present THEN Idle
         ELSE [op[s] EXCEPT !.pc = IF op[s].match = NoMatch
                                   THEN "createMatch" ELSE "touchStart"])
  /\ UNCHANGED <<room, matches, rounds, timer, unbuilt>>

\* Mutant: the first round of the match instead of its last.
FirstRoundId(match) == match.roundIds[1]

CurrentRoundId(match) == match.roundIds[Len(match.roundIds)]

\* Reading the current round.  endRound ends here when the reducer refuses.
LoadRound(s) ==
  /\ At(s, "loadRound") /\ op[s].kind # "reveal"
  /\ LET rid == CurrentRoundId(op[s].match)
         o == [op[s] EXCEPT !.rid = rid, !.rstat = rounds[rid].status]
     IN  Becomes(s,
           IF o.kind # "endRound" THEN Decided(o)
           ELSE IF o.rstat # "none" /\ Outcome(o).ok
                THEN [o EXCEPT !.pc = "saveEnded"] ELSE Idle)
  /\ UNCHANGED <<room, matches, rounds, timer, unbuilt>>

\* game:reveal: the deadline may or may not have passed; if it has, the
\* handler runs endRound, which reads everything again.
GateReveal(s) ==
  /\ At(s, "loadRound") /\ op[s].kind = "reveal"
  /\ \E passed \in BOOLEAN :
       Becomes(s,
         IF passed /\ rounds[CurrentRoundId(op[s].match)] # NoRound
         THEN Begin("endRound") ELSE Idle)
  /\ UNCHANGED <<room, matches, rounds, timer, unbuilt>>

-----------------------------------------------------------------------------
(* Writing the documents.                                                  *)

FreshMatchId(m) ==
  /\ matches[m] = NoMatch
  /\ \A k \in MatchIds : k < m => matches[k] # NoMatch

FreshRoundId(r) ==
  /\ rounds[r] = NoRound
  /\ \A k \in RoundIds : k < r => rounds[k] # NoRound

NewMatch(sequence, phase) ==
  [sequence |-> sequence, phase |-> phase, paused |-> NoPause,
   roundIndex |-> 0, roundIds |-> <<>>, finished |-> FALSE]

\* Mutant: startMatch leaves saving the new match to applyTransition, which
\* has no bookkeeping to save.
CreateMatchUnsaved(s) ==
  /\ At(s, "createMatch")
  /\ \E m \in MatchIds :
       /\ FreshMatchId(m)
       /\ Becomes(s, [op[s] EXCEPT !.mid = m, !.pc = "touchStart",
                                   !.match = NewMatch(1, "LOBBY")])
  /\ UNCHANGED <<room, matches, rounds, timer, unbuilt>>

\* startMatch without a match: the first match of the room.
CreateMatch(s) ==
  /\ At(s, "createMatch")
  /\ \E m \in MatchIds :
       /\ FreshMatchId(m)
       /\ matches' = [matches EXCEPT ![m] = NewMatch(1, "LOBBY")]
       /\ Becomes(s, [op[s] EXCEPT !.mid = m, !.pc = "touchStart",
                                   !.match = NewMatch(1, "LOBBY")])
  /\ UNCHANGED <<room, rounds, timer, unbuilt>>

\* startMatch's touchRoom, and the reducer's verdict on HOST_START.
TouchStart(s) ==
  /\ At(s, "touchStart")
  /\ room' = [op[s].room EXCEPT !.currentMatchId = op[s].mid]
  /\ Becomes(s, Decided([op[s] EXCEPT !.room = room']))
  /\ UNCHANGED <<matches, rounds, timer, unbuilt>>

\* startRound stores a fresh round before it asks for the transition.
SaveRound(s) ==
  /\ At(s, "saveRound")
  /\ \E r \in RoundIds :
       /\ FreshRoundId(r)
       /\ rounds' = [rounds EXCEPT
                       ![r] = [match |-> op[s].mid, status |-> "ACTIVE"]]
       /\ Becomes(s, Decided([op[s] EXCEPT !.rid = r, !.rstat = "ACTIVE"]))
  /\ UNCHANGED <<room, matches, timer, unbuilt>>

\* endRound marks the copy it read as ended, before the transition.
SaveEnded(s) ==
  /\ At(s, "saveEnded")
  /\ rounds' = [rounds EXCEPT
                  ![op[s].rid] = [match |-> op[s].mid, status |-> "ENDED"]]
  /\ Becomes(s, Decided(op[s]))
  /\ UNCHANGED <<room, matches, timer, unbuilt>>

\* The bookkeeping: the whole document, with the phase as it was read.
SaveMatch(s) ==
  /\ At(s, "saveMatch")
  /\ matches' = [matches EXCEPT ![op[s].mid] = Patched(op[s])]
  /\ Becomes(s, [op[s] EXCEPT !.pc = "swap"])
  /\ UNCHANGED <<room, rounds, timer, unbuilt>>

PhasesAreAsRead(o) ==
  room.phase = o.match.phase /\ matches[o.mid].phase = o.match.phase

\* setRoomAndMatchPhaseAtomically: a compare-and-set on both documents.
SwapPhase(s) ==
  /\ At(s, "swap")
  /\ \/ /\ PhasesAreAsRead(op[s])
        /\ room' = [room EXCEPT !.phase = op[s].next]
        /\ matches' = [matches EXCEPT ![op[s].mid].phase = op[s].next,
                                     ![op[s].mid].paused = op[s].paused]
        /\ unbuilt' = FALSE
        /\ Becomes(s, [op[s] EXCEPT
             !.pc = IF op[s].kind = "rematch" THEN "reloadRoom"
                                              ELSE "touchRoom"])
     \/ /\ ~PhasesAreAsRead(op[s])
        /\ Becomes(s, Idle)
        /\ UNCHANGED <<room, matches, unbuilt>>
  /\ UNCHANGED <<rounds, timer>>

\* Mutant: the pump does not know the resumed round.
ResumesNothing(o) == FALSE

\* Resuming a round moves its deadline, if there was a round to read.
ResumesRound(o) == o.kind = "resume" /\ o.next = "ROUND_ACTIVE" /\ o.rid # 0

\* Mutant: touchRoom without the new phase in extraFields.
TouchRoomStale(s) ==
  /\ At(s, "touchRoom")
  /\ room' = op[s].room
  /\ Becomes(s, [op[s] EXCEPT !.pc = IF ResumesRound(op[s])
                                     THEN "saveResumed" ELSE "after"])
  /\ UNCHANGED <<matches, rounds, timer, unbuilt>>

\* applyTransition's touchRoom: the room as it was read, with the new phase.
TouchRoom(s) ==
  /\ At(s, "touchRoom")
  /\ room' = [op[s].room EXCEPT !.phase = op[s].next]
  /\ Becomes(s, [op[s] EXCEPT !.pc = IF ResumesRound(op[s])
                                     THEN "saveResumed" ELSE "after"])
  /\ UNCHANGED <<matches, rounds, timer, unbuilt>>

SaveResumed(s) ==
  /\ At(s, "saveResumed")
  /\ rounds' = [rounds EXCEPT
                  ![op[s].rid] = [match |-> op[s].mid,
                                  status |-> op[s].rstat]]
  /\ Becomes(s, [op[s] EXCEPT !.pc = "after"])
  /\ UNCHANGED <<room, matches, timer, unbuilt>>

\* rematch: the next match is stored in the phase the room carries, the swap
\* makes it LOBBY, and only then does the room point to it.
SaveNext(s) ==
  /\ At(s, "saveNext")
  /\ \E m \in MatchIds :
       LET next == NewMatch(op[s].match.sequence + 1, "FINISHED")
       IN  /\ FreshMatchId(m)
           /\ matches' = [matches EXCEPT ![m] = next]
           /\ Becomes(s, [op[s] EXCEPT !.mid = m, !.match = next,
                                       !.next = "LOBBY", !.pc = "swap"])
  /\ UNCHANGED <<room, rounds, timer, unbuilt>>

ReloadRoom(s) ==
  /\ At(s, "reloadRoom")
  /\ Becomes(s, [op[s] EXCEPT !.room = room, !.pc = "touchRematch"])
  /\ UNCHANGED <<room, matches, rounds, timer, unbuilt>>

TouchRematch(s) ==
  /\ At(s, "touchRematch")
  /\ room' = [op[s].room EXCEPT !.currentMatchId = op[s].mid]
  /\ Becomes(s, Idle)
  /\ UNCHANGED <<matches, rounds, timer, unbuilt>>

\* game:lock and game:update-config write back the room they read.
\* joinRoom, kickPlayer, leaveRoom, renamePlayer and recolorPlayer end in the
\* same touchRoom with nothing changed: locked = room.locked.
EditRoom(s) ==
  /\ At(s, "loadRoom") /\ op[s].kind \in {"lock", "config"}
  /\ \/ /\ op[s].kind = "lock"
        /\ \E locked \in BOOLEAN :
             Becomes(s, [op[s] EXCEPT !.room = [room EXCEPT !.locked = locked],
                                      !.pc = "saveRoom"])
     \/ /\ op[s].kind = "config" /\ room.phase = "LOBBY"
        /\ \E config \in Configs :
             Becomes(s, [op[s] EXCEPT !.room = [room EXCEPT !.config = config],
                                      !.pc = "saveRoom"])
     \/ /\ op[s].kind = "config" /\ room.phase # "LOBBY"
        /\ Becomes(s, Idle)
  /\ UNCHANGED <<room, matches, rounds, timer, unbuilt>>

SaveRoom(s) ==
  /\ At(s, "saveRoom")
  /\ room' = op[s].room
  /\ Becomes(s, Idle)
  /\ UNCHANGED <<matches, rounds, timer, unbuilt>>

-----------------------------------------------------------------------------
(* The phase pump (fasepomp.mjs): what happens once a transition is done.  *)

\* isBeforeFirstRound: read from the store, not from the handler's copies.
BeforeFirstRound ==
  room.currentMatchId = 0 \/ matches[room.currentMatchId].roundIds = <<>>

\* The timer after the handler o, given the timer before it.
TimerAfter(o) ==
  CASE o.kind = "start" -> "startRound"
    [] o.kind = "pause" -> "none"
    [] o.kind = "startRound" ->
         IF room.config.autoReveal THEN "endRound" ELSE timer
    [] o.kind \in {"finish", "recover"} -> timer
    [] OTHER ->
         CASE o.next = "COUNTDOWN" ->
                IF BeforeFirstRound \/ o.kind = "resume" THEN "startRound" ELSE timer
           [] o.next = "ROUND_ACTIVE" ->
                IF ResumesRound(o) THEN "endRound" ELSE timer
           [] o.next = "ROUND_RESULT" -> "advance"
           [] o.next = "SCOREBOARD" ->
                IF o.room.config.pacing = "auto" THEN "advance" ELSE timer
           [] o.next = "FINISHED" -> "none"
           [] OTHER -> timer

\* Mutant: the countdown between rounds is entered and left to itself.
ContinuesOnlyToFinish(o) ==
  IF /\ o.kind \in {"resume", "next", "advance", "endRound"}
     /\ o.next = "FINISHED"
  THEN Begin("finish") ELSE Idle

\* Between rounds the countdown is skipped and the next round starts at once;
\* a match that ran out of rounds is finished by finishMatch.
ContinuesAs(o) ==
  IF o.kind \notin {"resume", "next", "advance", "endRound"} THEN Idle
  ELSE IF o.next = "COUNTDOWN" /\ ~BeforeFirstRound /\ o.kind # "resume"
       THEN Begin("startRound")
  ELSE IF o.next = "FINISHED" THEN Begin("finish")
  ELSE Idle

After(s) ==
  /\ At(s, "after")
  /\ timer' = TimerAfter(op[s])
  /\ Becomes(s, ContinuesAs(op[s]))
  /\ UNCHANGED <<room, matches, rounds, unbuilt>>

-----------------------------------------------------------------------------
(* Failures, and the specification.                                        *)

\* A store call throws: the handler stops where it is, nothing is undone.
Fault(s) ==
  /\ op[s].pc # "idle" /\ faults < MaxFaults
  /\ faults' = faults + 1
  /\ op' = [op EXCEPT ![s] = Idle]
  /\ UNCHANGED <<room, matches, rounds, timer, server, unbuilt, hostEvents,
                 crashes>>

\* The process dies: handlers and the timer are gone, the store remains.
Crash ==
  /\ server # "down" /\ crashes < MaxCrashes
  /\ crashes' = crashes + 1
  /\ server' = "down"
  /\ timer' = "none"
  /\ op' = [s \in Slots |-> Idle]
  /\ UNCHANGED <<room, matches, rounds, unbuilt, hostEvents, faults>>

\* recoverActiveRooms runs before the socket layer accepts anything.
Restart(s) ==
  /\ server = "down"
  /\ server' = "recovering"
  /\ op' = [op EXCEPT ![s] = Begin("recover")]
  /\ UNCHANGED <<room, matches, rounds, timer, unbuilt, hostEvents, crashes,
                 faults>>

AcceptSockets ==
  /\ server = "recovering" /\ Quiet
  /\ server' = "up"
  /\ UNCHANGED <<room, matches, rounds, timer, op, unbuilt, hostEvents,
                 crashes, faults>>

Step(s) ==
  \/ LoadRoom(s) \/ LoadMatch(s) \/ RefuseRound(s) \/ ListPlayers(s)
  \/ LoadRound(s) \/ GateReveal(s) \/ CreateMatch(s) \/ TouchStart(s) \/ SaveRound(s)
  \/ SaveEnded(s) \/ SaveMatch(s) \/ SwapPhase(s) \/ TouchRoom(s)
  \/ SaveResumed(s) \/ SaveNext(s) \/ ReloadRoom(s) \/ TouchRematch(s)
  \/ EditRoom(s) \/ SaveRoom(s) \/ After(s)

Next ==
  \/ \E s \in Slots :
       \/ \E kind \in HostKinds : BeginHostEvent(s, kind)
       \/ FireTimer(s) \/ Step(s) \/ Fault(s) \/ Restart(s)
  \/ Crash \/ AcceptSockets

Spec == Init /\ [][Next]_vars

\* A running handler is never abandoned by the event loop, a timer that was
\* set fires, and a crashed process is restarted by its supervisor.
Fairness ==
  /\ \A s \in Slots : WF_vars(Step(s))
  /\ WF_vars(\E s \in Slots : FireTimer(s))
  /\ WF_vars(\E s \in Slots : Restart(s))
  /\ WF_vars(AcceptSockets)

FairSpec == Spec /\ Fairness

-----------------------------------------------------------------------------
(* Properties of every behaviour, interleaved or not.                      *)

Ops ==
  [kind : HostKinds \cup TimerKinds \cup {"recover", "none"},
   pc : {"idle", "loadRoom", "loadMatch", "listPlayers", "loadRound",
         "createMatch", "touchStart", "saveRound", "saveEnded", "saveMatch",
         "swap", "touchRoom", "saveResumed", "saveNext", "reloadRoom",
         "touchRematch", "saveRoom", "after"},
   room : RoomDocs \cup {NoRoom}, mid : MatchIds \cup {0},
   match : MatchDocs \cup {NoMatch}, rid : RoundIds \cup {0},
   rstat : {"none", "ACTIVE", "ENDED"}, next : Phases \cup {"none"},
   paused : PausedStates \cup {NoPause}]

\* Every stored document and every copy has the shape assertRoomShape,
\* assertMatchShape and assertRoundShape demand of it.
TypeOK ==
  /\ room \in RoomDocs
  /\ matches \in [MatchIds -> MatchDocs \cup {NoMatch}]
  /\ rounds \in [RoundIds -> RoundDocs \cup {NoRound}]
  /\ timer \in TimerKinds \cup {"none"}
  /\ op \in [Slots -> Ops]
  /\ server \in {"up", "down", "recovering"} /\ unbuilt \in BOOLEAN
  /\ hostEvents \in 0..MaxHostEvents
  /\ crashes \in 0..MaxCrashes
  /\ faults \in 0..MaxFaults

\* Match.pausedState is set exactly while Match.phase is PAUSED, whoever wrote
\* the document last: stale bookkeeping may bring an old phase back, but never
\* one without its pause state (setRoomAndMatchPhaseAtomically, DM19).
PausedStateMatchesPhase ==
  \A m \in MatchIds :
    matches[m].phase = "PAUSED" <=> matches[m].paused # NoPause

\* What the documents point to is in the store: the room's current match, and
\* for every match each of its rounds, which is a round of that match.  A
\* handler that dies half-way may leave an unreferenced document, never a
\* dangling reference.
ReferencesStored ==
  /\ room.currentMatchId # 0 => matches[room.currentMatchId] # NoMatch
  /\ \A m \in MatchIds : \A i \in 1..Len(matches[m].roundIds) :
       rounds[matches[m].roundIds[i]].match = m

-----------------------------------------------------------------------------
(* Properties of behaviours in which handlers do not overlap.              *)

Settled == server = "up" /\ Quiet

CurrentMatch == matches[room.currentMatchId]

ProjectionAgrees ==
  IF room.currentMatchId = 0 THEN room.phase = "LOBBY"
                             ELSE room.phase = CurrentMatch.phase

\* Between the swap of a rematch and the write of currentMatchId the room is
\* in the lobby while it still points to the finished match.
RematchInterrupted ==
  /\ room.currentMatchId # 0 /\ CurrentMatch.phase = "FINISHED"
  /\ room.phase = "LOBBY"

\* Decision 30: Room.phase is the projection of Match.phase.  A crash or a
\* failing call, wherever it hits, breaks that in one place only: a rematch
\* cut off before it has moved currentMatchId.
PhaseProjection == Quiet => ProjectionAgrees \/ RematchInterrupted

\* Decision 30 as it is written down, with no exception.
RoomPhaseProjectsMatchPhase == Settled => ProjectionAgrees

ExpectedTimers ==
  CASE room.phase = "COUNTDOWN" -> IF unbuilt THEN {"none"} ELSE {"startRound"}
    [] room.phase = "ROUND_ACTIVE" ->
         IF room.config.autoReveal THEN {"endRound"} ELSE {"none", "endRound"}
    [] room.phase = "ROUND_RESULT" -> {"advance"}
    [] room.phase = "SCOREBOARD" ->
         IF room.config.pacing = "auto" THEN {"advance"} ELSE {"none"}
    [] OTHER -> {"none"}

\* The pump is armed: whenever no handler runs, the room's timer is set for
\* exactly the step its phase is waiting for, after any sequence of host
\* events, crashes and restarts, and no timer of an earlier phase is left
\* behind.  The one phase that is left without a way on is the countdown to a
\* round the content refused: runStartRound has no answer to that.
PumpArmed == Settled => timer \in ExpectedTimers

LastRound == rounds[CurrentRoundId(CurrentMatch)]

\* The round document agrees with the phase: in ROUND_ACTIVE the match has a
\* last round and it takes answers; once the result is shown that round is
\* closed, and stays closed through the scoreboard.
RoundFollowsPhase ==
  Settled /\ room.phase \in {"ROUND_ACTIVE", "ROUND_RESULT", "SCOREBOARD"} =>
    /\ CurrentMatch.roundIds # <<>>
    /\ LastRound.status = (IF room.phase = "ROUND_ACTIVE" THEN "ACTIVE"
                                                          ELSE "ENDED")

EndedRounds(m) ==
  {r \in RoundIds : rounds[r].match = m /\ rounds[r].status = "ENDED"}

\* roundIndex never runs past the last round, and no round number is passed
\* over: when a result or a scoreboard is shown, as many rounds were closed as
\* its number says.
RoundNumbers ==
  Settled /\ room.currentMatchId # 0 /\ ~RematchInterrupted =>
    /\ CurrentMatch.roundIndex < TotalRounds
    /\ room.phase \in {"ROUND_RESULT", "SCOREBOARD"} =>
         Cardinality(EndedRounds(room.currentMatchId))
           > CurrentMatch.roundIndex

\* The rounds keep pace with the match: in status and in number.
RoundsKeepPace == RoundFollowsPhase /\ RoundNumbers

\* The published phase moves as MatchPhases promises.
Published == INSTANCE MatchPhases WITH
  phase <- room.phase, pacing <- room.config.pacing,
  paused <- IF room.currentMatchId = 0 THEN NoPause ELSE CurrentMatch.paused

PublishedPhases == Published!Spec

\* Only its host can move the match on.  From the countdown to a refused round
\* no more than game:finish does: a pause is refused there.
AwaitsHost ==
  \/ room.phase = "COUNTDOWN" /\ unbuilt
  \/ room.phase \in {"LOBBY", "PAUSED", "FINISHED"}
  \/ room.phase = "SCOREBOARD" /\ room.config.pacing = "host"
  \/ room.phase = "ROUND_ACTIVE" /\ ~room.config.autoReveal

\* However often it is interrupted, a match that is under way comes to a point
\* where it waits for its host, or to its end: it just stops nowhere but where
\* the content has refused the round it is counting down to.
MatchMovesOn == [](~AwaitsHost => <>AwaitsHost)
=============================================================================
