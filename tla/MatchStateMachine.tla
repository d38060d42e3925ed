------------------------- MODULE MatchStateMachine -------------------------
(***************************************************************************)
(* The pure reducer of server/architecture/state-machine.js: given the     *)
(* phase a match is in, an event and the room's pacing, Transition either  *)
(* accepts and yields the next phase and pause state, or rejects with a    *)
(* code.  Choosing the destination is the caller's task (MatchLifecycle,   *)
(* ResolveNextPhase); the reducer only decides whether it is legal.        *)
(*                                                                         *)
(* An event is a record [type, nextPhase, reason, remaining]: "none" is    *)
(* an absent nextPhase or reason, and remaining says whether remainingMs   *)
(* is a finite number >= 0.  Times themselves are abstracted.              *)
(***************************************************************************)
EXTENDS Integers

Phases == {"LOBBY", "COUNTDOWN", "ROUND_ACTIVE", "ROUND_RESULT",
           "SCOREBOARD", "PAUSED", "FINISHED"}

EventTypes == {"HOST_START", "TIMER_ELAPSED", "HOST_NEXT", "HOST_PAUSE",
               "HOST_RESUME", "RECOVERY_RESUME", "HOST_FINISH"}

Pacings == {"auto", "host"}

Reasons == {"host", "server_recovery"}

PausablePhases == {"COUNTDOWN", "ROUND_ACTIVE", "ROUND_RESULT", "SCOREBOARD"}

ResumablePhases == {"COUNTDOWN", "ROUND_ACTIVE", "ROUND_RESULT", "SCOREBOARD"}

RecoveryResumablePhases == {"COUNTDOWN"}

\* The stored pausedState; NoPause is null.
NoPause == [previousPhase |-> "none", reason |-> "none"]

PausedStates == [previousPhase : PausablePhases, reason : Reasons]

\* The destinations of one row of the transition table, each with the
\* pacings under which it is open.
Targets(phase, type) ==
  CASE phase = "LOBBY" /\ type = "HOST_START" -> {<<"COUNTDOWN", Pacings>>}
    [] phase = "COUNTDOWN" /\ type = "TIMER_ELAPSED" ->
         {<<"ROUND_ACTIVE", Pacings>>}
    [] phase = "ROUND_ACTIVE" /\ type = "TIMER_ELAPSED" ->
         {<<"ROUND_RESULT", Pacings>>}
    [] phase = "ROUND_RESULT" /\ type = "TIMER_ELAPSED" ->
         {<<"SCOREBOARD", Pacings>>} \cup
         ({"COUNTDOWN", "ROUND_ACTIVE", "FINISHED"} \X {{"auto"}})
    [] phase = "SCOREBOARD" /\ type = "TIMER_ELAPSED" ->
         {"COUNTDOWN", "ROUND_ACTIVE", "FINISHED"} \X {{"auto"}}
    [] phase = "SCOREBOARD" /\ type = "HOST_NEXT" ->
         {"COUNTDOWN", "ROUND_ACTIVE", "FINISHED"} \X {{"host"}}
    [] OTHER -> {}

Accept(phase) ==
  [ok |-> TRUE, code |-> "none", phase |-> phase, paused |-> NoPause]

Reject(code) ==
  [ok |-> FALSE, code |-> code, phase |-> "none", paused |-> NoPause]

\* HOST_START carries no nextPhase of its own: the only row target applies.
Requested(event) ==
  IF event.type = "HOST_START" /\ event.nextPhase = "none"
  THEN "COUNTDOWN" ELSE event.nextPhase

\* Mutant: the row is not consulted.
TableTransitionUnchecked(phase, event, pacing) == Accept(Requested(event))

TableTransition(phase, event, pacing) ==
  IF \E t \in Targets(phase, event.type) :
        t[1] = Requested(event) /\ pacing \in t[2]
  THEN Accept(Requested(event))
  ELSE Reject("INVALID_PHASE")

PauseTransition(phase, event) ==
  IF phase \notin PausablePhases THEN Reject("INVALID_PHASE")
  ELSE IF ~event.remaining \/ event.reason = "none"
       THEN Reject("INVALID_PAUSE_STATE")
       ELSE [ok |-> TRUE, code |-> "none", phase |-> "PAUSED",
             paused |-> [previousPhase |-> phase, reason |-> event.reason]]

\* Mutant: resuming forgets to clear the pause state.
ResumeKeepsPause(phase, event, allowed) ==
  IF phase = "PAUSED" /\ event.nextPhase \in allowed
  THEN [Accept(event.nextPhase) EXCEPT
          !.paused = [previousPhase |-> event.nextPhase, reason |-> "host"]]
  ELSE Reject("INVALID_PHASE")

ResumeTransition(phase, event, allowed) ==
  IF phase = "PAUSED" /\ event.nextPhase \in allowed
  THEN Accept(event.nextPhase)
  ELSE Reject("INVALID_PHASE")

FinishTransition(phase) ==
  IF phase = "FINISHED" THEN Reject("INVALID_PHASE") ELSE Accept("FINISHED")

Transition(phase, event, pacing) ==
  CASE event.type = "HOST_PAUSE" -> PauseTransition(phase, event)
    [] event.type = "HOST_RESUME" ->
         ResumeTransition(phase, event, ResumablePhases)
    [] event.type = "RECOVERY_RESUME" ->
         ResumeTransition(phase, event, RecoveryResumablePhases)
    [] event.type = "HOST_FINISH" -> FinishTransition(phase)
    [] OTHER -> TableTransition(phase, event, pacing)

\* A timer or host event that names a destination, and one that does not.
EventTo(type, next) ==
  [type |-> type, nextPhase |-> next, reason |-> "none", remaining |-> FALSE]

PauseEvent(reason, remaining) ==
  [type |-> "HOST_PAUSE", nextPhase |-> "none", reason |-> reason,
   remaining |-> remaining]
=============================================================================
