---------------------------- MODULE MatchPhases ----------------------------
(***************************************************************************)
(* What the clients of one room are promised about the published phase,    *)
(* whatever happens on the server: it starts in the lobby, moves only by   *)
(* transitions the reducer of state-machine.js allows under the room's     *)
(* pacing, returns to the lobby only by a rematch of a finished match, and *)
(* the pacing changes only while the room is in the lobby.  MatchLifecycle *)
(* is the server that implements it.                                       *)
(***************************************************************************)
EXTENDS MatchStateMachine

VARIABLES phase, paused, pacing

Init ==
  /\ phase = "LOBBY"
  /\ paused = NoPause
  /\ pacing \in Pacings

Events ==
  {EventTo(type, next) : type \in EventTypes \ {"HOST_PAUSE"},
                         next \in Phases \cup {"none"}}
    \cup {PauseEvent(reason, TRUE) : reason \in Reasons}

\* One legal transition of the match.
Move ==
  \E event \in Events :
    LET result == Transition(phase, event, pacing)
    IN  /\ result.ok
        /\ phase' = result.phase
        /\ paused' = result.paused
        /\ UNCHANGED pacing

\* A rematch is a new state machine in its initial state.
Rematch ==
  /\ phase = "FINISHED"
  /\ phase' = "LOBBY"
  /\ UNCHANGED <<paused, pacing>>

SetPacing ==
  /\ phase = "LOBBY"
  /\ pacing' \in Pacings
  /\ UNCHANGED <<phase, paused>>

Next == Move \/ Rematch \/ SetPacing

Spec == Init /\ [][Next]_<<phase, paused, pacing>>
=============================================================================
