------------------------- MODULE SnapshotPrecedence -------------------------
(***************************************************************************)
(* The rule that orders snapshots and events on a client                   *)
(* (shared/protocol/snapshot-precedence.mjs) and the gate that keeps the   *)
(* position the rule compares with (frontend/js/transport/precedentie.mjs).*)
(*                                                                         *)
(* A match is named by its sequence in the room, 0 before the first one:   *)
(* ids are only compared for equality, and the gate's table from id to     *)
(* sequence is then the set of the matches it has seen in a snapshot.  The *)
(* position of a gate that has applied nothing has from = "nothing"; it    *)
(* has no room either, so all other positions belong to one room and one   *)
(* protocol version, and malformed messages are left out.                  *)
(***************************************************************************)
EXTENDS Integers

(* A new transport: nothing applied, no match, nothing known.              *)
EmptyGate == [matchId |-> 0, matchSequence |-> 0, time |-> 0,
              from |-> "nothing", known |-> {}]

UnorderedEvents == {"error", "session:kicked", "session:revoked"}
MatchStartEvents == {"game:started", "game:rematch-started"}

-----------------------------------------------------------------------------
(* The rule *)

(* Mutant: the clock is never looked at within a match.                    *)
ShouldApplySnapshotBySequence(local, snapshot) ==
    snapshot.matchSequence >= local.matchSequence

(* A snapshot of a later match always counts, one of an earlier match      *)
(* never; within a match the clock decides, and on a tie a snapshot wins   *)
(* from an event and loses to a snapshot.                                  *)
ShouldApplySnapshot(local, snapshot) ==
    \/ snapshot.matchSequence > local.matchSequence
    \/ /\ snapshot.matchSequence = local.matchSequence
       /\ \/ local.from = "nothing"
          \/ snapshot.serverTime > local.time
          \/ snapshot.serverTime = local.time /\ local.from = "event"

(* Mutant: a tie goes to the event.                                        *)
ShouldApplyEventOnTie(local, event) ==
    local.from = "nothing" \/ event.serverTime >= local.time

(* Mutant: an event has to be later than the millisecond after.            *)
ShouldApplyEventLate(local, event) ==
    local.from = "nothing" \/ event.serverTime > local.time + 1

(* An event carries no sequence: only the clock orders it, and on a tie it *)
(* loses to a snapshot.                                                    *)
ShouldApplyEvent(local, event) ==
    \/ local.from = "nothing"
    \/ event.serverTime > local.time
    \/ event.serverTime = local.time /\ local.from = "event"

-----------------------------------------------------------------------------
(* The gate *)

(* The position after a snapshot, and what is remembered of it.            *)
AtSnapshot(gate, snapshot, seen) ==
    [matchId       |-> snapshot.matchSequence,
     matchSequence |-> snapshot.matchSequence,
     time          |-> snapshot.serverTime,
     from          |-> "snapshot",
     known         |-> gate.known \cup seen]

(* Mutant: the lobby before the first match is remembered as a match.      *)
RegisterSnapshotOfLobby(gate, snapshot) ==
    IF ShouldApplySnapshot(gate, snapshot)
    THEN AtSnapshot(gate, snapshot, {snapshot.matchSequence})
    ELSE gate

(* registerSnapshot: an accepted snapshot sets the whole position.         *)
RegisterSnapshot(gate, snapshot) ==
    IF ShouldApplySnapshot(gate, snapshot)
    THEN AtSnapshot(gate, snapshot, {snapshot.matchSequence} \ {0})
    ELSE gate

(* An event that names a match known, from a snapshot, to be older than    *)
(* the one the gate is at.                                                 *)
OfOlderMatch(gate, event) ==
    /\ event.matchId \in gate.known \ {gate.matchId}
    /\ gate.matchId # 0
    /\ event.matchId < gate.matchSequence

(* Events that carry no room state pass without being ordered, and so does *)
(* everything before the first snapshot.                                   *)
Unordered(gate, event) ==
    event.event \in UnorderedEvents \/ gate.from = "nothing"

AcceptsEvent(gate, event) ==
    \/ Unordered(gate, event)
    \/ ~OfOlderMatch(gate, event) /\ ShouldApplyEvent(gate, event)

(* registerEvent: an accepted event moves the clock of the position, and   *)
(* the start of a match its id; the sequence waits for the next snapshot.  *)
RegisterEvent(gate, event) ==
    IF AcceptsEvent(gate, event) /\ ~Unordered(gate, event)
    THEN [gate EXCEPT !.time = event.serverTime,
                      !.from = "event",
                      !.matchId = IF /\ event.event \in MatchStartEvents
                                     /\ event.matchId # 0
                                  THEN event.matchId ELSE @]
    ELSE gate
=============================================================================
