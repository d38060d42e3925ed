----------------------------- MODULE ClientSync -----------------------------
(***************************************************************************)
(* One client and its session: the socket with its reconnects              *)
(* (frontend/js/transport/verbinding.mjs), the snapshots it asks over HTTP *)
(* (session-shell.mjs), the gate that orders both (SnapshotPrecedence) and *)
(* the screen (session/events.mjs).  The server is what this client can    *)
(* tell of it: a position in the room's history, a clock in milliseconds   *)
(* that several changes may share, and whether the session is revoked.     *)
(*                                                                         *)
(* The socket delivers in order and loses what it carries when it drops.   *)
(* An HTTP call may take any time, overtake the socket and be overtaken,   *)
(* and fail.  Every event tells a change of the phase; what else events    *)
(* and snapshots carry is left out.                                        *)
(***************************************************************************)
EXTENDS SnapshotPrecedence, Sequences

CONSTANTS
    Calls,         \* what names the HTTP calls that are open at a time
    MaxMatches,    \* bound: matches of the room
    MaxSteps,      \* bound: changes within one match, or in the first lobby
    MaxTime,       \* bound: the server's clock
    MaxDrops,      \* bound: lost connections
    MaxLosses,     \* bound: failed HTTP calls
    Interleaved    \* TRUE: the room may change while a snapshot is built

ASSUME CallsAssumption == Calls # {}
ASSUME BoundsAssumption ==
    {MaxMatches, MaxSteps, MaxTime, MaxDrops, MaxLosses} \subseteq Nat
ASSUME StepsAssumption == MaxSteps >= 1    \* the new room is its first change
ASSUME InterleavedAssumption == Interleaved \in BOOLEAN

VARIABLES
    now,         \* the server's clock
    at,          \* the room's position: sequence of the match, change in it
    began,       \* history: when each match of the room began
    revoked,     \* the host has removed this player
    joined,      \* the server has this client's socket in the room's channel
    wire,        \* what is on its way over the socket, oldest first
    call,        \* call[c]: the state of HTTP call c
    link,        \* the transport's connection
    reconnect,   \* the shell's reconnect machine
    gate,        \* the position of the precedence gate
    applied,     \* the position of the last message the gate accepted
    screen,      \* the position of the last message shown
    terminated,  \* the shell has ended the session
    owed,        \* history: when the client last came back, 0 if never
    drops, losses

server == <<now, at, began, revoked>>
client == <<gate, applied, screen>>
counts == <<drops, losses>>
vars == <<server, joined, wire, call, link, reconnect, client, terminated,
          owed, counts>>

-----------------------------------------------------------------------------
(* Positions and messages *)

Positions == [seq : 0..MaxMatches, step : 0..MaxSteps]

(* Before anything was applied or shown.                                   *)
Blank == [seq |-> 0, step |-> 0]

(* p is at least as late in the room's history as q.                       *)
NotBefore(p, q) == p.seq > q.seq \/ (p.seq = q.seq /\ p.step >= q.step)

EventNames ==
    {"room:lock-changed", "round:started", "session:kicked"} \cup MatchStartEvents

Packets ==
    [kind : {"connected", "refused", "close"}]
    \cup [kind : {"event"}, event : EventNames, matchId : 0..MaxMatches,
          serverTime : 0..MaxTime, at : Positions]

Snapshot(position, time) ==
    [matchSequence |-> position.seq, serverTime |-> time, at |-> position]

Snapshots ==
    [matchSequence : 0..MaxMatches, serverTime : 0..MaxTime, at : Positions]

MaxAttempts == 4    \* one call and SNAPSHOT_RETRY_DELAYS_MS.length retries

CallStates ==
    [pc : {"free"}]
    \cup [pc : {"asked", "refused", "retry"}, attempt : 1..MaxAttempts]
    \cup [pc : {"reading"}, attempt : 1..MaxAttempts, at : Positions]
    \cup [pc : {"reply"}, attempt : 1..MaxAttempts, snapshot : Snapshots]

Free == [pc |-> "free"]
Asked(attempt) == [pc |-> "asked", attempt |-> attempt]

-----------------------------------------------------------------------------
(* The reconnect machine of client/flow/reconnect-state.mjs; its delays    *)
(* and the number of the attempt are left out.                             *)

Disconnected == [status |-> "disconnected", pending |-> FALSE]

(* Mutant: a reconnection asks for nothing.                                *)
ReconnectTransitionSilent(state, event) ==
    CASE event = "DISCONNECTED" -> Disconnected
      [] event = "RECONNECT_ATTEMPT_STARTED" /\ state.status = "disconnected" ->
            [state EXCEPT !.status = "reconnecting"]
      [] event = "RECONNECT_SUCCEEDED" /\ state.status = "reconnecting" ->
            [status |-> "connected", pending |-> FALSE]
      [] event = "SNAPSHOT_REQUEST_SENT" -> [state EXCEPT !.pending = FALSE]
      [] OTHER -> state

(* transition, and with it nextActionFor: pending is an action due.         *)
ReconnectTransition(state, event) ==
    CASE event = "DISCONNECTED" -> Disconnected
      [] event = "RECONNECT_ATTEMPT_STARTED" /\ state.status = "disconnected" ->
            [state EXCEPT !.status = "reconnecting"]
      [] event = "RECONNECT_SUCCEEDED" /\ state.status = "reconnecting" ->
            [status |-> "connected", pending |-> TRUE]
      [] event = "SNAPSHOT_REQUEST_SENT" -> [state EXCEPT !.pending = FALSE]
      [] OTHER -> state

-----------------------------------------------------------------------------
(* Initially the session shell has just been mounted: it connects and asks *)
(* a first snapshot at once.  The gate is empty after a reload, and has    *)
(* seen the snapshot of the response when the player just created or       *)
(* joined the room.                                                        *)
Init ==
    /\ now = 0 /\ at = [seq |-> 0, step |-> 1] /\ began = <<>>
    /\ revoked = FALSE /\ joined = FALSE /\ wire = <<>>
    /\ \E c \in Calls : call = [d \in Calls |-> IF d = c THEN Asked(1) ELSE Free]
    /\ link = "connecting"
    /\ reconnect = [status |-> "connected", pending |-> FALSE]
    /\ \/ gate = EmptyGate /\ applied = Blank
       \/ gate = RegisterSnapshot(EmptyGate, Snapshot(at, now)) /\ applied = at
    /\ screen = Blank /\ terminated = FALSE
    /\ owed = 0 /\ drops = 0 /\ losses = 0

-----------------------------------------------------------------------------
(* The room *)

(* With the in-memory store a snapshot is built in one turn of the event   *)
(* loop; with Redis other handlers run between its reads.                  *)
MayChange ==
    /\ ~revoked
    /\ Interleaved \/ \A c \in Calls : call[c].pc # "reading"

(* publish: an envelope with the server's time to the sockets of the room. *)
Publish(event, matchId, position) ==
    wire' = IF joined
            THEN Append(wire, [kind |-> "event", event |-> event,
                               matchId |-> matchId, serverTime |-> now,
                               at |-> position])
            ELSE wire

(* A change within the match, or in the first lobby.  Some events name the *)
(* match, one of them as a start: game:started after a rematch.            *)
Progress ==
    /\ MayChange
    /\ at.step < MaxSteps
    /\ at' = [at EXCEPT !.step = @ + 1]
    /\ \/ Publish("room:lock-changed", 0, at')
       \/ at.seq > 0 /\ Publish("round:started", at.seq, at')
       \/ at.seq > 1 /\ Publish("game:started", at.seq, at')
    /\ UNCHANGED <<now, began, revoked, joined, call, link, reconnect, client,
                   terminated, owed, counts>>

(* The first match starts in the lobby, every later one as a rematch.      *)
NewMatch ==
    /\ MayChange
    /\ at.seq < MaxMatches
    /\ at' = [seq |-> at.seq + 1, step |-> 0]
    /\ began' = Append(began, now)
    /\ Publish(IF at.seq = 0 THEN "game:started" ELSE "game:rematch-started",
               at.seq + 1, at')
    /\ UNCHANGED <<now, revoked, joined, call, link, reconnect, client,
                   terminated, owed, counts>>

(* game:kick: the session is revoked, its socket told and then closed.     *)
Kick ==
    /\ MayChange
    /\ revoked' = TRUE /\ joined' = FALSE
    /\ wire' = IF joined
               THEN wire \o <<[kind |-> "event", event |-> "session:kicked",
                               matchId |-> 0, serverTime |-> now, at |-> at],
                              [kind |-> "close"]>>
               ELSE wire
    /\ UNCHANGED <<now, at, began, call, link, reconnect, client, terminated,
                   owed, counts>>

Tick ==
    /\ now < MaxTime
    /\ now' = now + 1
    /\ UNCHANGED <<at, began, revoked, joined, wire, call, link, reconnect,
                   client, terminated, owed, counts>>

-----------------------------------------------------------------------------
(* The connection *)

(* The handshake: a live session gets its socket into the room's channels, *)
(* a revoked one is refused.                                               *)
Accept ==
    /\ link = "connecting" /\ wire = <<>>
    /\ joined' = ~revoked
    /\ wire' = <<[kind |-> IF revoked THEN "refused" ELSE "connected"]>>
    /\ owed' = IF reconnect.status = "reconnecting" /\ ~revoked THEN now ELSE owed
    /\ UNCHANGED <<server, call, link, reconnect, client, terminated, counts>>

(* handleStatus of the shell: run the reconnect machine, and ask a         *)
(* snapshot when it says so.                                               *)
HandleStatus(event) ==
    LET state == ReconnectTransition(reconnect, event)
    IN  IF state.status = "connected" /\ state.pending
        THEN /\ reconnect' = ReconnectTransition(state, "SNAPSHOT_REQUEST_SENT")
             /\ \E c \in Calls : /\ call[c] = Free
                                 /\ call' = [call EXCEPT ![c] = Asked(1)]
        ELSE reconnect' = state /\ UNCHANGED call

Connected ==
    /\ link' = "open"
    /\ wire' = Tail(wire)
    /\ HandleStatus("RECONNECT_SUCCEEDED")
    /\ UNCHANGED <<joined, client, terminated>>

(* handleDrop: a refused session is not tried again.                       *)
HandleDrop(terminal) ==
    /\ link' = IF terminal THEN "stopped" ELSE "waiting"
    /\ wire' = <<>> /\ joined' = FALSE
    /\ HandleStatus("DISCONNECTED")
    /\ UNCHANGED <<client, terminated>>

(* Mutant: a refusal is a drop like any other.                             *)
RefusedForNow == HandleDrop(FALSE)

(* SIO_CONNECT_ERROR with one of TERMINAL_HANDSHAKE_CODES.                 *)
Refused == HandleDrop(TRUE)

(* terminate: the screen says the session is over, the socket closes for   *)
(* good.                                                                   *)
Terminate ==
    /\ terminated' = TRUE
    /\ link' = "stopped" /\ wire' = <<>> /\ joined' = FALSE
    /\ HandleStatus("DISCONNECTED")

(* deliver and handleEvent: only what the gate accepts reaches the screen. *)
DeliverEvent(e) ==
    /\ gate' = RegisterEvent(gate, e)
    /\ IF AcceptsEvent(gate, e)
       THEN IF e.event = "session:kicked"
            THEN Terminate /\ UNCHANGED <<applied, screen>>
            ELSE /\ applied' = e.at /\ screen' = e.at
                 /\ wire' = Tail(wire)
                 /\ UNCHANGED <<joined, link, reconnect, call, terminated>>
       ELSE /\ wire' = Tail(wire)
            /\ UNCHANGED <<applied, screen, joined, link, reconnect, call,
                           terminated>>

(* The next packet of the socket.                                          *)
Deliver ==
    /\ wire # <<>>
    /\ CASE Head(wire).kind = "connected" -> Connected
         [] Head(wire).kind = "refused"   -> Refused
         [] Head(wire).kind = "close"     -> HandleDrop(FALSE)
         [] Head(wire).kind = "event"     -> DeliverEvent(Head(wire))
    /\ UNCHANGED <<server, owed, counts>>

(* The connection is lost, or an attempt fails.                            *)
Drop ==
    /\ link \in {"connecting", "open"}
    /\ drops < MaxDrops
    /\ drops' = drops + 1
    /\ HandleDrop(FALSE)
    /\ UNCHANGED <<server, owed, losses>>

(* The backoff of at least a second has passed: the next attempt.          *)
RetryConnect ==
    /\ link = "waiting"
    /\ now' = IF now < MaxTime THEN now + 1 ELSE now
    /\ link' = "connecting"
    /\ HandleStatus("RECONNECT_ATTEMPT_STARTED")
    /\ UNCHANGED <<at, began, revoked, joined, wire, client, terminated, owed,
                   counts>>

-----------------------------------------------------------------------------
(* Snapshots over HTTP *)

(* buildSnapshot reads the room and its match first, after the session was *)
(* checked.                                                                *)
ServeRead(c) ==
    /\ call[c].pc = "asked"
    /\ call' = [call EXCEPT ![c] =
            IF revoked THEN [@ EXCEPT !.pc = "refused"]
            ELSE [pc |-> "reading", attempt |-> @.attempt, at |-> at]]
    /\ UNCHANGED <<server, joined, wire, link, reconnect, client, terminated,
                   owed, counts>>

(* Then it looks at the clock; the answer goes out.                        *)
ServeReply(c) ==
    /\ call[c].pc = "reading"
    /\ call' = [call EXCEPT ![c] =
            [pc |-> "reply", attempt |-> @.attempt,
             snapshot |-> Snapshot(@.at, now)]]
    /\ UNCHANGED <<server, joined, wire, link, reconnect, client, terminated,
                   owed, counts>>

(* fetchState registers the snapshot with the gate, and hands it out       *)
(* whatever the gate said; the shell shows it.                             *)
Receive(c) ==
    /\ call[c].pc = "reply"
    /\ call' = [call EXCEPT ![c] = Free]
    /\ LET s == call[c].snapshot
       IN  /\ gate' = RegisterSnapshot(gate, s)
           /\ applied' = IF ShouldApplySnapshot(gate, s) THEN s.at ELSE applied
           /\ screen' = IF terminated THEN screen ELSE s.at
    /\ UNCHANGED <<server, joined, wire, link, reconnect, terminated, owed,
                   counts>>

(* A terminal code in the answer ends the session.                         *)
ReceiveRefusal(c) ==
    /\ call[c].pc = "refused"
    /\ terminated' = TRUE
    /\ link' = "stopped" /\ wire' = <<>> /\ joined' = FALSE
    /\ reconnect' = ReconnectTransition(reconnect, "DISCONNECTED")
    /\ call' = [call EXCEPT ![c] = Free]
    /\ UNCHANGED <<server, client, owed, counts>>

(* Mutant: a failed call is not repeated.                                  *)
LoseCallForGood(c) ==
    /\ call[c].pc \in {"asked", "reading", "reply", "refused"}
    /\ losses < MaxLosses
    /\ losses' = losses + 1
    /\ call' = [call EXCEPT ![c] = Free]
    /\ UNCHANGED <<server, joined, wire, link, reconnect, client, terminated,
                   owed, drops>>

(* A call fails: the shell tries again some seconds later, three times.    *)
LoseCall(c) ==
    /\ call[c].pc \in {"asked", "reading", "reply", "refused"}
    /\ losses < MaxLosses
    /\ losses' = losses + 1
    /\ call' = [call EXCEPT ![c] =
            IF terminated \/ @.attempt = MaxAttempts THEN Free
            ELSE [pc |-> "retry", attempt |-> @.attempt + 1]]
    /\ UNCHANGED <<server, joined, wire, link, reconnect, client, terminated,
                   owed, drops>>

RetryCall(c) ==
    /\ call[c].pc = "retry"
    /\ call' = [call EXCEPT ![c] = IF terminated THEN Free ELSE Asked(@.attempt)]
    /\ UNCHANGED <<server, joined, wire, link, reconnect, client, terminated,
                   owed, counts>>

-----------------------------------------------------------------------------
ServerStep == Progress \/ NewMatch \/ Kick \/ Tick
Connection == Accept \/ Deliver \/ RetryConnect
Call(c) ==
    \/ ServeRead(c) \/ ServeReply(c) \/ Receive(c) \/ ReceiveRefusal(c)
    \/ RetryCall(c)

Next ==
    \/ ServerStep \/ Connection \/ Drop
    \/ \E c \in Calls : Call(c) \/ LoseCall(c)

Spec == Init /\ [][Next]_vars

(* The socket delivers, the server answers, the client's timers fire.  No  *)
(* connection has to hold, no call to succeed, nothing in the room to      *)
(* happen.                                                                 *)
Fairness == WF_vars(Connection) /\ \A c \in Calls : WF_vars(Call(c))
FairSpec == Spec /\ Fairness

-----------------------------------------------------------------------------
(* Properties *)

Gates ==
    [matchId : 0..MaxMatches, matchSequence : 0..MaxMatches, time : 0..MaxTime,
     from : {"nothing", "snapshot", "event"}, known : SUBSET (1..MaxMatches)]

(* The shape of the state.                                                 *)
TypeOK ==
    /\ now \in 0..MaxTime /\ at \in Positions
    /\ began \in Seq(0..MaxTime) /\ Len(began) = at.seq
    /\ revoked \in BOOLEAN /\ joined \in BOOLEAN /\ terminated \in BOOLEAN
    /\ wire \in Seq(Packets) /\ call \in [Calls -> CallStates]
    /\ link \in {"connecting", "open", "waiting", "stopped"}
    /\ reconnect \in [status : {"connected", "disconnected", "reconnecting"},
                      pending : BOOLEAN]
    /\ gate \in Gates
    /\ {applied, screen} \subseteq Positions /\ owed \in 0..MaxTime
    /\ drops \in 0..MaxDrops /\ losses \in 0..MaxLosses

(* The sequence the gate orders by may lag behind the match it believes to *)
(* be in, because an event that starts a match carries none; it never      *)
(* leads.  Otherwise the state of the match being played would be refused  *)
(* as old (shouldApplyEvent, registerEvent).                               *)
SequenceNeverLeads == gate.matchSequence <= gate.matchId

(* The time of the message a step registers with the gate.                 *)
MessageTime(time) ==
    \/ wire # <<>> /\ Head(wire).kind = "event" /\ Head(wire).serverTime = time
    \/ \E c \in Calls :
        call[c].pc = "reply" /\ call[c].snapshot.serverTime = time

(* While the gate orders by the sequence of the match it shows, nothing    *)
(* takes the client back in the room's history, whatever order answers and *)
(* events come in; only within one millisecond is there no order (open     *)
(* point c of snapshot-precedence.mjs).                                    *)
NeverBack ==
    [][ gate.from # "nothing" /\ gate.matchSequence = applied.seq
        => NotBefore(applied', applied) \/ MessageTime(gate.time) ]_vars

(* What the gate refuses it already has: an event it drops is part of what *)
(* was applied before, unless the two share a millisecond.                 *)
RefusedIsKnown ==
    [][ \A e \in {wire[i] : i \in DOMAIN wire} :
          /\ e.kind = "event" /\ wire[1] = e /\ wire' = Tail(wire)
          /\ ~AcceptsEvent(gate, e)
          => NotBefore(applied, e.at) \/ e.serverTime = gate.time ]_vars

(* However many events were lost meanwhile: some time after the socket is  *)
(* open, for the first time or again, the gate has applied something no    *)
(* older than that moment, unless the connection is lost again or the      *)
(* session is over.  Calls of the client may fail meanwhile, as often as   *)
(* MaxLosses allows and the shell tries again.                             *)
Resyncs ==
    \A t \in 0..MaxTime :
        link = "open" /\ owed = t
            ~> (gate.from # "nothing" /\ gate.time >= t) \/ link # "open"

(* A player the host removed ends up outside: told so, or refused for good *)
(* when he comes back; he never keeps trying.                              *)
KickedLeaves == revoked ~> [](link = "stopped")

(* What the screen changes to is what the gate accepted: "de               *)
(* precedentiepoort ordent 'm zoals elke snapshot" (session-shell.mjs 335).*)
ScreenShowsAccepted == [][ screen' # screen => screen' = applied' ]_vars
=============================================================================
