-------------------------- MODULE ClientSync_proofs --------------------------
(***************************************************************************)
(* Proofs about ClientSync, for any bounds, any set of calls and snapshots *)
(* that may be torn (Interleaved).  The argument is about time: a match    *)
(* only begins when the one before it has ended, so an event that names an *)
(* earlier match is no later than the beginning of the match the gate's    *)
(* sequence names, while everything the gate has applied since is.         *)
(***************************************************************************)
EXTENDS ClientSync, TLAPS

Events ==
    [kind : {"event"}, event : EventNames, matchId : 0..MaxMatches,
     serverTime : 0..MaxTime, at : Positions]

(* Whoever names an earlier match spoke before the later one began.        *)
EventFits(e) ==
    /\ e.serverTime <= now
    /\ \A q \in 1..at.seq :
          e.matchId # 0 /\ e.matchId < q => e.serverTime <= began[q]

(* A snapshot is taken in the match it names.                              *)
SnapshotFits(s) ==
    /\ s.matchSequence <= at.seq
    /\ s.matchSequence # 0 => began[s.matchSequence] <= s.serverTime

CallFits(c) ==
    /\ call[c].pc = "reading" => call[c].at.seq <= at.seq
    /\ call[c].pc = "reply" => SnapshotFits(call[c].snapshot)

(* What the gate applied last belongs to the match its sequence names or   *)
(* to a later one; an event is later than the snapshot it followed.        *)
GateFits(g) ==
    /\ g.matchSequence <= at.seq
    /\ g.matchSequence <= g.matchId
    /\ g.matchSequence # 0 =>
          /\ began[g.matchSequence] <= g.time
          /\ g.from = "event" => began[g.matchSequence] < g.time

BeganFits == \A q \in 1..at.seq : began[q] <= now
WireFits == \A i \in DOMAIN wire : wire[i].kind = "event" => EventFits(wire[i])
CallsFit == \A c \in Calls : CallFits(c)

IInv == TypeOK /\ BeganFits /\ WireFits /\ CallsFit /\ GateFits(gate)

(* The bounds are natural numbers.                                         *)
LEMMA Bounds ==
    /\ MaxMatches \in Nat /\ MaxSteps \in Nat /\ MaxTime \in Nat
    /\ MaxDrops \in Nat /\ MaxLosses \in Nat
BY BoundsAssumption

(* Matches are numbered from 1 and begin at times.                         *)
LEMMA HistoryTypes ==
    ASSUME NEW p \in Positions, NEW b \in Seq(0..MaxTime), Len(b) = p.seq
    PROVE  p.seq \in Nat /\ \A q \in 1..p.seq : b[q] \in Nat
BY Bounds DEF Positions

-----------------------------------------------------------------------------
(* The gate *)

(* Registering a snapshot that fits leaves a gate that fits.               *)
LEMMA SnapshotKeepsGate ==
    ASSUME IInv, NEW s \in Snapshots, SnapshotFits(s)
    PROVE  /\ RegisterSnapshot(gate, s) \in Gates
           /\ GateFits(RegisterSnapshot(gate, s))
<1>0. gate \in Gates /\ GateFits(gate) BY DEF IInv, TypeOK
<1>1. CASE ~ShouldApplySnapshot(gate, s)
  BY <1>0, <1>1 DEF RegisterSnapshot
<1>2. CASE ShouldApplySnapshot(gate, s)
  <2>1. RegisterSnapshot(gate, s) = AtSnapshot(gate, s, {s.matchSequence} \ {0})
    BY <1>2 DEF RegisterSnapshot
  <2>2. s.matchSequence \in 0..MaxMatches /\ s.serverTime \in 0..MaxTime
    BY DEF Snapshots
  <2>3. AtSnapshot(gate, s, {s.matchSequence} \ {0}) \in Gates
    <3>1. gate.known \cup ({s.matchSequence} \ {0}) \in SUBSET (1..MaxMatches)
      BY <1>0, <2>2, Bounds DEF Gates
    <3>2. QED BY <2>2, <3>1 DEF AtSnapshot, Gates
  <2>4. GateFits(AtSnapshot(gate, s, {s.matchSequence} \ {0}))
    BY <2>2, Bounds DEF AtSnapshot, GateFits, SnapshotFits
  <2>5. QED BY <2>1, <2>3, <2>4
<1>3. QED BY <1>1, <1>2

(* Registering an event that fits leaves a gate that fits: one that names  *)
(* an earlier match than the gate's sequence is too old to be accepted.    *)
LEMMA EventKeepsGate ==
    ASSUME IInv, NEW e \in Events, EventFits(e)
    PROVE  RegisterEvent(gate, e) \in Gates /\ GateFits(RegisterEvent(gate, e))
<1>0. gate \in Gates /\ GateFits(gate) /\ at.seq \in Nat
  BY Bounds DEF IInv, TypeOK, Positions
<1>1. CASE ~(AcceptsEvent(gate, e) /\ ~Unordered(gate, e))
  BY <1>0, <1>1 DEF RegisterEvent
<1>2. CASE AcceptsEvent(gate, e) /\ ~Unordered(gate, e)
  <2> DEFINE starts == e.event \in MatchStartEvents /\ e.matchId # 0
             id == IF starts THEN e.matchId ELSE gate.matchId
  <2>1. RegisterEvent(gate, e) = [gate EXCEPT !.time = e.serverTime,
                                              !.from = "event", !.matchId = id]
    BY <1>2 DEF RegisterEvent
  <2>2. e.matchId \in 0..MaxMatches /\ e.serverTime \in 0..MaxTime
    BY DEF Events
  <2>3. /\ gate.matchSequence \in 0..MaxMatches /\ gate.matchId \in 0..MaxMatches
        /\ gate.time \in 0..MaxTime
        /\ gate.from \in {"nothing", "snapshot", "event"}
        /\ gate.known \in SUBSET (1..MaxMatches)
    BY <1>0 DEF Gates
  <2>4. id \in 0..MaxMatches BY <2>2, <2>3
  <2>5. RegisterEvent(gate, e) =
          [matchId |-> id, matchSequence |-> gate.matchSequence,
           time |-> e.serverTime, from |-> "event", known |-> gate.known]
    BY <1>0, <2>1 DEF Gates
  <2>6. RegisterEvent(gate, e) \in Gates
    BY <2>2, <2>3, <2>4, <2>5 DEF Gates
  <2>7. gate.from # "nothing" BY <1>2 DEF Unordered
  <2>8. \/ e.serverTime > gate.time
        \/ e.serverTime = gate.time /\ gate.from = "event"
    BY <1>2, <2>7 DEF AcceptsEvent, ShouldApplyEvent
  <2>9. gate.matchSequence # 0 => began[gate.matchSequence] < e.serverTime
    <3> SUFFICES ASSUME gate.matchSequence # 0
                 PROVE  began[gate.matchSequence] < e.serverTime
      OBVIOUS
    <3>1. gate.matchSequence \in 1..at.seq
      BY <1>0, <2>3, Bounds DEF GateFits
    <3>2. began[gate.matchSequence] \in Nat
      BY <3>1, Bounds DEF IInv, TypeOK
    <3>3. QED BY <1>0, <2>2, <2>3, <2>8, <3>2, Bounds DEF GateFits
  <2>10. gate.matchSequence <= id
    <3>1. CASE ~starts BY <1>0, <3>1 DEF GateFits
    <3>2. CASE starts
      <4> SUFFICES ASSUME e.matchId < gate.matchSequence PROVE FALSE
        BY <2>2, <2>3, <3>2, Bounds
      <4>1. gate.matchSequence \in 1..at.seq
        BY <1>0, <2>2, <2>3, Bounds DEF GateFits
      <4>2. began[gate.matchSequence] \in Nat
        BY <4>1, Bounds DEF IInv, TypeOK
      <4>3. e.serverTime <= began[gate.matchSequence]
        BY <3>2, <4>1 DEF EventFits
      <4>4. began[gate.matchSequence] < e.serverTime
        BY <2>2, <2>9, <4>1, Bounds
      <4>5. QED BY <2>2, <4>2, <4>3, <4>4, Bounds
    <3>3. QED BY <3>1, <3>2
  <2>11. GateFits(RegisterEvent(gate, e))
    <3>1. /\ RegisterEvent(gate, e).matchSequence = gate.matchSequence
          /\ RegisterEvent(gate, e).matchId = id
          /\ RegisterEvent(gate, e).time = e.serverTime
      BY <2>5
    <3>2. gate.matchSequence # 0 => began[gate.matchSequence] <= e.serverTime
      <4> SUFFICES ASSUME gate.matchSequence # 0
                   PROVE  began[gate.matchSequence] <= e.serverTime
        OBVIOUS
      <4>1. began[gate.matchSequence] \in Nat
        BY <1>0, <2>3, Bounds DEF GateFits, IInv, TypeOK
      <4>2. QED BY <2>2, <2>9, <4>1, Bounds
    <3>3. QED BY <1>0, <2>9, <2>10, <3>1, <3>2 DEF GateFits
  <2>12. QED BY <2>6, <2>11
<1>3. QED BY <1>1, <1>2

-----------------------------------------------------------------------------
(* What a step does to the parts of the invariant                          *)

(* The room's history is only added to, at the server's clock.             *)
Grows ==
    /\ now <= now'
    /\ at.seq <= at'.seq
    /\ \A q \in 1..at.seq : began'[q] = began[q]
    /\ \A q \in (at.seq + 1)..at'.seq : began'[q] = now

(* What is on its way was so before, or is said of the match of the moment.*)
WireStep ==
    \A i \in DOMAIN wire' : wire'[i].kind = "event" =>
        \/ \E j \in DOMAIN wire : wire'[i] = wire[j]
        \/ wire'[i].serverTime = now /\ wire'[i].matchId \in {0, at'.seq}

(* A call is as it was, carries nothing, has just read the room, or        *)
(* answers with a snapshot that fits.                                      *)
CallStep ==
    \A c \in Calls :
        \/ call'[c] = call[c]
        \/ call'[c].pc \in {"free", "asked", "refused", "retry"}
        \/ call'[c].pc = "reading" /\ call'[c].at = at
        \/ /\ call'[c].pc = "reply"
           /\ \E s \in Snapshots : SnapshotFits(s) /\ call'[c].snapshot = s

GateStep == \E g \in Gates : GateFits(g) /\ gate' = g

StepFits == TypeOK' /\ Grows /\ WireStep /\ CallStep /\ GateStep

(* Such a step preserves the invariant.                                    *)
LEMMA StepKeepsInvariant == IInv /\ StepFits => IInv'
<1> SUFFICES ASSUME IInv, StepFits PROVE IInv'
  OBVIOUS
<1>1. /\ now \in Nat /\ now' \in Nat /\ at.seq \in Nat /\ at'.seq \in Nat
      /\ \A q \in 1..at.seq : began[q] \in Nat
      /\ \A q \in 1..at'.seq : began'[q] \in Nat
  <2>1. /\ now \in 0..MaxTime /\ at \in Positions
        /\ began \in Seq(0..MaxTime) /\ Len(began) = at.seq
    BY DEF IInv, TypeOK
  <2>2. /\ now' \in 0..MaxTime /\ at' \in Positions
        /\ began' \in Seq(0..MaxTime) /\ Len(began') = at'.seq
    BY DEF StepFits, TypeOK
  <2>3. QED BY <2>1, <2>2, HistoryTypes, Bounds
<1>2. \A q \in 1..at.seq : began[q] <= now BY DEF IInv, BeganFits
<1>3. /\ now <= now' /\ at.seq <= at'.seq
      /\ \A q \in 1..at.seq : began'[q] = began[q]
      /\ \A q \in (at.seq + 1)..at'.seq : began'[q] = now
  BY DEF StepFits, Grows
<1>4. BeganFits'
  <2> SUFFICES ASSUME NEW q \in 1..at'.seq PROVE began'[q] <= now'
    BY DEF BeganFits
  <2>1. CASE q <= at.seq BY <1>1, <1>2, <1>3, <2>1
  <2>2. CASE q > at.seq BY <1>1, <1>3, <2>2
  <2>3. QED BY <1>1, <2>1, <2>2
<1>5. WireFits'
  <2> SUFFICES ASSUME NEW i \in DOMAIN wire', wire'[i].kind = "event"
               PROVE  EventFits(wire[i])'
    BY DEF WireFits
  <2>1. wire'[i].serverTime \in Nat /\ wire'[i].matchId \in Nat
    <3>1. wire'[i] \in Packets BY DEF StepFits, TypeOK
    <3>2. QED BY <3>1, Bounds DEF Packets
  <2>2. CASE \E j \in DOMAIN wire : wire'[i] = wire[j]
    <3>1. PICK j \in DOMAIN wire : wire'[i] = wire[j] BY <2>2
    <3>2. EventFits(wire[j]) BY <3>1 DEF IInv, WireFits
    <3>3. wire'[i].serverTime <= now'
      BY <1>1, <1>3, <2>1, <3>1, <3>2 DEF EventFits
    <3>4. ASSUME NEW q \in 1..at'.seq, wire'[i].matchId # 0, wire'[i].matchId < q
          PROVE  wire'[i].serverTime <= began'[q]
      <4>1. CASE q <= at.seq
        BY <1>1, <1>3, <3>1, <3>2, <3>4, <4>1 DEF EventFits
      <4>2. CASE q > at.seq
        BY <1>1, <1>3, <2>1, <3>1, <3>2, <4>2 DEF EventFits
      <4>3. QED BY <1>1, <4>1, <4>2
    <3>5. QED BY <3>3, <3>4 DEF EventFits
  <2>3. CASE wire'[i].serverTime = now /\ wire'[i].matchId \in {0, at'.seq}
    BY <1>1, <1>3, <2>3 DEF EventFits
  <2>4. QED BY <2>2, <2>3 DEF StepFits, WireStep
<1>6. CallsFit'
  <2> SUFFICES ASSUME NEW c \in Calls PROVE CallFits(c)'
    BY DEF CallsFit
  <2>1. ASSUME NEW s \in Snapshots, SnapshotFits(s)
        PROVE  /\ s.matchSequence <= at'.seq
               /\ s.matchSequence # 0 => began'[s.matchSequence] <= s.serverTime
    <3>1. s.matchSequence \in Nat /\ s.serverTime \in Nat
      BY Bounds DEF Snapshots
    <3>2. QED BY <1>1, <1>3, <2>1, <3>1 DEF SnapshotFits
  <2>2. call[c] \in CallStates /\ call'[c] \in CallStates
    BY DEF IInv, StepFits, TypeOK
  <2>3. CASE call'[c] = call[c]
    <3>1. CallFits(c) BY DEF IInv, CallsFit
    <3>2. CASE call[c].pc = "reading"
      <4>1. call[c].at.seq \in Nat
        BY <2>2, <3>2, Bounds DEF CallStates, Positions
      <4>2. QED BY <1>1, <1>3, <2>3, <3>1, <3>2, <4>1 DEF CallFits
    <3>3. CASE call[c].pc = "reply"
      <4>1. call[c].snapshot \in Snapshots BY <2>2, <3>3 DEF CallStates
      <4>2. QED BY <2>1, <2>3, <3>1, <3>3, <4>1 DEF CallFits, SnapshotFits
    <3>4. QED BY <2>3, <3>2, <3>3 DEF CallFits
  <2>4. CASE call'[c].pc \in {"free", "asked", "refused", "retry"}
    BY <2>4 DEF CallFits
  <2>5. CASE call'[c].pc = "reading" /\ call'[c].at = at
    BY <1>3, <2>5 DEF CallFits
  <2>6. CASE /\ call'[c].pc = "reply"
             /\ \E s \in Snapshots : SnapshotFits(s) /\ call'[c].snapshot = s
    BY <2>1, <2>6 DEF CallFits, SnapshotFits
  <2>7. QED BY <2>3, <2>4, <2>5, <2>6 DEF StepFits, CallStep
<1>7. GateFits(gate)'
  <2>1. PICK g \in Gates : GateFits(g) /\ gate' = g BY DEF StepFits, GateStep
  <2>2. g.matchSequence \in Nat BY Bounds DEF Gates
  <2>3. g.matchSequence # 0 => g.matchSequence \in 1..at.seq
    BY <1>1, <2>1, <2>2 DEF GateFits
  <2>4. QED BY <1>1, <1>3, <2>1, <2>2, <2>3 DEF GateFits
<1>8. QED BY <1>4, <1>5, <1>6, <1>7 DEF IInv, StepFits

-----------------------------------------------------------------------------
(* Pieces of steps *)

Reconnects ==
    [status : {"connected", "disconnected", "reconnecting"}, pending : BOOLEAN]

LEMMA SameServer == TypeOK /\ UNCHANGED server => Grows
<1> SUFFICES ASSUME TypeOK, UNCHANGED server PROVE Grows
  OBVIOUS
<1>1. now \in Nat /\ at.seq \in Nat BY Bounds DEF TypeOK, Positions
<1>2. QED BY <1>1 DEF server, Grows

LEMMA SameWire == UNCHANGED wire => WireStep
BY DEF WireStep

LEMMA EmptyWire == wire' = <<>> => wire' \in Seq(Packets) /\ WireStep
BY DEF WireStep

LEMMA SameCall == UNCHANGED call => CallStep
BY DEF CallStep

LEMMA SameGate == IInv /\ UNCHANGED gate => GateStep
BY DEF IInv, TypeOK, GateStep

(* The packet that was delivered is gone, the others are still under way.  *)
LEMMA TailFits ==
    ASSUME TypeOK, wire # <<>>, wire' = Tail(wire)
    PROVE  wire' \in Seq(Packets) /\ WireStep
<1>1. wire \in Seq(Packets) BY DEF TypeOK
<1>2. \A i \in DOMAIN wire' : i + 1 \in DOMAIN wire /\ wire'[i] = wire[i + 1]
  BY <1>1
<1>3. QED BY <1>1, <1>2 DEF WireStep

LEMMA AskedTypes ==
    ASSUME NEW n \in 1..MaxAttempts
    PROVE  Asked(n) \in CallStates /\ Asked(n).pc = "asked"
BY DEF Asked, CallStates

LEMMA FreeTypes == Free \in CallStates /\ Free.pc = "free"
BY DEF Free, CallStates

(* One call changes to something without content.                          *)
LEMMA CallBecomes ==
    ASSUME TypeOK, NEW c \in Calls, NEW state \in CallStates,
           call' = [call EXCEPT ![c] = state],
           state.pc \in {"free", "asked", "refused", "retry"}
    PROVE  call' \in [Calls -> CallStates] /\ CallStep
BY DEF TypeOK, CallStep

LEMMA ReconnectTypes ==
    ASSUME NEW state \in Reconnects, NEW event
    PROVE  ReconnectTransition(state, event) \in Reconnects
<1>1. /\ state.status \in {"connected", "disconnected", "reconnecting"}
      /\ state.pending \in BOOLEAN
      /\ state = [status |-> state.status, pending |-> state.pending]
  BY DEF Reconnects
<1>2. /\ [state EXCEPT !.status = "reconnecting"] \in Reconnects
      /\ [state EXCEPT !.pending = FALSE] \in Reconnects
  BY <1>1 DEF Reconnects
<1>3. /\ Disconnected \in Reconnects
      /\ [status |-> "connected", pending |-> TRUE] \in Reconnects
  BY DEF Disconnected, Reconnects
<1>4. QED BY <1>2, <1>3 DEF ReconnectTransition

(* The reconnect machine takes its step, and may open a call.              *)
LEMMA HandleStatusFits ==
    ASSUME TypeOK, NEW event, HandleStatus(event)
    PROVE  /\ reconnect' \in Reconnects
           /\ call' \in [Calls -> CallStates]
           /\ CallStep
<1> DEFINE state == ReconnectTransition(reconnect, event)
<1>1. reconnect \in Reconnects BY DEF TypeOK, Reconnects
<1>2. state \in Reconnects BY <1>1, ReconnectTypes
<1>3. CASE state.status = "connected" /\ state.pending
  <2>1. /\ reconnect' = ReconnectTransition(state, "SNAPSHOT_REQUEST_SENT")
        /\ \E c \in Calls : call' = [call EXCEPT ![c] = Asked(1)]
    BY <1>3 DEF HandleStatus
  <2>2. reconnect' \in Reconnects
    <3> HIDE DEF state
    <3>1. QED BY <1>2, <2>1, ReconnectTypes
  <2>3. PICK c \in Calls : call' = [call EXCEPT ![c] = Asked(1)] BY <2>1
  <2>4. Asked(1) \in CallStates /\ Asked(1).pc = "asked"
    BY AskedTypes DEF MaxAttempts
  <2>5. QED BY <2>2, <2>3, <2>4, CallBecomes
<1>4. CASE ~(state.status = "connected" /\ state.pending)
  <2>1. reconnect' = state /\ UNCHANGED call BY <1>4 DEF HandleStatus
  <2>2. QED BY <1>2, <2>1, SameCall DEF TypeOK
<1>5. QED BY <1>3, <1>4

(* What is published goes to the end of the wire, or nowhere.              *)
LEMMA PublishFits ==
    ASSUME TypeOK, NEW event \in EventNames, NEW id \in 0..MaxMatches,
           NEW position \in Positions, Publish(event, id, position),
           id \in {0, at'.seq}
    PROVE  wire' \in Seq(Packets) /\ WireStep
<1> DEFINE e == [kind |-> "event", event |-> event, matchId |-> id,
                 serverTime |-> now, at |-> position]
<1>1. e \in Packets BY DEF TypeOK, Packets
<1>2. wire \in Seq(Packets) BY DEF TypeOK
<1>3. CASE ~joined
  BY <1>2, <1>3, SameWire DEF Publish
<1>4. CASE joined
  <2>1. wire' = Append(wire, e) BY <1>4 DEF Publish
  <2>2. e.serverTime = now /\ e.matchId \in {0, at'.seq} OBVIOUS
  <2> HIDE DEF e
  <2>3. wire' \in Seq(Packets) BY <1>1, <1>2, <2>1
  <2>4. \A i \in DOMAIN wire' :
            (i \in DOMAIN wire /\ wire'[i] = wire[i]) \/ wire'[i] = e
    BY <1>1, <1>2, <2>1
  <2>5. QED BY <2>2, <2>3, <2>4 DEF WireStep
<1>5. QED BY <1>3, <1>4

-----------------------------------------------------------------------------
(* The actions *)

LEMMA ProgressFits == IInv /\ Progress => StepFits
<1> SUFFICES ASSUME IInv, Progress PROVE StepFits
  OBVIOUS
<1>1. TypeOK BY DEF IInv
<1>2. at \in Positions /\ at.seq \in 0..MaxMatches /\ at.step \in 0..MaxSteps
  BY <1>1 DEF TypeOK, Positions
<1>3. at' = [seq |-> at.seq, step |-> at.step + 1]
  BY <1>2 DEF Progress, Positions
<1>4. at' \in Positions /\ at'.seq = at.seq
  BY <1>2, <1>3, Bounds DEF Progress, Positions
<1>5. wire' \in Seq(Packets) /\ WireStep
  <2>1. {"room:lock-changed", "round:started", "game:started"} \subseteq EventNames
    BY DEF EventNames, MatchStartEvents
  <2>2. PICK event \in EventNames, id \in {0, at.seq} : Publish(event, id, at')
    BY <2>1 DEF Progress
  <2>3. id \in 0..MaxMatches /\ id \in {0, at'.seq} BY <1>2, <1>4, Bounds
  <2>4. QED BY <1>1, <1>4, <2>2, <2>3, PublishFits
<1>6. Grows
  <2>1. now \in Nat /\ at.seq \in Nat BY <1>1, <1>2, Bounds DEF TypeOK
  <2>2. QED BY <1>4, <2>1 DEF Progress, Grows
<1>7. TypeOK'
  BY <1>1, <1>4, <1>5 DEF Progress, TypeOK, client, counts
<1>8. QED BY <1>5, <1>6, <1>7, SameCall, SameGate
          DEF Progress, StepFits, client

LEMMA NewMatchFits == IInv /\ NewMatch => StepFits
<1> SUFFICES ASSUME IInv, NewMatch PROVE StepFits
  OBVIOUS
<1>1. TypeOK BY DEF IInv
<1>2. at \in Positions /\ at.seq \in 0..MaxMatches BY <1>1 DEF TypeOK, Positions
<1>3. at' \in Positions /\ at'.seq = at.seq + 1 /\ at'.seq \in 0..MaxMatches
  BY <1>2, Bounds DEF NewMatch, Positions
<1>4. wire' \in Seq(Packets) /\ WireStep
  <2> DEFINE event == IF at.seq = 0 THEN "game:started" ELSE "game:rematch-started"
  <2>1. event \in EventNames BY DEF EventNames, MatchStartEvents
  <2>2. Publish(event, at'.seq, at') BY <1>3 DEF NewMatch
  <2> HIDE DEF event
  <2>3. QED BY <1>1, <1>3, <2>1, <2>2, PublishFits
<1>5. /\ began \in Seq(0..MaxTime) /\ Len(began) = at.seq
      /\ now \in 0..MaxTime /\ began' = Append(began, now)
  BY <1>1 DEF NewMatch, TypeOK
<1>6. /\ began' \in Seq(0..MaxTime) /\ Len(began') = at'.seq
      /\ \A q \in 1..at.seq : began'[q] = began[q]
      /\ began'[at.seq + 1] = now
  BY <1>2, <1>3, <1>5, Bounds
<1>7. Grows
  <2>1. now \in Nat /\ at.seq \in Nat BY <1>2, <1>5, Bounds
  <2>2. QED BY <1>3, <1>6, <2>1 DEF NewMatch, Grows
<1>8. TypeOK'
  BY <1>1, <1>3, <1>4, <1>6 DEF NewMatch, TypeOK, client, counts
<1>9. QED BY <1>4, <1>7, <1>8, SameCall, SameGate
          DEF NewMatch, StepFits, client

LEMMA KickFits == IInv /\ Kick => StepFits
<1> SUFFICES ASSUME IInv, Kick PROVE StepFits
  OBVIOUS
<1>1. TypeOK BY DEF IInv
<1> DEFINE e == [kind |-> "event", event |-> "session:kicked", matchId |-> 0,
                 serverTime |-> now, at |-> at]
           end == [kind |-> "close"]
<1>2. e \in Packets /\ end \in Packets
  BY <1>1, Bounds DEF TypeOK, Packets, EventNames
<1>3. wire' \in Seq(Packets) /\ WireStep
  <2>1. wire \in Seq(Packets) BY <1>1 DEF TypeOK
  <2>2. CASE ~joined BY <2>1, <2>2, SameWire DEF Kick
  <2>3. CASE joined
    <3>1. wire' = wire \o <<e, end>> BY <2>3 DEF Kick
    <3>2. e.serverTime = now /\ e.matchId = 0 /\ end.kind # "event"
      OBVIOUS
    <3> HIDE DEF e, end
    <3>3. wire' \in Seq(Packets) BY <1>2, <2>1, <3>1
    <3>4. \A i \in DOMAIN wire' :
              (i \in DOMAIN wire /\ wire'[i] = wire[i]) \/ wire'[i] \in {e, end}
      BY <1>2, <2>1, <3>1
    <3>5. QED BY <3>2, <3>3, <3>4 DEF WireStep
  <2>4. QED BY <2>2, <2>3
<1>4. Grows
  <2>1. now \in Nat /\ at.seq \in Nat BY <1>1, Bounds DEF TypeOK, Positions
  <2>2. QED BY <2>1 DEF Kick, Grows
<1>5. TypeOK'
  BY <1>1, <1>3 DEF Kick, TypeOK, client, counts
<1>6. QED BY <1>3, <1>4, <1>5, SameCall, SameGate DEF Kick, StepFits, client

LEMMA TickFits == IInv /\ Tick => StepFits
<1> SUFFICES ASSUME IInv, Tick PROVE StepFits
  OBVIOUS
<1>1. TypeOK BY DEF IInv
<1>2. now \in Nat /\ at.seq \in Nat /\ now' = now + 1 /\ now' \in 0..MaxTime
  BY <1>1, Bounds DEF Tick, TypeOK, Positions
<1>3. Grows BY <1>2 DEF Tick, Grows
<1>4. TypeOK' BY <1>1, <1>2 DEF Tick, TypeOK, client, counts
<1>5. QED BY <1>3, <1>4, SameWire, SameCall, SameGate DEF Tick, StepFits, client

LEMMA AcceptFits == IInv /\ Accept => StepFits
<1> SUFFICES ASSUME IInv, Accept PROVE StepFits
  OBVIOUS
<1>1. TypeOK BY DEF IInv
<1> DEFINE e == [kind |-> IF revoked THEN "refused" ELSE "connected"]
<1>2. wire' = <<e>> /\ e.kind # "event" /\ e \in Packets
  BY DEF Accept, Packets
<1> HIDE DEF e
<1>3. wire' \in Seq(Packets) /\ WireStep BY <1>2 DEF WireStep
<1>4. owed' \in 0..MaxTime BY <1>1 DEF Accept, TypeOK
<1>5. joined' \in BOOLEAN BY <1>1 DEF Accept, TypeOK
<1>6. TypeOK'
  BY <1>1, <1>3, <1>4, <1>5 DEF Accept, TypeOK, server, client, counts
<1>7. QED BY <1>1, <1>3, <1>6, SameServer, SameCall, SameGate
          DEF Accept, StepFits, client

LEMMA HandleDropFits ==
    ASSUME IInv, NEW terminal \in BOOLEAN, HandleDrop(terminal),
           UNCHANGED server, UNCHANGED owed,
           drops' \in 0..MaxDrops, losses' \in 0..MaxLosses
    PROVE  StepFits
<1>1. TypeOK BY DEF IInv
<1>2. wire' \in Seq(Packets) /\ WireStep BY EmptyWire DEF HandleDrop
<1>3. reconnect' \in Reconnects /\ call' \in [Calls -> CallStates] /\ CallStep
  BY <1>1, HandleStatusFits DEF HandleDrop
<1>4. TypeOK'
  BY <1>1, <1>2, <1>3 DEF HandleDrop, TypeOK, Reconnects, server, client
<1>5. QED BY <1>1, <1>2, <1>3, <1>4, SameServer, SameGate
          DEF HandleDrop, StepFits, client

LEMMA DeliverFits == IInv /\ Deliver => StepFits
<1> SUFFICES ASSUME IInv, Deliver PROVE StepFits
  OBVIOUS
<1>1. TypeOK BY DEF IInv
<1>2. wire # <<>> /\ UNCHANGED server /\ UNCHANGED <<owed, counts>>
  BY DEF Deliver
<1>3. wire \in Seq(Packets) /\ Head(wire) \in Packets /\ Head(wire) = wire[1]
      /\ 1 \in DOMAIN wire
  BY <1>1, <1>2 DEF TypeOK
<1>4. drops' \in 0..MaxDrops /\ losses' \in 0..MaxLosses
  BY <1>1, <1>2 DEF TypeOK, counts
<1>5. CASE Head(wire).kind = "connected"
  <2>1. Connected BY <1>5 DEF Deliver
  <2>2. wire' \in Seq(Packets) /\ WireStep
    BY <1>1, <1>2, <2>1, TailFits DEF Connected
  <2>3. reconnect' \in Reconnects /\ call' \in [Calls -> CallStates] /\ CallStep
    BY <1>1, <2>1, HandleStatusFits DEF Connected
  <2>4. TypeOK'
    BY <1>1, <1>2, <2>1, <2>2, <2>3
    DEF Connected, TypeOK, Reconnects, server, client, counts
  <2>5. QED BY <1>1, <1>2, <2>1, <2>2, <2>3, <2>4, SameServer, SameGate
            DEF Connected, StepFits, client
<1>6. CASE Head(wire).kind = "refused"
  BY <1>2, <1>4, <1>6, HandleDropFits DEF Deliver, Refused
<1>7. CASE Head(wire).kind = "close"
  BY <1>2, <1>4, <1>7, HandleDropFits DEF Deliver
<1>8. CASE Head(wire).kind = "event"
  <2> DEFINE e == Head(wire)
  <2>1. DeliverEvent(e) BY <1>8 DEF Deliver
  <2>2. e \in Events BY <1>3, <1>8 DEF Packets, Events
  <2>3. EventFits(e) BY <1>3, <1>8 DEF IInv, WireFits
  <2>4. e.at \in Positions BY <2>2 DEF Events
  <2> HIDE DEF e
  <2>5. gate' \in Gates /\ GateStep
    BY <2>1, <2>2, <2>3, EventKeepsGate DEF DeliverEvent, GateStep
  <2>6. CASE AcceptsEvent(gate, e) /\ e.event = "session:kicked"
    <3>1. Terminate /\ UNCHANGED <<applied, screen>>
      BY <2>1, <2>6 DEF DeliverEvent
    <3>2. wire' \in Seq(Packets) /\ WireStep BY <3>1, EmptyWire DEF Terminate
    <3>3. reconnect' \in Reconnects /\ call' \in [Calls -> CallStates] /\ CallStep
      BY <1>1, <3>1, HandleStatusFits DEF Terminate
    <3>4. TypeOK'
      BY <1>1, <1>2, <2>5, <3>1, <3>2, <3>3
      DEF Terminate, TypeOK, Reconnects, server, counts
    <3>5. QED BY <1>1, <1>2, <2>5, <3>2, <3>3, <3>4, SameServer DEF StepFits
  <2>7. CASE ~(AcceptsEvent(gate, e) /\ e.event = "session:kicked")
    <3>1. /\ wire' = Tail(wire)
          /\ UNCHANGED <<joined, link, reconnect, call, terminated>>
          /\ applied' \in {applied, e.at} /\ screen' \in {screen, e.at}
      BY <2>1, <2>7 DEF DeliverEvent
    <3>2. wire' \in Seq(Packets) /\ WireStep BY <1>1, <1>2, <3>1, TailFits
    <3>3. applied' \in Positions /\ screen' \in Positions
      BY <1>1, <2>4, <3>1 DEF TypeOK
    <3>4. TypeOK'
      BY <1>1, <1>2, <2>5, <3>1, <3>2, <3>3 DEF TypeOK, server, counts
    <3>5. QED BY <1>1, <1>2, <2>5, <3>1, <3>2, <3>4, SameServer, SameCall
              DEF StepFits
  <2>8. QED BY <2>6, <2>7
<1>9. QED BY <1>3, <1>5, <1>6, <1>7, <1>8 DEF Packets

LEMMA DropFits == IInv /\ Drop => StepFits
<1> SUFFICES ASSUME IInv, Drop PROVE StepFits
  OBVIOUS
<1>1. drops' \in 0..MaxDrops /\ losses' \in 0..MaxLosses
  BY Bounds DEF IInv, TypeOK, Drop
<1>2. QED BY <1>1, HandleDropFits DEF Drop

LEMMA RetryConnectFits == IInv /\ RetryConnect => StepFits
<1> SUFFICES ASSUME IInv, RetryConnect PROVE StepFits
  OBVIOUS
<1>1. TypeOK BY DEF IInv
<1>2. reconnect' \in Reconnects /\ call' \in [Calls -> CallStates] /\ CallStep
  BY <1>1, HandleStatusFits DEF RetryConnect
<1>3. now' \in 0..MaxTime /\ now <= now'
  BY <1>1, Bounds DEF RetryConnect, TypeOK
<1>4. Grows
  <2>1. at.seq \in Nat BY <1>1, Bounds DEF TypeOK, Positions
  <2>2. QED BY <1>3, <2>1 DEF RetryConnect, Grows
<1>5. TypeOK'
  BY <1>1, <1>2, <1>3 DEF RetryConnect, TypeOK, Reconnects, client, counts
<1>6. QED BY <1>2, <1>4, <1>5, SameWire, SameGate
          DEF RetryConnect, StepFits, client

LEMMA ServeReadFits == ASSUME NEW c \in Calls, IInv, ServeRead(c) PROVE StepFits
<1>1. TypeOK BY DEF IInv
<1>2. call[c] \in CallStates /\ call[c].pc = "asked"
  BY <1>1 DEF ServeRead, TypeOK
<1>3. call[c] \in [pc : {"asked", "refused", "retry"}, attempt : 1..MaxAttempts]
  BY <1>2 DEF CallStates
<1> DEFINE state == IF revoked THEN [call[c] EXCEPT !.pc = "refused"]
                    ELSE [pc |-> "reading", attempt |-> call[c].attempt, at |-> at]
<1>4. call' = [call EXCEPT ![c] = state] BY DEF ServeRead
<1>5. /\ state \in CallStates
      /\ state.pc = "refused" \/ (state.pc = "reading" /\ state.at = at)
  BY <1>1, <1>3 DEF TypeOK, CallStates
<1> HIDE DEF state
<1>6. call' \in [Calls -> CallStates] /\ CallStep
  BY <1>1, <1>4, <1>5 DEF TypeOK, CallStep
<1>7. TypeOK' BY <1>1, <1>6 DEF ServeRead, TypeOK, server, client, counts
<1>8. QED BY <1>1, <1>6, <1>7, SameServer, SameWire, SameGate
          DEF ServeRead, StepFits, client

LEMMA ServeReplyFits == ASSUME NEW c \in Calls, IInv, ServeReply(c) PROVE StepFits
<1>1. TypeOK BY DEF IInv
<1>2. call[c] \in CallStates /\ call[c].pc = "reading"
  BY <1>1 DEF ServeReply, TypeOK
<1>3. call[c].attempt \in 1..MaxAttempts /\ call[c].at \in Positions
  BY <1>2 DEF CallStates
<1> DEFINE s == Snapshot(call[c].at, now)
           state == [pc |-> "reply", attempt |-> call[c].attempt, snapshot |-> s]
<1>4. call' = [call EXCEPT ![c] = state] BY DEF ServeReply
<1>5. s \in Snapshots BY <1>1, <1>3 DEF TypeOK, Snapshot, Snapshots, Positions
<1>6. SnapshotFits(s)
  <2>1. call[c].at.seq <= at.seq BY <1>2 DEF IInv, CallsFit, CallFits
  <2>2. call[c].at.seq # 0 => call[c].at.seq \in 1..at.seq
    BY <1>1, <1>3, <2>1, Bounds DEF TypeOK, Positions
  <2>3. QED BY <2>1, <2>2 DEF IInv, BeganFits, Snapshot, SnapshotFits
<1> HIDE DEF s
<1>7. state \in CallStates /\ state.pc = "reply" /\ state.snapshot = s
  BY <1>3, <1>5 DEF CallStates
<1> HIDE DEF state
<1>8. call' \in [Calls -> CallStates] /\ CallStep
  BY <1>1, <1>4, <1>5, <1>6, <1>7 DEF TypeOK, CallStep
<1>9. TypeOK' BY <1>1, <1>8 DEF ServeReply, TypeOK, server, client, counts
<1>10. QED BY <1>1, <1>8, <1>9, SameServer, SameWire, SameGate
           DEF ServeReply, StepFits, client

LEMMA ReceiveFits == ASSUME NEW c \in Calls, IInv, Receive(c) PROVE StepFits
<1>1. TypeOK BY DEF IInv
<1> DEFINE s == call[c].snapshot
<1>2. call[c] \in CallStates /\ call[c].pc = "reply" BY <1>1 DEF Receive, TypeOK
<1>3. s \in Snapshots /\ SnapshotFits(s)
  BY <1>2 DEF CallStates, IInv, CallsFit, CallFits
<1>4. /\ gate' = RegisterSnapshot(gate, s)
      /\ applied' \in {applied, s.at} /\ screen' \in {screen, s.at}
  BY DEF Receive
<1>5. s.at \in Positions BY <1>3 DEF Snapshots
<1> HIDE DEF s
<1>6. gate' \in Gates /\ GateStep
  BY <1>3, <1>4, SnapshotKeepsGate DEF GateStep
<1>7. call' \in [Calls -> CallStates] /\ CallStep
  BY <1>1, FreeTypes, CallBecomes DEF Receive
<1>8. applied' \in Positions /\ screen' \in Positions BY <1>1, <1>4, <1>5 DEF TypeOK
<1>9. TypeOK'
  BY <1>1, <1>6, <1>7, <1>8 DEF Receive, TypeOK, server, counts
<1>10. QED BY <1>1, <1>6, <1>7, <1>9, SameServer, SameWire DEF Receive, StepFits

LEMMA ReceiveRefusalFits ==
    ASSUME NEW c \in Calls, IInv, ReceiveRefusal(c) PROVE StepFits
<1>1. TypeOK BY DEF IInv
<1>2. wire' \in Seq(Packets) /\ WireStep BY EmptyWire DEF ReceiveRefusal
<1>3. call' \in [Calls -> CallStates] /\ CallStep
  BY <1>1, FreeTypes, CallBecomes DEF ReceiveRefusal
<1>4. reconnect' \in Reconnects
  BY <1>1, ReconnectTypes DEF ReceiveRefusal, TypeOK, Reconnects
<1>5. TypeOK'
  BY <1>1, <1>2, <1>3, <1>4
  DEF ReceiveRefusal, TypeOK, Reconnects, server, client, counts
<1>6. QED BY <1>1, <1>2, <1>3, <1>5, SameServer, SameGate
          DEF ReceiveRefusal, StepFits, client

LEMMA LoseCallFits == ASSUME NEW c \in Calls, IInv, LoseCall(c) PROVE StepFits
<1>1. TypeOK BY DEF IInv
<1> DEFINE state == IF terminated \/ call[c].attempt = MaxAttempts THEN Free
                    ELSE [pc |-> "retry", attempt |-> call[c].attempt + 1]
<1>2. call' = [call EXCEPT ![c] = state] BY DEF LoseCall
<1>3. call[c] \in CallStates
      /\ call[c].pc \in {"asked", "reading", "reply", "refused"}
  BY <1>1 DEF LoseCall, TypeOK
<1>4. call[c].attempt \in 1..MaxAttempts BY <1>3 DEF CallStates
<1>5. state \in CallStates /\ state.pc \in {"free", "retry"}
  <2>1. CASE terminated \/ call[c].attempt = MaxAttempts
    BY <2>1, FreeTypes
  <2>2. CASE ~(terminated \/ call[c].attempt = MaxAttempts)
    <3>1. call[c].attempt + 1 \in 1..MaxAttempts BY <1>4, <2>2 DEF MaxAttempts
    <3>2. QED BY <2>2, <3>1 DEF CallStates
  <2>3. QED BY <2>1, <2>2
<1> HIDE DEF state
<1>6. call' \in [Calls -> CallStates] /\ CallStep
  BY <1>1, <1>2, <1>5, CallBecomes
<1>7. TypeOK'
  BY <1>1, <1>6, Bounds DEF LoseCall, TypeOK, server, client
<1>8. QED BY <1>1, <1>6, <1>7, SameServer, SameWire, SameGate
          DEF LoseCall, StepFits, client

LEMMA RetryCallFits == ASSUME NEW c \in Calls, IInv, RetryCall(c) PROVE StepFits
<1>1. TypeOK BY DEF IInv
<1> DEFINE state == IF terminated THEN Free ELSE Asked(call[c].attempt)
<1>2. call' = [call EXCEPT ![c] = state] BY DEF RetryCall
<1>3. call[c] \in CallStates /\ call[c].pc = "retry"
  BY <1>1 DEF RetryCall, TypeOK
<1>4. call[c].attempt \in 1..MaxAttempts BY <1>3 DEF CallStates
<1>5. state \in CallStates /\ state.pc \in {"free", "asked"}
  BY <1>4, FreeTypes, AskedTypes
<1> HIDE DEF state
<1>6. call' \in [Calls -> CallStates] /\ CallStep
  BY <1>1, <1>2, <1>5, CallBecomes
<1>7. TypeOK' BY <1>1, <1>6 DEF RetryCall, TypeOK, server, client, counts
<1>8. QED BY <1>1, <1>6, <1>7, SameServer, SameWire, SameGate
          DEF RetryCall, StepFits, client

-----------------------------------------------------------------------------
(* The invariant *)

LEMMA InitFits == Init => IInv
<1> SUFFICES ASSUME Init PROVE IInv
  OBVIOUS
<1>1. at \in Positions /\ at.seq = 0 /\ now = 0 /\ began = <<>> /\ wire = <<>>
  BY Bounds, StepsAssumption DEF Init, Positions
<1>2. Blank \in Positions BY Bounds DEF Blank, Positions
<1>3. gate \in Gates /\ GateFits(gate) /\ applied \in Positions
  <2>1. EmptyGate \in Gates /\ GateFits(EmptyGate)
    BY <1>1, Bounds DEF EmptyGate, Gates, GateFits
  <2>2. CASE gate = EmptyGate /\ applied = Blank BY <1>2, <2>1, <2>2
  <2>3. CASE gate = RegisterSnapshot(EmptyGate, Snapshot(at, now)) /\ applied = at
    <3>1. gate = [matchId |-> 0, matchSequence |-> 0, time |-> 0,
                  from |-> "snapshot", known |-> {}]
      BY <1>1, <2>3 DEF RegisterSnapshot, ShouldApplySnapshot, AtSnapshot,
                        Snapshot, EmptyGate
    <3>2. QED BY <1>1, <2>3, <3>1, Bounds DEF Gates, GateFits
  <2>4. QED BY <2>2, <2>3 DEF Init
<1>4. /\ call \in [Calls -> CallStates]
      /\ \A c \in Calls : call[c].pc \in {"free", "asked"}
  <2>1. Asked(1) \in CallStates /\ Asked(1).pc = "asked"
    BY AskedTypes DEF MaxAttempts
  <2>2. QED BY <2>1, FreeTypes DEF Init
<1>5. began \in Seq(0..MaxTime) /\ Len(began) = 0 /\ wire \in Seq(Packets)
  BY <1>1
<1>6. TypeOK
  <2>1. now \in 0..MaxTime /\ Len(began) = at.seq
    BY <1>1, <1>5, Bounds
  <2>2. revoked \in BOOLEAN /\ joined \in BOOLEAN /\ terminated \in BOOLEAN
    BY DEF Init
  <2>3. link \in {"connecting", "open", "waiting", "stopped"}
    BY DEF Init
  <2>4. reconnect \in [status : {"connected", "disconnected", "reconnecting"},
                       pending : BOOLEAN]
    BY DEF Init
  <2>5. {applied, screen} \subseteq Positions
    BY <1>2, <1>3 DEF Init
  <2>6. owed \in 0..MaxTime /\ drops \in 0..MaxDrops /\ losses \in 0..MaxLosses
    BY Bounds DEF Init
  <2>7. QED
    BY <1>1, <1>3, <1>4, <1>5, <2>1, <2>2, <2>3, <2>4, <2>5, <2>6 DEF TypeOK
<1>7. BeganFits /\ WireFits /\ CallsFit
  BY <1>1, <1>4 DEF BeganFits, WireFits, CallsFit, CallFits
<1>8. QED BY <1>3, <1>6, <1>7 DEF IInv

LEMMA NextFits == IInv /\ [Next]_vars => IInv'
<1> SUFFICES ASSUME IInv, [Next]_vars PROVE IInv'
  OBVIOUS
<1>1. CASE ServerStep
  BY <1>1, ProgressFits, NewMatchFits, KickFits, TickFits, StepKeepsInvariant
  DEF ServerStep
<1>2. CASE Connection
  BY <1>2, AcceptFits, DeliverFits, RetryConnectFits, StepKeepsInvariant
  DEF Connection
<1>3. CASE Drop BY <1>3, DropFits, StepKeepsInvariant
<1>4. ASSUME NEW c \in Calls, Call(c) \/ LoseCall(c) PROVE IInv'
  BY <1>4, ServeReadFits, ServeReplyFits, ReceiveFits, ReceiveRefusalFits,
     LoseCallFits, RetryCallFits, StepKeepsInvariant
  DEF Call
<1>5. CASE UNCHANGED vars
  BY <1>5 DEF vars, server, client, counts, IInv, TypeOK, BeganFits, WireFits,
              CallsFit, CallFits, EventFits, SnapshotFits, GateFits
<1>6. QED BY <1>1, <1>2, <1>3, <1>4, <1>5 DEF Next

-----------------------------------------------------------------------------
(* The order of what is told, for snapshots that are not torn              *)

(* Someone says that at time t the room had come to position p: an event   *)
(* under way, an answer under way, or the gate about what it applied.      *)
WireTells(t, p) ==
    \E i \in DOMAIN wire :
        wire[i].kind = "event" /\ wire[i].serverTime = t /\ wire[i].at = p
CallTells(t, p) ==
    \E c \in Calls :
        /\ call[c].pc = "reply"
        /\ call[c].snapshot.serverTime = t /\ call[c].snapshot.at = p
GateTells(t, p) == gate.from # "nothing" /\ gate.time = t /\ applied = p
Tells(t, p) == WireTells(t, p) \/ CallTells(t, p) \/ GateTells(t, p)

Times == 0..MaxTime

(* Nobody speaks of the future, and who speaks later knows no less.        *)
PastOnly ==
    \A t \in Times, p \in Positions : Tells(t, p) => t <= now /\ NotBefore(at, p)
LaterKnowsMore ==
    \A t, u \in Times, p, q \in Positions :
        Tells(t, p) /\ Tells(u, q) /\ t < u => NotBefore(q, p)

(* A snapshot is whole: what was read of the room is still so when the     *)
(* clock is looked at.                                                     *)
Whole ==
    \A c \in Calls :
        /\ call[c].pc = "reading" => call[c].at = at
        /\ call[c].pc = "reply" =>
              call[c].snapshot.matchSequence = call[c].snapshot.at.seq

OrderInv == PastOnly /\ LaterKnowsMore /\ Whole

(* What a step adds to that: at most the state the room is in after it.    *)
WireAdds ==
    \A i \in DOMAIN wire' : wire'[i].kind = "event" =>
        \/ \E j \in DOMAIN wire : wire'[i] = wire[j]
        \/ wire'[i].serverTime = now /\ wire'[i].at = at'

CallAdds ==
    \A c \in Calls :
        \/ call'[c] = call[c] /\ (at' = at \/ call[c].pc # "reading")
        \/ call'[c].pc \in {"free", "asked", "refused", "retry"}
        \/ call'[c].pc = "reading" /\ call'[c].at = at /\ at' = at
        \/ call'[c].pc = "reply" /\ call'[c].snapshot = Snapshot(at, now) /\ at' = at

GateAdds ==
    \/ UNCHANGED <<gate, applied>>
    \/ gate'.from = "nothing"
    \/ Tells(gate'.time, applied')

OrderStep == now <= now' /\ NotBefore(at', at) /\ WireAdds /\ CallAdds /\ GateAdds

LEMMA NotBeforeIsOrder ==
    ASSUME NEW p \in Positions, NEW q \in Positions, NEW r \in Positions
    PROVE  NotBefore(p, p) /\ (NotBefore(p, q) /\ NotBefore(q, r) => NotBefore(p, r))
<1>1. /\ p.seq \in Nat /\ q.seq \in Nat /\ r.seq \in Nat
      /\ p.step \in Nat /\ q.step \in Nat /\ r.step \in Nat
  BY Bounds DEF Positions
<1>2. QED BY <1>1 DEF NotBefore

(* Only the state after the step is new.                                   *)
LEMMA NewlyTold ==
    ASSUME TypeOK, TypeOK', OrderStep, NEW t, NEW p, Tells(t, p)'
    PROVE  Tells(t, p) \/ (t = now /\ p = at')
<1>1. CASE WireTells(t, p)'
  <2>1. PICK i \in DOMAIN wire' :
          wire'[i].kind = "event" /\ wire'[i].serverTime = t /\ wire'[i].at = p
    BY <1>1 DEF WireTells
  <2>2. QED BY <2>1 DEF OrderStep, WireAdds, Tells, WireTells
<1>2. CASE CallTells(t, p)'
  <2>1. PICK c \in Calls :
          /\ call'[c].pc = "reply"
          /\ call'[c].snapshot.serverTime = t /\ call'[c].snapshot.at = p
    BY <1>2 DEF CallTells
  <2>2. CASE call'[c] = call[c] BY <2>1, <2>2 DEF Tells, CallTells
  <2>3. CASE call'[c].snapshot = Snapshot(at, now) /\ at' = at
    BY <2>1, <2>3 DEF Snapshot
  <2>4. QED BY <2>1, <2>2, <2>3 DEF OrderStep, CallAdds
<1>3. CASE GateTells(t, p)'
  BY <1>3 DEF OrderStep, GateAdds, Tells, GateTells
<1>4. QED BY <1>1, <1>2, <1>3 DEF Tells

(* Such a step keeps the order.                                            *)
LEMMA StepKeepsOrder ==
    ASSUME TypeOK, TypeOK', OrderInv, OrderStep
    PROVE  OrderInv'
<1>1. /\ now \in Times /\ now' \in Times /\ at \in Positions /\ at' \in Positions
      /\ now <= now' /\ NotBefore(at', at)
  BY DEF TypeOK, Times, OrderStep
<1>2. Times \subseteq Nat BY Bounds DEF Times
<1>3. ASSUME NEW t \in Times, NEW p \in Positions, Tells(t, p)
      PROVE  t <= now' /\ NotBefore(at', p)
  <2>1. t <= now /\ NotBefore(at, p) BY <1>3 DEF OrderInv, PastOnly
  <2>2. QED BY <1>1, <1>2, <2>1, NotBeforeIsOrder
<1>4. PastOnly'
  <2> SUFFICES ASSUME NEW t \in Times, NEW p \in Positions, Tells(t, p)'
               PROVE  t <= now' /\ NotBefore(at', p)
    BY DEF PastOnly, Times, Positions
  <2>1. CASE Tells(t, p) BY <1>3, <2>1
  <2>2. CASE t = now /\ p = at' BY <1>1, <2>2, NotBeforeIsOrder
  <2>3. QED BY <2>1, <2>2, NewlyTold
<1>5. LaterKnowsMore'
  <2> SUFFICES ASSUME NEW t \in Times, NEW u \in Times,
                      NEW p \in Positions, NEW q \in Positions,
                      Tells(t, p)', Tells(u, q)', t < u
               PROVE  NotBefore(q, p)
    BY DEF LaterKnowsMore, Times, Positions, NotBefore
  <2>1. Tells(t, p) \/ (t = now /\ p = at') BY NewlyTold
  <2>2. Tells(u, q) \/ (u = now /\ q = at') BY NewlyTold
  <2>3. CASE Tells(t, p) /\ Tells(u, q)
    BY <2>3 DEF OrderInv, LaterKnowsMore
  <2>4. CASE Tells(t, p) /\ u = now /\ q = at' BY <1>3, <2>4
  <2>5. CASE t = now /\ Tells(u, q)
    <3>1. u <= now BY <2>5 DEF OrderInv, PastOnly
    <3>2. QED BY <1>1, <1>2, <2>5, <3>1
  <2>6. CASE t = now /\ u = now BY <1>1, <1>2, <2>6
  <2>7. QED BY <2>1, <2>2, <2>3, <2>4, <2>5, <2>6
<1>6. Whole'
  <2> SUFFICES ASSUME NEW c \in Calls
               PROVE  /\ call'[c].pc = "reading" => call'[c].at = at'
                      /\ call'[c].pc = "reply" =>
                            call'[c].snapshot.matchSequence = call'[c].snapshot.at.seq
    BY DEF Whole
  <2>1. CASE call'[c] = call[c] /\ (at' = at \/ call[c].pc # "reading")
    BY <2>1 DEF OrderInv, Whole
  <2>2. CASE call'[c].pc \in {"free", "asked", "refused", "retry"} BY <2>2
  <2>3. CASE call'[c].pc = "reading" /\ call'[c].at = at /\ at' = at BY <2>3
  <2>4. CASE call'[c].pc = "reply" /\ call'[c].snapshot = Snapshot(at, now) /\ at' = at
    BY <2>4 DEF Snapshot
  <2>5. QED BY <2>1, <2>2, <2>3, <2>4 DEF OrderStep, CallAdds
<1>7. QED BY <1>4, <1>5, <1>6 DEF OrderInv

(* Pieces of steps, as before.                                             *)
LEMMA StillNow ==
    ASSUME TypeOK, UNCHANGED <<now, at>>
    PROVE  now <= now' /\ NotBefore(at', at)
<1>1. now \in Nat /\ at \in Positions BY Bounds DEF TypeOK
<1>2. QED BY <1>1, NotBeforeIsOrder

LEMMA TailAdds == ASSUME TypeOK, wire # <<>>, wire' = Tail(wire) PROVE WireAdds
<1>1. wire \in Seq(Packets) BY DEF TypeOK
<1>2. \A i \in DOMAIN wire' : i + 1 \in DOMAIN wire /\ wire'[i] = wire[i + 1]
  BY <1>1
<1>3. QED BY <1>2 DEF WireAdds

LEMMA CallBecomesAdds ==
    ASSUME TypeOK, NEW c \in Calls, NEW state, UNCHANGED at,
           call' = [call EXCEPT ![c] = state],
           state.pc \in {"free", "asked", "refused", "retry"}
    PROVE  CallAdds
BY DEF TypeOK, CallAdds

LEMMA HandleStatusAdds ==
    ASSUME TypeOK, UNCHANGED at, NEW event, HandleStatus(event)
    PROVE  CallAdds
<1>1. CASE UNCHANGED call BY <1>1 DEF CallAdds
<1>2. CASE \E c \in Calls : call' = [call EXCEPT ![c] = Asked(1)]
  <2>1. PICK c \in Calls : call' = [call EXCEPT ![c] = Asked(1)] BY <1>2
  <2>2. Asked(1).pc = "asked" BY AskedTypes DEF MaxAttempts
  <2>3. QED BY <2>1, <2>2, CallBecomesAdds
<1>3. QED BY <1>1, <1>2 DEF HandleStatus

LEMMA PublishAdds ==
    ASSUME TypeOK, NEW event, NEW id, Publish(event, id, at')
    PROVE  WireAdds
<1> DEFINE e == [kind |-> "event", event |-> event, matchId |-> id,
                 serverTime |-> now, at |-> at']
<1>1. wire \in Seq(Packets) BY DEF TypeOK
<1>2. CASE ~joined BY <1>2 DEF Publish, WireAdds
<1>3. CASE joined
  <2>1. wire' = Append(wire, e) BY <1>3 DEF Publish
  <2>2. e.serverTime = now /\ e.at = at' OBVIOUS
  <2> HIDE DEF e
  <2>3. \A i \in DOMAIN wire' : (i \in DOMAIN wire /\ wire'[i] = wire[i]) \/ wire'[i] = e
    BY <1>1, <2>1
  <2>4. QED BY <2>2, <2>3 DEF WireAdds
<1>4. QED BY <1>2, <1>3

LEMMA HandleDropAdds ==
    ASSUME TypeOK, UNCHANGED at, NEW terminal, HandleDrop(terminal)
    PROVE  WireAdds /\ CallAdds /\ GateAdds
<1>1. WireAdds BY DEF HandleDrop, WireAdds
<1>2. CallAdds BY HandleStatusAdds DEF HandleDrop
<1>3. GateAdds BY DEF HandleDrop, client, GateAdds
<1>4. QED BY <1>1, <1>2, <1>3

(* The actions: while a snapshot is read the room stands still.            *)
LEMMA ServerAdds ==
    ASSUME TypeOK, Interleaved = FALSE, ServerStep
    PROVE  OrderStep
<1>1. /\ now \in Nat /\ at \in Positions /\ at.seq \in Nat /\ at.step \in Nat
      /\ at = [seq |-> at.seq, step |-> at.step]
  BY Bounds DEF TypeOK, Positions
<1>2. ASSUME MayChange, UNCHANGED <<now, call, client>>, NotBefore(at', at), WireAdds
      PROVE  OrderStep
  <2>1. CallAdds BY <1>2 DEF MayChange, CallAdds
  <2>2. QED BY <1>1, <1>2, <2>1 DEF client, GateAdds, OrderStep
<1>3. CASE Progress
  <2>1. NotBefore(at', at) BY <1>1, <1>3 DEF Progress, NotBefore
  <2>2. WireAdds BY <1>3, PublishAdds DEF Progress
  <2>3. QED BY <1>2, <1>3, <2>1, <2>2 DEF Progress
<1>4. CASE NewMatch
  <2>1. NotBefore(at', at) BY <1>1, <1>4 DEF NewMatch, NotBefore
  <2>2. WireAdds BY <1>4, PublishAdds DEF NewMatch
  <2>3. QED BY <1>2, <1>4, <2>1, <2>2 DEF NewMatch
<1>5. CASE Kick
  <2>1. NotBefore(at', at) BY <1>1, <1>5, NotBeforeIsOrder DEF Kick
  <2>2. WireAdds
    <3> DEFINE e == [kind |-> "event", event |-> "session:kicked",
                     matchId |-> 0, serverTime |-> now, at |-> at]
               close == [kind |-> "close"]
    <3>1. CASE ~joined BY <1>5, <3>1 DEF Kick, WireAdds
    <3>2. CASE joined
      <4>1. wire' = wire \o <<e, close>> /\ at' = at BY <1>5, <3>2 DEF Kick
      <4>2. e.serverTime = now /\ e.at = at /\ close.kind # "event" OBVIOUS
      <4>3. wire \in Seq(Packets) BY DEF TypeOK
      <4> HIDE DEF e, close
      <4>4. \A i \in DOMAIN wire' :
              (i \in DOMAIN wire /\ wire'[i] = wire[i]) \/ wire'[i] \in {e, close}
        BY <4>1, <4>3
      <4>5. QED BY <4>1, <4>2, <4>4 DEF WireAdds
    <3>3. QED BY <3>1, <3>2
  <2>3. QED BY <1>2, <1>5, <2>1, <2>2 DEF Kick
<1>6. CASE Tick
  <2>1. now <= now' /\ NotBefore(at', at)
    BY <1>1, <1>6, NotBeforeIsOrder DEF Tick
  <2>2. WireAdds /\ CallAdds /\ GateAdds
    BY <1>6 DEF Tick, client, WireAdds, CallAdds, GateAdds
  <2>3. QED BY <2>1, <2>2 DEF OrderStep
<1>7. QED BY <1>3, <1>4, <1>5, <1>6 DEF ServerStep

(* Of an event that is delivered the gate learns what the wire told.       *)
LEMMA DeliverEventAdds ==
    ASSUME TypeOK, wire # <<>>, Head(wire).kind = "event", UNCHANGED <<now, at>>,
           DeliverEvent(Head(wire))
    PROVE  WireAdds /\ CallAdds /\ GateAdds
<1> DEFINE e == Head(wire)
<1>1. wire \in Seq(Packets) /\ e = wire[1] /\ 1 \in DOMAIN wire BY DEF TypeOK
<1>2. gate \in Gates BY DEF TypeOK
<1>3. GateAdds
  <2>1. CASE ~(AcceptsEvent(gate, e) /\ ~Unordered(gate, e))
    <3>1. gate' = gate BY <2>1 DEF DeliverEvent, RegisterEvent
    <3>2. CASE gate.from = "nothing" BY <3>1, <3>2 DEF GateAdds
    <3>3. CASE gate.from # "nothing"
      <4>1. ~AcceptsEvent(gate, e) \/ e.event \in UnorderedEvents
        BY <2>1, <3>3 DEF Unordered
      <4>2. e.event \in EventNames
        BY <1>1 DEF Packets
      <4>3. ~AcceptsEvent(gate, e) \/ e.event = "session:kicked"
        BY <4>1, <4>2 DEF UnorderedEvents, EventNames, MatchStartEvents
      <4>4. applied' = applied BY <4>3 DEF DeliverEvent
      <4>5. QED BY <3>1, <4>4 DEF GateAdds
    <3>4. QED BY <3>2, <3>3
  <2>2. CASE AcceptsEvent(gate, e) /\ ~Unordered(gate, e)
    <3>1. gate'.time = e.serverTime BY <1>2, <2>2 DEF DeliverEvent, RegisterEvent, Gates
    <3>2. e.event # "session:kicked" BY <2>2 DEF Unordered, UnorderedEvents
    <3>3. applied' = e.at BY <2>2, <3>2 DEF DeliverEvent
    <3>4. WireTells(gate'.time, applied') BY <1>1, <3>1, <3>3 DEF WireTells
    <3>5. QED BY <3>4 DEF GateAdds, Tells
  <2>3. QED BY <2>1, <2>2
<1>4. CASE AcceptsEvent(gate, e) /\ e.event = "session:kicked"
  <2>1. Terminate BY <1>4 DEF DeliverEvent
  <2>2. QED BY <1>3, <2>1, HandleStatusAdds DEF Terminate, WireAdds
<1>5. CASE ~(AcceptsEvent(gate, e) /\ e.event = "session:kicked")
  <2>1. wire' = Tail(wire) /\ UNCHANGED call BY <1>5 DEF DeliverEvent
  <2>2. CallAdds BY <2>1 DEF CallAdds
  <2>3. QED BY <1>3, <2>1, <2>2, TailAdds
<1>6. QED BY <1>4, <1>5

LEMMA ConnectionAdds ==
    ASSUME TypeOK, Connection \/ Drop
    PROVE  OrderStep
<1>1. now \in Nat /\ at \in Positions BY Bounds DEF TypeOK
<1>2. CASE Accept
  <2>1. WireAdds /\ CallAdds /\ GateAdds
    <3>1. \A i \in DOMAIN wire' : wire'[i].kind # "event" BY <1>2 DEF Accept
    <3>2. QED BY <1>2, <3>1 DEF Accept, server, client, WireAdds, CallAdds, GateAdds
  <2>2. QED BY <1>2, <2>1, StillNow DEF Accept, server, OrderStep
<1>3. CASE Deliver
  <2>1. wire # <<>> /\ UNCHANGED <<now, at>> BY <1>3 DEF Deliver, server
  <2>2. Head(wire) \in Packets BY <2>1 DEF TypeOK
  <2>3. CASE Head(wire).kind = "connected"
    <3>1. Connected BY <1>3, <2>3 DEF Deliver
    <3>2. WireAdds /\ CallAdds /\ GateAdds
      BY <2>1, <3>1, TailAdds, HandleStatusAdds DEF Connected, client, GateAdds
    <3>3. QED BY <2>1, <3>2, StillNow DEF OrderStep
  <2>4. CASE Head(wire).kind \in {"refused", "close"}
    <3>1. HandleDrop(TRUE) \/ HandleDrop(FALSE) BY <1>3, <2>4 DEF Deliver, Refused
    <3>2. QED BY <2>1, <3>1, HandleDropAdds, StillNow DEF OrderStep
  <2>5. CASE Head(wire).kind = "event"
    <3>1. DeliverEvent(Head(wire)) BY <1>3, <2>5 DEF Deliver
    <3>2. QED BY <2>1, <2>5, <3>1, DeliverEventAdds, StillNow DEF OrderStep
  <2>6. QED BY <2>2, <2>3, <2>4, <2>5 DEF Packets
<1>4. CASE RetryConnect
  <2>1. now <= now' /\ UNCHANGED at BY <1>1, <1>4, Bounds DEF RetryConnect
  <2>2. CallAdds BY <1>4, <2>1, HandleStatusAdds DEF RetryConnect
  <2>3. WireAdds /\ GateAdds BY <1>4 DEF RetryConnect, client, WireAdds, GateAdds
  <2>4. QED BY <1>1, <2>1, <2>2, <2>3, NotBeforeIsOrder DEF OrderStep
<1>5. CASE Drop
  <2>1. HandleDrop(FALSE) /\ UNCHANGED <<now, at>> BY <1>5 DEF Drop, server
  <2>2. QED BY <2>1, HandleDropAdds, StillNow DEF OrderStep
<1>6. QED BY <1>2, <1>3, <1>4, <1>5 DEF Connection

LEMMA CallsAdd ==
    ASSUME TypeOK, OrderInv, NEW c \in Calls, Call(c) \/ LoseCall(c)
    PROVE  OrderStep
<1>1. UNCHANGED <<now, at>>
  BY DEF Call, ServeRead, ServeReply, Receive, ReceiveRefusal, RetryCall, LoseCall,
         server
<1>2. SUFFICES WireAdds /\ CallAdds /\ GateAdds BY <1>1, StillNow DEF OrderStep
<1>3. call \in [Calls -> CallStates] BY DEF TypeOK
<1>4. CASE ServeRead(c)
  <2>1. WireAdds /\ GateAdds BY <1>4 DEF ServeRead, client, WireAdds, GateAdds
  <2>2. CASE revoked
    <3>1. call[c] \in [pc : {"asked", "refused", "retry"}, attempt : 1..MaxAttempts]
      BY <1>3, <1>4 DEF ServeRead, CallStates
    <3>2. [call[c] EXCEPT !.pc = "refused"].pc = "refused" BY <3>1
    <3>3. call' = [call EXCEPT ![c] = [call[c] EXCEPT !.pc = "refused"]]
      BY <1>4, <2>2 DEF ServeRead
    <3>4. QED BY <1>1, <2>1, <3>2, <3>3, CallBecomesAdds
  <2>3. CASE ~revoked
    <3>1. call' = [call EXCEPT ![c] =
                     [pc |-> "reading", attempt |-> call[c].attempt, at |-> at]]
      BY <1>4, <2>3 DEF ServeRead
    <3>2. CallAdds BY <1>1, <1>3, <3>1 DEF CallAdds
    <3>3. QED BY <2>1, <3>2
  <2>4. QED BY <2>2, <2>3
<1>5. CASE ServeReply(c)
  <2>1. WireAdds /\ GateAdds BY <1>5 DEF ServeReply, client, WireAdds, GateAdds
  <2>2. call[c].at = at BY <1>5 DEF OrderInv, Whole, ServeReply
  <2>3. call' = [call EXCEPT ![c] = [pc |-> "reply", attempt |-> call[c].attempt,
                                     snapshot |-> Snapshot(at, now)]]
    BY <1>5, <2>2 DEF ServeReply
  <2>4. CallAdds BY <1>1, <1>3, <2>3 DEF CallAdds
  <2>5. QED BY <2>1, <2>4
<1>6. CASE Receive(c)
  <2> DEFINE s == call[c].snapshot
  <2>1. WireAdds BY <1>6 DEF Receive, WireAdds
  <2>2. CallAdds BY <1>1, <1>6, FreeTypes, CallBecomesAdds DEF Receive
  <2>3. GateAdds
    <3>1. CASE ~ShouldApplySnapshot(gate, s)
      BY <1>6, <3>1 DEF Receive, RegisterSnapshot, GateAdds
    <3>2. CASE ShouldApplySnapshot(gate, s)
      <4>1. gate'.time = s.serverTime /\ applied' = s.at
        BY <1>6, <3>2 DEF Receive, RegisterSnapshot, AtSnapshot
      <4>2. CallTells(gate'.time, applied') BY <1>6, <4>1 DEF CallTells, Receive
      <4>3. QED BY <4>2 DEF GateAdds, Tells
    <3>3. QED BY <3>1, <3>2
  <2>4. QED BY <2>1, <2>2, <2>3
<1>7. CASE ReceiveRefusal(c)
  <2>1. WireAdds /\ GateAdds BY <1>7 DEF ReceiveRefusal, client, WireAdds, GateAdds
  <2>2. CallAdds BY <1>1, <1>7, FreeTypes, CallBecomesAdds DEF ReceiveRefusal
  <2>3. QED BY <2>1, <2>2
<1>8. CASE LoseCall(c)
  <2> DEFINE state == IF terminated \/ call[c].attempt = MaxAttempts THEN Free
                      ELSE [pc |-> "retry", attempt |-> call[c].attempt + 1]
  <2>1. call' = [call EXCEPT ![c] = state] BY <1>8 DEF LoseCall
  <2>2. state.pc \in {"free", "retry"} BY FreeTypes
  <2> HIDE DEF state
  <2>3. CallAdds BY <1>1, <2>1, <2>2, CallBecomesAdds
  <2>4. QED BY <1>8, <2>3 DEF LoseCall, client, WireAdds, GateAdds
<1>9. CASE RetryCall(c)
  <2> DEFINE state == IF terminated THEN Free ELSE Asked(call[c].attempt)
  <2>1. call' = [call EXCEPT ![c] = state] BY <1>9 DEF RetryCall
  <2>2. state.pc \in {"free", "asked"} BY FreeTypes DEF Asked
  <2> HIDE DEF state
  <2>3. CallAdds BY <1>1, <2>1, <2>2, CallBecomesAdds
  <2>4. QED BY <1>9, <2>3 DEF RetryCall, client, WireAdds, GateAdds
<1>10. QED BY <1>4, <1>5, <1>6, <1>7, <1>8, <1>9 DEF Call

LEMMA InitOrder == Init => OrderInv
<1> SUFFICES ASSUME Init PROVE OrderInv
  OBVIOUS
<1>1. TypeOK BY InitFits DEF IInv
<1>2. now = 0 /\ at \in Positions /\ wire = <<>> BY <1>1 DEF Init, TypeOK
<1>3. \A c \in Calls : call[c].pc \in {"free", "asked"}
  <2>1. Asked(1).pc = "asked" BY AskedTypes DEF MaxAttempts
  <2>2. QED BY <2>1, FreeTypes DEF Init
<1>4. gate.from # "nothing" => gate.time = 0 /\ applied = at
  <2>1. CASE gate = EmptyGate BY <2>1 DEF EmptyGate
  <2>2. CASE gate = RegisterSnapshot(EmptyGate, Snapshot(at, now)) /\ applied = at
    BY <1>2, <2>2 DEF RegisterSnapshot, AtSnapshot, Snapshot, EmptyGate
  <2>3. QED BY <2>1, <2>2 DEF Init
<1>5. \A t, p : Tells(t, p) => t = 0 /\ p = at
  BY <1>2, <1>3, <1>4 DEF Tells, WireTells, CallTells, GateTells
<1>6. PastOnly BY <1>2, <1>5, NotBeforeIsOrder DEF PastOnly
<1>7. LaterKnowsMore BY <1>5 DEF LaterKnowsMore
<1>8. Whole BY <1>3 DEF Whole
<1>9. QED BY <1>6, <1>7, <1>8 DEF OrderInv

LEMMA NextKeepsOrder ==
    ASSUME Interleaved = FALSE, IInv, IInv', OrderInv, [Next]_vars
    PROVE  OrderInv'
<1>0. TypeOK /\ TypeOK' BY DEF IInv
<1>1. CASE Next
  <2>1. OrderStep BY <1>0, <1>1, ServerAdds, ConnectionAdds, CallsAdd DEF Next
  <2>2. QED BY <1>0, <2>1, StepKeepsOrder
<1>2. CASE UNCHANGED vars
  <2>1. OrderStep
    BY <1>0, <1>2, StillNow
    DEF vars, server, client, OrderStep, WireAdds, CallAdds, GateAdds
  <2>2. QED BY <1>0, <2>1, StepKeepsOrder
<1>3. QED BY <1>1, <1>2

-----------------------------------------------------------------------------
(* What holds of every behaviour *)

(* Whatever the room, the socket and the calls do, the gate, the calls and *)
(* the packets keep the order of the matches: nothing that names an        *)
(* earlier match is younger than the match the gate's sequence names.      *)
THEOREM Invariance == Spec => []IInv
BY InitFits, NextFits, PTL DEF Spec

(* The transport (verbinding.mjs), the reconnect machine, the HTTP calls   *)
(* and the gate (snapshot-precedence.mjs) are always in a state the code   *)
(* knows, with at most four attempts of a snapshot.                        *)
THEOREM TypeCorrect == Spec => []TypeOK
<1>1. IInv => TypeOK BY DEF IInv
<1>2. QED BY <1>1, Invariance, PTL

(* The sequence the gate stores of a snapshot never runs ahead of the      *)
(* match it holds (highestMatchSequence and currentMatchId in              *)
(* snapshot-precedence.mjs): no late event of an earlier match takes the   *)
(* gate back behind a snapshot it has applied, even one that was torn.     *)
THEOREM SequenceIsBehind == Spec => []SequenceNeverLeads
<1>1. IInv => SequenceNeverLeads BY DEF IInv, GateFits, SequenceNeverLeads
<1>2. QED BY <1>1, Invariance, PTL

(* Snapshots that are whole (in-memory store, or a room that stands still  *)
(* while one is built): who speaks later knows no less.                    *)
THEOREM OrderHolds ==
    ASSUME Interleaved = FALSE
    PROVE  Spec => [](IInv /\ OrderInv)
<1>1. Init => IInv /\ OrderInv BY InitFits, InitOrder
<1>2. IInv /\ OrderInv /\ [Next]_vars => (IInv /\ OrderInv)'
  BY NextFits, NextKeepsOrder
<1>3. QED BY <1>1, <1>2, PTL DEF Spec

LEMMA BeganAreTimes ==
    ASSUME TypeOK, NEW k \in 1..at.seq
    PROVE  began[k] \in Nat
<1>1. /\ began \in Seq(0..MaxTime) /\ Len(began) = at.seq /\ MaxTime \in Nat
  BY Bounds DEF TypeOK
<1>2. began[k] \in 0..MaxTime BY <1>1
<1>3. QED BY <1>1, <1>2

(* What the gate refuses is known: an event refused for its time is older  *)
(* than what was applied, and one refused for its match is older still     *)
(* (registerEvent in precedentie.mjs).                                     *)
THEOREM RefusedWasKnown ==
    ASSUME Interleaved = FALSE
    PROVE  Spec => RefusedIsKnown
<1> DEFINE Known ==
      \A e \in {wire[i] : i \in DOMAIN wire} :
          /\ e.kind = "event" /\ wire[1] = e /\ wire' = Tail(wire)
          /\ ~AcceptsEvent(gate, e)
          => NotBefore(applied, e.at) \/ e.serverTime = gate.time
<1>1. ASSUME IInv, OrderInv PROVE Known
  <2> SUFFICES ASSUME NEW i \in DOMAIN wire, wire[i].kind = "event",
                      ~AcceptsEvent(gate, wire[i]), wire[i].serverTime # gate.time
               PROVE  NotBefore(applied, wire[i].at)
    OBVIOUS
  <2> DEFINE e == wire[i]
  <2>1. /\ e \in Events /\ gate \in Gates /\ applied \in Positions /\ EventFits(e)
    <3>1. e \in Packets BY <1>1 DEF IInv, TypeOK
    <3>2. QED BY <1>1, <3>1 DEF IInv, TypeOK, WireFits, Packets, Events
  <2>2. e.serverTime \in Times /\ e.at \in Positions /\ gate.time \in Times
    BY <2>1 DEF Events, Gates, Times
  <2>3. e.serverTime \in Nat /\ gate.time \in Nat BY <2>2, Bounds DEF Times
  <2>4. gate.from # "nothing" BY DEF AcceptsEvent, Unordered
  <2>5. e.serverTime < gate.time
    <3>1. CASE ~ShouldApplyEvent(gate, e)
      BY <2>3, <2>4, <3>1 DEF ShouldApplyEvent
    <3>2. CASE OfOlderMatch(gate, e)
      <4>1. /\ e.matchId \in gate.known /\ e.matchId < gate.matchSequence
            /\ gate.matchSequence <= at.seq
        BY <1>1, <3>2 DEF OfOlderMatch, IInv, GateFits
      <4>2. /\ e.matchId \in Nat \ {0} /\ gate.matchSequence \in Nat /\ at.seq \in Nat
        BY <1>1, <2>1, <4>1, Bounds DEF Events, Gates, IInv, TypeOK, Positions
      <4>3. gate.matchSequence \in 1..at.seq BY <4>1, <4>2
      <4>4. began[gate.matchSequence] \in Nat BY <1>1, <4>3, BeganAreTimes DEF IInv
      <4>5. e.serverTime <= began[gate.matchSequence]
        BY <2>1, <4>1, <4>2, <4>3 DEF EventFits
      <4>6. began[gate.matchSequence] <= gate.time
        BY <1>1, <4>3 DEF IInv, GateFits
      <4>7. QED BY <2>3, <4>4, <4>5, <4>6
    <3>3. QED BY <3>1, <3>2 DEF AcceptsEvent
  <2>6. Tells(e.serverTime, e.at) BY DEF Tells, WireTells
  <2>7. Tells(gate.time, applied) BY <2>4 DEF Tells, GateTells
  <2> HIDE DEF e
  <2>8. QED BY <1>1, <2>1, <2>2, <2>5, <2>6, <2>7 DEF OrderInv, LaterKnowsMore, e
<1>2. IInv /\ OrderInv => [Known]_vars BY <1>1
<1>3. QED BY <1>2, OrderHolds, PTL DEF RefusedIsKnown

(* The gate never takes the client back while it orders by the match it    *)
(* shows (shouldApplySnapshot and shouldApplyEvent in                      *)
(* snapshot-precedence.mjs), but within a millisecond.                     *)
THEOREM NeverTakenBack ==
    ASSUME Interleaved = FALSE
    PROVE  Spec => NeverBack
<1> DEFINE Forth ==
      gate.from # "nothing" /\ gate.matchSequence = applied.seq
        => NotBefore(applied', applied) \/ MessageTime(gate.time)
<1>1. ASSUME IInv, OrderInv, Next, gate.from # "nothing",
             gate.matchSequence = applied.seq, ~MessageTime(gate.time),
             applied' # applied
      PROVE  NotBefore(applied', applied)
  <2>1. gate \in Gates /\ applied \in Positions /\ gate.time \in Times
    BY <1>1 DEF IInv, TypeOK, Gates, Times
  <2>2. Times \subseteq Nat BY Bounds DEF Times
  <2>3. Tells(gate.time, applied) BY <1>1 DEF Tells, GateTells
  <2>4. CASE Deliver
    <3> DEFINE e == Head(wire)
    <3>1. wire # <<>> /\ wire \in Seq(Packets) BY <1>1, <2>4 DEF Deliver, IInv, TypeOK
    <3>2. e \in Packets /\ e = wire[1] /\ 1 \in DOMAIN wire BY <3>1
    <3>3. e.kind = "event" /\ DeliverEvent(e)
      BY <1>1, <2>4, <3>2
      DEF Deliver, Connected, Refused, HandleDrop, client, Packets
    <3>4. AcceptsEvent(gate, e) /\ e.event # "session:kicked" /\ applied' = e.at
      BY <1>1, <3>3 DEF DeliverEvent
    <3>5. e.serverTime \in Times /\ e.at \in Positions /\ e.event \in EventNames
      BY <3>2, <3>3 DEF Packets, Times
    <3>6. ~Unordered(gate, e)
      BY <1>1, <3>4, <3>5
      DEF Unordered, UnorderedEvents, EventNames, MatchStartEvents
    <3>7. e.serverTime # gate.time BY <1>1, <3>1, <3>3 DEF MessageTime
    <3>8. gate.time < e.serverTime
      BY <1>1, <3>4, <3>6, <3>7 DEF AcceptsEvent, ShouldApplyEvent
    <3>9. Tells(e.serverTime, e.at) BY <3>2, <3>3 DEF Tells, WireTells
    <3> HIDE DEF e
    <3>10. QED BY <1>1, <2>1, <2>3, <3>4, <3>5, <3>8, <3>9 DEF OrderInv, LaterKnowsMore
  <2>5. ASSUME NEW c \in Calls, Receive(c)
        PROVE  NotBefore(applied', applied)
    <3> DEFINE s == call[c].snapshot
    <3>1. call[c] \in CallStates /\ call[c].pc = "reply"
      BY <1>1, <2>5 DEF Receive, IInv, TypeOK
    <3>2. s \in Snapshots BY <3>1 DEF CallStates
    <3>3. s.matchSequence = s.at.seq /\ s.serverTime \in Times /\ s.at \in Positions
      BY <1>1, <3>1, <3>2 DEF OrderInv, Whole, Snapshots, Times
    <3>4. ShouldApplySnapshot(gate, s) /\ applied' = s.at
      BY <1>1, <2>5 DEF Receive
    <3>5. s.serverTime # gate.time BY <1>1, <3>1 DEF MessageTime
    <3>6. CASE s.matchSequence > gate.matchSequence
      BY <1>1, <3>3, <3>4, <3>6 DEF NotBefore
    <3>7. CASE s.serverTime > gate.time
      <4>1. Tells(s.serverTime, s.at) BY <3>1 DEF Tells, CallTells
      <4>2. gate.time < s.serverTime BY <2>1, <2>2, <3>3, <3>7
      <4> HIDE DEF s
      <4>3. QED BY <1>1, <2>1, <2>3, <3>3, <3>4, <4>1, <4>2 DEF OrderInv, LaterKnowsMore
    <3>8. QED BY <1>1, <3>4, <3>5, <3>6, <3>7 DEF ShouldApplySnapshot
  <2>6. ASSUME ~Deliver, \A c \in Calls : ~Receive(c)
        PROVE  applied' = applied
    BY <1>1, <2>6
    DEF Next, ServerStep, Progress, NewMatch, Kick, Tick, Connection, Accept,
        RetryConnect, Drop, HandleDrop, Call, ServeRead, ServeReply, ReceiveRefusal,
        RetryCall, LoseCall, client
  <2>7. QED BY <1>1, <2>4, <2>5, <2>6
<1>2. ASSUME IInv, OrderInv, [Next]_vars PROVE [Forth]_vars
  <2>1. CASE Next
    <3>1. applied \in Positions BY <1>2 DEF IInv, TypeOK
    <3>2. NotBefore(applied, applied) BY <3>1, NotBeforeIsOrder
    <3>3. QED BY <1>1, <1>2, <2>1, <3>2
  <2>2. CASE UNCHANGED vars BY <2>2
  <2>3. QED BY <1>2, <2>1, <2>2
<1>3. IInv /\ OrderInv /\ [Next]_vars => [Forth]_vars BY <1>2
<1>4. QED BY <1>3, OrderHolds, PTL DEF Spec, NeverBack
=============================================================================
