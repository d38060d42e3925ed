------------------------- MODULE Membership_proofs -------------------------
(***************************************************************************)
(* Proofs about Membership, for every value of the constants.              *)
(***************************************************************************)
EXTENDS Membership, FiniteSetTheorems, WellFoundedInduction, TLAPS

-----------------------------------------------------------------------------
(* Names *)

(* A non-empty set of numbers has a least one.                             *)
LEMMA LeastNumber ==
  ASSUME NEW S \in SUBSET Nat, S # {}
  PROVE  \E n \in S : \A m \in S : n <= m
<1>1. \E n \in S : \A m \in S : ~(<<m, n>> \in OpToRel(<, Nat))
  BY NatLessThanWellFounded, WFMin
<1>2. PICK n \in S : \A m \in S : ~(<<m, n>> \in OpToRel(<, Nat))
  BY <1>1
<1>3. ASSUME NEW m \in S
      PROVE  n <= m
  <2>1. m \in Nat /\ n \in Nat
    OBVIOUS
  <2>2. ~(m < n)
    BY <1>2, <2>1 DEF OpToRel
  <2> QED
    BY <2>1, <2>2
<1> QED
  BY <1>3

(* The number that makes a name unique exists, and is free.                *)
LEMMA UniqueName ==
  ASSUME NEW name \in Names, NEW taken, IsFiniteSet(taken)
  PROVE  MakeUniqueInRoom(name, taken) \in Texts \ taken
<1> DEFINE k == Cardinality(taken)
           free == {n \in 1..(k + 1) : <<name, n>> \notin taken}
<1>1. k \in Nat
  BY FS_CardinalityType
<1>2. free # {}
  <2>1. SUFFICES ASSUME \A n \in 1..(k + 1) : <<name, n>> \in taken
                 PROVE  FALSE
    OBVIOUS
  <2> DEFINE f == [n \in 1..(k + 1) |-> <<name, n>>]
  <2>2. f \in Injection(1..(k + 1), taken)
    BY <2>1 DEF Injection, IsInjective
  <2>3. Cardinality(1..(k + 1)) = k + 1
    BY <1>1, FS_Interval
  <2>4. Cardinality(1..(k + 1)) <= k
    BY <2>2, FS_Injection
  <2> QED
    BY <1>1, <2>3, <2>4
<1>3. \E n \in free : \A m \in free : n <= m
  <2>1. free \in SUBSET Nat
    BY <1>1
  <2> HIDE DEF free
  <2> QED
    BY <1>2, <2>1, LeastNumber
<1> DEFINE least == CHOOSE n \in free : \A m \in free : n <= m
<1>4. least \in free
  <2> HIDE DEF free
  <2> QED
    BY <1>3
<1>5. MakeUniqueInRoom(name, taken) = <<name, least>>
  BY DEF MakeUniqueInRoom
<1>6. least \in Nat \ {0} /\ <<name, least>> \notin taken
  <2> HIDE DEF least
  <2> QED
    BY <1>1, <1>4
<1> HIDE DEF least
<1> QED
  BY <1>5, <1>6 DEF Texts

-----------------------------------------------------------------------------
(* Handlers: what each of them knows about the player it is about, d, and  *)
(* about his session.                                                      *)

PlayerHandlers ==
  [pc : Places, kind : PlayerKinds, who : Players, room : RoomDocs,
   doc : PlayerDocs \cup {NoPlayer}]
RoomHandlers == [pc : {"touch"}, kind : RoomKinds, room : RoomDocs]

Knows(o, d, session) ==
  \/ /\ o.kind = "join" /\ o.pc = "list"
     /\ d = NoPlayer /\ session = "none"
  \/ /\ o.kind = "join" /\ o.pc = "savePlayer" /\ o.doc \in PlayerDocs
     /\ d = NoPlayer /\ session = "none"
  \/ /\ o.kind = "join" /\ o.pc = "saveSession"
     /\ d \in PlayerDocs /\ session = "none"
  \/ /\ o.kind = "join" /\ o.pc = "touch"
     /\ d \in PlayerDocs /\ session # "none"
  \/ /\ o.kind \in {"rename", "hostRename"} /\ o.pc = "list" /\ o.doc \in PlayerDocs
     /\ d \in PlayerDocs
  \/ /\ o.kind # "join" /\ o.pc \in {"load", "touch"}
     /\ d \in PlayerDocs
  \/ /\ o.kind # "join" /\ o.pc = "savePlayer" /\ o.doc \in PlayerDocs
     /\ d \in PlayerDocs
  \/ /\ o.kind = "kick" /\ o.pc \in {"revoke", "disconnect"}
     /\ d \in PlayerDocs

Fits(o, ps, ss) ==
  \/ o = Idle
  \/ o \in RoomHandlers
  \/ o \in PlayerHandlers /\ Knows(o, ps[o.who], ss[o.who])

HandlersFit == \A s \in Slots : Fits(op[s], players, sessions)

IsJoin(o) == o.pc # "idle" /\ o.kind = "join"

(* A player id is drawn for one join only.                                 *)
JoinsApart ==
  \A s, t \in Slots :
    s # t /\ IsJoin(op[s]) /\ IsJoin(op[t]) => op[s].who # op[t].who

(* The inductive invariant behind TypeOK and TokenHasPlayer.               *)
RoomInv ==
  TypeOK /\ TokenHasPlayer /\ sockets \subseteq members /\ JoinsApart /\ HandlersFit

LEMMA HandlerTypes ==
  /\ Handlers = {Idle} \cup PlayerHandlers \cup RoomHandlers
  /\ \A o \in PlayerHandlers \cup RoomHandlers : o.pc # "idle"
  /\ NoPlayer \notin PlayerDocs
  /\ Idle.pc = "idle"
<1>1. NoPlayer \notin PlayerDocs
  BY DEF NoPlayer, PlayerDocs
<1> QED
  BY <1>1 DEF Handlers, Idle, PlayerHandlers, RoomHandlers, Places

(* A handler that fits and is not idle is about a player or the room.      *)
LEMMA FitsIsTyped ==
  ASSUME NEW o, NEW ps, NEW ss, Fits(o, ps, ss)
  PROVE  o \in Handlers
BY HandlerTypes DEF Fits

(* A step of the handler in s that changes no document fits all handlers.  *)
LEMMA OnlyOneMoves ==
  ASSUME RoomInv, NEW s \in Slots, NEW o, Fits(o, players, sessions),
         op' = [op EXCEPT ![s] = o], UNCHANGED <<players, sessions>>
  PROVE  HandlersFit' /\ op' \in [Slots -> Handlers]
<1>1. op \in [Slots -> Handlers] /\ o \in Handlers
  BY FitsIsTyped DEF RoomInv, TypeOK
<1>2. ASSUME NEW t \in Slots
      PROVE  Fits(op'[t], players, sessions)
  <2>1. CASE t = s
    BY <1>1, <2>1
  <2>2. CASE t # s
    <3>1. op'[t] = op[t]
      BY <1>1, <2>2
    <3> QED
      BY <3>1 DEF RoomInv, HandlersFit
  <2> QED
    BY <2>1, <2>2
<1> QED
  BY <1>1, <1>2 DEF HandlersFit

(* Joins stay apart when a handler moves on, ends, or is no join.          *)
LEMMA MovingKeepsApart ==
  ASSUME RoomInv, NEW s \in Slots, NEW o, op' = [op EXCEPT ![s] = o],
         IsJoin(o) => IsJoin(op[s]) /\ o.who = op[s].who
  PROVE  JoinsApart'
<1>1. op \in [Slots -> Handlers]
  BY DEF RoomInv, TypeOK
<1>2. op'[s] = o /\ \A t \in Slots \ {s} : op'[t] = op[t]
  BY <1>1
<1> QED
  BY <1>2 DEF RoomInv, JoinsApart

(* It holds at first: nobody is in the room and no handler is at work.     *)
THEOREM RoomInvInit == Init => RoomInv
<1> SUFFICES ASSUME Init
             PROVE  RoomInv
  OBVIOUS
<1>1. TypeOK
  BY HandlerTypes, RoomAssumption
     DEF Init, TypeOK, RoomDocs, Settings
<1>2. op = [s \in Slots |-> Idle]
  BY DEF Init
<1>3. JoinsApart /\ HandlersFit
  BY <1>2, HandlerTypes DEF JoinsApart, HandlersFit, IsJoin, Fits
<1>4. TokenHasPlayer /\ sockets \subseteq members
  BY DEF Init, TokenHasPlayer
<1> QED
  BY <1>1, <1>3, <1>4 DEF RoomInv

(* A handler that is at work on a player fits him.                         *)
LEMMA AtWork ==
  ASSUME RoomInv, NEW s \in Slots, op[s].pc \notin {"idle", "touch"}
  PROVE  op[s] \in PlayerHandlers /\ Knows(op[s], players[op[s].who], sessions[op[s].who])
<1>1. Fits(op[s], players, sessions)
  BY DEF RoomInv, HandlersFit
<1> QED
  BY <1>1, HandlerTypes DEF Fits, RoomHandlers

(* A step of one handler that changes nothing but what it knows.           *)
LEMMA LocalStep ==
  ASSUME RoomInv, NEW s \in Slots, NEW o, Fits(o, players, sessions),
         op' = [op EXCEPT ![s] = o], JoinsApart',
         UNCHANGED <<room, players, sessions, sockets, members, removed>>,
         raced' \subseteq {"lists", "docs", "room", "halfJoined"},
         begun' \in 0..MaxHandlers
  PROVE  RoomInv'
<1>1. HandlersFit' /\ op' \in [Slots -> Handlers]
  BY OnlyOneMoves
<1>2. TypeOK'
  BY <1>1 DEF RoomInv, TypeOK
<1>3. TokenHasPlayer' /\ (sockets \subseteq members)'
  BY DEF RoomInv, TokenHasPlayer, Exists
<1> QED
  BY <1>1, <1>2, <1>3 DEF RoomInv

(* What beginning a handler does to the history.                           *)
LEMMA BeginsTyped ==
  ASSUME RoomInv, NEW kind, NEW p, Begins(kind, p)
  PROVE  /\ raced' \subseteq {"lists", "docs", "room", "halfJoined"}
         /\ begun' \in 0..MaxHandlers
<1>1. Overlaps(kind, p) \subseteq {"lists", "docs", "room", "halfJoined"}
  BY DEF Overlaps
<1>2. begun < MaxHandlers /\ begun \in 0..MaxHandlers /\ MaxHandlers \in Nat
  BY RoomAssumption DEF Begins, RoomInv, TypeOK
<1>3. begun' = begun + 1 /\ raced' = raced \cup Overlaps(kind, p)
  BY DEF Begins
<1>4. raced \subseteq {"lists", "docs", "room", "halfJoined"}
  BY DEF RoomInv, TypeOK
<1>5. begun' \in 0..MaxHandlers
  BY <1>2, <1>3
<1> QED
  BY <1>1, <1>3, <1>4, <1>5

(* The names of the players in the room are finitely many, so a newcomer   *)
(* gets a document.                                                        *)
LEMMA NewcomerTyped ==
  ASSUME NEW typed \in Names \cup {None}, NEW others \in SUBSET Players,
         \A p \in others : players[p] \in PlayerDocs
  PROVE  ResolveNames(typed, others) \subseteq PlayerDocs
<1>1. IsFiniteSet(Taken(others))
  <2>1. IsFiniteSet(others)
    BY FS_Subset, NamesAssumption
  <2>2. IsFiniteSet({players[p].text : p \in others})
    <3> DEFINE f == [p \in others |-> players[p].text]
               T == {players[p].text : p \in others}
    <3>1. f \in Surjection(others, T)
      BY DEF Surjection
    <3> QED
      BY <2>1, <3>1, FS_Surjection
  <2> QED
    BY <2>2 DEF Taken
<1>2. \A name \in Names : MakeUniqueInRoom(name, Taken(others)) \in Texts
  BY <1>1, UniqueName
<1>3. GivenUp(Taken(others)) \in Texts
  BY <1>2, NamesAssumption DEF GivenUp
<1>4. \A i \in Pairs : <<Rendered[i], 1>> \in Texts
  BY NamesAssumption DEF Texts
<1>5. \A text \in Texts, chosen \in BOOLEAN, identity \in Pairs \cup {None} :
          Newcomer(text, chosen, identity) \in PlayerDocs
  BY DEF Newcomer, PlayerDocs
<1> QED
  BY <1>2, <1>3, <1>4, <1>5 DEF ResolveNames

LEMMA ActivePlayers ==
  ASSUME RoomInv
  PROVE  /\ Active \subseteq Players
         /\ \A p \in Active : players[p] \in PlayerDocs
BY DEF RoomInv, TypeOK, Active, Exists

-----------------------------------------------------------------------------
(* RoomInv holds after every step.                                         *)

(* Whoever has a socket or is named by the host has a document.            *)
LEMMA MembersExist ==
  ASSUME RoomInv, NEW p \in Players,
         p \in sockets \/ p \in members \/ Exists(p)
  PROVE  players[p] \in PlayerDocs
BY DEF RoomInv, TypeOK, TokenHasPlayer, Exists

(* A handler for a player who is in the store begins.                      *)
LEMMA StartKeepsInv ==
  ASSUME RoomInv, NEW s \in Slots, NEW p \in Players, NEW kind \in PlayerKinds,
         kind # "join", players[p] \in PlayerDocs, Start(s, kind, p, "load")
  PROVE  RoomInv'
<1> DEFINE o == [pc |-> "load", kind |-> kind, who |-> p, room |-> room,
                 doc |-> NoPlayer]
<1>1. o \in PlayerHandlers
  BY DEF RoomInv, TypeOK, PlayerHandlers, Places
<1>2. Fits(o, players, sessions)
  BY <1>1 DEF Fits, Knows
<1>3. op' = [op EXCEPT ![s] = o]
  BY DEF Start
<1>4. ~IsJoin(o)
  BY DEF IsJoin
<1> HIDE DEF o
<1>5. JoinsApart'
  BY <1>3, <1>4, MovingKeepsApart
<1>6. Begins(kind, p) /\ UNCHANGED <<room, players, sessions, sockets, members, removed>>
  BY DEF Start, store, history
<1>7. /\ raced' \subseteq {"lists", "docs", "room", "halfJoined"}
      /\ begun' \in 0..MaxHandlers
  BY <1>6, BeginsTyped
<1> QED
  BY <1>2, <1>3, <1>5, <1>6, <1>7, LocalStep

LEMMA BeginJoinKeepsInv ==
  ASSUME RoomInv, NEW s \in Slots, NEW p \in Players, BeginJoin(s, p)
  PROVE  RoomInv'
<1> DEFINE o == [pc |-> "list", kind |-> "join", who |-> p, room |-> room,
                 doc |-> NoPlayer]
<1>1. o \in PlayerHandlers
  BY DEF RoomInv, TypeOK, PlayerHandlers, Places, PlayerKinds
<1>2. players[p] = NoPlayer /\ sessions[p] = "none"
  BY DEF BeginJoin, RoomInv, TokenHasPlayer, Exists
<1>3. Fits(o, players, sessions)
  BY <1>1, <1>2 DEF Fits, Knows
<1>4. Start(s, "join", p, "list")
  BY DEF BeginJoin
<1>5. op' = [op EXCEPT ![s] = o] /\ op \in [Slots -> Handlers]
  BY <1>4 DEF Start, RoomInv, TypeOK
<1>6. op'[s] = o /\ \A t \in Slots \ {s} : op'[t] = op[t]
  BY <1>5
<1>7. \A t \in Slots : IsJoin(op[t]) => op[t].who # p
  BY DEF BeginJoin, Running, At, IsJoin, PlayerKinds
<1>8. o.who = p
  OBVIOUS
<1> HIDE DEF o
<1>9. JoinsApart'
  BY <1>6, <1>7, <1>8 DEF RoomInv, JoinsApart
<1>10. Begins("join", p) /\ UNCHANGED <<room, players, sessions, sockets, members, removed>>
  BY <1>4 DEF Start, store, history
<1>11. /\ raced' \subseteq {"lists", "docs", "room", "halfJoined"}
       /\ begun' \in 0..MaxHandlers
  BY <1>10, BeginsTyped
<1> QED
  BY <1>3, <1>5, <1>9, <1>10, <1>11, LocalStep

LEMMA BeginSettingKeepsInv ==
  ASSUME RoomInv, NEW s \in Slots, BeginSetting(s)
  PROVE  RoomInv'
<1>1. PICK kind \in RoomKinds, value \in BOOLEAN :
        /\ op' = [op EXCEPT ![s] =
                    [pc |-> "touch", kind |-> kind, room |-> Changed(room, kind, value)]]
        /\ Begins(kind, None)
  BY DEF BeginSetting
<1> DEFINE o == [pc |-> "touch", kind |-> kind, room |-> Changed(room, kind, value)]
<1>2. Changed(room, kind, value) \in RoomDocs
  BY DEF Changed, RoomInv, TypeOK, RoomDocs, Settings
<1>3. o \in RoomHandlers
  BY <1>2 DEF RoomHandlers
<1>4. Fits(o, players, sessions)
  BY <1>3 DEF Fits
<1>5. ~IsJoin(o)
  BY DEF IsJoin, RoomKinds
<1>6. op' = [op EXCEPT ![s] = o]
  BY <1>1
<1> HIDE DEF o
<1>7. JoinsApart'
  BY <1>5, <1>6, MovingKeepsApart
<1>8. UNCHANGED <<room, players, sessions, sockets, members, removed>>
  BY DEF BeginSetting, store, history
<1>9. /\ raced' \subseteq {"lists", "docs", "room", "halfJoined"}
      /\ begun' \in 0..MaxHandlers
  BY <1>1, BeginsTyped
<1> QED
  BY <1>4, <1>6, <1>7, <1>8, <1>9, LocalStep

(* A handler that goes on without a change of the documents or the history.*)
LEMMA MoveKeepsInv ==
  ASSUME RoomInv, NEW s \in Slots, NEW o, Fits(o, players, sessions),
         op' = [op EXCEPT ![s] = o],
         IsJoin(o) => IsJoin(op[s]) /\ o.who = op[s].who,
         UNCHANGED <<store, sockets, history, overlaps>>
  PROVE  RoomInv'
<1>1. JoinsApart'
  BY MovingKeepsApart
<1>2. UNCHANGED <<room, players, sessions, sockets, members, removed, raced, begun>>
  BY DEF store, history, overlaps
<1>3. /\ raced' \subseteq {"lists", "docs", "room", "halfJoined"}
      /\ begun' \in 0..MaxHandlers
  BY <1>2 DEF RoomInv, TypeOK
<1> QED
  BY <1>1, <1>2, <1>3, LocalStep

LEMMA DoneKeepsInv ==
  ASSUME RoomInv, NEW s \in Slots, Done(s),
         UNCHANGED <<store, sockets, history, overlaps>>
  PROVE  RoomInv'
<1>1. Fits(Idle, players, sessions) /\ ~IsJoin(Idle)
  BY HandlerTypes DEF Fits, IsJoin
<1> QED
  BY <1>1, MoveKeepsInv DEF Done

LEMMA ListForJoinKeepsInv ==
  ASSUME RoomInv, NEW s \in Slots, ListForJoin(s)
  PROVE  RoomInv'
<1>1. UNCHANGED <<store, sockets, history, overlaps>>
  BY DEF ListForJoin
<1>2. CASE Done(s)
  BY <1>1, <1>2, DoneKeepsInv
<1>3. ASSUME NEW typed \in Names \cup {None}, NEW new \in ResolveNames(typed, Active),
             op' = [op EXCEPT ![s].pc = "savePlayer", ![s].doc = new]
      PROVE  RoomInv'
  <2>1. new \in PlayerDocs
    BY ActivePlayers, NewcomerTyped
  <2>2. /\ op[s] \in PlayerHandlers /\ op[s].pc = "list" /\ op[s].kind = "join"
        /\ Knows(op[s], players[op[s].who], sessions[op[s].who])
    BY AtWork DEF ListForJoin, At
  <2> DEFINE o == [op[s] EXCEPT !.pc = "savePlayer", !.doc = new]
  <2>3. o \in PlayerHandlers /\ o.kind = "join" /\ o.who = op[s].who
        /\ o.pc = "savePlayer" /\ o.doc = new
    BY <2>1, <2>2 DEF PlayerHandlers, Places
  <2>4. op' = [op EXCEPT ![s] = o]
    BY <1>3 DEF RoomInv, TypeOK
  <2> HIDE DEF o
  <2>5. Fits(o, players, sessions)
    BY <2>1, <2>2, <2>3 DEF Fits, Knows
  <2>6. IsJoin(op[s])
    BY <2>2 DEF IsJoin
  <2> QED
    BY <1>1, <2>3, <2>4, <2>5, <2>6, MoveKeepsInv
<1> QED
  BY <1>2, <1>3 DEF ListForJoin

(* A handler that holds a document and goes on with another one.           *)
LEMMA GoOnKeepsInv ==
  ASSUME RoomInv, NEW s \in Slots, NEW place \in {"savePlayer", "list"}, NEW doc \in PlayerDocs,
         op[s].pc \in {"load", "list"}, op[s].kind # "join",
         place = "list" => op[s].kind \in {"rename", "hostRename"},
         op' = [op EXCEPT ![s].pc = place, ![s].doc = doc],
         UNCHANGED <<store, sockets, history, overlaps>>
  PROVE  RoomInv'
<1>1. /\ op[s] \in PlayerHandlers
      /\ Knows(op[s], players[op[s].who], sessions[op[s].who])
  BY AtWork
<1> DEFINE o == [op[s] EXCEPT !.pc = place, !.doc = doc]
<1>2. o \in PlayerHandlers /\ o.kind = op[s].kind /\ o.who = op[s].who
      /\ o.pc = place /\ o.doc = doc
  BY <1>1 DEF PlayerHandlers, Places
<1>3. op' = [op EXCEPT ![s] = o]
  BY DEF RoomInv, TypeOK
<1> HIDE DEF o
<1>4. players[op[s].who] \in PlayerDocs
  BY <1>1 DEF Knows
<1>5. Fits(o, players, sessions)
  BY <1>2, <1>4 DEF Fits, Knows
<1>6. ~IsJoin(o)
  BY <1>2 DEF IsJoin
<1> QED
  BY <1>3, <1>5, <1>6, MoveKeepsInv

LEMMA LoadPlayerKeepsInv ==
  ASSUME RoomInv, NEW s \in Slots, LoadPlayer(s)
  PROVE  RoomInv'
<1> DEFINE kind == op[s].kind
           d == players[op[s].who]
<1>1. UNCHANGED <<store, sockets, history, overlaps>> /\ op[s].pc = "load"
  BY DEF LoadPlayer, At
<1>2. /\ op[s] \in PlayerHandlers /\ kind # "join" /\ d \in PlayerDocs
  BY <1>1, AtWork DEF Knows
<1>3. CASE Done(s)
  BY <1>1, <1>3, DoneKeepsInv
<1>4. ASSUME op' = [op EXCEPT ![s].pc = "savePlayer", ![s].doc = Removed(kind, d)]
      PROVE  RoomInv'
  <2>1. Removed(kind, d) \in PlayerDocs
    BY <1>2 DEF Removed, PlayerDocs
  <2> QED
    BY <1>1, <1>2, <1>4, <2>1, GoOnKeepsInv
<1>5. ASSUME kind \in {"rename", "hostRename", "recolor"},
             op' = [op EXCEPT ![s].pc = IF kind = "recolor" THEN "savePlayer" ELSE "list",
                              ![s].doc = d]
      PROVE  RoomInv'
  BY <1>1, <1>2, <1>5, GoOnKeepsInv
<1> QED
  BY <1>3, <1>4, <1>5 DEF LoadPlayer

LEMMA ListForRenameKeepsInv ==
  ASSUME RoomInv, NEW s \in Slots, ListForRename(s)
  PROVE  RoomInv'
<1>1. /\ UNCHANGED <<store, sockets, history, overlaps>> /\ op[s].pc = "list"
      /\ op[s].kind \in {"rename", "hostRename"}
  BY DEF ListForRename, At, Lists
<1>2. op[s] \in PlayerHandlers /\ op[s].doc \in PlayerDocs
  BY <1>1, AtWork DEF Knows
<1>3. PICK typed \in Names :
        \E new \in ResolveNames(typed, Active \ {op[s].who}) :
          op' = [op EXCEPT ![s].pc = "savePlayer",
                           ![s].doc = [@ EXCEPT !.text = new.text, !.chosen = TRUE,
                                                !.identity = None]]
  BY DEF ListForRename
<1>4. PICK new \in ResolveNames(typed, Active \ {op[s].who}) :
        op' = [op EXCEPT ![s].pc = "savePlayer",
                         ![s].doc = [@ EXCEPT !.text = new.text, !.chosen = TRUE,
                                              !.identity = None]]
  BY <1>3
<1> DEFINE doc == [op[s].doc EXCEPT !.text = new.text, !.chosen = TRUE, !.identity = None]
<1>5. new \in PlayerDocs
  BY ActivePlayers, NewcomerTyped
<1>6. doc \in PlayerDocs
  BY <1>2, <1>5 DEF PlayerDocs
<1>7. op' = [op EXCEPT ![s].pc = "savePlayer", ![s].doc = doc]
  BY <1>2, <1>4 DEF RoomInv, TypeOK, PlayerHandlers
<1> HIDE DEF doc
<1> QED
  BY <1>1, <1>6, <1>7, GoOnKeepsInv

(* A step of the handler in s after which it and all others fit.           *)
LEMMA FitsAll ==
  ASSUME RoomInv, NEW s \in Slots, NEW o, op' = [op EXCEPT ![s] = o],
         Fits(o, players', sessions'),
         \A t \in Slots \ {s} :
           op[t] \in PlayerHandlers /\ Knows(op[t], players[op[t].who], sessions[op[t].who])
           => Knows(op[t], players'[op[t].who], sessions'[op[t].who])
  PROVE  HandlersFit' /\ op' \in [Slots -> Handlers]
<1>1. op \in [Slots -> Handlers] /\ o \in Handlers
  BY FitsIsTyped DEF RoomInv, TypeOK
<1>2. op'[s] = o /\ \A t \in Slots \ {s} : op'[t] = op[t]
  BY <1>1
<1>3. ASSUME NEW t \in Slots
      PROVE  Fits(op'[t], players', sessions')
  <2>1. CASE t = s
    BY <1>2, <2>1
  <2>2. CASE t # s
    <3>1. op'[t] = op[t] /\ Fits(op[t], players, sessions)
      BY <1>2, <2>2 DEF RoomInv, HandlersFit
    <3> QED
      BY <2>2, <3>1 DEF Fits
  <2> QED
    BY <2>1, <2>2
<1> QED
  BY <1>1, <1>3 DEF HandlersFit

LEMMA SavePlayerKeepsInv ==
  ASSUME RoomInv, NEW s \in Slots, SavePlayer(s)
  PROVE  RoomInv'
<1> DEFINE w == op[s].who
           o == [op[s] EXCEPT !.pc = AfterSave(op[s].kind)]
<1>1. /\ op[s] \in PlayerHandlers /\ op[s].pc = "savePlayer" /\ op[s].doc \in PlayerDocs
      /\ Knows(op[s], players[w], sessions[w])
  BY AtWork DEF SavePlayer, At, Knows
<1>2. /\ w \in Players /\ players' = [players EXCEPT ![w] = op[s].doc]
      /\ sessions' = sessions
  BY <1>1 DEF SavePlayer, PlayerHandlers
<1>3. /\ players' \in [Players -> PlayerDocs \cup {NoPlayer}]
      /\ players'[w] = op[s].doc
      /\ \A p \in Players \ {w} : players'[p] = players[p]
  BY <1>1, <1>2 DEF RoomInv, TypeOK
<1>4. /\ o \in PlayerHandlers /\ o.who = w /\ o.kind = op[s].kind
      /\ o.pc = AfterSave(op[s].kind)
  BY <1>1 DEF PlayerHandlers, Places, AfterSave
<1>5. Knows(o, players'[w], sessions'[w])
  BY <1>1, <1>2, <1>3, <1>4 DEF Knows, AfterSave, PlayerHandlers, PlayerKinds
<1>6. op' = [op EXCEPT ![s] = o]
  BY DEF SavePlayer, Goto, RoomInv, TypeOK
<1>7. Fits(o, players', sessions')
  BY <1>4, <1>5 DEF Fits
<1>8. IsJoin(o) => IsJoin(op[s])
  BY <1>1, <1>4 DEF IsJoin
<1>9. ASSUME NEW t \in Slots \ {s}, op[t] \in PlayerHandlers,
             Knows(op[t], players[op[t].who], sessions[op[t].who])
      PROVE  Knows(op[t], players'[op[t].who], sessions'[op[t].who])
  <2>1. CASE op[t].who # w
    BY <1>2, <1>3, <1>9, <2>1 DEF PlayerHandlers
  <2>2. CASE op[t].who = w
    <3>1. players'[w] \in PlayerDocs
      BY <1>1, <1>3
    <3>2. ~(op[t].kind = "join" /\ op[t].pc \in {"list", "savePlayer"})
      <4>1. SUFFICES ASSUME op[t].kind = "join", op[t].pc \in {"list", "savePlayer"}
                     PROVE  FALSE
        OBVIOUS
      <4>2. players[w] = NoPlayer
        BY <1>9, <2>2, <4>1 DEF Knows
      <4>3. op[s].kind = "join"
        BY <1>1, <4>2, HandlerTypes DEF Knows
      <4>4. IsJoin(op[s]) /\ IsJoin(op[t])
        BY <1>1, <4>1, <4>3 DEF IsJoin
      <4> QED
        BY <2>2, <4>4 DEF RoomInv, JoinsApart
    <3> QED
      BY <1>2, <1>9, <2>2, <3>1, <3>2 DEF Knows
  <2> QED
    BY <2>1, <2>2
<1> HIDE DEF o
<1>10. HandlersFit' /\ op' \in [Slots -> Handlers]
  BY <1>6, <1>7, <1>9, FitsAll
<1>11. JoinsApart'
  BY <1>4, <1>6, <1>8, MovingKeepsApart
<1>12. UNCHANGED <<room, sessions, sockets, members, removed, raced, begun>>
  BY DEF SavePlayer, history, overlaps
<1>13. TypeOK'
  BY <1>3, <1>10, <1>12 DEF RoomInv, TypeOK
<1>14. TokenHasPlayer' /\ (sockets \subseteq members)'
  BY <1>1, <1>3, <1>12, HandlerTypes DEF RoomInv, TokenHasPlayer, Exists
<1> QED
  BY <1>10, <1>11, <1>13, <1>14 DEF RoomInv

LEMMA SaveSessionKeepsInv ==
  ASSUME RoomInv, NEW s \in Slots, SaveSession(s)
  PROVE  RoomInv'
<1> DEFINE w == op[s].who
           o == [op[s] EXCEPT !.pc = "touch"]
<1>1. /\ op[s] \in PlayerHandlers /\ op[s].kind = "join" /\ op[s].pc = "saveSession"
      /\ players[w] \in PlayerDocs
  BY AtWork DEF SaveSession, At, Knows
<1>2. /\ w \in Players /\ sessions' = [sessions EXCEPT ![w] = "live"]
      /\ players' = players
  BY <1>1 DEF SaveSession, PlayerHandlers
<1>3. /\ sessions' \in [Players -> {"none", "live", "revoked"}]
      /\ sessions'[w] = "live"
      /\ \A p \in Players \ {w} : sessions'[p] = sessions[p]
  BY <1>2 DEF RoomInv, TypeOK
<1>4. /\ o \in PlayerHandlers /\ o.who = w /\ o.kind = "join" /\ o.pc = "touch"
  BY <1>1 DEF PlayerHandlers, Places
<1>5. Knows(o, players'[w], sessions'[w])
  BY <1>1, <1>2, <1>3, <1>4 DEF Knows
<1>6. op' = [op EXCEPT ![s] = o]
  BY DEF SaveSession, Goto, RoomInv, TypeOK
<1>7. Fits(o, players', sessions')
  BY <1>4, <1>5 DEF Fits
<1>8. IsJoin(op[s])
  BY <1>1 DEF IsJoin
<1>9. ASSUME NEW t \in Slots \ {s}, op[t] \in PlayerHandlers,
             Knows(op[t], players[op[t].who], sessions[op[t].who])
      PROVE  Knows(op[t], players'[op[t].who], sessions'[op[t].who])
  <2>1. CASE op[t].who # w
    BY <1>2, <1>3, <1>9, <2>1 DEF PlayerHandlers
  <2>2. CASE op[t].who = w
    <3>1. op[t].pc # "idle"
      BY <1>9, HandlerTypes
    <3>2. op[t].kind # "join"
      BY <1>8, <2>2, <3>1 DEF RoomInv, JoinsApart, IsJoin
    <3> QED
      BY <1>2, <1>9, <3>2 DEF Knows
  <2> QED
    BY <2>1, <2>2
<1> HIDE DEF o
<1>10. HandlersFit' /\ op' \in [Slots -> Handlers]
  BY <1>6, <1>7, <1>9, FitsAll
<1>11. JoinsApart'
  BY <1>4, <1>6, <1>8, MovingKeepsApart
<1>12. UNCHANGED <<room, players, sockets, members, removed, raced, begun>>
  BY DEF SaveSession, history, overlaps
<1>13. TypeOK'
  BY <1>3, <1>10, <1>12 DEF RoomInv, TypeOK
<1>14. TokenHasPlayer' /\ (sockets \subseteq members)'
  BY <1>1, <1>3, <1>12, HandlerTypes DEF RoomInv, TypeOK, TokenHasPlayer, Exists
<1> QED
  BY <1>10, <1>11, <1>13, <1>14 DEF RoomInv

LEMMA RevokeSessionKeepsInv ==
  ASSUME RoomInv, NEW s \in Slots, RevokeSession(s)
  PROVE  RoomInv'
<1> DEFINE w == op[s].who
           o == [op[s] EXCEPT !.pc = "touch"]
<1>1. /\ op[s] \in PlayerHandlers /\ op[s].kind = "kick" /\ op[s].pc = "revoke"
      /\ players[w] \in PlayerDocs
  BY AtWork DEF RevokeSession, At, Knows
<1>2. w \in Players /\ sessions' = Revoked(w) /\ players' = players
  BY <1>1 DEF RevokeSession, PlayerHandlers
<1>3. /\ sessions' \in [Players -> {"none", "live", "revoked"}]
      /\ \A p \in Players : sessions'[p] = "none" <=> sessions[p] = "none"
      /\ \A p \in Players \ {w} : sessions'[p] = sessions[p]
  BY <1>2 DEF RoomInv, TypeOK, Revoked
<1>4. /\ o \in PlayerHandlers /\ o.who = w /\ o.kind = "kick" /\ o.pc = "touch"
  BY <1>1 DEF PlayerHandlers, Places
<1>5. Knows(o, players'[w], sessions'[w])
  BY <1>1, <1>2, <1>4 DEF Knows
<1>6. op' = [op EXCEPT ![s] = o]
  BY DEF RevokeSession, Goto, RoomInv, TypeOK
<1>7. Fits(o, players', sessions')
  BY <1>4, <1>5 DEF Fits
<1>8. ~IsJoin(o)
  BY <1>4 DEF IsJoin
<1>9. ASSUME NEW t \in Slots \ {s}, op[t] \in PlayerHandlers,
             Knows(op[t], players[op[t].who], sessions[op[t].who])
      PROVE  Knows(op[t], players'[op[t].who], sessions'[op[t].who])
  BY <1>2, <1>3, <1>9 DEF Knows, PlayerHandlers
<1> HIDE DEF o
<1>10. HandlersFit' /\ op' \in [Slots -> Handlers]
  BY <1>6, <1>7, <1>9, FitsAll
<1>11. JoinsApart'
  BY <1>6, <1>8, MovingKeepsApart
<1>12. UNCHANGED <<room, players, sockets, members, removed, raced, begun>>
  BY DEF RevokeSession, history, overlaps
<1>13. TypeOK'
  BY <1>3, <1>10, <1>12 DEF RoomInv, TypeOK
<1>14. TokenHasPlayer' /\ (sockets \subseteq members)'
  BY <1>3, <1>12 DEF RoomInv, TypeOK, TokenHasPlayer, Exists
<1> QED
  BY <1>10, <1>11, <1>13, <1>14 DEF RoomInv

(* A handler writes the room back and has its client answered.             *)
LEMMA TouchKeepsInv ==
  ASSUME RoomInv, NEW s \in Slots, Touch(s)
  PROVE  RoomInv'
<1> DEFINE o == IF op[s].kind = "kick" THEN [op[s] EXCEPT !.pc = "disconnect"] ELSE Idle
<1>1. /\ op[s].pc = "touch" /\ room' = op[s].room
      /\ UNCHANGED <<players, sessions, sockets, removed, raced, begun>>
      /\ members' = IF op[s].kind = "join" THEN members \cup {op[s].who} ELSE members
  BY DEF Touch, Touches, At, overlaps
<1>2. Fits(op[s], players, sessions)
  BY DEF RoomInv, HandlersFit
<1>3. op' = [op EXCEPT ![s] = o]
  BY DEF Touch, Goto, Done, RoomInv, TypeOK
<1>4. room' \in RoomDocs
  BY <1>1, <1>2, HandlerTypes DEF Fits, PlayerHandlers, RoomHandlers
<1>5. Fits(o, players, sessions) /\ ~IsJoin(o)
  <2>1. CASE op[s].kind = "kick"
    <3>1. op[s] \in PlayerHandlers /\ Knows(op[s], players[op[s].who], sessions[op[s].who])
      BY <1>1, <1>2, <2>1, HandlerTypes DEF Fits, RoomHandlers, RoomKinds
    <3>2. /\ o \in PlayerHandlers /\ o.kind = "kick" /\ o.pc = "disconnect"
          /\ o.who = op[s].who
      BY <2>1, <3>1 DEF PlayerHandlers, Places
    <3>3. players[o.who] \in PlayerDocs
      BY <1>1, <2>1, <3>1, <3>2 DEF Knows
    <3> QED
      BY <3>2, <3>3 DEF Fits, Knows, IsJoin
  <2>2. CASE op[s].kind # "kick"
    BY <2>2, HandlerTypes DEF Fits, IsJoin
  <2> QED
    BY <2>1, <2>2
<1>6. op[s].kind = "join" => op[s].who \in Players /\ sessions[op[s].who] # "none"
  <2>1. SUFFICES ASSUME op[s].kind = "join"
                 PROVE  op[s].who \in Players /\ sessions[op[s].who] # "none"
    OBVIOUS
  <2>2. op[s] \in PlayerHandlers /\ Knows(op[s], players[op[s].who], sessions[op[s].who])
    BY <1>1, <1>2, <2>1, HandlerTypes DEF Fits, RoomHandlers, RoomKinds
  <2> QED
    BY <1>1, <2>1, <2>2 DEF Knows, PlayerHandlers
<1> HIDE DEF o
<1>7. HandlersFit' /\ op' \in [Slots -> Handlers]
  BY <1>1, <1>3, <1>5, OnlyOneMoves
<1>8. JoinsApart'
  BY <1>3, <1>5, MovingKeepsApart
<1>9. TypeOK'
  BY <1>1, <1>4, <1>6, <1>7 DEF RoomInv, TypeOK
<1>10. TokenHasPlayer' /\ (sockets \subseteq members)'
  BY <1>1, <1>6 DEF RoomInv, TokenHasPlayer, Exists
<1> QED
  BY <1>7, <1>8, <1>9, <1>10 DEF RoomInv

LEMMA DisconnectKeepsInv ==
  ASSUME RoomInv, NEW s \in Slots, Disconnect(s)
  PROVE  RoomInv'
<1>1. /\ op[s].pc = "disconnect" /\ Done(s)
      /\ sockets' = sockets \ {op[s].who} /\ removed' = removed \cup {op[s].who}
      /\ UNCHANGED <<room, players, sessions, members, raced, begun>>
  BY DEF Disconnect, At, store, overlaps
<1>2. op[s].who \in Players
  BY <1>1, AtWork DEF PlayerHandlers
<1>3. Fits(Idle, players, sessions) /\ ~IsJoin(Idle)
  BY HandlerTypes DEF Fits, IsJoin
<1>4. op' = [op EXCEPT ![s] = Idle]
  BY <1>1 DEF Done
<1>5. HandlersFit' /\ op' \in [Slots -> Handlers]
  BY <1>1, <1>3, <1>4, OnlyOneMoves
<1>6. JoinsApart'
  BY <1>3, <1>4, MovingKeepsApart
<1>7. TypeOK'
  BY <1>1, <1>2, <1>5 DEF RoomInv, TypeOK
<1>8. TokenHasPlayer' /\ (sockets \subseteq members)'
  BY <1>1 DEF RoomInv, TokenHasPlayer, Exists
<1> QED
  BY <1>5, <1>6, <1>7, <1>8 DEF RoomInv

(* Sockets come and go, the match moves, and the process stops.            *)
LEMMA OthersKeepInv ==
  ASSUME RoomInv,
         \/ \E p \in Players : Connect(p) \/ DropSocket(p)
         \/ MatchMoves \/ Crash \/ UNCHANGED vars
  PROVE  RoomInv'
<1>1. ASSUME NEW p \in Players, Connect(p) \/ DropSocket(p)
      PROVE  RoomInv'
  <2>1. /\ UNCHANGED <<room, players, sessions, op, members, removed, raced, begun>>
        /\ sockets' \subseteq members /\ sockets' \subseteq Players
    BY <1>1 DEF Connect, DropSocket, store, history, overlaps, RoomInv, TypeOK
  <2> QED
    BY <2>1 DEF RoomInv, TypeOK, TokenHasPlayer, Exists, JoinsApart, HandlersFit
<1>2. CASE MatchMoves
  <2>1. /\ UNCHANGED <<players, sessions, sockets, op, members, removed>>
        /\ room' \in RoomDocs
    BY <1>2 DEF MatchMoves, history, RoomInv, TypeOK, RoomDocs
  <2>2. /\ raced' \subseteq {"lists", "docs", "room", "halfJoined"}
        /\ begun' \in 0..MaxHandlers
    BY <1>2, BeginsTyped DEF MatchMoves
  <2> QED
    BY <2>1, <2>2 DEF RoomInv, TypeOK, TokenHasPlayer, Exists, JoinsApart, HandlersFit
<1>3. CASE Crash
  <2>1. /\ UNCHANGED <<room, players, sessions, members, removed, raced, begun>>
        /\ op' = [s \in Slots |-> Idle] /\ sockets' = {}
    BY <1>3 DEF Crash, store, history, overlaps
  <2>2. JoinsApart' /\ HandlersFit' /\ op' \in [Slots -> Handlers]
    BY <2>1, HandlerTypes DEF JoinsApart, HandlersFit, IsJoin, Fits
  <2> QED
    BY <2>1, <2>2 DEF RoomInv, TypeOK, TokenHasPlayer, Exists
<1>4. CASE UNCHANGED vars
  BY <1>4 DEF vars, store, history, overlaps, RoomInv, TypeOK, TokenHasPlayer, Exists,
              JoinsApart, HandlersFit
<1> QED
  BY <1>1, <1>2, <1>3, <1>4

(* Every step of the model keeps the invariant.                            *)
THEOREM RoomInvStep == RoomInv /\ [Next]_vars => RoomInv'
<1> SUFFICES ASSUME RoomInv, [Next]_vars
             PROVE  RoomInv'
  OBVIOUS
<1>1. ASSUME NEW s \in Slots, NEW p \in Players,
             \/ BeginJoin(s, p) \/ BeginKick(s, p) \/ BeginLeave(s, p)
             \/ \E kind \in {"rename", "hostRename", "recolor"} : BeginEdit(s, p, kind)
      PROVE  RoomInv'
  <2>1. CASE BeginJoin(s, p)
    BY <2>1, BeginJoinKeepsInv
  <2>2. CASE BeginKick(s, p)
    BY <2>2, MembersExist, StartKeepsInv DEF BeginKick, PlayerKinds
  <2>3. CASE BeginLeave(s, p)
    BY <2>3, MembersExist, StartKeepsInv DEF BeginLeave, PlayerKinds
  <2>4. ASSUME NEW kind \in {"rename", "hostRename", "recolor"}, BeginEdit(s, p, kind)
        PROVE  RoomInv'
    BY <2>4, MembersExist, StartKeepsInv DEF BeginEdit, PlayerKinds
  <2> QED
    BY <1>1, <2>1, <2>2, <2>3, <2>4
<1>2. ASSUME NEW s \in Slots,
             \/ ListForJoin(s) \/ SavePlayer(s) \/ SaveSession(s)
             \/ LoadPlayer(s) \/ ListForRename(s) \/ RevokeSession(s)
             \/ BeginSetting(s) \/ Touch(s) \/ Disconnect(s) \/ Abort(s)
      PROVE  RoomInv'
  <2>1. CASE Abort(s)
    BY <2>1, DoneKeepsInv DEF Abort
  <2> QED
    BY <1>2, <2>1, ListForJoinKeepsInv, SavePlayerKeepsInv, SaveSessionKeepsInv,
       LoadPlayerKeepsInv, ListForRenameKeepsInv, RevokeSessionKeepsInv,
       BeginSettingKeepsInv, TouchKeepsInv, DisconnectKeepsInv
<1>3. CASE \/ \E p \in Players : Connect(p) \/ DropSocket(p)
           \/ MatchMoves \/ Crash \/ UNCHANGED vars
  BY <1>3, OthersKeepInv
<1> QED
  BY <1>1, <1>2, <1>3 DEF Next

(* So it always holds.                                                    *)
THEOREM RoomInvHolds == Spec => []RoomInv
BY RoomInvInit, RoomInvStep, PTL DEF Spec

(* The types are right, for every number of players, names and handlers.   *)
THEOREM TypeCorrect == Spec => []TypeOK
<1>1. RoomInv => TypeOK
  BY DEF RoomInv
<1> QED
  BY <1>1, RoomInvHolds, PTL

(* Wherever the handlers stop, and however many of them interleave in any  *)
(* way, a token that was given out has a session and a player behind it.   *)
THEOREM TokenHolds == Spec => []TokenHasPlayer
<1>1. RoomInv => TokenHasPlayer
  BY DEF RoomInv
<1> QED
  BY <1>1, RoomInvHolds, PTL

-----------------------------------------------------------------------------
(* What each step of a handler does to its slot: the other handlers stay   *)
(* as they are, and races are never forgotten.                             *)

Keeps(s) == \A t \in Slots \ {s} : op'[t] = op[t]

(* The handler in s goes on to place, about the same player, with doc.     *)
GoesOn(s, place, doc) == op'[s] = [op[s] EXCEPT !.pc = place, !.doc = doc]

LEMMA StartEffect ==
  ASSUME RoomInv, NEW s \in Slots, NEW kind, NEW p, NEW place, Start(s, kind, p, place)
  PROVE  /\ Keeps(s) /\ op[s].pc = "idle"
         /\ op'[s] = [pc |-> place, kind |-> kind, who |-> p, room |-> room,
                      doc |-> NoPlayer]
         /\ raced' = raced \cup Overlaps(kind, p)
         /\ UNCHANGED <<room, players, sessions, sockets, members, removed>>
<1>1. op \in [Slots -> Handlers]
  BY DEF RoomInv, TypeOK
<1>2. op' = [op EXCEPT ![s] = [pc |-> place, kind |-> kind, who |-> p, room |-> room,
                               doc |-> NoPlayer]]
  BY DEF Start
<1>3. Keeps(s) /\ op'[s] = [pc |-> place, kind |-> kind, who |-> p, room |-> room,
                            doc |-> NoPlayer]
  BY <1>1, <1>2 DEF Keeps
<1> QED
  BY <1>3 DEF Start, At, Begins, store, history

LEMMA BeginSettingEffect ==
  ASSUME RoomInv, NEW s \in Slots, BeginSetting(s)
  PROVE  /\ Keeps(s) /\ op[s].pc = "idle"
         /\ \E kind \in RoomKinds, value \in BOOLEAN :
              /\ op'[s] = [pc |-> "touch", kind |-> kind, room |-> Changed(room, kind, value)]
              /\ raced' = raced \cup Overlaps(kind, None)
         /\ UNCHANGED <<room, players, sessions, sockets, members, removed>>
<1>1. op \in [Slots -> Handlers]
  BY DEF RoomInv, TypeOK
<1>2. PICK kind \in RoomKinds, value \in BOOLEAN :
        /\ op' = [op EXCEPT ![s] =
                    [pc |-> "touch", kind |-> kind, room |-> Changed(room, kind, value)]]
        /\ Begins(kind, None)
  BY DEF BeginSetting
<1>3. Keeps(s)
      /\ op'[s] = [pc |-> "touch", kind |-> kind, room |-> Changed(room, kind, value)]
  BY <1>1, <1>2 DEF Keeps
<1> QED
  BY <1>2, <1>3 DEF BeginSetting, Begins, At, store, history

LEMMA DoneEffect ==
  ASSUME RoomInv, NEW s \in Slots, Done(s)
  PROVE  Keeps(s) /\ op'[s] = Idle
BY DEF RoomInv, TypeOK, Done, Keeps

LEMMA GotoEffect ==
  ASSUME RoomInv, NEW s \in Slots, NEW place, Goto(s, place)
  PROVE  Keeps(s) /\ op'[s] = [op[s] EXCEPT !.pc = place]
BY DEF RoomInv, TypeOK, Goto, Keeps

LEMMA ListForJoinEffect ==
  ASSUME RoomInv, NEW s \in Slots, ListForJoin(s)
  PROVE  /\ Keeps(s) /\ op[s].pc = "list" /\ op[s].kind = "join"
         /\ \/ op'[s] = Idle
            \/ /\ ~Full(Active)
               /\ \E typed \in Names \cup {None} : \E new \in ResolveNames(typed, Active) :
                    GoesOn(s, "savePlayer", new)
         /\ UNCHANGED <<store, sockets, history, overlaps>>
<1>1. op \in [Slots -> Handlers]
  BY DEF RoomInv, TypeOK
<1>2. op[s].pc = "list" /\ op[s].kind = "join" /\ UNCHANGED <<store, sockets, history, overlaps>>
  BY DEF ListForJoin, At
<1>3. CASE Full(Active)
  BY <1>2, <1>3, DoneEffect DEF ListForJoin
<1>4. CASE ~Full(Active)
  <2>1. PICK typed \in Names \cup {None} : \E new \in ResolveNames(typed, Active) :
          op' = [op EXCEPT ![s].pc = "savePlayer", ![s].doc = new]
    BY <1>4 DEF ListForJoin
  <2>2. PICK new \in ResolveNames(typed, Active) :
          op' = [op EXCEPT ![s].pc = "savePlayer", ![s].doc = new]
    BY <2>1
  <2>3. Keeps(s) /\ GoesOn(s, "savePlayer", new)
    BY <1>1, <2>2 DEF Keeps, GoesOn
  <2> QED
    BY <1>2, <1>4, <2>3
<1> QED
  BY <1>3, <1>4

LEMMA LoadPlayerEffect ==
  ASSUME RoomInv, NEW s \in Slots, LoadPlayer(s)
  PROVE  LET kind == op[s].kind
             d == players[op[s].who]
         IN /\ Keeps(s) /\ op[s].pc = "load"
            /\ \/ op'[s] = Idle
               \/ kind \in {"kick", "leave"} /\ GoesOn(s, "savePlayer", Removed(kind, d))
               \/ kind = "recolor" /\ ~Gone(d) /\ GoesOn(s, "savePlayer", d)
               \/ kind \in {"rename", "hostRename"} /\ ~Gone(d) /\ GoesOn(s, "list", d)
            /\ UNCHANGED <<store, sockets, history, overlaps>>
<1> DEFINE kind == op[s].kind
           d == players[op[s].who]
<1>1. op \in [Slots -> Handlers]
  BY DEF RoomInv, TypeOK
<1>2. op[s].pc = "load" /\ UNCHANGED <<store, sockets, history, overlaps>>
  BY DEF LoadPlayer, At
<1>3. CASE Done(s)
  BY <1>2, <1>3, DoneEffect
<1>4. ASSUME kind \in {"kick", "leave"},
             op' = [op EXCEPT ![s].pc = "savePlayer", ![s].doc = Removed(kind, d)]
      PROVE  Keeps(s) /\ GoesOn(s, "savePlayer", Removed(kind, d))
  BY <1>1, <1>4 DEF Keeps, GoesOn
<1>5. ASSUME kind \in {"rename", "hostRename", "recolor"}, MayEdit(kind, d),
             op' = [op EXCEPT ![s].pc = IF kind = "recolor" THEN "savePlayer" ELSE "list",
                              ![s].doc = d]
      PROVE  /\ Keeps(s) /\ ~Gone(d)
             /\ GoesOn(s, IF kind = "recolor" THEN "savePlayer" ELSE "list", d)
  BY <1>1, <1>5 DEF Keeps, GoesOn, MayEdit
<1> HIDE DEF d, kind
<1>6. \/ Done(s)
      \/ /\ kind \in {"kick", "leave"}
         /\ op' = [op EXCEPT ![s].pc = "savePlayer", ![s].doc = Removed(kind, d)]
      \/ /\ kind \in {"rename", "hostRename", "recolor"} /\ MayEdit(kind, d)
         /\ op' = [op EXCEPT ![s].pc = IF kind = "recolor" THEN "savePlayer" ELSE "list",
                             ![s].doc = d]
  BY DEF LoadPlayer, kind, d
<1>7. \/ op'[s] = Idle /\ Keeps(s)
      \/ kind \in {"kick", "leave"} /\ Keeps(s) /\ GoesOn(s, "savePlayer", Removed(kind, d))
      \/ kind = "recolor" /\ Keeps(s) /\ ~Gone(d) /\ GoesOn(s, "savePlayer", d)
      \/ kind \in {"rename", "hostRename"} /\ Keeps(s) /\ ~Gone(d) /\ GoesOn(s, "list", d)
  BY <1>4, <1>5, <1>6, DoneEffect
<1> QED
  BY <1>2, <1>7 DEF kind, d

LEMMA ListForRenameEffect ==
  ASSUME RoomInv, NEW s \in Slots, ListForRename(s)
  PROVE  /\ Keeps(s) /\ op[s].pc = "list" /\ op[s].kind \in {"rename", "hostRename"}
         /\ \E typed \in Names : \E new \in ResolveNames(typed, Active \ {op[s].who}) :
              GoesOn(s, "savePlayer",
                     [op[s].doc EXCEPT !.text = new.text, !.chosen = TRUE, !.identity = None])
         /\ UNCHANGED <<store, sockets, history, overlaps>>
<1>1. op \in [Slots -> Handlers]
  BY DEF RoomInv, TypeOK
<1>2. /\ UNCHANGED <<store, sockets, history, overlaps>> /\ op[s].pc = "list"
      /\ op[s].kind \in {"rename", "hostRename"}
  BY DEF ListForRename, At, Lists
<1>3. op[s] \in PlayerHandlers
  BY <1>2, AtWork
<1>4. PICK typed \in Names :
        \E new \in ResolveNames(typed, Active \ {op[s].who}) :
          op' = [op EXCEPT ![s].pc = "savePlayer",
                           ![s].doc = [@ EXCEPT !.text = new.text, !.chosen = TRUE,
                                                !.identity = None]]
  BY DEF ListForRename
<1>5. PICK new \in ResolveNames(typed, Active \ {op[s].who}) :
        op' = [op EXCEPT ![s].pc = "savePlayer",
                         ![s].doc = [@ EXCEPT !.text = new.text, !.chosen = TRUE,
                                              !.identity = None]]
  BY <1>4
<1>6. /\ Keeps(s)
      /\ GoesOn(s, "savePlayer",
                [op[s].doc EXCEPT !.text = new.text, !.chosen = TRUE, !.identity = None])
  BY <1>1, <1>3, <1>5 DEF Keeps, GoesOn, PlayerHandlers
<1> QED
  BY <1>2, <1>6

-----------------------------------------------------------------------------
(* A kick that found a session leaves it revoked.                          *)

KickFits(o, ss) ==
  o.pc # "idle" /\ o.kind = "kick" =>
    /\ ss[o.who] # "none"
    /\ o.pc \in {"touch", "disconnect"} => ss[o.who] = "revoked"

(* The inductive strengthening of KickedIsOut.                             *)
KickInv ==
  "halfJoined" \notin raced =>
    /\ \A s \in Slots : KickFits(op[s], sessions)
    /\ \A p \in removed : sessions[p] = "revoked" /\ p \notin sockets

(* A step of one handler that changes no session.                          *)
LEMMA KickLocal ==
  ASSUME KickInv, NEW s \in Slots, Keeps(s), raced \subseteq raced',
         sessions' = sessions, sockets' = sockets, removed' = removed,
         "halfJoined" \notin raced' => KickFits(op'[s], sessions)
  PROVE  KickInv'
BY DEF KickInv, Keeps

LEMMA KickBegins ==
  ASSUME RoomInv, KickInv, NEW s \in Slots, NEW p \in Players, NEW kind, NEW place,
         place \in {"load", "list"}, Start(s, kind, p, place)
  PROVE  KickInv'
<1>1. /\ Keeps(s) /\ raced' = raced \cup Overlaps(kind, p)
      /\ op'[s] = [pc |-> place, kind |-> kind, who |-> p, room |-> room, doc |-> NoPlayer]
      /\ UNCHANGED <<sessions, sockets, removed>>
  BY StartEffect
<1>2. kind = "kick" /\ sessions[p] = "none" => "halfJoined" \in Overlaps(kind, p)
  BY DEF Overlaps
<1>3. "halfJoined" \notin raced' => KickFits(op'[s], sessions)
  BY <1>1, <1>2 DEF KickFits
<1> QED
  BY <1>1, <1>3, KickLocal

LEMMA KickAtWork ==
  ASSUME RoomInv, KickInv, NEW s \in Slots,
         ListForJoin(s) \/ SavePlayer(s) \/ LoadPlayer(s) \/ ListForRename(s)
         \/ Touch(s) \/ BeginSetting(s) \/ Abort(s)
  PROVE  KickInv'
<1>1. "halfJoined" \notin raced => KickFits(op[s], sessions)
  BY DEF KickInv
<1>2. KickFits(Idle, sessions)
  BY HandlerTypes DEF KickFits
<1>3. CASE ListForJoin(s) \/ LoadPlayer(s) \/ ListForRename(s)
  <2>1. op[s] \in PlayerHandlers /\ op[s].pc \in {"list", "load"} /\ op[s].pc # "idle"
    BY <1>3, AtWork DEF ListForJoin, LoadPlayer, ListForRename, At
  <2>2. /\ Keeps(s)
        /\ \/ op'[s] = Idle
           \/ \E place \in {"savePlayer", "list"} : \E doc : GoesOn(s, place, doc)
        /\ UNCHANGED <<store, sockets, history, overlaps>>
    BY <1>3, ListForJoinEffect, LoadPlayerEffect, ListForRenameEffect
  <2>3. ASSUME NEW place \in {"savePlayer", "list"}, NEW doc, GoesOn(s, place, doc)
        PROVE  "halfJoined" \notin raced => KickFits(op'[s], sessions)
    <3>1. /\ op'[s].pc = place /\ op'[s].kind = op[s].kind /\ op'[s].who = op[s].who
      BY <2>1, <2>3 DEF GoesOn, PlayerHandlers
    <3> QED
      BY <1>1, <2>1, <3>1 DEF KickFits
  <2>4. "halfJoined" \notin raced => KickFits(op'[s], sessions)
    BY <1>2, <2>2, <2>3
  <2> QED
    BY <2>2, <2>4, KickLocal DEF store, history, overlaps
<1>4. CASE SavePlayer(s)
  <2>1. op[s] \in PlayerHandlers /\ op[s].pc = "savePlayer"
    BY <1>4, AtWork DEF SavePlayer, At
  <2>2. Keeps(s) /\ op'[s] = [op[s] EXCEPT !.pc = AfterSave(op[s].kind)]
    BY <1>4, GotoEffect DEF SavePlayer
  <2>3. op'[s].pc = AfterSave(op[s].kind) /\ op'[s].kind = op[s].kind /\ op'[s].who = op[s].who
    BY <2>1, <2>2 DEF PlayerHandlers
  <2>4. "halfJoined" \notin raced => KickFits(op'[s], sessions)
    BY <1>1, <2>1, <2>3 DEF KickFits, AfterSave
  <2> QED
    BY <1>4, <2>2, <2>4, KickLocal DEF SavePlayer, history, overlaps
<1>5. CASE Touch(s)
  <2>1. Fits(op[s], players, sessions) /\ op[s].pc = "touch"
    BY <1>5 DEF RoomInv, HandlersFit, Touch, Touches, At
  <2>2. UNCHANGED <<sessions, sockets, removed, raced>>
    BY <1>5 DEF Touch, overlaps
  <2>3. CASE op[s].kind = "kick"
    <3>1. op[s] \in PlayerHandlers
      BY <2>1, <2>3, HandlerTypes DEF Fits, RoomHandlers, RoomKinds
    <3>2. Keeps(s) /\ op'[s] = [op[s] EXCEPT !.pc = "disconnect"]
      BY <1>5, <2>3, GotoEffect DEF Touch
    <3>3. op'[s].pc = "disconnect" /\ op'[s].kind = "kick" /\ op'[s].who = op[s].who
      BY <2>3, <3>1, <3>2 DEF PlayerHandlers
    <3>4. "halfJoined" \notin raced => KickFits(op'[s], sessions)
      BY <1>1, <2>1, <2>3, <3>3 DEF KickFits
    <3> QED
      BY <2>2, <3>2, <3>4, KickLocal
  <2>4. CASE op[s].kind # "kick"
    BY <1>2, <1>5, <2>2, <2>4, DoneEffect, KickLocal DEF Touch
  <2> QED
    BY <2>3, <2>4
<1>6. CASE BeginSetting(s)
  <2>1. /\ Keeps(s) /\ raced \subseteq raced' /\ UNCHANGED <<sessions, sockets, removed>>
        /\ \E kind \in RoomKinds, value \in BOOLEAN :
             op'[s] = [pc |-> "touch", kind |-> kind, room |-> Changed(room, kind, value)]
    BY <1>6, BeginSettingEffect
  <2>2. KickFits(op'[s], sessions)
    BY <2>1 DEF KickFits, RoomKinds
  <2> QED
    BY <2>1, <2>2, KickLocal
<1>7. CASE Abort(s)
  BY <1>2, <1>7, DoneEffect, KickLocal DEF Abort, store, history, overlaps
<1> QED
  BY <1>3, <1>4, <1>5, <1>6, <1>7

LEMMA KickSessions ==
  ASSUME RoomInv, KickInv, NEW s \in Slots, SaveSession(s) \/ RevokeSession(s)
  PROVE  KickInv'
<1> DEFINE w == op[s].who
<1>1. op[s] \in PlayerHandlers /\ op[s].pc \in {"saveSession", "revoke"} /\ w \in Players
  BY AtWork DEF SaveSession, RevokeSession, At, PlayerHandlers
<1>2. Keeps(s) /\ op'[s] = [op[s] EXCEPT !.pc = "touch"]
  BY GotoEffect DEF SaveSession, RevokeSession
<1>3. op'[s].pc = "touch" /\ op'[s].kind = op[s].kind /\ op'[s].who = w
  BY <1>1, <1>2 DEF PlayerHandlers
<1>4. UNCHANGED <<sockets, removed, raced>>
  BY DEF SaveSession, RevokeSession, history, overlaps
<1>5. "halfJoined" \notin raced =>
        /\ KickFits(op'[s], sessions')
        /\ \A o \in Handlers : KickFits(o, sessions) => KickFits(o, sessions')
        /\ \A p \in removed : sessions[p] = "revoked" => sessions'[p] = "revoked"
  <2>1. SUFFICES ASSUME "halfJoined" \notin raced
                 PROVE  /\ KickFits(op'[s], sessions')
                        /\ \A o \in Handlers : KickFits(o, sessions) => KickFits(o, sessions')
                        /\ \A p \in removed : sessions[p] = "revoked" => sessions'[p] = "revoked"
    OBVIOUS
  <2>2. KickFits(op[s], sessions)
    BY <2>1 DEF KickInv
  <2>3. removed \subseteq Players /\ sessions \in [Players -> {"none", "live", "revoked"}]
    BY DEF RoomInv, TypeOK
  <2>4. CASE SaveSession(s)
    <3>1. op[s].kind = "join" /\ sessions[w] = "none" /\ sessions' = [sessions EXCEPT ![w] = "live"]
      BY <2>4, AtWork DEF SaveSession, At, Knows
    <3>2. sessions'[w] = "live" /\ \A p \in Players \ {w} : sessions'[p] = sessions[p]
      BY <1>1, <2>3, <3>1
    <3>3. KickFits(op'[s], sessions')
      BY <1>3, <3>1 DEF KickFits
    <3>4. ASSUME NEW o \in Handlers, KickFits(o, sessions)
          PROVE  KickFits(o, sessions')
      <4>1. SUFFICES ASSUME o.pc # "idle", o.kind = "kick"
                     PROVE  KickFits(o, sessions')
        BY DEF KickFits
      <4>2. o.who \in Players
        BY <4>1, HandlerTypes DEF PlayerHandlers, RoomHandlers, RoomKinds
      <4>3. o.who # w
        BY <3>1, <3>4, <4>1 DEF KickFits
      <4> QED
        BY <3>2, <3>4, <4>2, <4>3 DEF KickFits
    <3> QED
      BY <2>3, <3>1, <3>2, <3>3, <3>4
  <2>5. CASE RevokeSession(s)
    <3>1. op[s].kind = "kick" /\ sessions' = Revoked(w)
      BY <2>5, AtWork DEF RevokeSession, At, Knows
    <3>2. sessions[w] # "none"
      BY <1>1, <2>2, <3>1 DEF KickFits
    <3>3. sessions'[w] = "revoked" /\ \A p \in Players \ {w} : sessions'[p] = sessions[p]
      BY <1>1, <2>3, <3>1, <3>2 DEF Revoked
    <3>4. KickFits(op'[s], sessions')
      BY <1>3, <3>3 DEF KickFits
    <3>5. ASSUME NEW o \in Handlers, KickFits(o, sessions)
          PROVE  KickFits(o, sessions')
      <4>1. SUFFICES ASSUME o.pc # "idle", o.kind = "kick"
                     PROVE  KickFits(o, sessions')
        BY DEF KickFits
      <4>2. o.who \in Players
        BY <4>1, HandlerTypes DEF PlayerHandlers, RoomHandlers, RoomKinds
      <4> QED
        BY <3>3, <3>5, <4>1, <4>2 DEF KickFits
    <3> QED
      BY <2>3, <3>3, <3>4, <3>5
  <2> QED
    BY <2>4, <2>5
<1>6. op \in [Slots -> Handlers]
  BY DEF RoomInv, TypeOK
<1> QED
  BY <1>2, <1>4, <1>5, <1>6 DEF KickInv, Keeps

LEMMA KickInvStep == RoomInv /\ KickInv /\ [Next]_vars => KickInv'
<1> SUFFICES ASSUME RoomInv, KickInv, [Next]_vars
             PROVE  KickInv'
  OBVIOUS
<1>1. ASSUME NEW s \in Slots, NEW p \in Players,
             \/ BeginJoin(s, p) \/ BeginKick(s, p) \/ BeginLeave(s, p)
             \/ \E kind \in {"rename", "hostRename", "recolor"} : BeginEdit(s, p, kind)
      PROVE  KickInv'
  <2>1. CASE BeginJoin(s, p)
    BY <2>1, KickBegins DEF BeginJoin
  <2>2. CASE BeginKick(s, p)
    BY <2>2, KickBegins DEF BeginKick
  <2>3. CASE BeginLeave(s, p)
    BY <2>3, KickBegins DEF BeginLeave
  <2>4. ASSUME NEW kind \in {"rename", "hostRename", "recolor"}, BeginEdit(s, p, kind)
        PROVE  KickInv'
    BY <2>4, KickBegins DEF BeginEdit
  <2> QED
    BY <1>1, <2>1, <2>2, <2>3, <2>4
<1>2. ASSUME NEW s \in Slots,
             \/ ListForJoin(s) \/ SavePlayer(s) \/ SaveSession(s)
             \/ LoadPlayer(s) \/ ListForRename(s) \/ RevokeSession(s)
             \/ BeginSetting(s) \/ Touch(s) \/ Abort(s)
      PROVE  KickInv'
  BY <1>2, KickAtWork, KickSessions
<1>3. ASSUME NEW s \in Slots, Disconnect(s)
      PROVE  KickInv'
  <2> DEFINE w == op[s].who
  <2>1. op[s].pc = "disconnect" /\ op[s].kind = "kick" /\ w \in Players
    BY <1>3, AtWork DEF Disconnect, At, Knows, PlayerHandlers
  <2>2. /\ Keeps(s) /\ op'[s] = Idle
        /\ sockets' = sockets \ {w} /\ removed' = removed \cup {w}
        /\ UNCHANGED <<sessions, raced>>
    BY <1>3, DoneEffect DEF Disconnect, store, overlaps
  <2>3. "halfJoined" \notin raced => sessions[w] = "revoked"
    BY <2>1 DEF KickInv, KickFits
  <2>4. KickFits(Idle, sessions)
    BY HandlerTypes DEF KickFits
  <2> QED
    BY <2>2, <2>3, <2>4 DEF KickInv, Keeps
<1>4. ASSUME NEW p \in Players, Connect(p) \/ DropSocket(p)
      PROVE  KickInv'
  BY <1>4 DEF Connect, DropSocket, Recognises, KickInv, store, history, overlaps
<1>5. CASE MatchMoves
  BY <1>5 DEF MatchMoves, Begins, KickInv, history
<1>6. CASE Crash
  BY <1>6, HandlerTypes DEF Crash, KickInv, KickFits, store, history, overlaps
<1>7. CASE UNCHANGED vars
  BY <1>7 DEF vars, KickInv, store, history, overlaps
<1> QED
  BY <1>1, <1>2, <1>3, <1>4, <1>5, <1>6, <1>7 DEF Next

(* Once a kick has run to its end the player is out, for any number of     *)
(* handlers that overlap, unless he was kicked before his session was      *)
(* stored.                                                                 *)
THEOREM KickedStaysOut == Spec => []KickedIsOut
<1>1. Init => KickInv
  BY HandlerTypes DEF Init, KickInv, KickFits
<1>2. Spec => []KickInv
  BY <1>1, RoomInvHolds, KickInvStep, PTL DEF Spec
<1>3. KickInv => KickedIsOut
  BY DEF KickInv, KickedIsOut
<1> QED
  BY <1>2, <1>3, PTL

-----------------------------------------------------------------------------
(* While no two handlers are at work on one player, the copy that a        *)
(* handler holds is what the store holds, up to what it will change.       *)

OnPlayer(o) == o.pc # "idle" /\ o.kind \in PlayerKinds

DocFits(o, d) ==
  /\ o.kind # "join" /\ o.pc = "list" => o.doc = d
  /\ o.kind \in {"kick", "leave"} /\ o.pc = "savePlayer" => o.doc = Removed(o.kind, d)
  /\ o.kind = "recolor" /\ o.pc = "savePlayer" => o.doc = d
  /\ o.kind \in {"rename", "hostRename"} /\ o.pc = "savePlayer" =>
       /\ o.doc.left = d.left /\ o.doc.kicked = d.kicked
       /\ o.doc.chosen /\ o.doc.identity = None
  /\ o.kind = "kick" /\ o.pc \in {"revoke", "touch", "disconnect"} => d.kicked

(* The inductive strengthening of RevokedIsGone.                           *)
DocInv ==
  "docs" \notin raced =>
    /\ \A s, t \in Slots :
         s # t /\ OnPlayer(op[s]) /\ OnPlayer(op[t]) => op[s].who # op[t].who
    /\ \A s \in Slots : OnPlayer(op[s]) => DocFits(op[s], players[op[s].who])
    /\ \A p \in Players : sessions[p] = "revoked" => players[p].kicked

(* A step of one handler that changes no document.                         *)
LEMMA DocLocal ==
  ASSUME DocInv, NEW s \in Slots, Keeps(s), raced \subseteq raced',
         players' = players, sessions' = sessions,
         "docs" \notin raced' /\ OnPlayer(op'[s]) =>
           /\ DocFits(op'[s], players[op'[s].who])
           /\ \A t \in Slots \ {s} : OnPlayer(op[t]) => op[t].who # op'[s].who
  PROVE  DocInv'
<1> SUFFICES ASSUME "docs" \notin raced'
             PROVE  /\ \A r, t \in Slots :
                         r # t /\ OnPlayer(op'[r]) /\ OnPlayer(op'[t]) => op'[r].who # op'[t].who
                    /\ \A t \in Slots : OnPlayer(op'[t]) => DocFits(op'[t], players[op'[t].who])
                    /\ \A p \in Players : sessions[p] = "revoked" => players[p].kicked
  BY DEF DocInv
<1>1. \A t \in Slots \ {s} : op'[t] = op[t]
  BY DEF Keeps
<1>2. /\ \A r, t \in Slots :
           r # t /\ OnPlayer(op[r]) /\ OnPlayer(op[t]) => op[r].who # op[t].who
      /\ \A t \in Slots : OnPlayer(op[t]) => DocFits(op[t], players[op[t].who])
      /\ \A p \in Players : sessions[p] = "revoked" => players[p].kicked
  BY DEF DocInv
<1>3. ASSUME NEW r \in Slots, NEW t \in Slots, r # t, OnPlayer(op'[r]), OnPlayer(op'[t])
      PROVE  op'[r].who # op'[t].who
  <2>1. CASE r = s
    BY <1>1, <1>3, <2>1
  <2>2. CASE t = s
    BY <1>1, <1>3, <2>2
  <2>3. CASE r # s /\ t # s
    BY <1>1, <1>2, <1>3, <2>3
  <2> QED
    BY <2>1, <2>2, <2>3
<1>4. ASSUME NEW t \in Slots, OnPlayer(op'[t])
      PROVE  DocFits(op'[t], players[op'[t].who])
  <2>1. CASE t = s
    BY <1>4, <2>1
  <2>2. CASE t # s
    BY <1>1, <1>2, <1>4, <2>2
  <2> QED
    BY <2>1, <2>2
<1> QED
  BY <1>2, <1>3, <1>4

(* The same handler goes on, with the same player.                         *)
LEMMA DocMoves ==
  ASSUME DocInv, NEW s \in Slots, Keeps(s), raced \subseteq raced',
         players' = players, sessions' = sessions,
         OnPlayer(op[s]), op'[s].who = op[s].who,
         "docs" \notin raced => DocFits(op'[s], players[op[s].who])
  PROVE  DocInv'
<1>1. "docs" \notin raced =>
        \A t \in Slots \ {s} : OnPlayer(op[t]) => op[t].who # op[s].who
  BY DEF DocInv
<1> QED
  BY <1>1, DocLocal

LEMMA DocEnds ==
  ASSUME DocInv, NEW s \in Slots, Keeps(s), op'[s] = Idle,
         UNCHANGED <<players, sessions, raced>>
  PROVE  DocInv'
BY DocLocal, HandlerTypes DEF OnPlayer

LEMMA DocBegins ==
  ASSUME RoomInv, DocInv, NEW s \in Slots, NEW p \in Players, NEW kind \in PlayerKinds,
         NEW place, place = IF kind = "join" THEN "list" ELSE "load",
         Start(s, kind, p, place)
  PROVE  DocInv'
<1>1. /\ Keeps(s) /\ op[s].pc = "idle"
      /\ op'[s] = [pc |-> place, kind |-> kind, who |-> p, room |-> room, doc |-> NoPlayer]
      /\ raced' = raced \cup Overlaps(kind, p)
      /\ UNCHANGED <<players, sessions>>
  BY StartEffect
<1>2. ASSUME NEW t \in Slots \ {s}, OnPlayer(op[t]), op[t].who = p
      PROVE  "docs" \in Overlaps(kind, p)
  BY <1>2 DEF Overlaps, Running, At, OnPlayer
<1>3. DocFits(op'[s], players[p])
  BY <1>1 DEF DocFits
<1> QED
  BY <1>1, <1>2, <1>3, DocLocal

LEMMA DocAtWork ==
  ASSUME RoomInv, DocInv, NEW s \in Slots,
         ListForJoin(s) \/ LoadPlayer(s) \/ ListForRename(s)
  PROVE  DocInv'
<1>1. UNCHANGED <<players, sessions, raced>>
  BY DEF ListForJoin, LoadPlayer, ListForRename, store, overlaps
<1>2. /\ op[s] \in PlayerHandlers /\ op[s].pc \in {"list", "load"} /\ OnPlayer(op[s])
      /\ players[op[s].who] \in PlayerDocs \cup {NoPlayer}
  BY AtWork DEF ListForJoin, LoadPlayer, ListForRename, At, PlayerHandlers, OnPlayer,
                RoomInv, TypeOK
<1>3. CASE op'[s] = Idle /\ Keeps(s)
  BY <1>1, <1>3, DocEnds
<1>4. ASSUME NEW place, NEW doc, Keeps(s), GoesOn(s, place, doc),
             "docs" \notin raced =>
               DocFits([op[s] EXCEPT !.pc = place, !.doc = doc], players[op[s].who])
      PROVE  DocInv'
  <2>1. op'[s].who = op[s].who
    BY <1>2, <1>4 DEF GoesOn, PlayerHandlers
  <2> QED
    BY <1>1, <1>2, <1>4, <2>1, DocMoves DEF GoesOn
<1>5. ASSUME NEW place, NEW doc
      PROVE  LET o == [op[s] EXCEPT !.pc = place, !.doc = doc]
             IN o.pc = place /\ o.doc = doc /\ o.kind = op[s].kind
  BY <1>2 DEF PlayerHandlers
<1>6. CASE ListForJoin(s)
  <2>1. CASE op'[s] = Idle
    BY <1>3, <1>6, <2>1, ListForJoinEffect
  <2>2. ASSUME NEW new, GoesOn(s, "savePlayer", new)
        PROVE  DocInv'
    <3>1. op[s].kind = "join" /\ Keeps(s)
      BY <1>6, ListForJoinEffect
    <3>2. DocFits([op[s] EXCEPT !.pc = "savePlayer", !.doc = new], players[op[s].who])
      BY <1>5, <3>1 DEF DocFits
    <3> QED
      BY <1>4, <2>2, <3>1, <3>2
  <2> QED
    BY <1>6, <2>1, <2>2, ListForJoinEffect
<1>7. CASE LoadPlayer(s)
  <2> DEFINE kind == op[s].kind
             d == players[op[s].who]
  <2>1. Keeps(s)
    BY <1>7, LoadPlayerEffect
  <2>2. CASE op'[s] = Idle
    BY <1>3, <2>1, <2>2
  <2>3. CASE kind \in {"kick", "leave"} /\ GoesOn(s, "savePlayer", Removed(kind, d))
    <3>1. DocFits([op[s] EXCEPT !.pc = "savePlayer", !.doc = Removed(kind, d)], d)
      BY <1>5, <2>3 DEF DocFits
    <3> QED
      BY <1>4, <2>1, <2>3, <3>1
  <2>4. CASE kind = "recolor" /\ GoesOn(s, "savePlayer", d)
    <3>1. DocFits([op[s] EXCEPT !.pc = "savePlayer", !.doc = d], d)
      BY <1>5, <2>4 DEF DocFits
    <3> QED
      BY <1>4, <2>1, <2>4, <3>1
  <2>5. CASE kind \in {"rename", "hostRename"} /\ GoesOn(s, "list", d)
    <3>1. DocFits([op[s] EXCEPT !.pc = "list", !.doc = d], d)
      BY <1>5, <2>5 DEF DocFits
    <3> QED
      BY <1>4, <2>1, <2>5, <3>1
  <2> QED
    BY <1>7, <2>2, <2>3, <2>4, <2>5, LoadPlayerEffect
<1>8. CASE ListForRename(s)
  <2>1. Keeps(s) /\ op[s].kind \in {"rename", "hostRename"} /\ op[s].pc = "list"
    BY <1>8, ListForRenameEffect
  <2>2. op[s].doc \in PlayerDocs
    BY <2>1, AtWork DEF Knows
  <2>3. ASSUME NEW text,
               GoesOn(s, "savePlayer",
                      [op[s].doc EXCEPT !.text = text, !.chosen = TRUE, !.identity = None])
        PROVE  DocInv'
    <3> DEFINE doc == [op[s].doc EXCEPT !.text = text, !.chosen = TRUE, !.identity = None]
    <3>1. /\ doc.left = op[s].doc.left /\ doc.kicked = op[s].doc.kicked
          /\ doc.chosen /\ doc.identity = None
      BY <2>2 DEF PlayerDocs
    <3>2. "docs" \notin raced => op[s].doc = players[op[s].who]
      BY <1>2, <2>1 DEF DocInv, DocFits
    <3> HIDE DEF doc
    <3>3. "docs" \notin raced =>
            DocFits([op[s] EXCEPT !.pc = "savePlayer", !.doc = doc], players[op[s].who])
      BY <1>5, <2>1, <3>1, <3>2 DEF DocFits
    <3> QED
      BY <1>4, <2>1, <2>3, <3>3 DEF doc
  <2> QED
    BY <1>8, <2>3, ListForRenameEffect
<1> QED
  BY <1>6, <1>7, <1>8

(* What a handler that found the player stores of him.                     *)
LEMMA SavedDoc ==
  ASSUME RoomInv, DocInv, "docs" \notin raced, NEW s \in Slots, SavePlayer(s),
         op[s].kind # "join"
  PROVE  LET d == players[op[s].who]
             doc == op[s].doc
         IN /\ d \in PlayerDocs
            /\ d.kicked => doc.kicked
            /\ Gone(d) => Gone(doc)
            /\ op[s].kind = "kick" => doc.kicked
            /\ op[s].kind \notin {"rename", "hostRename"} =>
                 doc.text = d.text /\ doc.chosen = d.chosen /\ doc.identity = d.identity
            /\ op[s].kind \in {"rename", "hostRename"} => doc.chosen /\ doc.identity = None
<1> DEFINE d == players[op[s].who]
           doc == op[s].doc
<1>1. /\ op[s] \in PlayerHandlers /\ op[s].pc = "savePlayer" /\ d \in PlayerDocs
      /\ OnPlayer(op[s])
  BY AtWork DEF SavePlayer, At, Knows, OnPlayer, PlayerHandlers
<1>2. DocFits(op[s], d)
  BY <1>1 DEF DocInv
<1>3. op[s].kind \in {"kick", "leave", "rename", "hostRename", "recolor"}
  BY <1>1 DEF PlayerHandlers, PlayerKinds
<1>4. CASE op[s].kind \in {"kick", "leave"}
  <2>1. doc = Removed(op[s].kind, d)
    BY <1>1, <1>2, <1>4 DEF DocFits
  <2>2. /\ d.kicked => doc.kicked
        /\ op[s].kind = "kick" => doc.kicked
        /\ doc.left \/ doc.kicked
        /\ doc.text = d.text /\ doc.chosen = d.chosen /\ doc.identity = d.identity
    BY <1>1, <1>4, <2>1 DEF Removed, PlayerDocs
  <2> QED
    BY <1>1, <1>4, <2>2 DEF Gone
<1>5. CASE op[s].kind = "recolor"
  BY <1>1, <1>2, <1>5 DEF DocFits
<1>6. CASE op[s].kind \in {"rename", "hostRename"}
  BY <1>1, <1>2, <1>6 DEF DocFits, Gone
<1> QED
  BY <1>3, <1>4, <1>5, <1>6

LEMMA DocSaves ==
  ASSUME RoomInv, DocInv, NEW s \in Slots, SavePlayer(s)
  PROVE  DocInv'
<1> SUFFICES ASSUME "docs" \notin raced
             PROVE  DocInv'
  BY DEF SavePlayer, overlaps, DocInv
<1> DEFINE w == op[s].who
           doc == op[s].doc
<1>1. /\ op[s] \in PlayerHandlers /\ op[s].pc = "savePlayer" /\ w \in Players
      /\ doc \in PlayerDocs /\ OnPlayer(op[s])
  BY AtWork DEF SavePlayer, At, Knows, OnPlayer, PlayerHandlers
<1>2. /\ Keeps(s) /\ op'[s] = [op[s] EXCEPT !.pc = AfterSave(op[s].kind)]
      /\ players' = [players EXCEPT ![w] = doc] /\ UNCHANGED <<sessions, raced>>
  BY GotoEffect DEF SavePlayer, overlaps
<1>3. /\ op'[s].pc = AfterSave(op[s].kind) /\ op'[s].kind = op[s].kind /\ op'[s].who = w
  BY <1>1, <1>2 DEF PlayerHandlers
<1>4. players'[w] = doc /\ \A p \in Players \ {w} : players'[p] = players[p]
  BY <1>1, <1>2 DEF RoomInv, TypeOK
<1>5. \A t \in Slots \ {s} : OnPlayer(op[t]) => op[t].who # w
  BY <1>1 DEF DocInv
<1>6. DocFits(op'[s], doc)
  BY <1>3, SavedDoc DEF DocFits, AfterSave
<1>7. sessions[w] = "revoked" => doc.kicked
  <2>1. CASE op[s].kind = "join"
    BY <1>1, <2>1, AtWork DEF Knows
  <2>2. CASE op[s].kind # "join"
    BY <1>1, <2>2, SavedDoc DEF DocInv
  <2> QED
    BY <2>1, <2>2
<1>8. ASSUME NEW r \in Slots, NEW t \in Slots, r # t, OnPlayer(op'[r]), OnPlayer(op'[t])
      PROVE  op'[r].who # op'[t].who
  <2>1. CASE r = s
    BY <1>2, <1>3, <1>5, <1>8, <2>1 DEF Keeps
  <2>2. CASE t = s
    BY <1>2, <1>3, <1>5, <1>8, <2>2 DEF Keeps
  <2>3. CASE r # s /\ t # s
    BY <1>2, <1>8, <2>3 DEF Keeps, DocInv
  <2> QED
    BY <2>1, <2>2, <2>3
<1>9. ASSUME NEW t \in Slots, OnPlayer(op'[t])
      PROVE  DocFits(op'[t], players'[op'[t].who])
  <2>1. CASE t = s
    BY <1>3, <1>4, <1>6, <2>1
  <2>2. CASE t # s
    <3>1. op'[t] = op[t] /\ op[t].who # w
      BY <1>2, <1>5, <1>9, <2>2 DEF Keeps
    <3>2. op[t].who \in Players
      BY <1>9, <3>1, HandlerTypes DEF RoomInv, TypeOK, OnPlayer, PlayerHandlers,
                                      RoomHandlers, RoomKinds, PlayerKinds
    <3> QED
      BY <1>4, <1>9, <3>1, <3>2 DEF DocInv
  <2> QED
    BY <2>1, <2>2
<1>10. ASSUME NEW p \in Players, sessions[p] = "revoked"
       PROVE  players'[p].kicked
  BY <1>4, <1>7, <1>10 DEF DocInv
<1> QED
  BY <1>2, <1>8, <1>9, <1>10 DEF DocInv

(* The session is stored, or revoked after the kick was.                   *)
LEMMA DocSessions ==
  ASSUME RoomInv, DocInv, NEW s \in Slots, SaveSession(s) \/ RevokeSession(s)
  PROVE  DocInv'
<1> SUFFICES ASSUME "docs" \notin raced
             PROVE  DocInv'
  BY DEF SaveSession, RevokeSession, overlaps, DocInv
<1> DEFINE w == op[s].who
<1>1. /\ op[s] \in PlayerHandlers /\ op[s].pc \in {"saveSession", "revoke"} /\ w \in Players
      /\ OnPlayer(op[s])
      /\ op[s].pc = "saveSession" => op[s].kind = "join"
      /\ op[s].pc = "revoke" => op[s].kind = "kick"
  BY AtWork DEF SaveSession, RevokeSession, At, Knows, OnPlayer, PlayerHandlers
<1>2. /\ Keeps(s) /\ op'[s] = [op[s] EXCEPT !.pc = "touch"]
      /\ UNCHANGED <<players, raced>>
  BY GotoEffect DEF SaveSession, RevokeSession, overlaps
<1>3. /\ op'[s].pc = "touch" /\ op'[s].kind = op[s].kind /\ op'[s].who = w
  BY <1>1, <1>2 DEF PlayerHandlers
<1>4. DocFits(op[s], players[w])
  BY <1>1 DEF DocInv
<1>5. DocFits(op'[s], players[w])
  BY <1>1, <1>3, <1>4 DEF DocFits
<1>6. \A t \in Slots \ {s} : OnPlayer(op[t]) => op[t].who # w
  BY <1>1 DEF DocInv
<1>7. ASSUME NEW p \in Players, sessions'[p] = "revoked"
      PROVE  players[p].kicked
  <2>1. CASE SaveSession(s)
    <3>1. sessions[p] = "revoked"
      BY <1>7, <2>1 DEF SaveSession, RoomInv, TypeOK
    <3> QED
      BY <3>1 DEF DocInv
  <2>2. CASE RevokeSession(s)
    <3>1. p = w \/ sessions[p] = "revoked"
      BY <1>7, <2>2 DEF RevokeSession, Revoked, RoomInv, TypeOK
    <3>2. players[w].kicked
      BY <1>1, <1>4, <2>2 DEF DocFits, RevokeSession, At
    <3> QED
      BY <3>1, <3>2 DEF DocInv
  <2> QED
    BY <2>1, <2>2
<1>8. ASSUME NEW r \in Slots, NEW t \in Slots, r # t, OnPlayer(op'[r]), OnPlayer(op'[t])
      PROVE  op'[r].who # op'[t].who
  <2>1. CASE r = s
    BY <1>2, <1>3, <1>6, <1>8, <2>1 DEF Keeps
  <2>2. CASE t = s
    BY <1>2, <1>3, <1>6, <1>8, <2>2 DEF Keeps
  <2>3. CASE r # s /\ t # s
    BY <1>2, <1>8, <2>3 DEF Keeps, DocInv
  <2> QED
    BY <2>1, <2>2, <2>3
<1>9. ASSUME NEW t \in Slots, OnPlayer(op'[t])
      PROVE  DocFits(op'[t], players[op'[t].who])
  BY <1>2, <1>3, <1>5, <1>9 DEF Keeps, DocInv
<1> QED
  BY <1>2, <1>7, <1>8, <1>9 DEF DocInv

(* The last steps of a handler, and the settings.                          *)
LEMMA DocFinishes ==
  ASSUME RoomInv, DocInv, NEW s \in Slots,
         Touch(s) \/ Disconnect(s) \/ Abort(s) \/ BeginSetting(s)
  PROVE  DocInv'
<1>1. CASE Touch(s)
  <2>1. Fits(op[s], players, sessions) /\ op[s].pc = "touch"
        /\ UNCHANGED <<players, sessions, raced>>
    BY <1>1 DEF RoomInv, HandlersFit, Touch, Touches, At, overlaps
  <2>2. CASE op[s].kind = "kick"
    <3>1. op[s] \in PlayerHandlers /\ OnPlayer(op[s])
      BY <2>1, <2>2, HandlerTypes DEF Fits, RoomHandlers, RoomKinds, OnPlayer, PlayerKinds
    <3>2. Keeps(s) /\ op'[s] = [op[s] EXCEPT !.pc = "disconnect"]
      BY <1>1, <2>2, GotoEffect DEF Touch
    <3>3. op'[s].pc = "disconnect" /\ op'[s].kind = "kick" /\ op'[s].who = op[s].who
      BY <2>2, <3>1, <3>2 DEF PlayerHandlers
    <3>4. "docs" \notin raced => DocFits(op[s], players[op[s].who])
      BY <3>1 DEF DocInv
    <3>5. "docs" \notin raced => DocFits(op'[s], players[op[s].who])
      BY <2>1, <2>2, <3>3, <3>4 DEF DocFits
    <3> QED
      BY <2>1, <3>1, <3>2, <3>3, <3>5, DocMoves
  <2>3. CASE op[s].kind # "kick"
    BY <1>1, <2>1, <2>3, DoneEffect, DocEnds DEF Touch
  <2> QED
    BY <2>2, <2>3
<1>2. CASE Disconnect(s)
  BY <1>2, DoneEffect, DocEnds DEF Disconnect, store, overlaps
<1>3. CASE Abort(s)
  BY <1>3, DoneEffect, DocEnds DEF Abort, store, overlaps
<1>4. CASE BeginSetting(s)
  <2>1. /\ Keeps(s) /\ raced \subseteq raced' /\ UNCHANGED <<players, sessions>>
        /\ \E kind \in RoomKinds, value \in BOOLEAN :
             op'[s] = [pc |-> "touch", kind |-> kind, room |-> Changed(room, kind, value)]
    BY <1>4, BeginSettingEffect
  <2>2. ~OnPlayer(op'[s])
    BY <2>1 DEF OnPlayer, RoomKinds, PlayerKinds
  <2> QED
    BY <2>1, <2>2, DocLocal
<1> QED
  BY <1>1, <1>2, <1>3, <1>4

LEMMA DocInvStep == RoomInv /\ DocInv /\ [Next]_vars => DocInv'
<1> SUFFICES ASSUME RoomInv, DocInv, [Next]_vars
             PROVE  DocInv'
  OBVIOUS
<1>1. ASSUME NEW s \in Slots, NEW p \in Players,
             \/ BeginJoin(s, p) \/ BeginKick(s, p) \/ BeginLeave(s, p)
             \/ \E kind \in {"rename", "hostRename", "recolor"} : BeginEdit(s, p, kind)
      PROVE  DocInv'
  <2>1. CASE BeginJoin(s, p)
    BY <2>1, DocBegins DEF BeginJoin, PlayerKinds
  <2>2. CASE BeginKick(s, p)
    BY <2>2, DocBegins DEF BeginKick, PlayerKinds
  <2>3. CASE BeginLeave(s, p)
    BY <2>3, DocBegins DEF BeginLeave, PlayerKinds
  <2>4. ASSUME NEW kind \in {"rename", "hostRename", "recolor"}, BeginEdit(s, p, kind)
        PROVE  DocInv'
    BY <2>4, DocBegins DEF BeginEdit, PlayerKinds
  <2> QED
    BY <1>1, <2>1, <2>2, <2>3, <2>4
<1>2. ASSUME NEW s \in Slots,
             \/ ListForJoin(s) \/ SavePlayer(s) \/ SaveSession(s)
             \/ LoadPlayer(s) \/ ListForRename(s) \/ RevokeSession(s)
             \/ BeginSetting(s) \/ Touch(s) \/ Disconnect(s) \/ Abort(s)
      PROVE  DocInv'
  BY <1>2, DocAtWork, DocSaves, DocSessions, DocFinishes
<1>3. ASSUME NEW p \in Players, Connect(p) \/ DropSocket(p)
      PROVE  DocInv'
  BY <1>3 DEF Connect, DropSocket, DocInv, store, overlaps
<1>4. CASE MatchMoves
  BY <1>4 DEF MatchMoves, Begins, DocInv
<1>5. CASE Crash
  <2>1. \A s \in Slots : ~OnPlayer(op'[s])
    BY <1>5, HandlerTypes DEF Crash, OnPlayer
  <2> QED
    BY <1>5, <2>1 DEF Crash, DocInv, store, overlaps
<1>6. CASE UNCHANGED vars
  BY <1>6 DEF vars, DocInv, store, overlaps
<1> QED
  BY <1>1, <1>2, <1>3, <1>4, <1>5, <1>6 DEF Next

LEMMA DocInvInit == Init => DocInv
BY HandlerTypes DEF Init, DocInv, OnPlayer

(* So a copy in a handler always agrees with the store.                    *)
THEOREM DocInvHolds == Spec => []DocInv
BY DocInvInit, RoomInvHolds, DocInvStep, PTL DEF Spec

(* A revoked session belongs to a player who is out, for any number of     *)
(* handlers, as long as no two were at work on one player.                 *)
THEOREM RevokedStaysGone == Spec => []RevokedIsGone
<1>1. DocInv => RevokedIsGone
  BY DEF DocInv, RevokedIsGone
<1> QED
  BY <1>1, DocInvHolds, PTL

(* Both together: what the documents say of who may enter fits.            *)
THEOREM SessionsStayFit == Spec => []SessionsFit
<1>1. TokenHasPlayer /\ RevokedIsGone => SessionsFit
  BY DEF SessionsFit
<1> QED
  BY <1>1, TokenHolds, RevokedStaysGone, PTL

-----------------------------------------------------------------------------
(* While neither two handlers that list the players nor two that write the *)
(* same player overlap, the list that a handler saw is still right when it *)
(* stores its player: only the one who lists adds a player or a name.      *)

Listing(o) == o.pc # "idle" /\ Lists(o.kind)

NewName(o) ==
  \A q \in Active \ {o.who} :
    /\ o.doc.chosen => players[q].text # o.doc.text
    /\ o.doc.identity # None => players[q].identity # o.doc.identity

(* The name and identity of one player tell him from the other.            *)
Apart(d, e) ==
  /\ d.chosen /\ e.chosen => d.text # e.text
  /\ d.identity # None => d.identity # e.identity

(* The inductive strengthening of CapacityHolds and NamesTellApart.        *)
ListInv ==
  raced \cap {"lists", "docs"} = {} =>
    /\ \A s, t \in Slots : s # t /\ Listing(op[s]) => ~Listing(op[t])
    /\ Cardinality(Active) <= MaxPlayers
    /\ \A p, q \in Active : p # q => Apart(players[p], players[q])
    /\ \A s \in Slots : Listing(op[s]) /\ op[s].pc = "savePlayer" =>
         /\ NewName(op[s])
         /\ op[s].kind = "join" => Cardinality(Active) < MaxPlayers

LEMMA ActiveFinite ==
  ASSUME RoomInv
  PROVE  IsFiniteSet(Active) /\ Cardinality(Active) \in Nat
BY ActivePlayers, FS_Subset, FS_CardinalityType, NamesAssumption

(* A newcomer's name and identity are not those of the others.             *)
LEMMA NewcomerApart ==
  ASSUME NEW typed \in Names \cup {None}, NEW others \in SUBSET Players,
         NEW new \in ResolveNames(typed, others)
  PROVE  \A q \in others :
           /\ typed # None => players[q].text # new.text
           /\ new.chosen => players[q].text # new.text
           /\ new.identity # None => players[q].identity # new.identity
<1>1. IsFiniteSet(Taken(others))
  <2>1. IsFiniteSet(others)
    BY FS_Subset, NamesAssumption
  <2> DEFINE T == {players[p].text : p \in others}
             f == [p \in others |-> players[p].text]
  <2>2. f \in Surjection(others, T)
    BY DEF Surjection
  <2> QED
    BY <2>1, <2>2, FS_Surjection DEF Taken
<1>2. CASE typed # None
  <2>1. new = Newcomer(MakeUniqueInRoom(typed, Taken(others)), TRUE, None)
    BY <1>2 DEF ResolveNames
  <2>2. MakeUniqueInRoom(typed, Taken(others)) \notin Taken(others)
    BY <1>1, <1>2, UniqueName
  <2>3. new.text = MakeUniqueInRoom(typed, Taken(others)) /\ new.identity = None
    BY <2>1 DEF Newcomer
  <2> QED
    BY <2>2, <2>3 DEF Taken
<1>3. CASE typed = None
  <2>1. CASE \E i \in Pairs \ TakenPairs(others) : new = Newcomer(<<Rendered[i], 1>>, FALSE, i)
    <3>1. PICK i \in Pairs \ TakenPairs(others) : new = Newcomer(<<Rendered[i], 1>>, FALSE, i)
      BY <2>1
    <3>2. ~new.chosen /\ new.identity = i
      BY <3>1 DEF Newcomer
    <3>3. \A q \in others : players[q].identity # i
      BY <3>1, NamesAssumption DEF TakenPairs
    <3> QED
      BY <1>3, <3>2, <3>3
  <2>2. CASE new = Newcomer(GivenUp(Taken(others)), FALSE, None)
    <3>1. ~new.chosen /\ new.identity = None
      BY <2>2 DEF Newcomer
    <3> QED
      BY <1>3, <3>1
  <2> QED
    BY <1>3, <2>1, <2>2 DEF ResolveNames
<1> QED
  BY <1>2, <1>3

(* A step of one handler that changes no document.                         *)
LEMMA ListLocal ==
  ASSUME ListInv, NEW s \in Slots, Keeps(s), raced \subseteq raced',
         players' = players,
         raced' \cap {"lists", "docs"} = {} /\ Listing(op'[s]) =>
           /\ \A t \in Slots \ {s} : ~Listing(op[t])
           /\ op'[s].pc = "savePlayer" =>
                /\ NewName(op'[s])
                /\ op'[s].kind = "join" => Cardinality(Active) < MaxPlayers
  PROVE  ListInv'
<1> SUFFICES ASSUME raced' \cap {"lists", "docs"} = {}
             PROVE  ListInv'
  BY DEF ListInv
<1>1. \A t \in Slots \ {s} : op'[t] = op[t]
  BY DEF Keeps
<1>2. Active' = Active
  BY DEF Active, Exists
<1>3. /\ \A r, t \in Slots : r # t /\ Listing(op[r]) => ~Listing(op[t])
      /\ Cardinality(Active) <= MaxPlayers
      /\ \A p, q \in Active : p # q => Apart(players[p], players[q])
      /\ \A t \in Slots : Listing(op[t]) /\ op[t].pc = "savePlayer" =>
           /\ NewName(op[t])
           /\ op[t].kind = "join" => Cardinality(Active) < MaxPlayers
  BY DEF ListInv
<1>4. ASSUME NEW r \in Slots, NEW t \in Slots, r # t, Listing(op'[r])
      PROVE  ~Listing(op'[t])
  <2>1. CASE r = s
    BY <1>1, <1>4, <2>1
  <2>2. CASE t = s
    BY <1>1, <1>4, <2>2
  <2>3. CASE r # s /\ t # s
    BY <1>1, <1>3, <1>4, <2>3
  <2> QED
    BY <2>1, <2>2, <2>3
<1>5. ASSUME NEW t \in Slots, Listing(op'[t]), op'[t].pc = "savePlayer"
      PROVE  /\ NewName(op'[t])
             /\ op'[t].kind = "join" => Cardinality(Active) < MaxPlayers
  <2>1. CASE t = s
    BY <1>5, <2>1
  <2>2. CASE t # s
    BY <1>1, <1>3, <1>5, <2>2
  <2> QED
    BY <2>1, <2>2
<1>6. \A t \in Slots : NewName(op'[t]) => NewName(op[t])'
  BY <1>2 DEF NewName
<1> QED
  BY <1>2, <1>3, <1>4, <1>5, <1>6 DEF ListInv

(* A handler that was listing, or will not list, goes on.                  *)
LEMMA ListMoves ==
  ASSUME ListInv, NEW s \in Slots, Keeps(s), raced \subseteq raced', players' = players,
         Listing(op'[s]) => Listing(op[s]),
         raced \cap {"lists", "docs"} = {} /\ Listing(op'[s]) /\ op'[s].pc = "savePlayer" =>
           /\ NewName(op'[s])
           /\ op'[s].kind = "join" => Cardinality(Active) < MaxPlayers
  PROVE  ListInv'
<1>1. raced \cap {"lists", "docs"} = {} /\ Listing(op[s]) =>
        \A t \in Slots \ {s} : ~Listing(op[t])
  BY DEF ListInv
<1> QED
  BY <1>1, ListLocal

LEMMA ListBegins ==
  ASSUME RoomInv, ListInv, NEW s \in Slots, NEW p \in Players, NEW kind \in PlayerKinds,
         NEW place, place \in {"load", "list"}, Start(s, kind, p, place)
  PROVE  ListInv'
<1>1. /\ Keeps(s) /\ op[s].pc = "idle"
      /\ op'[s] = [pc |-> place, kind |-> kind, who |-> p, room |-> room, doc |-> NoPlayer]
      /\ raced' = raced \cup Overlaps(kind, p) /\ players' = players
  BY StartEffect
<1>2. ASSUME NEW t \in Slots \ {s}, Listing(op[t]), Lists(kind)
      PROVE  "lists" \in Overlaps(kind, p)
  BY <1>2 DEF Overlaps, Running, At, Listing
<1>3. op'[s].pc # "savePlayer" /\ op'[s].kind = kind
  BY <1>1
<1> QED
  BY <1>1, <1>2, <1>3, ListLocal DEF Listing

LEMMA ListAtWork ==
  ASSUME RoomInv, ListInv, NEW s \in Slots,
         ListForJoin(s) \/ LoadPlayer(s) \/ ListForRename(s)
  PROVE  ListInv'
<1>1. UNCHANGED <<players, raced>>
  BY DEF ListForJoin, LoadPlayer, ListForRename, store, overlaps
<1>2. /\ op[s] \in PlayerHandlers /\ op[s].pc \in {"list", "load"} /\ op[s].pc # "idle"
  BY AtWork DEF ListForJoin, LoadPlayer, ListForRename, At
<1>3. CASE op'[s] = Idle /\ Keeps(s)
  BY <1>1, <1>3, ListMoves, HandlerTypes DEF Listing
<1>4. ASSUME NEW place, NEW doc, GoesOn(s, place, doc)
      PROVE  /\ op'[s].pc = place /\ op'[s].doc = doc /\ op'[s].kind = op[s].kind
             /\ op'[s].who = op[s].who
             /\ Listing(op'[s]) => Listing(op[s])
  <2>1. /\ op'[s].pc = place /\ op'[s].doc = doc /\ op'[s].kind = op[s].kind
        /\ op'[s].who = op[s].who
    BY <1>2, <1>4 DEF PlayerHandlers, GoesOn
  <2> QED
    BY <1>2, <2>1 DEF Listing
<1>5. CASE ListForJoin(s)
  <2>1. CASE op'[s] = Idle
    BY <1>3, <1>5, <2>1, ListForJoinEffect
  <2>2. ASSUME NEW typed \in Names \cup {None}, NEW new \in ResolveNames(typed, Active),
               GoesOn(s, "savePlayer", new), ~Full(Active)
        PROVE  ListInv'
    <3>1. Keeps(s)
      BY <1>5, ListForJoinEffect
    <3>2. Cardinality(Active) < MaxPlayers
      BY <2>2, ActiveFinite, RoomAssumption DEF Full
    <3>3. NewName(op'[s])
      BY <1>4, <2>2, ActivePlayers, NewcomerApart DEF NewName
    <3> QED
      BY <1>1, <1>4, <2>2, <3>1, <3>2, <3>3, ListMoves
  <2> QED
    BY <1>5, <2>1, <2>2, ListForJoinEffect
<1>6. CASE LoadPlayer(s)
  <2> DEFINE kind == op[s].kind
             d == players[op[s].who]
  <2>1. Keeps(s)
    BY <1>6, LoadPlayerEffect
  <2>2. CASE op'[s] = Idle
    BY <1>3, <2>1, <2>2
  <2>3. CASE kind \in {"kick", "leave"} /\ GoesOn(s, "savePlayer", Removed(kind, d))
    BY <1>1, <1>4, <2>1, <2>3, ListMoves DEF Listing, Lists
  <2>4. CASE kind = "recolor" /\ GoesOn(s, "savePlayer", d)
    BY <1>1, <1>4, <2>1, <2>4, ListMoves DEF Listing, Lists
  <2>5. CASE kind \in {"rename", "hostRename"} /\ GoesOn(s, "list", d)
    BY <1>1, <1>4, <2>1, <2>5, ListMoves
  <2> QED
    BY <1>6, <2>2, <2>3, <2>4, <2>5, LoadPlayerEffect
<1>7. CASE ListForRename(s)
  <2>1. Keeps(s) /\ op[s].kind \in {"rename", "hostRename"} /\ op[s].pc = "list"
    BY <1>7, ListForRenameEffect
  <2>2. op[s].doc \in PlayerDocs
    BY <2>1, AtWork DEF Knows
  <2> DEFINE w == op[s].who
  <2>3. ASSUME NEW typed \in Names, NEW new \in ResolveNames(typed, Active \ {w}),
               GoesOn(s, "savePlayer",
                      [op[s].doc EXCEPT !.text = new.text, !.chosen = TRUE, !.identity = None])
        PROVE  ListInv'
    <3> DEFINE doc == [op[s].doc EXCEPT !.text = new.text, !.chosen = TRUE, !.identity = None]
    <3>1. doc.text = new.text /\ doc.identity = None
      BY <2>2 DEF PlayerDocs
    <3>2. typed # None /\ Active \ {w} \subseteq Players
      BY NamesAssumption, ActivePlayers
    <3>3. \A q \in Active \ {w} : players[q].text # new.text
      BY <2>3, <3>2, NewcomerApart
    <3> HIDE DEF doc
    <3>4. NewName(op'[s])
      BY <1>4, <2>3, <3>1, <3>3 DEF NewName, doc
    <3>5. op'[s].kind # "join" /\ (Listing(op'[s]) => Listing(op[s]))
      BY <1>4, <2>1, <2>3
    <3> QED
      BY <1>1, <2>1, <3>4, <3>5, ListMoves
  <2> QED
    BY <1>7, <2>3, ListForRenameEffect
<1> QED
  BY <1>5, <1>6, <1>7

(* Who takes part after a player was stored.                               *)
LEMMA ActiveAfterSave ==
  ASSUME RoomInv, DocInv, "docs" \notin raced, NEW s \in Slots, SavePlayer(s)
  PROVE  LET w == op[s].who
         IN /\ Active' \subseteq Active \cup {w}
            /\ op[s].kind # "join" => Active' \subseteq Active
            /\ op[s].kind = "join" => w \notin Active
<1> DEFINE w == op[s].who
           doc == op[s].doc
<1>1. /\ op[s] \in PlayerHandlers /\ w \in Players
      /\ op[s].kind = "join" => players[w] = NoPlayer
      /\ op[s].kind # "join" => players[w] \in PlayerDocs
  BY AtWork DEF SavePlayer, At, Knows, PlayerHandlers
<1>2. players'[w] = doc /\ \A p \in Players \ {w} : players'[p] = players[p]
  BY <1>1 DEF SavePlayer, RoomInv, TypeOK
<1>3. Active' \subseteq Active \cup {w}
  BY <1>2 DEF Active, Exists
<1>4. op[s].kind = "join" => w \notin Active
  BY <1>1 DEF Active, Exists
<1>5. op[s].kind # "join" => Active' \subseteq Active
  <2>1. SUFFICES ASSUME op[s].kind # "join", w \in Active'
                 PROVE  w \in Active
    BY <1>3
  <2>2. ~Gone(doc)
    BY <1>2, <2>1 DEF Active
  <2>3. ~Gone(players[w])
    BY <2>1, <2>2, SavedDoc
  <2> QED
    BY <1>1, <2>1, <2>3, HandlerTypes DEF Active, Exists
<1> QED
  BY <1>3, <1>4, <1>5

LEMMA ListSaves ==
  ASSUME RoomInv, DocInv, ListInv, NEW s \in Slots, SavePlayer(s)
  PROVE  ListInv'
<1> SUFFICES ASSUME raced \cap {"lists", "docs"} = {}
             PROVE  ListInv'
  BY DEF SavePlayer, overlaps, ListInv
<1> DEFINE w == op[s].who
           doc == op[s].doc
<1>1. /\ op[s] \in PlayerHandlers /\ op[s].pc = "savePlayer" /\ w \in Players
      /\ doc \in PlayerDocs
  BY AtWork DEF SavePlayer, At, Knows, PlayerHandlers
<1>2. /\ Keeps(s) /\ op'[s] = [op[s] EXCEPT !.pc = AfterSave(op[s].kind)]
      /\ players' = [players EXCEPT ![w] = doc] /\ raced' = raced
  BY GotoEffect DEF SavePlayer, overlaps
<1>3. /\ op'[s].pc = AfterSave(op[s].kind) /\ op'[s].kind = op[s].kind
      /\ op'[s].pc \notin {"savePlayer", "idle"}
  BY <1>1, <1>2 DEF PlayerHandlers, AfterSave
<1>4. players'[w] = doc /\ \A p \in Players \ {w} : players'[p] = players[p]
  BY <1>1, <1>2 DEF RoomInv, TypeOK
<1>5. "docs" \notin raced
  OBVIOUS
<1>6. /\ Active' \subseteq Active \cup {w} /\ Active' \subseteq Players
      /\ op[s].kind # "join" => Active' \subseteq Active
      /\ op[s].kind = "join" => w \notin Active
  BY <1>5, ActiveAfterSave DEF Active
<1>7. /\ \A r, t \in Slots : r # t /\ Listing(op[r]) => ~Listing(op[t])
      /\ Cardinality(Active) <= MaxPlayers
      /\ \A p, q \in Active : p # q => Apart(players[p], players[q])
      /\ \A t \in Slots : Listing(op[t]) /\ op[t].pc = "savePlayer" =>
           /\ NewName(op[t])
           /\ op[t].kind = "join" => Cardinality(Active) < MaxPlayers
  BY DEF ListInv
<1>8. Listing(op'[s]) <=> Lists(op[s].kind)
  BY <1>3 DEF Listing
<1>9. ASSUME NEW r \in Slots, NEW t \in Slots, r # t, Listing(op'[r])
      PROVE  ~Listing(op'[t])
  <2>1. \A v \in Slots : Listing(op'[v]) => Listing(op[v])
    BY <1>1, <1>2, <1>8 DEF Keeps, Listing
  <2> QED
    BY <1>7, <1>9, <2>1
<1>10. IsFiniteSet(Active) /\ Cardinality(Active) \in Nat /\ MaxPlayers \in Nat
  BY ActiveFinite, RoomAssumption
<1>11. /\ Cardinality(Active') <= MaxPlayers
       /\ op[s].kind # "join" => Cardinality(Active') <= Cardinality(Active)
       /\ Cardinality(Active') \in Nat
  <2>1. CASE op[s].kind = "join"
    <3>1. Cardinality(Active) < MaxPlayers
      BY <1>1, <1>7, <2>1 DEF Listing, Lists
    <3>2. /\ IsFiniteSet(Active \cup {w})
          /\ Cardinality(Active \cup {w}) = Cardinality(Active) + 1
      BY <1>6, <1>10, <2>1, FS_AddElement
    <3>3. /\ IsFiniteSet(Active') /\ Cardinality(Active') \in Nat
          /\ Cardinality(Active') <= Cardinality(Active \cup {w})
      BY <1>6, <3>2, FS_Subset, FS_CardinalityType
    <3> QED
      BY <1>10, <2>1, <3>1, <3>2, <3>3
  <2>2. CASE op[s].kind # "join"
    <3>1. /\ IsFiniteSet(Active') /\ Cardinality(Active') \in Nat
          /\ Cardinality(Active') <= Cardinality(Active)
      BY <1>6, <1>10, <2>2, FS_Subset, FS_CardinalityType
    <3> QED
      BY <1>7, <1>10, <2>2, <3>1
  <2> QED
    BY <2>1, <2>2
<1>12. CASE Lists(op[s].kind)
  <2>1. NewName(op[s])
    BY <1>1, <1>7, <1>12 DEF Listing
  <2>2. op[s].kind \in {"rename", "hostRename"} => doc.identity = None
    BY <1>5, SavedDoc
  <2>3. ASSUME NEW p \in Active', NEW q \in Active', p # q
        PROVE  Apart(players'[p], players'[q])
    <3>1. CASE p = w
      <4>1. q \in Active \ {w} /\ players'[q] = players[q] /\ players'[p] = doc
        BY <1>4, <1>6, <2>3, <3>1
      <4> QED
        BY <2>1, <4>1 DEF NewName, Apart
    <3>2. CASE q = w
      <4>1. p \in Active \ {w} /\ players'[p] = players[p] /\ players'[q] = doc
        BY <1>4, <1>6, <2>3, <3>2
      <4> QED
        BY <2>1, <4>1 DEF NewName, Apart
    <3>3. CASE p # w /\ q # w
      BY <1>4, <1>6, <1>7, <2>3, <3>3
    <3> QED
      BY <3>1, <3>2, <3>3
  <2>4. ASSUME NEW t \in Slots, Listing(op'[t]), op'[t].pc = "savePlayer"
        PROVE  FALSE
    <3>1. t # s
      BY <1>3, <2>4
    <3> QED
      BY <1>8, <1>9, <1>12, <2>4, <3>1
  <2> QED
    BY <1>9, <1>11, <2>3, <2>4 DEF ListInv
<1>13. CASE ~Lists(op[s].kind)
  <2>1. /\ op[s].kind # "join" /\ op[s].kind \notin {"rename", "hostRename"}
    BY <1>13 DEF Lists
  <2>2. /\ doc.text = players[w].text /\ doc.chosen = players[w].chosen
        /\ doc.identity = players[w].identity
    BY <1>5, <2>1, SavedDoc
  <2>3. Active' \subseteq Active
    BY <1>6, <2>1
  <2>4. \A p \in Players : /\ players'[p].text = players[p].text
                           /\ players'[p].chosen = players[p].chosen
                           /\ players'[p].identity = players[p].identity
    BY <1>4, <2>2
  <2>5. ASSUME NEW p \in Active', NEW q \in Active', p # q
        PROVE  Apart(players'[p], players'[q])
    <3>1. Apart(players[p], players[q])
      BY <1>7, <2>3, <2>5
    <3> QED
      BY <1>6, <2>4, <3>1 DEF Apart
  <2>6. ASSUME NEW t \in Slots, Listing(op'[t]), op'[t].pc = "savePlayer"
        PROVE  /\ NewName(op[t])'
               /\ op'[t].kind = "join" => Cardinality(Active') < MaxPlayers
    <3>1. t # s
      BY <1>3, <2>6
    <3>2. op'[t] = op[t]
      BY <1>2, <3>1 DEF Keeps
    <3>3. /\ NewName(op[t])
          /\ op[t].kind = "join" => Cardinality(Active) < MaxPlayers
      BY <1>7, <2>6, <3>2
    <3>4. NewName(op[t])'
      BY <1>6, <2>3, <2>4, <3>2, <3>3 DEF NewName
    <3> QED
      BY <1>10, <1>11, <2>1, <3>2, <3>3, <3>4
  <2> QED
    BY <1>9, <1>11, <2>5, <2>6 DEF ListInv
<1> QED
  BY <1>12, <1>13

(* The rest of a handler's way.                                            *)
LEMMA ListFinishes ==
  ASSUME RoomInv, ListInv, NEW s \in Slots,
         SaveSession(s) \/ RevokeSession(s) \/ Touch(s) \/ Disconnect(s)
         \/ Abort(s) \/ BeginSetting(s)
  PROVE  ListInv'
<1>1. ASSUME Keeps(s), UNCHANGED <<players, raced>>,
             op'[s] = Idle \/ (op'[s].pc # "savePlayer" /\ op[s].pc # "idle"
                               /\ op'[s].kind = op[s].kind)
      PROVE  ListInv'
  BY <1>1, ListMoves, HandlerTypes DEF Listing
<1>2. CASE SaveSession(s) \/ RevokeSession(s)
  <2>1. op[s] \in PlayerHandlers /\ op[s].pc \in {"saveSession", "revoke"}
    BY <1>2, AtWork DEF SaveSession, RevokeSession, At
  <2>2. /\ Keeps(s) /\ op'[s] = [op[s] EXCEPT !.pc = "touch"]
        /\ UNCHANGED <<players, raced>>
    BY <1>2, GotoEffect DEF SaveSession, RevokeSession, overlaps
  <2>3. op'[s].pc = "touch" /\ op'[s].kind = op[s].kind
    BY <2>1, <2>2 DEF PlayerHandlers
  <2> QED
    BY <1>1, <2>1, <2>2, <2>3
<1>3. CASE Touch(s)
  <2>1. Fits(op[s], players, sessions) /\ op[s].pc = "touch" /\ UNCHANGED <<players, raced>>
    BY <1>3 DEF RoomInv, HandlersFit, Touch, Touches, At, overlaps
  <2>2. CASE op[s].kind = "kick"
    <3>1. op[s] \in PlayerHandlers
      BY <2>1, <2>2, HandlerTypes DEF Fits, RoomHandlers, RoomKinds
    <3>2. Keeps(s) /\ op'[s] = [op[s] EXCEPT !.pc = "disconnect"]
      BY <1>3, <2>2, GotoEffect DEF Touch
    <3>3. op'[s].pc = "disconnect" /\ op'[s].kind = op[s].kind
      BY <3>1, <3>2 DEF PlayerHandlers
    <3> QED
      BY <1>1, <2>1, <3>2, <3>3
  <2>3. CASE op[s].kind # "kick"
    BY <1>1, <1>3, <2>1, <2>3, DoneEffect DEF Touch
  <2> QED
    BY <2>2, <2>3
<1>4. CASE Disconnect(s)
  BY <1>1, <1>4, DoneEffect DEF Disconnect, store, overlaps
<1>5. CASE Abort(s)
  BY <1>1, <1>5, DoneEffect DEF Abort, store, overlaps
<1>6. CASE BeginSetting(s)
  <2>1. /\ Keeps(s) /\ raced \subseteq raced' /\ players' = players
        /\ \E kind \in RoomKinds, value \in BOOLEAN :
             op'[s] = [pc |-> "touch", kind |-> kind, room |-> Changed(room, kind, value)]
    BY <1>6, BeginSettingEffect
  <2>2. ~Listing(op'[s])
    BY <2>1 DEF Listing, Lists, RoomKinds
  <2> QED
    BY <2>1, <2>2, ListLocal
<1> QED
  BY <1>2, <1>3, <1>4, <1>5, <1>6

LEMMA ListInvStep == RoomInv /\ DocInv /\ ListInv /\ [Next]_vars => ListInv'
<1> SUFFICES ASSUME RoomInv, DocInv, ListInv, [Next]_vars
             PROVE  ListInv'
  OBVIOUS
<1>1. ASSUME NEW s \in Slots, NEW p \in Players,
             \/ BeginJoin(s, p) \/ BeginKick(s, p) \/ BeginLeave(s, p)
             \/ \E kind \in {"rename", "hostRename", "recolor"} : BeginEdit(s, p, kind)
      PROVE  ListInv'
  <2>1. CASE BeginJoin(s, p)
    BY <2>1, ListBegins DEF BeginJoin, PlayerKinds
  <2>2. CASE BeginKick(s, p)
    BY <2>2, ListBegins DEF BeginKick, PlayerKinds
  <2>3. CASE BeginLeave(s, p)
    BY <2>3, ListBegins DEF BeginLeave, PlayerKinds
  <2>4. ASSUME NEW kind \in {"rename", "hostRename", "recolor"}, BeginEdit(s, p, kind)
        PROVE  ListInv'
    BY <2>4, ListBegins DEF BeginEdit, PlayerKinds
  <2> QED
    BY <1>1, <2>1, <2>2, <2>3, <2>4
<1>2. ASSUME NEW s \in Slots,
             \/ ListForJoin(s) \/ SavePlayer(s) \/ SaveSession(s)
             \/ LoadPlayer(s) \/ ListForRename(s) \/ RevokeSession(s)
             \/ BeginSetting(s) \/ Touch(s) \/ Disconnect(s) \/ Abort(s)
      PROVE  ListInv'
  BY <1>2, ListAtWork, ListSaves, ListFinishes
<1>3. ASSUME UNCHANGED players, raced \subseteq raced',
             op' = op \/ \A s \in Slots : ~Listing(op'[s])
      PROVE  ListInv'
  <2>1. Active' = Active
    BY <1>3 DEF Active, Exists
  <2> QED
    BY <1>3, <2>1 DEF ListInv, NewName
<1>4. ASSUME NEW p \in Players, Connect(p) \/ DropSocket(p)
      PROVE  ListInv'
  BY <1>3, <1>4 DEF Connect, DropSocket, store, overlaps
<1>5. CASE MatchMoves
  BY <1>3, <1>5 DEF MatchMoves, Begins
<1>6. CASE Crash
  BY <1>3, <1>6, HandlerTypes DEF Crash, Listing, store, overlaps
<1>7. CASE UNCHANGED vars
  BY <1>3, <1>7 DEF vars, store, overlaps
<1> QED
  BY <1>1, <1>2, <1>4, <1>5, <1>6, <1>7 DEF Next

LEMMA ListInvInit == Init => ListInv
<1> SUFFICES ASSUME Init
             PROVE  ListInv
  OBVIOUS
<1>1. Active = {}
  BY DEF Init, Active, Exists
<1>2. Cardinality(Active) = 0
  BY <1>1, FS_EmptySet
<1>3. \A s \in Slots : ~Listing(op[s])
  BY HandlerTypes DEF Init, Listing
<1> QED
  BY <1>1, <1>2, <1>3, RoomAssumption DEF ListInv

(* So a list that a handler saw stays right.                               *)
THEOREM ListInvHolds == Spec => []ListInv
BY ListInvInit, RoomInvHolds, DocInvHolds, ListInvStep, PTL DEF Spec

(* No more players than maxPlayers take part, for every maxPlayers and any *)
(* number of handlers, as long as no two list the players at a time and no *)
(* two write the same player.                                              *)
THEOREM CapacityKept == Spec => []CapacityHolds
<1>1. ListInv => CapacityHolds
  BY DEF ListInv, CapacityHolds
<1> QED
  BY <1>1, ListInvHolds, PTL

(* Under the same condition those who typed a name differ in their names,  *)
(* and those who were given an identity in their identities.               *)
THEOREM NamesKeptApart == Spec => []NamesTellApart
<1>1. ListInv => NamesTellApart
  BY DEF ListInv, Apart, NamesTellApart
<1> QED
  BY <1>1, ListInvHolds, PTL

-----------------------------------------------------------------------------
(* While no change of the room overlaps another handler, each handler      *)
(* holds the room as it is, but for the setting that it was asked to       *)
(* change.                                                                 *)

OnRoom(o) == o.pc # "idle" /\ o.kind \in RoomKinds

RoomFits(o, r) ==
  /\ OnPlayer(o) => o.room = r
  /\ OnRoom(o) =>
       /\ o.room.lobby = r.lobby
       /\ o.room.settings.locked # r.settings.locked => o.kind = "lock"
       /\ o.room.settings.allowLateJoin # r.settings.allowLateJoin => o.kind = "config"

(* The inductive invariant behind RoomHolds.                               *)
HeldInv ==
  "room" \notin raced =>
    /\ \A s, t \in Slots : s # t /\ op[s].pc # "idle" /\ op[t].pc # "idle" => ~OnRoom(op[s])
    /\ \A s \in Slots : RoomFits(op[s], room)

LEMMA HeldLocal ==
  ASSUME HeldInv, NEW s \in Slots, Keeps(s), raced \subseteq raced', room' = room,
         "room" \notin raced' => RoomFits(op'[s], room),
         "room" \notin raced' /\ op'[s].pc # "idle" =>
           \A t \in Slots \ {s} :
             op[t].pc # "idle" => ~OnRoom(op[t]) /\ ~OnRoom(op'[s])
  PROVE  HeldInv'
<1> SUFFICES ASSUME "room" \notin raced'
             PROVE  HeldInv'
  BY DEF HeldInv
<1>1. \A t \in Slots \ {s} : op'[t] = op[t]
  BY DEF Keeps
<1>2. ASSUME NEW r \in Slots, NEW t \in Slots, r # t, op'[r].pc # "idle", op'[t].pc # "idle"
      PROVE  ~OnRoom(op'[r])
  <2>1. CASE r = s
    BY <1>1, <1>2, <2>1
  <2>2. CASE t = s
    BY <1>1, <1>2, <2>2
  <2>3. CASE r # s /\ t # s
    BY <1>1, <1>2, <2>3 DEF HeldInv
  <2> QED
    BY <2>1, <2>2, <2>3
<1>3. ASSUME NEW t \in Slots
      PROVE  RoomFits(op'[t], room)
  BY <1>1 DEF HeldInv
<1> QED
  BY <1>2, <1>3 DEF HeldInv

(* The handler in s goes on: it keeps its kind and the room it read.       *)
LEMMA HeldMoves ==
  ASSUME HeldInv, NEW s \in Slots, Keeps(s), raced' = raced, room' = room,
         \/ op'[s] = Idle
         \/ /\ op[s].pc # "idle" /\ op'[s].kind = op[s].kind
            /\ op'[s].room = op[s].room
  PROVE  HeldInv'
<1>1. CASE op'[s] = Idle
  BY <1>1, HeldLocal, HandlerTypes DEF RoomFits, OnPlayer, OnRoom
<1>2. CASE op[s].pc # "idle" /\ op'[s].kind = op[s].kind /\ op'[s].room = op[s].room
  <2>1. "room" \notin raced => RoomFits(op'[s], room)
    BY <1>2 DEF HeldInv, RoomFits, OnPlayer, OnRoom
  <2>2. "room" \notin raced =>
          \A t \in Slots \ {s} : op[t].pc # "idle" => ~OnRoom(op[t]) /\ ~OnRoom(op'[s])
    BY <1>2 DEF HeldInv, OnRoom
  <2> QED
    BY <2>1, <2>2, HeldLocal
<1> QED
  BY <1>1, <1>2

LEMMA HeldBegins ==
  ASSUME RoomInv, HeldInv, NEW s \in Slots, NEW p \in Players, NEW kind \in PlayerKinds,
         NEW place, Start(s, kind, p, place)
  PROVE  HeldInv'
<1>1. /\ Keeps(s) /\ op[s].pc = "idle"
      /\ op'[s] = [pc |-> place, kind |-> kind, who |-> p, room |-> room, doc |-> NoPlayer]
      /\ raced' = raced \cup Overlaps(kind, p) /\ room' = room
  BY StartEffect
<1>2. ASSUME NEW t \in Slots \ {s}, OnRoom(op[t])
      PROVE  "room" \in Overlaps(kind, p)
  <2>1. t \in Running /\ op[t].kind \in ChangeTheRoom
    BY <1>2 DEF Running, At, OnRoom, ChangeTheRoom
  <2> QED
    BY <2>1 DEF Overlaps
<1>3. RoomFits(op'[s], room) /\ ~OnRoom(op'[s])
  BY <1>1 DEF RoomFits, OnPlayer, OnRoom, PlayerKinds, RoomKinds
<1> QED
  BY <1>1, <1>2, <1>3, HeldLocal

LEMMA HeldSetting ==
  ASSUME RoomInv, HeldInv, NEW s \in Slots, BeginSetting(s)
  PROVE  HeldInv'
<1>1. /\ Keeps(s) /\ op[s].pc = "idle" /\ room' = room
  BY BeginSettingEffect
<1>2. PICK kind \in RoomKinds, value \in BOOLEAN :
        /\ op'[s] = [pc |-> "touch", kind |-> kind, room |-> Changed(room, kind, value)]
        /\ raced' = raced \cup Overlaps(kind, None)
  BY BeginSettingEffect
<1>3. ASSUME NEW t \in Slots \ {s}, op[t].pc # "idle"
      PROVE  "room" \in Overlaps(kind, None)
  <2>1. t \in Running /\ kind \in ChangeTheRoom
    BY <1>3 DEF Running, At, ChangeTheRoom
  <2> QED
    BY <2>1 DEF Overlaps
<1>4. RoomFits(op'[s], room)
  <2>1. room \in RoomDocs
    BY DEF RoomInv, TypeOK
  <2>2. /\ Changed(room, kind, value).lobby = room.lobby
        /\ kind = "config" => Changed(room, kind, value).settings.locked = room.settings.locked
        /\ kind = "lock" =>
             Changed(room, kind, value).settings.allowLateJoin = room.settings.allowLateJoin
    BY <2>1 DEF Changed, RoomDocs, Settings, RoomKinds
  <2>3. op'[s].kind = kind /\ op'[s].room = Changed(room, kind, value)
    BY <1>2
  <2>4. ~OnPlayer(op'[s])
    BY <2>3 DEF OnPlayer, PlayerKinds, RoomKinds
  <2> QED
    BY <2>2, <2>3, <2>4 DEF RoomFits, RoomKinds
<1> QED
  BY <1>1, <1>2, <1>3, <1>4, HeldLocal

LEMMA HeldAtWork ==
  ASSUME RoomInv, HeldInv, NEW s \in Slots,
         \/ ListForJoin(s) \/ SavePlayer(s) \/ SaveSession(s) \/ LoadPlayer(s)
         \/ ListForRename(s) \/ RevokeSession(s) \/ Disconnect(s) \/ Abort(s)
  PROVE  HeldInv'
<1>1. CASE ListForJoin(s) \/ LoadPlayer(s) \/ ListForRename(s)
  <2>1. op[s] \in PlayerHandlers /\ op[s].pc # "idle"
    BY <1>1, AtWork DEF ListForJoin, LoadPlayer, ListForRename, At
  <2>2. /\ Keeps(s) /\ UNCHANGED <<room, raced>>
        /\ op'[s] = Idle \/ \E place : \E doc : GoesOn(s, place, doc)
    BY <1>1, ListForJoinEffect, LoadPlayerEffect, ListForRenameEffect DEF store, overlaps
  <2>3. ASSUME NEW place, NEW doc, GoesOn(s, place, doc)
        PROVE  op'[s].kind = op[s].kind /\ op'[s].room = op[s].room
    BY <2>1, <2>3 DEF GoesOn, PlayerHandlers
  <2> QED
    BY <2>1, <2>2, <2>3, HeldMoves
<1>2. CASE SavePlayer(s) \/ SaveSession(s) \/ RevokeSession(s)
  <2>1. op[s] \in PlayerHandlers /\ op[s].pc # "idle"
    BY <1>2, AtWork DEF SavePlayer, SaveSession, RevokeSession, At
  <2>2. Keeps(s) /\ UNCHANGED <<room, raced>> /\ \E place : op'[s] = [op[s] EXCEPT !.pc = place]
    BY <1>2, GotoEffect DEF SavePlayer, SaveSession, RevokeSession, overlaps
  <2>3. op'[s].kind = op[s].kind /\ op'[s].room = op[s].room
    BY <2>1, <2>2 DEF PlayerHandlers
  <2> QED
    BY <2>1, <2>2, <2>3, HeldMoves
<1>3. CASE Disconnect(s) \/ Abort(s)
  BY <1>3, DoneEffect, HeldMoves DEF Disconnect, Abort, store, overlaps
<1> QED
  BY <1>1, <1>2, <1>3

(* What touchRoom writes.                                                  *)
LEMMA TouchHolds ==
  ASSUME RoomInv, HeldInv, NEW s \in Slots, Touch(s), "room" \notin raced
  PROVE  /\ room' = op[s].room /\ RoomFits(op[s], room)
         /\ OnPlayer(op[s]) => room' = room
         /\ room'.lobby = room.lobby
         /\ room'.settings.locked # room.settings.locked => op[s].kind = "lock"
         /\ room'.settings.allowLateJoin # room.settings.allowLateJoin => op[s].kind = "config"
<1>1. RoomFits(op[s], room) /\ room' = op[s].room /\ op[s].pc = "touch"
  BY DEF HeldInv, Touch, Touches, At
<1>2. OnPlayer(op[s]) \/ OnRoom(op[s])
  <2>1. Fits(op[s], players, sessions)
    BY DEF RoomInv, HandlersFit
  <2> QED
    BY <1>1, <2>1, HandlerTypes DEF Fits, PlayerHandlers, RoomHandlers, OnPlayer, OnRoom
<1> QED
  BY <1>1, <1>2 DEF RoomFits

LEMMA HeldTouch ==
  ASSUME RoomInv, HeldInv, NEW s \in Slots, Touch(s)
  PROVE  HeldInv'
<1> SUFFICES ASSUME "room" \notin raced
             PROVE  HeldInv'
  BY DEF Touch, overlaps, HeldInv
<1>1. /\ Keeps(s) /\ raced' = raced /\ op[s].pc = "touch"
      /\ op'[s] = IF op[s].kind = "kick" THEN [op[s] EXCEPT !.pc = "disconnect"] ELSE Idle
  BY GotoEffect, DoneEffect DEF Touch, Touches, At, overlaps
<1>2. Fits(op[s], players, sessions)
  BY DEF RoomInv, HandlersFit
<1>3. CASE op[s] \in PlayerHandlers
  <2>1. OnPlayer(op[s])
    BY <1>1, <1>3 DEF OnPlayer, PlayerHandlers
  <2>2. room' = room
    BY <2>1, TouchHolds
  <2>3. op'[s] = Idle \/ (op'[s].kind = op[s].kind /\ op'[s].room = op[s].room)
    BY <1>1, <1>3 DEF PlayerHandlers
  <2> QED
    BY <1>1, <2>2, <2>3, HeldMoves
<1>4. CASE op[s] \in RoomHandlers
  <2>1. OnRoom(op[s]) /\ op[s].kind # "kick"
    BY <1>1, <1>4 DEF OnRoom, RoomHandlers, RoomKinds
  <2>2. \A t \in Slots : op'[t].pc = "idle"
    BY <1>1, <2>1, HandlerTypes DEF HeldInv, Keeps
  <2> QED
    BY <2>2 DEF HeldInv, RoomFits, OnPlayer, OnRoom
<1> QED
  BY <1>1, <1>2, <1>3, <1>4, HandlerTypes DEF Fits

LEMMA HeldInvStep == RoomInv /\ HeldInv /\ [Next]_vars => HeldInv'
<1> SUFFICES ASSUME RoomInv, HeldInv, [Next]_vars
             PROVE  HeldInv'
  OBVIOUS
<1>1. ASSUME NEW s \in Slots, NEW p \in Players,
             \/ BeginJoin(s, p) \/ BeginKick(s, p) \/ BeginLeave(s, p)
             \/ \E kind \in {"rename", "hostRename", "recolor"} : BeginEdit(s, p, kind)
      PROVE  HeldInv'
  <2>1. CASE BeginJoin(s, p)
    BY <2>1, HeldBegins DEF BeginJoin, PlayerKinds
  <2>2. CASE BeginKick(s, p)
    BY <2>2, HeldBegins DEF BeginKick, PlayerKinds
  <2>3. CASE BeginLeave(s, p)
    BY <2>3, HeldBegins DEF BeginLeave, PlayerKinds
  <2>4. ASSUME NEW kind \in {"rename", "hostRename", "recolor"}, BeginEdit(s, p, kind)
        PROVE  HeldInv'
    BY <2>4, HeldBegins DEF BeginEdit, PlayerKinds
  <2> QED
    BY <1>1, <2>1, <2>2, <2>3, <2>4
<1>2. ASSUME NEW s \in Slots,
             \/ ListForJoin(s) \/ SavePlayer(s) \/ SaveSession(s)
             \/ LoadPlayer(s) \/ ListForRename(s) \/ RevokeSession(s)
             \/ BeginSetting(s) \/ Touch(s) \/ Disconnect(s) \/ Abort(s)
      PROVE  HeldInv'
  BY <1>2, HeldAtWork, HeldTouch, HeldSetting
<1>3. ASSUME NEW p \in Players, Connect(p) \/ DropSocket(p)
      PROVE  HeldInv'
  BY <1>3 DEF Connect, DropSocket, HeldInv, store, overlaps
<1>4. CASE MatchMoves
  <2>1. raced' = raced \cup Overlaps("match", None) /\ op' = op
    BY <1>4 DEF MatchMoves, Begins
  <2>2. Running # {} => "room" \in Overlaps("match", None)
    BY DEF Overlaps, ChangeTheRoom
  <2>3. "room" \notin raced' => \A s \in Slots : op'[s].pc = "idle"
    BY <2>1, <2>2 DEF Running, At
  <2> QED
    BY <2>3 DEF HeldInv, RoomFits, OnPlayer, OnRoom
<1>5. CASE Crash
  <2>1. \A s \in Slots : op'[s].pc = "idle"
    BY <1>5, HandlerTypes DEF Crash
  <2> QED
    BY <2>1 DEF HeldInv, RoomFits, OnPlayer, OnRoom
<1>6. CASE UNCHANGED vars
  BY <1>6 DEF vars, HeldInv, store, overlaps
<1> QED
  BY <1>1, <1>2, <1>3, <1>4, <1>5, <1>6 DEF Next

(* A handler changes nothing of the room but its own setting, for any      *)
(* number of handlers, as long as no change of the room overlaps another   *)
(* handler.                                                                *)
THEOREM RoomStaysHeld == Spec => RoomHolds
<1>1. Init => HeldInv
  BY HandlerTypes DEF Init, HeldInv, RoomFits, OnPlayer, OnRoom
<1>2. Spec => []HeldInv
  BY <1>1, RoomInvHolds, HeldInvStep, PTL DEF Spec
<1>3. RoomInv /\ HeldInv =>
        [\A s \in Slots :
           Touch(s) /\ "room" \notin raced =>
             /\ room'.lobby = room.lobby
             /\ room'.settings.locked # room.settings.locked => op[s].kind = "lock"
             /\ room'.settings.allowLateJoin # room.settings.allowLateJoin =>
                  op[s].kind = "config"]_vars
  BY TouchHolds
<1> QED
  BY <1>2, <1>3, RoomInvHolds, PTL DEF RoomHolds
=============================================================================
