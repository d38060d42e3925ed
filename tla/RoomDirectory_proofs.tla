------------------------ MODULE RoomDirectory_proofs ------------------------
(***************************************************************************)
(* Proofs about RoomDirectory, for every value of the constants.           *)
(***************************************************************************)
EXTENDS RoomDirectory, TLAPS

-----------------------------------------------------------------------------
(* What a step does to the store: the index, the documents and the history *)
(* of claims.  Whichever handler takes it, and whether its call fails or   *)
(* not, it does one of these.                                              *)

StepClaim(s) ==
  /\ op[s].pc = "claim"
  /\ \E c \in Codes, i \in Drawn :
       /\ ClaimConflict(op[s].room, c, <<i, pepper>>) = "none"
       /\ SetLocators(op[s].room, c, <<i, pepper>>)
       /\ Claims(s, c, <<i, pepper>>)
  /\ UNCHANGED <<doc, active>>

StepWrite(s) ==
  /\ op[s].pc \in {"saveRoom", "touch"}
  /\ WriteRoom(op[s].room, op[s].at)
  /\ UNCHANGED <<index, claimed>>

StepDrop(s) ==
  /\ op[s].pc = "release"
  /\ DropLocators(op[s].room, op[s].at)
  /\ UNCHANGED <<claimed, doc, active>>

StepRenew(s) ==
  /\ op[s].pc = "refresh"
  /\ OwnsBoth(op[s].room, op[s].at)
  /\ RefreshLocators(op[s].room, op[s].at)
  /\ UNCHANGED <<claimed, active>>

StepKeep(r) ==
  /\ doc' = Refreshed(r)
  /\ UNCHANGED <<index, claimed, active>>

LocatorsOf(r) == [code |-> doc[r].code, invite |-> doc[r].invite]

StepRevive(r) ==
  /\ Stored(r)
  /\ WriteRoom(r, LocatorsOf(r))
  /\ \/ OwnsBoth(r, LocatorsOf(r)) /\ SetLocators(r, doc[r].code, doc[r].invite)
     \/ UNCHANGED index
  /\ UNCHANGED claimed

Ages(t) ==
  \/ op[t].pc = "idle" /\ op'[t] = Idle
  \/ /\ op[t].pc # "idle" /\ op[t].age < RequestTicks
     /\ op'[t] = [op[t] EXCEPT !.age = @ + 1]

StepAge ==
  /\ codeIndex' = [c \in Codes |-> AgedKey(codeIndex[c])]
  /\ inviteIndex' = [h \in Hashes |-> AgedKey(inviteIndex[h])]
  /\ doc' = [r \in Rooms |-> AgedDoc(doc[r])]
  /\ inUse' = [r \in Rooms |-> Less(inUse[r])]
  /\ \A t \in Slots : Ages(t)
  /\ UNCHANGED <<claimed, active>>

StoreStep ==
  \/ \E s \in Slots : StepClaim(s) \/ StepWrite(s) \/ StepDrop(s) \/ StepRenew(s)
  \/ \E r \in Rooms : StepKeep(r) \/ StepRevive(r)
  \/ StepAge
  \/ UNCHANGED <<index, doc, active, claimed>>

LEMMA OpTyped ==
  ASSUME TypeOK, NEW s \in Slots, op[s].pc # "idle"
  PROVE  /\ op[s] \in [pc : CreatePlaces \cup UsePlaces, room : Rooms, at : Locators,
                       tries : 0..MaxAttempts - 1, age : 0..RequestTicks, moves : BOOLEAN]
         /\ op[s].room \in Rooms
BY DEF TypeOK, Handlers, Idle

LEMMA FailStores ==
  ASSUME TypeOK, NEW s \in Slots, Fail(s)
  PROVE  StoreStep
<1>1. op[s].pc # "idle"
  BY DEF Fail, At
<1>2. op[s].room \in Rooms
  BY <1>1, OpTyped
<1>3. CASE UNCHANGED <<index, claimed, doc, active, matches>>
  BY <1>3 DEF StoreStep
<1>4. CASE Effect(s)
  <2>1. CASE op[s].pc = "claim"
    <3>1. StepClaim(s)
      BY <1>4, <2>1 DEF Effect, At, StepClaim
    <3> QED
      BY <3>1 DEF StoreStep
  <2>2. CASE op[s].pc \in {"saveRoom", "touch"}
    <3>1. StepWrite(s)
      BY <1>4, <2>2 DEF Effect, At, StepWrite
    <3> QED
      BY <3>1 DEF StoreStep
  <2>3. CASE op[s].pc = "finish"
    <3>1. StepKeep(op[s].room)
      BY <1>4, <2>3 DEF Effect, At, StepKeep
    <3> QED
      BY <1>2, <3>1 DEF StoreStep
  <2>4. CASE op[s].pc = "release"
    <3>1. StepDrop(s)
      BY <1>4, <2>4 DEF Effect, At, StepDrop
    <3> QED
      BY <3>1 DEF StoreStep
  <2>5. CASE op[s].pc = "swap"
    <3>1. StepKeep(op[s].room)
      BY <1>4, <2>5 DEF Effect, At, StepKeep, MovePhase
    <3> QED
      BY <1>2, <3>1 DEF StoreStep
  <2>6. CASE op[s].pc = "refresh"
    <3>1. StepRenew(s)
      BY <1>4, <2>6 DEF Effect, At, StepRenew
    <3> QED
      BY <3>1 DEF StoreStep
  <2> QED
    BY <1>4, <2>1, <2>2, <2>3, <2>4, <2>5, <2>6 DEF Effect, At
<1> QED
  BY <1>3, <1>4 DEF Fail

(* A tick ages the keys, the documents and the handlers.                   *)
LEMMA TickAges ==
  ASSUME Tick
  PROVE  StepAge
<1>1. ASSUME NEW t \in Slots
      PROVE  Ages(t)
  <2>1. op'[t] = IF op[t].pc = "idle" THEN Idle ELSE [op[t] EXCEPT !.age = @ + 1]
    BY DEF Tick, At
  <2>2. op[t].pc # "idle" => op[t].age < RequestTicks
    BY DEF Tick, At
  <2> QED
    BY <2>1, <2>2 DEF Ages
<1> QED
  BY <1>1 DEF Tick, StepAge

(* Every step of the model is one of these for the store.                  *)
LEMMA StoreSteps ==
  ASSUME TypeOK, [Next]_vars
  PROVE  StoreStep
<1>1. ASSUME NEW s \in Slots,
             \/ BeginCreate(s) \/ Mark(s) \/ BeginUse(s)
      PROVE  StoreStep
  BY <1>1 DEF BeginCreate, Mark, BeginUse, StoreStep, index, ghosts
<1>2. ASSUME NEW s \in Slots, Claim(s)
      PROVE  StoreStep
  <2>1. PICK c \in Codes :
          \E i \in Drawn :
            LET r == op[s].room
                h == <<i, pepper>>
            IN IF ClaimConflict(r, c, h) = "none"
               THEN SetLocators(r, c, h) /\ Claims(s, c, h)
               ELSE UNCHANGED <<index, claimed>>
    BY <1>2 DEF Claim
  <2>2. PICK i \in Drawn :
          LET r == op[s].room
              h == <<i, pepper>>
          IN IF ClaimConflict(r, c, h) = "none"
             THEN SetLocators(r, c, h) /\ Claims(s, c, h)
             ELSE UNCHANGED <<index, claimed>>
    BY <2>1
  <2>3. op[s].pc = "claim" /\ UNCHANGED <<doc, active>>
    BY <1>2 DEF Claim, At
  <2>4. CASE ClaimConflict(op[s].room, c, <<i, pepper>>) = "none"
    <3>1. StepClaim(s)
      BY <2>2, <2>3, <2>4 DEF StepClaim
    <3> QED
      BY <3>1 DEF StoreStep
  <2>5. CASE ClaimConflict(op[s].room, c, <<i, pepper>>) # "none"
    BY <2>2, <2>3, <2>5 DEF StoreStep
  <2> QED
    BY <2>4, <2>5
<1>3. ASSUME NEW s \in Slots, SaveNewRoom(s) \/ Touch(s)
      PROVE  StoreStep
  <2>1. StepWrite(s)
    BY <1>3 DEF SaveNewRoom, Touch, At, StepWrite, ghosts
  <2> QED
    BY <2>1 DEF StoreStep
<1>4. ASSUME NEW s \in Slots, FinishCreate(s) \/ Swap(s)
      PROVE  StoreStep
  <2>1. op[s].room \in Rooms
    BY <1>4, OpTyped DEF FinishCreate, Swap, At
  <2>2. StepKeep(op[s].room) \/ UNCHANGED <<index, doc, active, claimed>>
    BY <1>4 DEF FinishCreate, Swap, MovePhase, StepKeep, ghosts
  <2> QED
    BY <2>1, <2>2 DEF StoreStep
<1>5. ASSUME NEW s \in Slots, Release(s)
      PROVE  StoreStep
  <2>1. StepDrop(s)
    BY <1>5 DEF Release, At, StepDrop, ghosts
  <2> QED
    BY <2>1 DEF StoreStep
<1>6. ASSUME NEW s \in Slots, Refresh(s)
      PROVE  StoreStep
  <2>1. StepRenew(s) \/ UNCHANGED <<index, doc, active, claimed>>
    BY <1>6 DEF Refresh, At, StepRenew
  <2> QED
    BY <2>1 DEF StoreStep
<1>7. ASSUME NEW r \in Rooms, WriteInRoom(r)
      PROVE  StoreStep
  <2>1. StepKeep(r)
    BY <1>7 DEF WriteInRoom, StepKeep, ghosts
  <2> QED
    BY <2>1 DEF StoreStep
<1>8. ASSUME NEW r \in Rooms, RecoverRoom(r)
      PROVE  StoreStep
  <2>1. StepRevive(r) \/ UNCHANGED <<index, doc, active, claimed>>
    BY <1>8 DEF RecoverRoom, StepRevive, LocatorsOf
  <2> QED
    BY <2>1 DEF StoreStep
<1>9. CASE Restart \/ RecoveryFails \/ RecoveryEnds \/ UNCHANGED vars
  BY <1>9 DEF Restart, RecoveryFails, RecoveryEnds, vars, StoreStep, index, ghosts
<1>10. CASE Tick
  BY <1>10, TickAges DEF StoreStep
<1> QED
  BY <1>1, <1>2, <1>3, <1>4, <1>5, <1>6, <1>7, <1>8, <1>9, <1>10, FailStores DEF Next

-----------------------------------------------------------------------------
(* What a step does to the handlers: one goes on and the others stay, or   *)
(* all grow older, or all are gone.                                        *)

OthersStay(s) == \A t \in Slots \ {s} : op'[t] = op[t]

(* A handler begins, with a room that is new or one that it found.         *)
Creates(s) ==
  /\ op[s].pc = "idle" /\ ~Known(op'[s].room) /\ mode = "up"
  /\ op'[s].pc = "claim" /\ op'[s].age = 0
  /\ UNCHANGED <<index, doc, active, matches, boot, ghosts>>
Finds(s) ==
  /\ op[s].pc = "idle" /\ Stored(op'[s].room) /\ mode = "up"
  /\ op'[s].pc \in {"swap", "touch"} /\ op'[s].at = LocatorsOf(op'[s].room)
  /\ UNCHANGED <<index, doc, active, matches, boot, ghosts>>

(* The pairs of places a handler goes between with the same locators.      *)
Ways ==
  {<<"mark", "saveRoom">>, <<"saveRoom", "finish">>, <<"saveRoom", "release">>,
   <<"swap", "touch">>, <<"touch", "refresh">>}

SameRoom(s) == op'[s].room = op[s].room /\ op'[s].age = op[s].age

(* It tries again, has claimed its locators, or goes on with them.         *)
Goes(s) ==
  /\ op[s].pc # "idle" /\ SameRoom(s)
  /\ \/ op[s].pc = "claim" /\ op'[s].pc = "claim"
     \/ /\ op[s].pc = "claim" /\ op'[s].pc = "mark"
        /\ StepClaim(s) /\ op'[s].at = claimed'[op[s].room]
     \/ /\ <<op[s].pc, op'[s].pc>> \in Ways
        /\ op'[s].at = op[s].at
        /\ op'[s].pc = "finish" => doc'[op[s].room] = RoomDoc(op[s].at)

OpStep ==
  \/ \E s \in Slots : /\ op[s].pc # "idle" \/ op'[s].pc # "idle"
                      /\ OthersStay(s) /\ op'[s] \in Handlers
                      /\ op'[s] = Idle \/ Creates(s) \/ Finds(s) \/ Goes(s)
  \/ StepAge /\ mode = "up"
  \/ op' = op
  \/ \A t \in Slots : op'[t] = Idle

LEMMA DoneOp ==
  ASSUME TypeOK, NEW s \in Slots, op[s].pc # "idle", Done(s)
  PROVE  OpStep
<1>1. OthersStay(s) /\ op'[s] = Idle
  BY DEF TypeOK, Done, OthersStay
<1>2. Idle \in Handlers
  BY DEF Handlers
<1> QED
  BY <1>1, <1>2 DEF OpStep

LEMMA GotoOp ==
  ASSUME TypeOK, NEW s \in Slots, op[s].pc # "idle", NEW place, Goto(s, place),
         <<op[s].pc, place>> \in Ways,
         place = "finish" => doc'[op[s].room] = RoomDoc(op[s].at)
  PROVE  OpStep
<1>1. OthersStay(s) /\ op'[s] = [op[s] EXCEPT !.pc = place]
  BY DEF TypeOK, Goto, OthersStay
<1>2. op[s] \in [pc : CreatePlaces \cup UsePlaces, room : Rooms, at : Locators,
                 tries : 0..MaxAttempts - 1, age : 0..RequestTicks, moves : BOOLEAN]
  BY OpTyped
<1>3. place \in CreatePlaces \cup UsePlaces
  BY DEF Ways, CreatePlaces, UsePlaces
<1>4. op'[s] \in [pc : CreatePlaces \cup UsePlaces, room : Rooms, at : Locators,
                 tries : 0..MaxAttempts - 1, age : 0..RequestTicks, moves : BOOLEAN]
  BY <1>1, <1>2, <1>3
<1>5. op'[s].pc = place /\ SameRoom(s) /\ op'[s].at = op[s].at
  BY <1>1, <1>2 DEF SameRoom
<1>6. Goes(s)
  BY <1>5 DEF Goes
<1>7. op'[s] \in Handlers
  BY <1>4 DEF Handlers
<1> QED
  BY <1>1, <1>6, <1>7 DEF OpStep

LEMMA BeginOp ==
  ASSUME TypeOK, NEW s \in Slots, BeginCreate(s) \/ BeginUse(s)
  PROVE  OpStep
<1>1. op \in [Slots -> Handlers]
  BY DEF TypeOK
<1>2. 0 \in 0..MaxAttempts - 1 /\ 0 \in 0..RequestTicks
  BY TtlAssumption
<1>3. CASE BeginCreate(s)
  <2>1. PICK r \in {r \in Rooms : ~Known(r)} :
          op' = [op EXCEPT ![s] =
                  [pc |-> "claim", room |-> r, at |-> NoLocators, tries |-> 0,
                   age |-> 0, moves |-> FALSE]]
    BY <1>3 DEF BeginCreate
  <2> DEFINE o == [pc |-> "claim", room |-> r, at |-> NoLocators, tries |-> 0,
                   age |-> 0, moves |-> FALSE]
  <2>2. o \in Handlers
    BY <1>2 DEF Handlers, CreatePlaces, NoLocators, Locators
  <2>3. op'[s] = o /\ OthersStay(s)
    BY <1>1, <2>1 DEF OthersStay
  <2>4. Creates(s)
    BY <1>3, <2>3 DEF BeginCreate, Creates, At
  <2> QED
    BY <2>2, <2>3, <2>4 DEF OpStep
<1>4. CASE BeginUse(s)
  <2>1. PICK r \in {r \in Rooms : Stored(r)} : \E place \in {"swap", "touch"}, moves \in BOOLEAN :
          op' = [op EXCEPT ![s] =
                  [pc |-> place, room |-> r, at |-> LocatorsOf(r),
                   tries |-> 0, age |-> 0, moves |-> moves /\ place = "swap"]]
    BY <1>4 DEF BeginUse, LocatorsOf
  <2>2. PICK place \in {"swap", "touch"}, moves \in BOOLEAN :
          op' = [op EXCEPT ![s] =
                  [pc |-> place, room |-> r, at |-> LocatorsOf(r),
                   tries |-> 0, age |-> 0, moves |-> moves /\ place = "swap"]]
    BY <2>1
  <2> DEFINE o == [pc |-> place, room |-> r, at |-> LocatorsOf(r),
                   tries |-> 0, age |-> 0, moves |-> moves /\ place = "swap"]
  <2>3. LocatorsOf(r) \in Locators
    BY DEF TypeOK, LocatorsOf, Locators, Docs
  <2>4. (moves /\ place = "swap") \in BOOLEAN
    OBVIOUS
  <2>5. o \in Handlers
    BY <1>2, <2>3, <2>4 DEF Handlers, UsePlaces
  <2>6. op'[s] = o /\ OthersStay(s)
    BY <1>1, <2>2 DEF OthersStay
  <2>7. Finds(s)
    BY <1>4, <2>6 DEF BeginUse, Finds, At
  <2> QED
    BY <2>5, <2>6, <2>7 DEF OpStep
<1> QED
  BY <1>3, <1>4

LEMMA ClaimOp ==
  ASSUME TypeOK, NEW s \in Slots, Claim(s)
  PROVE  OpStep
<1>1. op \in [Slots -> Handlers] /\ op[s].pc = "claim"
  BY DEF TypeOK, Claim, At
<1>2. op[s] \in [pc : CreatePlaces \cup UsePlaces, room : Rooms, at : Locators,
                 tries : 0..MaxAttempts - 1, age : 0..RequestTicks, moves : BOOLEAN]
  BY <1>1, OpTyped
<1>3. PICK c \in Codes :
        \E i \in Drawn :
          LET r == op[s].room
              h == <<i, pepper>>
          IN IF ClaimConflict(r, c, h) = "none"
             THEN /\ SetLocators(r, c, h)
                  /\ Claims(s, c, h)
                  /\ op' = [op EXCEPT ![s].pc = "mark",
                                      ![s].at = [code |-> c, invite |-> h]]
             ELSE /\ IF Exhausted(s)
                     THEN Done(s)
                     ELSE op' = [op EXCEPT ![s].tries = @ + 1]
                  /\ UNCHANGED <<index, claimed>>
  BY DEF Claim
<1>4. PICK i \in Drawn :
        LET r == op[s].room
            h == <<i, pepper>>
        IN IF ClaimConflict(r, c, h) = "none"
           THEN /\ SetLocators(r, c, h)
                /\ Claims(s, c, h)
                /\ op' = [op EXCEPT ![s].pc = "mark",
                                    ![s].at = [code |-> c, invite |-> h]]
           ELSE /\ IF Exhausted(s)
                   THEN Done(s)
                   ELSE op' = [op EXCEPT ![s].tries = @ + 1]
                /\ UNCHANGED <<index, claimed>>
  BY <1>3
<1> DEFINE r == op[s].room
           h == <<i, pepper>>
<1>5. h \in Hashes /\ r \in Rooms
  BY <1>2 DEF Drawn, Hashes, TypeOK
<1>6. UNCHANGED <<doc, active>>
  BY DEF Claim
<1>7. CASE ClaimConflict(r, c, h) = "none"
  <2>1. StepClaim(s)
    BY <1>1, <1>4, <1>6, <1>7 DEF StepClaim
  <2> DEFINE o == [op[s] EXCEPT !.pc = "mark", !.at = [code |-> c, invite |-> h]]
  <2>2. op'[s] = o /\ OthersStay(s)
    BY <1>1, <1>4, <1>7 DEF OthersStay
  <2>3. o \in [pc : CreatePlaces \cup UsePlaces, room : Rooms, at : Locators,
               tries : 0..MaxAttempts - 1, age : 0..RequestTicks, moves : BOOLEAN]
    BY <1>2, <1>5 DEF CreatePlaces, Locators
  <2>4. o.pc = "mark" /\ o.room = r /\ o.age = op[s].age /\ o.at = [code |-> c, invite |-> h]
    BY <1>2
  <2>5. claimed'[r] = [code |-> c, invite |-> h]
    BY <1>4, <1>5, <1>7 DEF Claims, TypeOK
  <2>6. o \in Handlers
    BY <2>3 DEF Handlers
  <2> HIDE DEF o
  <2>7. Goes(s)
    BY <1>1, <2>1, <2>2, <2>4, <2>5 DEF Goes, SameRoom
  <2> QED
    BY <1>1, <2>2, <2>6, <2>7 DEF OpStep
<1>8. CASE ClaimConflict(r, c, h) # "none" /\ Done(s)
  BY <1>1, <1>8, DoneOp
<1>9. CASE /\ ~Exhausted(s) /\ op' = [op EXCEPT ![s].tries = @ + 1]
  <2> DEFINE o == [op[s] EXCEPT !.tries = @ + 1]
  <2>1. op'[s] = o /\ OthersStay(s)
    BY <1>1, <1>9 DEF OthersStay
  <2>2. op[s].tries + 1 \in 0..MaxAttempts - 1
    BY <1>2, <1>9, TtlAssumption DEF Exhausted
  <2>3. o \in [pc : CreatePlaces \cup UsePlaces, room : Rooms, at : Locators,
               tries : 0..MaxAttempts - 1, age : 0..RequestTicks, moves : BOOLEAN]
    BY <1>2, <2>2
  <2>4. o.pc = "claim" /\ o.room = r /\ o.age = op[s].age
    BY <1>1, <1>2
  <2>5. o \in Handlers
    BY <2>3 DEF Handlers
  <2> HIDE DEF o
  <2>6. Goes(s)
    BY <1>1, <2>1, <2>4 DEF Goes, SameRoom
  <2> QED
    BY <1>1, <2>1, <2>5, <2>6 DEF OpStep
<1> QED
  BY <1>4, <1>7, <1>8, <1>9

LEMMA TickOp ==
  ASSUME Tick
  PROVE  OpStep
BY TickAges DEF Tick, OpStep

LEMMA OpSteps ==
  ASSUME TypeOK, [Next]_vars
  PROVE  OpStep
<1>1. ASSUME NEW s \in Slots, BeginCreate(s) \/ BeginUse(s) \/ Claim(s)
      PROVE  OpStep
  BY <1>1, BeginOp, ClaimOp
<1>2. ASSUME NEW s \in Slots, Mark(s)
      PROVE  OpStep
  BY <1>2, GotoOp DEF Mark, At, Ways
<1>3. ASSUME NEW s \in Slots, SaveNewRoom(s)
      PROVE  OpStep
  <2>1. op[s].pc = "saveRoom" /\ Goto(s, "finish")
    BY <1>3 DEF SaveNewRoom, At
  <2>2. doc'[op[s].room] = RoomDoc(op[s].at)
    BY <1>3, <2>1, OpTyped DEF SaveNewRoom, WriteRoom, TypeOK
  <2> QED
    BY <2>1, <2>2, GotoOp DEF Ways
<1>4. ASSUME NEW s \in Slots, FinishCreate(s) \/ Release(s) \/ Refresh(s)
      PROVE  OpStep
  BY <1>4, DoneOp DEF FinishCreate, Release, Refresh, At
<1>5. ASSUME NEW s \in Slots, Swap(s)
      PROVE  OpStep
  BY <1>5, DoneOp, GotoOp DEF Swap, At, Ways
<1>6. ASSUME NEW s \in Slots, Touch(s)
      PROVE  OpStep
  BY <1>6, GotoOp DEF Touch, At, Ways
<1>7. ASSUME NEW s \in Slots, Fail(s)
      PROVE  OpStep
  <2>1. op[s].pc # "idle" /\ AfterFailure(s)
    BY <1>7 DEF Fail, At
  <2>2. CASE op[s].pc = "saveRoom"
    BY <2>1, <2>2, GotoOp DEF AfterFailure, At, Ways
  <2>3. CASE op[s].pc # "saveRoom"
    BY <2>1, <2>3, DoneOp DEF AfterFailure, At
  <2> QED
    BY <2>2, <2>3
<1>8. ASSUME NEW r \in Rooms, WriteInRoom(r) \/ RecoverRoom(r)
      PROVE  OpStep
  BY <1>8 DEF WriteInRoom, RecoverRoom, OpStep
<1>9. CASE RecoveryFails \/ RecoveryEnds \/ UNCHANGED vars
  BY <1>9 DEF RecoveryFails, RecoveryEnds, vars, OpStep
<1>10. CASE Restart
  BY <1>10 DEF Restart, OpStep
<1> QED
  BY <1>1, <1>2, <1>3, <1>4, <1>5, <1>6, <1>7, <1>8, <1>9, <1>10, TickOp DEF Next

-----------------------------------------------------------------------------
(* The locators of a room: who has claimed them, owns them and names them. *)

Pair == [code : Codes, invite : Hashes]

ClaimsFit ==
  /\ \A s \in Slots : op[s].pc = "claim" => claimed[op[s].room] = NoLocators
  /\ \A s, t \in Slots :
       s # t /\ op[s].pc \in CreatePlaces /\ op[t].pc \in CreatePlaces =>
         op[s].room # op[t].room
  /\ \A s \in Slots : op[s].pc \in HoldsPlaces =>
       op[s].at = claimed[op[s].room] /\ op[s].at # NoLocators

Paired ==
  \A r \in Rooms :
    /\ claimed[r] \in Pair \cup {NoLocators}
    /\ \A c \in Codes : codeIndex[c].owner = r =>
         /\ claimed[r] # NoLocators /\ claimed[r].code = c
         /\ inviteIndex[claimed[r].invite] = codeIndex[c]
    /\ \A h \in Hashes : inviteIndex[h].owner = r =>
         /\ claimed[r] # NoLocators /\ claimed[r].invite = h
         /\ codeIndex[claimed[r].code] = inviteIndex[h]

DocsFit ==
  \A r \in Rooms : Stored(r) =>
    /\ claimed[r] # NoLocators /\ LocatorsOf(r) = claimed[r]
    /\ r \in active /\ doc[r].ttl >= 1

(* The inductive invariant behind LocatorsInPairs and LocatorLeadsHome.    *)
DirInv == TypeOK /\ ClaimsFit /\ Paired /\ DocsFit

LEMMA Unlike ==
  /\ NoLocators \notin Pair
  /\ \A l \in Pair : l \in Locators
  /\ NoLocators \in Locators
  /\ Owned(None) = [owner |-> None, ttl |-> RoomTtl]
  /\ \A r \in Rooms : Owned(r) \in Keys /\ Owned(r).owner = r /\ Owned(r).ttl = RoomTtl
  /\ Free \in Keys /\ Free.owner = None
  /\ None \notin Rooms
  /\ RoomTtl \in Nat /\ RoomTtl >= 1
  /\ \A l \in Pair : RoomDoc(l) \in Docs /\ RoomDoc(l) # NoDoc
  /\ NoDoc \in Docs
<1>1. NoLocators \notin Pair
  BY NoneAssumption DEF NoLocators, Pair
<1>2. RoomTtl \in Nat /\ RoomTtl >= 1
  BY TtlAssumption
<1>3. \A l \in Pair : RoomDoc(l) \in Docs /\ RoomDoc(l) # NoDoc
  BY <1>2 DEF Pair, RoomDoc, Docs, NoDoc
<1>4. NoDoc \in Docs
  BY <1>2 DEF NoDoc, Docs
<1>5. Free \in Keys /\ \A r \in Rooms : Owned(r) \in Keys
  BY <1>2 DEF Free, Owned, Keys
<1> QED
  BY <1>1, <1>2, <1>3, <1>4, <1>5, NoneAssumption
     DEF NoLocators, Pair, Locators, Owned, Free

(* A claim takes locators that are free, for a room that had none.         *)
LEMMA ClaimTakes ==
  ASSUME DirInv, NEW s \in Slots, StepClaim(s)
  PROVE  \E c \in Codes, h \in Hashes :
           LET r == op[s].room
           IN /\ r \in Rooms /\ claimed[r] = NoLocators
              /\ codeIndex[c].owner = None /\ inviteIndex[h].owner = None
              /\ \A d \in Codes : codeIndex[d].owner # r
              /\ \A g \in Hashes : inviteIndex[g].owner # r
              /\ codeIndex' = [codeIndex EXCEPT ![c] = Owned(r)]
              /\ inviteIndex' = [inviteIndex EXCEPT ![h] = Owned(r)]
              /\ claimed' = [claimed EXCEPT ![r] = [code |-> c, invite |-> h]]
              /\ h[1] \in Drawn /\ h[2] = pepper
              /\ UNCHANGED <<doc, active>>
<1> DEFINE r == op[s].room
<1>1. r \in Rooms /\ claimed[r] = NoLocators
  BY OpTyped DEF DirInv, StepClaim, ClaimsFit
<1>2. PICK c \in Codes, i \in Drawn :
        /\ ClaimConflict(r, c, <<i, pepper>>) = "none"
        /\ SetLocators(r, c, <<i, pepper>>)
        /\ Claims(s, c, <<i, pepper>>)
  BY DEF StepClaim
<1> DEFINE h == <<i, pepper>>
<1>3. h \in Hashes /\ h[1] \in Drawn /\ h[2] = pepper
  BY DEF Hashes, Drawn, DirInv, TypeOK
<1>4. /\ \A d \in Codes : codeIndex[d].owner # r
      /\ \A g \in Hashes : inviteIndex[g].owner # r
  BY <1>1 DEF DirInv, Paired
<1>5. codeIndex[c].owner = None /\ inviteIndex[h].owner = None
  BY <1>2, <1>3, <1>4 DEF ClaimConflict
<1> HIDE DEF h
<1> QED
  BY <1>1, <1>2, <1>3, <1>4, <1>5 DEF SetLocators, Claims, StepClaim, h

(* Whoever owns both locators that a room claimed may drop or renew them.  *)
LEMMA HoldsItsLocators ==
  ASSUME DirInv, NEW s \in Slots, op[s].pc \in HoldsPlaces
  PROVE  /\ op[s].room \in Rooms /\ op[s].at = claimed[op[s].room]
         /\ op[s].at \in Pair
<1>1. op[s].pc # "idle"
  BY DEF HoldsPlaces, CreatePlaces, UsePlaces
<1> QED
  BY <1>1, OpTyped DEF DirInv, ClaimsFit, Paired

(* What the keys and the documents are after a step.                       *)
LEMMA AgedTyped ==
  /\ \A k \in Keys : /\ AgedKey(k) \in Keys
                     /\ \A r \in Rooms : AgedKey(k).owner = r => k.owner = r /\ k.ttl > 1
                                                           /\ AgedKey(k).ttl = k.ttl - 1
                     /\ k.ttl > 1 => AgedKey(k).owner = k.owner /\ AgedKey(k).ttl = k.ttl - 1
  /\ \A d \in Docs : /\ AgedDoc(d) \in Docs
                     /\ AgedDoc(d) # NoDoc => /\ d # NoDoc /\ d.ttl > 1
                                              /\ AgedDoc(d).code = d.code
                                              /\ AgedDoc(d).invite = d.invite
                                              /\ AgedDoc(d).ttl = d.ttl - 1
                     /\ d.ttl > 1 => AgedDoc(d) # NoDoc
<1>1. ASSUME NEW k \in Keys
      PROVE  /\ AgedKey(k) \in Keys
             /\ \A r \in Rooms : AgedKey(k).owner = r => k.owner = r /\ k.ttl > 1
                                                         /\ AgedKey(k).ttl = k.ttl - 1
             /\ k.ttl > 1 => AgedKey(k).owner = k.owner /\ AgedKey(k).ttl = k.ttl - 1
  <2>1. CASE k.ttl > 1
    BY <2>1, TtlAssumption DEF AgedKey, Keys
  <2>2. CASE ~(k.ttl > 1)
    BY <2>2, Unlike DEF AgedKey
  <2> QED
    BY <2>1, <2>2
<1>2. ASSUME NEW d \in Docs
      PROVE  /\ AgedDoc(d) \in Docs
             /\ AgedDoc(d) # NoDoc => /\ d # NoDoc /\ d.ttl > 1
                                      /\ AgedDoc(d).code = d.code
                                      /\ AgedDoc(d).invite = d.invite
                                      /\ AgedDoc(d).ttl = d.ttl - 1
             /\ d.ttl > 1 => AgedDoc(d) # NoDoc
  <2>1. CASE d.ttl > 1
    <3>1. AgedDoc(d) = [d EXCEPT !.ttl = @ - 1]
      BY <2>1 DEF AgedDoc
    <3>2. d.ttl - 1 \in 0..RoomTtl /\ d.ttl - 1 # 0
      BY <2>1, TtlAssumption DEF Docs
    <3>3. /\ AgedDoc(d) \in Docs /\ AgedDoc(d).ttl = d.ttl - 1
          /\ AgedDoc(d).code = d.code /\ AgedDoc(d).invite = d.invite
      BY <3>1, <3>2 DEF Docs
    <3>4. NoDoc.ttl = 0 /\ d.ttl # 0
      BY <2>1, TtlAssumption DEF NoDoc, Docs
    <3>5. d # NoDoc /\ AgedDoc(d) # NoDoc
      BY <3>2, <3>3, <3>4
    <3> QED
      BY <2>1, <3>3, <3>5
  <2>2. CASE ~(d.ttl > 1)
    BY <2>2, Unlike DEF AgedDoc
  <2> QED
    BY <2>1, <2>2
<1> QED
  BY <1>1, <1>2

StoreTypes ==
  /\ codeIndex \in [Codes -> Keys] /\ inviteIndex \in [Hashes -> Keys]
  /\ doc \in [Rooms -> Docs] /\ active \subseteq Rooms
  /\ claimed \in [Rooms -> Locators]

(* Both locators of a room are set, or both are dropped.                   *)
LEMMA SetBoth ==
  ASSUME DirInv, NEW r \in Rooms, OwnsBoth(r, claimed[r]), claimed' = claimed,
         NEW key \in {Owned(r), Free},
         codeIndex' = [codeIndex EXCEPT ![claimed[r].code] = key],
         inviteIndex' = [inviteIndex EXCEPT ![claimed[r].invite] = key]
  PROVE  /\ Paired' /\ codeIndex' \in [Codes -> Keys] /\ inviteIndex' \in [Hashes -> Keys]
         /\ claimed[r] \in Pair
<1>1. claimed[r] \in Pair
  BY DEF DirInv, Paired, OwnsBoth
<1> DEFINE c == claimed[r].code
           h == claimed[r].invite
<1>2. c \in Codes /\ h \in Hashes /\ codeIndex[c].owner = r /\ inviteIndex[h].owner = r
  BY <1>1 DEF Pair, OwnsBoth
<1>3. codeIndex \in [Codes -> Keys] /\ inviteIndex \in [Hashes -> Keys]
  BY DEF DirInv, TypeOK
<1>4. key \in Keys
  BY Unlike
<1>5. /\ codeIndex'[c] = key /\ \A d \in Codes \ {c} : codeIndex'[d] = codeIndex[d]
      /\ inviteIndex'[h] = key /\ \A g \in Hashes \ {h} : inviteIndex'[g] = inviteIndex[g]
  BY <1>2, <1>3
<1>6. key.owner \in {r, None} /\ r # None
  BY Unlike
<1>7. ASSUME NEW q \in Rooms
      PROVE  /\ claimed[q] \in Pair \cup {NoLocators}
             /\ \A d \in Codes : codeIndex'[d].owner = q =>
                  /\ claimed[q] # NoLocators /\ claimed[q].code = d
                  /\ inviteIndex'[claimed[q].invite] = codeIndex'[d]
             /\ \A g \in Hashes : inviteIndex'[g].owner = q =>
                  /\ claimed[q] # NoLocators /\ claimed[q].invite = g
                  /\ codeIndex'[claimed[q].code] = inviteIndex'[g]
  <2>1. claimed[q] \in Pair \cup {NoLocators}
    BY DEF DirInv, Paired
  <2>2. ASSUME NEW d \in Codes, codeIndex'[d].owner = q
        PROVE  /\ claimed[q] # NoLocators /\ claimed[q].code = d
               /\ inviteIndex'[claimed[q].invite] = codeIndex'[d]
    <3>1. CASE d = c
      <4>1. q = r
        BY <1>5, <1>6, <2>2, <3>1, Unlike
      <4> QED
        BY <1>1, <1>5, <3>1, <4>1, Unlike
    <3>2. CASE d # c
      <4>1. /\ claimed[q] # NoLocators /\ claimed[q].code = d
            /\ inviteIndex[claimed[q].invite] = codeIndex[d] /\ codeIndex[d].owner = q
        BY <1>5, <2>2, <3>2 DEF DirInv, Paired
      <4>2. claimed[q] \in Pair
        BY <2>1, <4>1
      <4>3. claimed[q].invite # h
        BY <1>2, <3>2, <4>1
      <4> QED
        BY <1>5, <3>2, <4>1, <4>2, <4>3 DEF Pair
    <3> QED
      BY <3>1, <3>2
  <2>3. ASSUME NEW g \in Hashes, inviteIndex'[g].owner = q
        PROVE  /\ claimed[q] # NoLocators /\ claimed[q].invite = g
               /\ codeIndex'[claimed[q].code] = inviteIndex'[g]
    <3>1. CASE g = h
      <4>1. q = r
        BY <1>5, <1>6, <2>3, <3>1, Unlike
      <4> QED
        BY <1>1, <1>5, <3>1, <4>1, Unlike
    <3>2. CASE g # h
      <4>1. /\ claimed[q] # NoLocators /\ claimed[q].invite = g
            /\ codeIndex[claimed[q].code] = inviteIndex[g] /\ inviteIndex[g].owner = q
        BY <1>5, <2>3, <3>2 DEF DirInv, Paired
      <4>2. claimed[q] \in Pair
        BY <2>1, <4>1
      <4>3. claimed[q].code # c
        BY <1>2, <3>2, <4>1
      <4> QED
        BY <1>5, <3>2, <4>1, <4>2, <4>3 DEF Pair
    <3> QED
      BY <3>1, <3>2
  <2> QED
    BY <2>1, <2>2, <2>3
<1>8. Paired'
  BY <1>7 DEF Paired
<1> QED
  BY <1>1, <1>3, <1>4, <1>8

LEMMA ClaimPairs ==
  ASSUME DirInv, NEW s \in Slots, StepClaim(s)
  PROVE  Paired' /\ StoreTypes' /\ DocsFit'
<1> DEFINE r == op[s].room
<1>1. PICK c \in Codes, h \in Hashes :
        /\ r \in Rooms /\ claimed[r] = NoLocators
        /\ codeIndex[c].owner = None /\ inviteIndex[h].owner = None
        /\ \A d \in Codes : codeIndex[d].owner # r
        /\ \A g \in Hashes : inviteIndex[g].owner # r
        /\ codeIndex' = [codeIndex EXCEPT ![c] = Owned(r)]
        /\ inviteIndex' = [inviteIndex EXCEPT ![h] = Owned(r)]
        /\ claimed' = [claimed EXCEPT ![r] = [code |-> c, invite |-> h]]
        /\ UNCHANGED <<doc, active>>
  BY ClaimTakes
<1>2. StoreTypes
  BY DEF DirInv, TypeOK, StoreTypes
<1>3. [code |-> c, invite |-> h] \in Pair /\ [code |-> c, invite |-> h] # NoLocators
  BY Unlike DEF Pair
<1>4. StoreTypes'
  BY <1>1, <1>2, <1>3, Unlike DEF StoreTypes
<1>5. /\ codeIndex'[c] = Owned(r) /\ \A d \in Codes \ {c} : codeIndex'[d] = codeIndex[d]
      /\ inviteIndex'[h] = Owned(r) /\ \A g \in Hashes \ {h} : inviteIndex'[g] = inviteIndex[g]
      /\ claimed'[r] = [code |-> c, invite |-> h]
      /\ \A q \in Rooms \ {r} : claimed'[q] = claimed[q]
  BY <1>1, <1>2 DEF StoreTypes
<1>6. ASSUME NEW q \in Rooms
      PROVE  /\ claimed'[q] \in Pair \cup {NoLocators}
             /\ \A d \in Codes : codeIndex'[d].owner = q =>
                  /\ claimed'[q] # NoLocators /\ claimed'[q].code = d
                  /\ inviteIndex'[claimed'[q].invite] = codeIndex'[d]
             /\ \A g \in Hashes : inviteIndex'[g].owner = q =>
                  /\ claimed'[q] # NoLocators /\ claimed'[q].invite = g
                  /\ codeIndex'[claimed'[q].code] = inviteIndex'[g]
  <2>1. CASE q = r
    <3>1. claimed'[q] = [code |-> c, invite |-> h] /\ claimed'[q].code = c /\ claimed'[q].invite = h
      BY <1>5, <2>1
    <3>2. \A d \in Codes : codeIndex'[d].owner = q => d = c
      BY <1>1, <1>5, <2>1
    <3>3. \A g \in Hashes : inviteIndex'[g].owner = q => g = h
      BY <1>1, <1>5, <2>1
    <3> QED
      BY <1>3, <1>5, <3>1, <3>2, <3>3
  <2>2. CASE q # r
    <3>1. claimed'[q] = claimed[q] /\ claimed[q] \in Pair \cup {NoLocators}
      BY <1>5, <2>2 DEF DirInv, Paired
    <3>2. ASSUME NEW d \in Codes, codeIndex'[d].owner = q
          PROVE  /\ claimed[q] # NoLocators /\ claimed[q].code = d
                 /\ inviteIndex'[claimed[q].invite] = codeIndex'[d]
      <4>1. d # c
        BY <1>1, <1>5, <2>2, <3>2, Unlike
      <4>2. /\ claimed[q] # NoLocators /\ claimed[q].code = d
            /\ inviteIndex[claimed[q].invite] = codeIndex[d] /\ codeIndex[d].owner = q
        BY <1>5, <3>2, <4>1 DEF DirInv, Paired
      <4>3. claimed[q].invite # h /\ claimed[q].invite \in Hashes
        BY <1>1, <3>1, <4>2, Unlike DEF Pair
      <4> QED
        BY <1>5, <4>1, <4>2, <4>3
    <3>3. ASSUME NEW g \in Hashes, inviteIndex'[g].owner = q
          PROVE  /\ claimed[q] # NoLocators /\ claimed[q].invite = g
                 /\ codeIndex'[claimed[q].code] = inviteIndex'[g]
      <4>1. g # h
        BY <1>1, <1>5, <2>2, <3>3, Unlike
      <4>2. /\ claimed[q] # NoLocators /\ claimed[q].invite = g
            /\ codeIndex[claimed[q].code] = inviteIndex[g] /\ inviteIndex[g].owner = q
        BY <1>5, <3>3, <4>1 DEF DirInv, Paired
      <4>3. claimed[q].code # c /\ claimed[q].code \in Codes
        BY <1>1, <3>1, <4>2, Unlike DEF Pair
      <4> QED
        BY <1>5, <4>1, <4>2, <4>3
    <3> QED
      BY <3>1, <3>2, <3>3
  <2> QED
    BY <2>1, <2>2
<1>7. Paired'
  BY <1>6 DEF Paired
<1>8. DocsFit'
  <2>1. ASSUME NEW q \in Rooms, Stored(q)'
        PROVE  /\ claimed'[q] # NoLocators /\ LocatorsOf(q)' = claimed'[q]
               /\ q \in active' /\ doc'[q].ttl >= 1
    <3>1. Stored(q) /\ doc' = doc /\ active' = active
      BY <1>1, <2>1 DEF Stored
    <3>2. q # r
      BY <1>1, <3>1 DEF DirInv, DocsFit
    <3> QED
      BY <1>5, <3>1, <3>2 DEF DirInv, DocsFit, LocatorsOf
  <2> QED
    BY <2>1 DEF DocsFit
<1> QED
  BY <1>4, <1>7, <1>8

(* Writing, refreshing and ageing of the documents.                        *)
LEMMA WriteFits ==
  ASSUME DirInv, NEW r \in Rooms, claimed[r] \in Pair, WriteRoom(r, claimed[r]),
         claimed' = claimed
  PROVE  /\ DocsFit' /\ doc' \in [Rooms -> Docs] /\ active' \subseteq Rooms
         /\ doc'[r] = RoomDoc(claimed[r])
         /\ \A q \in Rooms \ {r} : doc'[q] = doc[q]
<1>1. doc \in [Rooms -> Docs] /\ active \subseteq Rooms
  BY DEF DirInv, TypeOK
<1>2. /\ doc'[r] = RoomDoc(claimed[r]) /\ r \in active' /\ active' \subseteq Rooms
      /\ \A q \in Rooms \ {r} : doc'[q] = doc[q]
      /\ active \subseteq active' /\ doc' \in [Rooms -> Docs]
  BY <1>1, Unlike DEF WriteRoom
<1>3. ASSUME NEW q \in Rooms, Stored(q)'
      PROVE  /\ claimed'[q] # NoLocators /\ LocatorsOf(q)' = claimed'[q]
             /\ q \in active' /\ doc'[q].ttl >= 1
  <2>1. CASE q = r
    BY <1>2, <2>1, Unlike DEF LocatorsOf, RoomDoc, Pair
  <2>2. CASE q # r
    BY <1>2, <1>3, <2>2 DEF DirInv, DocsFit, Stored, LocatorsOf
  <2> QED
    BY <2>1, <2>2
<1> QED
  BY <1>2, <1>3 DEF DocsFit

LEMMA RefreshedFits ==
  ASSUME DirInv, NEW r \in Rooms, doc' = Refreshed(r), claimed' = claimed, active' = active
  PROVE  /\ DocsFit' /\ doc' \in [Rooms -> Docs]
         /\ \A q \in Rooms : /\ Stored(q)' <=> Stored(q)
                             /\ doc'[q].code = doc[q].code /\ doc'[q].invite = doc[q].invite
                             /\ doc'[q].ttl >= doc[q].ttl
                             /\ q = r /\ Stored(q) => doc'[q].ttl = RoomTtl
<1>1. doc \in [Rooms -> Docs]
  BY DEF DirInv, TypeOK
<1>2. /\ doc' \in [Rooms -> Docs]
      /\ \A q \in Rooms : /\ doc'[q].code = doc[q].code /\ doc'[q].invite = doc[q].invite
                          /\ doc'[q].ttl >= doc[q].ttl
                          /\ q # r => doc'[q] = doc[q]
                          /\ q = r /\ Stored(q) => doc'[q].ttl = RoomTtl
  BY <1>1, TtlAssumption DEF Refreshed, Docs
<1>3. \A q \in Rooms : Stored(q)' <=> Stored(q)
  <2>1. CASE Stored(r)
    <3>1. doc'[r].ttl = RoomTtl /\ NoDoc.ttl = 0 /\ RoomTtl # 0
      BY <1>2, <2>1, TtlAssumption DEF NoDoc
    <3>2. doc'[r] # NoDoc
      BY <3>1
    <3> QED
      BY <1>2, <2>1, <3>2 DEF Stored
  <2>2. CASE ~Stored(r)
    BY <2>2 DEF Refreshed, Stored
  <2> QED
    BY <2>1, <2>2
<1>4. ASSUME NEW q \in Rooms, Stored(q)'
      PROVE  /\ claimed'[q] # NoLocators /\ LocatorsOf(q)' = claimed'[q]
             /\ q \in active' /\ doc'[q].ttl >= 1
  <2>1. /\ claimed[q] # NoLocators /\ LocatorsOf(q) = claimed[q]
        /\ q \in active /\ doc[q].ttl >= 1
    BY <1>3, <1>4 DEF DirInv, DocsFit
  <2>2. doc'[q].ttl >= 1
    BY <1>1, <1>2, <2>1, TtlAssumption DEF Docs
  <2> QED
    BY <1>2, <2>1, <2>2 DEF LocatorsOf
<1> QED
  BY <1>2, <1>3, <1>4 DEF DocsFit

LEMMA AgeFits ==
  ASSUME DirInv, StepAge
  PROVE  Paired' /\ StoreTypes' /\ DocsFit'
<1>1. StoreTypes
  BY DEF DirInv, TypeOK, StoreTypes
<1>2. /\ \A c \in Codes : codeIndex'[c] = AgedKey(codeIndex[c])
      /\ \A h \in Hashes : inviteIndex'[h] = AgedKey(inviteIndex[h])
      /\ \A r \in Rooms : doc'[r] = AgedDoc(doc[r])
      /\ claimed' = claimed /\ active' = active
  BY DEF StepAge
<1>3. /\ \A c \in Codes : codeIndex[c] \in Keys
      /\ \A h \in Hashes : inviteIndex[h] \in Keys
      /\ \A r \in Rooms : doc[r] \in Docs
  BY <1>1 DEF StoreTypes
<1>4. StoreTypes'
  BY <1>1, <1>3, AgedTyped DEF StoreTypes, StepAge
<1>5. ASSUME NEW r \in Rooms
      PROVE  /\ claimed[r] \in Pair \cup {NoLocators}
             /\ \A c \in Codes : codeIndex'[c].owner = r =>
                  /\ claimed[r] # NoLocators /\ claimed[r].code = c
                  /\ inviteIndex'[claimed[r].invite] = codeIndex'[c]
             /\ \A h \in Hashes : inviteIndex'[h].owner = r =>
                  /\ claimed[r] # NoLocators /\ claimed[r].invite = h
                  /\ codeIndex'[claimed[r].code] = inviteIndex'[h]
  <2>1. claimed[r] \in Pair \cup {NoLocators}
    BY DEF DirInv, Paired
  <2>2. ASSUME NEW c \in Codes, codeIndex'[c].owner = r
        PROVE  /\ claimed[r] # NoLocators /\ claimed[r].code = c
               /\ inviteIndex'[claimed[r].invite] = codeIndex'[c]
    <3>1. codeIndex[c].owner = r
      BY <1>2, <1>3, <2>2, AgedTyped
    <3>2. /\ claimed[r] # NoLocators /\ claimed[r].code = c
          /\ inviteIndex[claimed[r].invite] = codeIndex[c]
      BY <3>1 DEF DirInv, Paired
    <3>3. claimed[r].invite \in Hashes
      BY <2>1, <3>2 DEF Pair
    <3> QED
      BY <1>2, <3>2, <3>3
  <2>3. ASSUME NEW h \in Hashes, inviteIndex'[h].owner = r
        PROVE  /\ claimed[r] # NoLocators /\ claimed[r].invite = h
               /\ codeIndex'[claimed[r].code] = inviteIndex'[h]
    <3>1. inviteIndex[h].owner = r
      BY <1>2, <1>3, <2>3, AgedTyped
    <3>2. /\ claimed[r] # NoLocators /\ claimed[r].invite = h
          /\ codeIndex[claimed[r].code] = inviteIndex[h]
      BY <3>1 DEF DirInv, Paired
    <3>3. claimed[r].code \in Codes
      BY <2>1, <3>2 DEF Pair
    <3> QED
      BY <1>2, <3>2, <3>3
  <2> QED
    BY <2>1, <2>2, <2>3
<1>6. Paired'
  BY <1>2, <1>5 DEF Paired
<1>7. ASSUME NEW r \in Rooms, Stored(r)'
      PROVE  /\ claimed'[r] # NoLocators /\ LocatorsOf(r)' = claimed'[r]
             /\ r \in active' /\ doc'[r].ttl >= 1
  <2>1. AgedDoc(doc[r]) # NoDoc /\ doc[r] \in Docs
    BY <1>2, <1>3, <1>7 DEF Stored
  <2>2. /\ doc[r] # NoDoc /\ doc[r].ttl > 1 /\ doc'[r].code = doc[r].code
        /\ doc'[r].invite = doc[r].invite /\ doc'[r].ttl = doc[r].ttl - 1
    BY <1>2, <2>1, AgedTyped
  <2>3. /\ claimed[r] # NoLocators /\ LocatorsOf(r) = claimed[r] /\ r \in active
    BY <2>2 DEF Stored, DirInv, DocsFit
  <2>4. doc'[r].ttl >= 1
    BY <2>1, <2>2, TtlAssumption DEF Docs
  <2> QED
    BY <1>2, <2>2, <2>3, <2>4 DEF LocatorsOf
<1> QED
  BY <1>4, <1>6, <1>7 DEF DocsFit

LEMMA SamePairs ==
  ASSUME DirInv, UNCHANGED <<index, claimed>>
  PROVE  /\ Paired' /\ codeIndex' \in [Codes -> Keys] /\ inviteIndex' \in [Hashes -> Keys]
         /\ claimed' \in [Rooms -> Locators]
BY DEF DirInv, Paired, index, TypeOK

LEMMA SameDocs ==
  ASSUME DirInv, UNCHANGED <<doc, active, claimed>>
  PROVE  DocsFit' /\ doc' \in [Rooms -> Docs] /\ active' \subseteq Rooms
BY DEF DirInv, DocsFit, Stored, LocatorsOf, TypeOK

(* Every step keeps what the rooms own in pairs, and the documents right.  *)
LEMMA StoreKept ==
  ASSUME DirInv, StoreStep
  PROVE  Paired' /\ StoreTypes' /\ DocsFit'
<1>1. ASSUME NEW s \in Slots, StepClaim(s)
      PROVE  Paired' /\ StoreTypes' /\ DocsFit'
  BY <1>1, ClaimPairs
<1>2. ASSUME NEW s \in Slots, StepWrite(s)
      PROVE  Paired' /\ StoreTypes' /\ DocsFit'
  <2>1. op[s].pc \in HoldsPlaces
    BY <1>2 DEF StepWrite, HoldsPlaces, CreatePlaces, UsePlaces
  <2>2. /\ op[s].room \in Rooms /\ op[s].at = claimed[op[s].room] /\ op[s].at \in Pair
    BY <2>1, HoldsItsLocators
  <2>3. WriteRoom(op[s].room, claimed[op[s].room]) /\ UNCHANGED <<index, claimed>>
    BY <1>2, <2>2 DEF StepWrite
  <2>4. claimed[op[s].room] \in Pair
    BY <2>2
  <2>5. DocsFit' /\ doc' \in [Rooms -> Docs] /\ active' \subseteq Rooms
    BY <2>2, <2>3, <2>4, WriteFits
  <2> QED
    BY <2>3, <2>5, SamePairs DEF StoreTypes
<1>3. ASSUME NEW s \in Slots, StepDrop(s) \/ StepRenew(s)
      PROVE  Paired' /\ StoreTypes' /\ DocsFit'
  <2> DEFINE r == op[s].room
  <2>1. op[s].pc \in HoldsPlaces
    BY <1>3 DEF StepDrop, StepRenew, HoldsPlaces, CreatePlaces, UsePlaces
  <2>2. r \in Rooms /\ op[s].at = claimed[r] /\ op[s].at \in Pair
    BY <2>1, HoldsItsLocators
  <2>3. claimed' = claimed /\ active' = active /\ claimed \in [Rooms -> Locators]
        /\ active \subseteq Rooms
    BY <1>3 DEF StepDrop, StepRenew, DirInv, TypeOK
  <2>4. DocsFit' /\ doc' \in [Rooms -> Docs]
    <3>1. CASE StepDrop(s)
      BY <3>1, SameDocs DEF StepDrop
    <3>2. CASE StepRenew(s)
      BY <2>2, <2>3, <3>2, RefreshedFits DEF StepRenew, RefreshLocators
    <3> QED
      BY <1>3, <3>1, <3>2
  <2>5. Paired' /\ codeIndex' \in [Codes -> Keys] /\ inviteIndex' \in [Hashes -> Keys]
    <3>1. CASE StepDrop(s) /\ OwnsBoth(r, claimed[r])
      BY <2>2, <2>3, <3>1, SetBoth DEF StepDrop, DropLocators
    <3>2. CASE StepDrop(s) /\ ~OwnsBoth(r, claimed[r])
      BY <2>2, <2>3, <3>2, SamePairs DEF StepDrop, DropLocators
    <3>3. CASE StepRenew(s)
      BY <2>2, <2>3, <3>3, SetBoth DEF StepRenew, RefreshLocators, SetLocators
    <3> QED
      BY <1>3, <3>1, <3>2, <3>3
  <2> QED
    BY <2>3, <2>4, <2>5 DEF StoreTypes
<1>4. ASSUME NEW r \in Rooms, StepKeep(r)
      PROVE  Paired' /\ StoreTypes' /\ DocsFit'
  <2>1. doc' = Refreshed(r) /\ UNCHANGED <<index, claimed>> /\ claimed' = claimed
        /\ active' = active /\ active \subseteq Rooms
    BY <1>4 DEF StepKeep, DirInv, TypeOK
  <2> QED
    BY <2>1, RefreshedFits, SamePairs DEF StoreTypes
<1>5. ASSUME NEW r \in Rooms, StepRevive(r)
      PROVE  Paired' /\ StoreTypes' /\ DocsFit'
  <2>1. claimed[r] \in Pair /\ LocatorsOf(r) = claimed[r]
        /\ doc[r].code = claimed[r].code /\ doc[r].invite = claimed[r].invite
    BY <1>5 DEF StepRevive, DirInv, DocsFit, Paired, LocatorsOf
  <2>2. claimed' = claimed /\ WriteRoom(r, claimed[r]) /\ claimed \in [Rooms -> Locators]
    BY <1>5, <2>1 DEF StepRevive, DirInv, TypeOK
  <2>3. DocsFit' /\ doc' \in [Rooms -> Docs] /\ active' \subseteq Rooms
    BY <2>1, <2>2, WriteFits
  <2>4. Paired' /\ codeIndex' \in [Codes -> Keys] /\ inviteIndex' \in [Hashes -> Keys]
    <3>1. CASE UNCHANGED index
      BY <2>2, <3>1, SamePairs
    <3>2. CASE OwnsBoth(r, LocatorsOf(r)) /\ SetLocators(r, doc[r].code, doc[r].invite)
      BY <2>1, <2>2, <3>2, SetBoth DEF SetLocators
    <3> QED
      BY <1>5, <3>1, <3>2 DEF StepRevive
  <2> QED
    BY <2>2, <2>3, <2>4 DEF StoreTypes
<1>6. CASE StepAge
  BY <1>6, AgeFits
<1>7. CASE UNCHANGED <<index, doc, active, claimed>>
  BY <1>7, SamePairs, SameDocs DEF StoreTypes
<1> QED
  BY <1>1, <1>2, <1>3, <1>4, <1>5, <1>6, <1>7 DEF StoreStep

(* Only a claim changes what is claimed, and the handler leaves its place. *)
LEMMA ClaimChanges ==
  ASSUME TypeOK, [Next]_vars, claimed' # claimed
  PROVE  \E s \in Slots : StepClaim(s) /\ OthersStay(s) /\ op'[s].pc \in {"mark", "idle"}
<1>1. PICK s \in Slots : Claim(s) \/ Fail(s)
  BY DEF Next, vars, ghosts, BeginCreate, Mark, SaveNewRoom, FinishCreate, Release, BeginUse,
         Swap, Touch, Refresh, WriteInRoom, RecoverRoom, Restart, RecoveryFails, RecoveryEnds,
         Tick
<1>2. op \in [Slots -> Handlers]
  BY DEF TypeOK
<1>3. CASE Claim(s)
  <2>1. PICK c \in Codes :
          \E i \in Drawn :
            LET r == op[s].room
                h == <<i, pepper>>
            IN IF ClaimConflict(r, c, h) = "none"
               THEN /\ SetLocators(r, c, h)
                    /\ Claims(s, c, h)
                    /\ op' = [op EXCEPT ![s].pc = "mark",
                                        ![s].at = [code |-> c, invite |-> h]]
               ELSE UNCHANGED claimed
    BY <1>3 DEF Claim
  <2>2. PICK i \in Drawn :
          LET r == op[s].room
              h == <<i, pepper>>
          IN /\ ClaimConflict(r, c, h) = "none"
             /\ SetLocators(r, c, h)
             /\ Claims(s, c, h)
             /\ op' = [op EXCEPT ![s].pc = "mark",
                                 ![s].at = [code |-> c, invite |-> h]]
    BY <2>1
  <2>3. op[s].pc = "claim" /\ UNCHANGED <<doc, active>>
    BY <1>3 DEF Claim, At
  <2>4. StepClaim(s)
    BY <2>2, <2>3 DEF StepClaim
  <2>5. op[s] \in [pc : CreatePlaces \cup UsePlaces, room : Rooms, at : Locators,
                   tries : 0..MaxAttempts - 1, age : 0..RequestTicks, moves : BOOLEAN]
    BY <2>3, OpTyped
  <2>6. op'[s].pc = "mark" /\ OthersStay(s)
    BY <1>2, <2>2, <2>5 DEF OthersStay
  <2> QED
    BY <2>4, <2>6
<1>4. CASE Fail(s)
  <2>1. op[s].pc = "claim" /\ StepClaim(s)
    BY <1>4 DEF Fail, Effect, At, StepClaim
  <2>2. Done(s)
    BY <1>4, <2>1 DEF Fail, AfterFailure, At
  <2>3. op'[s].pc = "idle" /\ OthersStay(s)
    BY <1>2, <2>2 DEF Done, Idle, OthersStay
  <2> QED
    BY <2>1, <2>3
<1> QED
  BY <1>1, <1>3, <1>4

(* A room that has claimed its locators keeps them.                        *)
LEMMA ClaimedOnce ==
  ASSUME DirInv, [Next]_vars, NEW r \in Rooms, claimed[r] # NoLocators
  PROVE  claimed'[r] = claimed[r]
<1>1. CASE claimed' = claimed
  BY <1>1
<1>2. CASE claimed' # claimed
  <2>1. PICK s \in Slots : StepClaim(s)
    BY <1>2, ClaimChanges DEF DirInv
  <2>2. PICK l : claimed' = [claimed EXCEPT ![op[s].room] = l] /\ claimed[op[s].room] = NoLocators
    BY <2>1, ClaimTakes
  <2> QED
    BY <2>2 DEF DirInv, TypeOK
<1> QED
  BY <1>1, <1>2

LEMMA OpIsFunction ==
  ASSUME TypeOK, [Next]_vars
  PROVE  op' = [t \in Slots |-> op'[t]]
<1>1. op = [t \in Slots |-> op[t]]
  BY DEF TypeOK
<1>2. ASSUME NEW s \in Slots, Done(s) \/ \E place : Goto(s, place)
      PROVE  op' = [t \in Slots |-> op'[t]]
  BY <1>1, <1>2 DEF Done, Goto
<1>3. ASSUME NEW s \in Slots, BeginCreate(s) \/ BeginUse(s)
      PROVE  op' = [t \in Slots |-> op'[t]]
  BY <1>1, <1>3 DEF BeginCreate, BeginUse
<1>4. ASSUME NEW s \in Slots, Claim(s)
      PROVE  op' = [t \in Slots |-> op'[t]]
  BY <1>1, <1>2, <1>4 DEF Claim
<1>5. ASSUME NEW s \in Slots,
             \/ Mark(s) \/ SaveNewRoom(s) \/ FinishCreate(s) \/ Release(s)
             \/ Swap(s) \/ Touch(s) \/ Refresh(s) \/ Fail(s)
      PROVE  op' = [t \in Slots |-> op'[t]]
  BY <1>2, <1>5 DEF Mark, SaveNewRoom, FinishCreate, Release, Swap, Touch, Refresh, Fail,
                    AfterFailure
<1>6. CASE Tick \/ Restart
  BY <1>6 DEF Tick, Restart
<1>7. CASE \/ \E r \in Rooms : WriteInRoom(r) \/ RecoverRoom(r)
           \/ RecoveryFails \/ RecoveryEnds \/ UNCHANGED vars
  BY <1>1, <1>7 DEF WriteInRoom, RecoverRoom, RecoveryFails, RecoveryEnds, vars
<1> QED
  BY <1>3, <1>4, <1>5, <1>6, <1>7 DEF Next

(* The handlers stay typed.                                                *)
LEMMA OpKept ==
  ASSUME TypeOK, [Next]_vars
  PROVE  op' \in [Slots -> Handlers]
<1>1. OpStep /\ op \in [Slots -> Handlers]
  BY OpSteps DEF TypeOK
<1>2. ASSUME NEW t \in Slots
      PROVE  op'[t] \in Handlers
  <2>1. CASE \E s \in Slots : OthersStay(s) /\ op'[s] \in Handlers
    BY <1>1, <2>1 DEF OthersStay
  <2>2. CASE StepAge
    <3>1. CASE op'[t] = Idle
      BY <3>1 DEF Handlers
    <3>2. CASE /\ op[t].pc # "idle" /\ op[t].age < RequestTicks
               /\ op'[t] = [op[t] EXCEPT !.age = @ + 1]
      <4>1. op[t] \in [pc : CreatePlaces \cup UsePlaces, room : Rooms, at : Locators,
                       tries : 0..MaxAttempts - 1, age : 0..RequestTicks, moves : BOOLEAN]
        BY <3>2, OpTyped
      <4>2. op[t].age + 1 \in 0..RequestTicks
        BY <3>2, <4>1, TtlAssumption
      <4>3. op'[t] \in [pc : CreatePlaces \cup UsePlaces, room : Rooms, at : Locators,
                       tries : 0..MaxAttempts - 1, age : 0..RequestTicks, moves : BOOLEAN]
        BY <3>2, <4>1, <4>2
      <4> QED
        BY <4>3 DEF Handlers
    <3> QED
      BY <2>2, <3>1, <3>2 DEF StepAge, Ages
  <2>3. CASE op' = op
    BY <1>1, <2>3
  <2>4. CASE op'[t] = Idle
    BY <2>4 DEF Handlers
  <2> QED
    BY <1>1, <2>1, <2>2, <2>3, <2>4 DEF OpStep
<1> QED
  BY <1>2, OpIsFunction

(* The rest of the types.                                                  *)
LEMMA RestTyped ==
  ASSUME TypeOK, [Next]_vars, active' \subseteq Rooms
  PROVE  /\ {moving', stranded', todo', opened', wrecked'} \subseteq SUBSET Rooms
         /\ pepper' \in Versions /\ mode' \in {"up", "recovering"} /\ broke' \in BOOLEAN
         /\ mishaps' \in Nat /\ moving' \subseteq Rooms /\ stranded' \subseteq Rooms
         /\ inUse' \in [Rooms -> 0..RoomTtl]
<1>1. /\ {active, moving, stranded, todo, opened, wrecked} \subseteq SUBSET Rooms
      /\ pepper \in Versions /\ mode \in {"up", "recovering"} /\ broke \in BOOLEAN
      /\ mishaps \in Nat /\ inUse \in [Rooms -> 0..RoomTtl]
  BY DEF TypeOK
<1>2. RoomTtl \in Nat /\ RequestTicks \in Nat /\ RequestTicks <= RoomTtl
  BY TtlAssumption
<1>3. \A r \in Rooms : Kept(r) \in [Rooms -> 0..RoomTtl]
  BY <1>1, <1>2 DEF Kept
<1>4. ASSUME NEW s \in Slots, op[s].pc # "idle"
      PROVE  op[s].room \in Rooms /\ op[s].age \in 0..RequestTicks
  BY <1>4, OpTyped
<1>5. ASSUME NEW s \in Slots,
             \/ BeginCreate(s) \/ BeginUse(s) \/ Claim(s) \/ Mark(s) \/ SaveNewRoom(s)
             \/ Release(s) \/ Touch(s)
      PROVE  /\ {moving', stranded', todo', opened', wrecked'} \subseteq SUBSET Rooms
             /\ pepper' \in Versions /\ mode' \in {"up", "recovering"} /\ broke' \in BOOLEAN
             /\ mishaps' \in Nat /\ inUse' \in [Rooms -> 0..RoomTtl]
  BY <1>1, <1>5 DEF BeginCreate, BeginUse, Claim, Mark, SaveNewRoom, Release, Touch,
                    matches, boot, ghosts, NoteOpened
<1>6. ASSUME NEW s \in Slots, FinishCreate(s)
      PROVE  /\ {moving', stranded', todo', opened', wrecked'} \subseteq SUBSET Rooms
             /\ pepper' \in Versions /\ mode' \in {"up", "recovering"} /\ broke' \in BOOLEAN
             /\ mishaps' \in Nat /\ inUse' \in [Rooms -> 0..RoomTtl]
  <2>1. op[s].age \in 0..RequestTicks
    BY <1>4, <1>6 DEF FinishCreate, At
  <2>2. RoomTtl - op[s].age \in 0..RoomTtl
    BY <1>2, <2>1
  <2>3. inUse' \in [Rooms -> 0..RoomTtl]
    BY <1>1, <1>6, <2>2 DEF FinishCreate
  <2> QED
    BY <1>1, <1>6, <2>3 DEF FinishCreate, matches, boot
<1>7. ASSUME NEW s \in Slots, Swap(s)
      PROVE  /\ {moving', stranded', todo', opened', wrecked'} \subseteq SUBSET Rooms
             /\ pepper' \in Versions /\ mode' \in {"up", "recovering"} /\ broke' \in BOOLEAN
             /\ mishaps' \in Nat /\ inUse' \in [Rooms -> 0..RoomTtl]
  BY <1>1, <1>4, <1>7 DEF Swap, At, MovePhase, matches, boot, ghosts
<1>8. ASSUME NEW s \in Slots, Refresh(s)
      PROVE  /\ {moving', stranded', todo', opened', wrecked'} \subseteq SUBSET Rooms
             /\ pepper' \in Versions /\ mode' \in {"up", "recovering"} /\ broke' \in BOOLEAN
             /\ mishaps' \in Nat /\ inUse' \in [Rooms -> 0..RoomTtl]
  BY <1>1, <1>3, <1>4, <1>8 DEF Refresh, At, matches, boot
<1>9. ASSUME NEW s \in Slots, Fail(s)
      PROVE  /\ {moving', stranded', todo', opened', wrecked'} \subseteq SUBSET Rooms
             /\ pepper' \in Versions /\ mode' \in {"up", "recovering"} /\ broke' \in BOOLEAN
             /\ mishaps' \in Nat /\ inUse' \in [Rooms -> 0..RoomTtl]
  <2>1. op[s].room \in Rooms
    BY <1>4, <1>9 DEF Fail, At
  <2>2. moving' \subseteq Rooms /\ stranded' \subseteq Rooms
    BY <1>1, <1>9, <2>1 DEF Fail, Effect, MovePhase, matches
  <2> QED
    BY <1>1, <1>9, <2>1, <2>2 DEF Fail, boot, NoteOpened
<1>10. ASSUME NEW r \in Rooms, WriteInRoom(r) \/ RecoverRoom(r)
       PROVE  /\ {moving', stranded', todo', opened', wrecked'} \subseteq SUBSET Rooms
              /\ pepper' \in Versions /\ mode' \in {"up", "recovering"} /\ broke' \in BOOLEAN
              /\ mishaps' \in Nat /\ inUse' \in [Rooms -> 0..RoomTtl]
  BY <1>1, <1>3, <1>10 DEF WriteInRoom, RecoverRoom, PassOver, matches, boot, ghosts
<1>11. CASE Restart
  <2>1. Wrecks({"mark", "saveRoom", "release"}) \subseteq Rooms
    BY <1>4 DEF Wrecks
  <2>2. /\ inUse' = inUse /\ moving' = moving /\ opened' = opened
        /\ stranded' = stranded \cup moving /\ todo' = active
        /\ wrecked' = wrecked \cup Wrecks({"mark", "saveRoom", "release"})
    BY <1>11 DEF Restart
  <2>3. {moving', stranded', todo', opened', wrecked'} \subseteq SUBSET Rooms
    BY <1>1, <2>1, <2>2
  <2>4. pepper' \in Versions /\ mode' \in {"up", "recovering"} /\ mishaps' \in Nat
    BY <1>1, <1>11 DEF Restart
  <2>5. broke' = FALSE
    BY <1>11 DEF Restart
  <2>6. /\ pepper' \in Versions /\ mode' \in {"up", "recovering"} /\ broke' \in BOOLEAN
        /\ mishaps' \in Nat
    BY <2>4, <2>5
  <2>7. inUse' \in [Rooms -> 0..RoomTtl]
    BY <1>1, <2>2
  <2>8. moving' \subseteq Rooms /\ stranded' \subseteq Rooms
    BY <2>3
  <2> QED
    BY <2>3, <2>6, <2>7, <2>8
<1>12. CASE RecoveryFails \/ RecoveryEnds \/ UNCHANGED vars
  BY <1>1, <1>12 DEF RecoveryFails, RecoveryEnds, vars, matches, boot, ghosts
<1>13. CASE Tick
  <2>1. inUse' = [r \in Rooms |-> Less(inUse[r])]
    BY <1>13 DEF Tick
  <2>2. ASSUME NEW r \in Rooms
        PROVE  Less(inUse[r]) \in 0..RoomTtl
    BY <1>1, <1>2 DEF Less
  <2>3. inUse' \in [Rooms -> 0..RoomTtl]
    BY <2>1, <2>2
  <2> QED
    BY <1>1, <1>13, <2>3 DEF Tick, matches, boot
<1> QED
  BY <1>5, <1>6, <1>7, <1>8, <1>9, <1>10, <1>11, <1>12, <1>13 DEF Next

(* A handler that goes on leaves the others theirs.                        *)
LEMMA ClaimsKept ==
  ASSUME DirInv, [Next]_vars
  PROVE  ClaimsFit'
<1>1. /\ OpStep /\ TypeOK
      /\ \A s \in Slots : op[s].pc = "claim" => claimed[op[s].room] = NoLocators
      /\ \A s, t \in Slots :
           s # t /\ op[s].pc \in CreatePlaces /\ op[t].pc \in CreatePlaces =>
             op[s].room # op[t].room
      /\ \A s \in Slots : op[s].pc \in HoldsPlaces =>
           op[s].at = claimed[op[s].room] /\ op[s].at # NoLocators
  BY OpSteps DEF DirInv, ClaimsFit
<1>2. "idle" \notin CreatePlaces /\ "idle" \notin HoldsPlaces /\ Idle.pc = "idle"
      /\ "claim" \notin HoldsPlaces /\ "claim" \in CreatePlaces
      /\ UsePlaces \cap CreatePlaces = {}
  BY DEF CreatePlaces, HoldsPlaces, UsePlaces, Idle
<1>3. \A s \in Slots : op[s].pc # "idle" => op[s].room \in Rooms
  BY <1>1, OpTyped
<1>4. \A r \in Rooms : claimed[r] # NoLocators => claimed'[r] = claimed[r]
  BY ClaimedOnce
<1>11. ASSUME NEW t \in Slots, op'[t].pc # "idle"
       PROVE  op'[t].room \in Rooms
  <2>1. op'[t] \in Handlers /\ op'[t] # Idle
    BY <1>1, <1>2, <1>11, OpKept
  <2> QED
    BY <2>1 DEF Handlers
<1>12. \A a, b : <<a, b>> \in Ways => a \in HoldsPlaces /\ b \in HoldsPlaces
                  /\ (b \in CreatePlaces => a \in CreatePlaces)
  BY DEF Ways, HoldsPlaces, CreatePlaces, UsePlaces
(* where a handler in a place came from *)
<1>5. ASSUME NEW t \in Slots, op'[t].pc = "claim"
      PROVE  /\ op'[t].room \in Rooms
             /\ \/ op[t].pc = "claim" /\ op'[t].room = op[t].room
                \/ Creates(t)
  <2>1. op'[t].room \in Rooms
    BY <1>5, <1>11
  <2>2. ASSUME NEW s \in Slots, OthersStay(s), op'[s] = Idle \/ Creates(s) \/ Finds(s) \/ Goes(s)
        PROVE  \/ op[t].pc = "claim" /\ op'[t].room = op[t].room
               \/ Creates(t)
    <3>1. CASE t # s
      BY <1>5, <2>2, <3>1 DEF OthersStay
    <3>2. CASE t = s
      BY <1>2, <1>5, <1>12, <2>2, <3>2 DEF Finds, Goes, SameRoom
    <3> QED
      BY <3>1, <3>2
  <2>3. CASE StepAge
    <3>1. op[t].pc # "idle" /\ op'[t] = [op[t] EXCEPT !.age = @ + 1]
      BY <1>2, <1>5, <2>3 DEF StepAge, Ages
    <3>2. op'[t].pc = op[t].pc /\ op'[t].room = op[t].room
      BY <1>1, <3>1, OpTyped
    <3> QED
      BY <1>5, <2>1, <3>2
  <2>4. CASE op' = op
    BY <1>5, <2>1, <2>4
  <2> QED
    BY <1>1, <1>2, <1>5, <2>1, <2>2, <2>3, <2>4 DEF OpStep
<1>6. ASSUME NEW t \in Slots, op'[t].pc \in CreatePlaces
      PROVE  \/ op[t].pc \in CreatePlaces /\ op'[t].room = op[t].room
             \/ Creates(t) /\ OthersStay(t)
  <2>1. ASSUME NEW s \in Slots, OthersStay(s), op'[s] = Idle \/ Creates(s) \/ Finds(s) \/ Goes(s)
        PROVE  \/ op[t].pc \in CreatePlaces /\ op'[t].room = op[t].room
               \/ Creates(t) /\ OthersStay(t)
    <3>1. CASE t # s
      BY <1>6, <2>1, <3>1 DEF OthersStay
    <3>2. CASE t = s
      BY <1>2, <1>6, <2>1, <3>2 DEF Finds, Goes, SameRoom, Ways, CreatePlaces
    <3> QED
      BY <3>1, <3>2
  <2>2. CASE StepAge
    <3>1. op[t].pc # "idle" /\ op'[t] = [op[t] EXCEPT !.age = @ + 1]
      BY <1>2, <1>6, <2>2 DEF StepAge, Ages
    <3>2. op'[t].pc = op[t].pc /\ op'[t].room = op[t].room
      BY <1>1, <3>1, OpTyped
    <3> QED
      BY <1>6, <3>2
  <2>3. CASE op' = op
    BY <1>6, <2>3
  <2> QED
    BY <1>1, <1>2, <1>6, <2>1, <2>2, <2>3 DEF OpStep
<1>7. ASSUME NEW t \in Slots, op'[t].pc \in HoldsPlaces
      PROVE  \/ /\ op[t].pc \in HoldsPlaces /\ op'[t].room = op[t].room
                /\ op'[t].at = op[t].at
             \/ Finds(t)
             \/ /\ op'[t].room = op[t].room /\ StepClaim(t)
                /\ op'[t].at = claimed'[op[t].room]
  <2>1. ASSUME NEW s \in Slots, OthersStay(s), op'[s] = Idle \/ Creates(s) \/ Finds(s) \/ Goes(s)
        PROVE  \/ /\ op[t].pc \in HoldsPlaces /\ op'[t].room = op[t].room
                  /\ op'[t].at = op[t].at
               \/ Finds(t)
               \/ /\ op'[t].room = op[t].room /\ StepClaim(t)
                  /\ op'[t].at = claimed'[op[t].room]
    <3>1. CASE t # s
      BY <1>7, <2>1, <3>1 DEF OthersStay
    <3>2. CASE t = s
      BY <1>2, <1>7, <2>1, <3>2 DEF Creates, Goes, SameRoom, Ways, HoldsPlaces, CreatePlaces,
                                    UsePlaces
    <3> QED
      BY <3>1, <3>2
  <2>2. CASE StepAge
    <3>1. op[t].pc # "idle" /\ op'[t] = [op[t] EXCEPT !.age = @ + 1]
      BY <1>2, <1>7, <2>2 DEF StepAge, Ages
    <3>2. op'[t].pc = op[t].pc /\ op'[t].room = op[t].room /\ op'[t].at = op[t].at
      BY <1>1, <3>1, OpTyped
    <3> QED
      BY <1>7, <3>2
  <2>3. CASE op' = op
    BY <1>7, <2>3
  <2> QED
    BY <1>1, <1>2, <1>7, <2>1, <2>2, <2>3 DEF OpStep
(* the three parts of ClaimsFit *)
<1>8. ASSUME NEW t \in Slots, op'[t].pc = "claim"
      PROVE  claimed'[op'[t].room] = NoLocators
  <2>1. claimed[op'[t].room] = NoLocators
    BY <1>1, <1>5, <1>8 DEF Creates, Known
  <2>2. CASE claimed' = claimed
    BY <2>1, <2>2
  <2>3. CASE claimed' # claimed
    <3>1. PICK s \in Slots : StepClaim(s) /\ OthersStay(s) /\ op'[s].pc \in {"mark", "idle"}
      BY <1>1, <2>3, ClaimChanges
    <3>2. t # s /\ op'[t] = op[t] /\ op[s].pc = "claim" /\ op[t].pc = "claim"
      BY <1>8, <3>1 DEF OthersStay, StepClaim
    <3>3. op[t].room # op[s].room /\ op[t].room \in Rooms
      BY <1>1, <1>2, <1>3, <3>2
    <3>4. PICK l : claimed' = [claimed EXCEPT ![op[s].room] = l]
      BY <3>1, ClaimTakes
    <3> QED
      BY <1>1, <2>1, <3>2, <3>3, <3>4 DEF TypeOK
  <2> QED
    BY <2>2, <2>3
<1>9. ASSUME NEW s \in Slots, NEW t \in Slots, s # t,
             op'[s].pc \in CreatePlaces, op'[t].pc \in CreatePlaces
      PROVE  op'[s].room # op'[t].room
  <2>1. CASE Creates(s) /\ OthersStay(s)
    BY <1>2, <1>9, <2>1 DEF Creates, OthersStay, Known, At
  <2>2. CASE Creates(t) /\ OthersStay(t)
    BY <1>2, <1>9, <2>2 DEF Creates, OthersStay, Known, At
  <2>3. CASE /\ op[s].pc \in CreatePlaces /\ op'[s].room = op[s].room
             /\ op[t].pc \in CreatePlaces /\ op'[t].room = op[t].room
    BY <1>1, <1>9, <2>3
  <2> QED
    BY <1>6, <1>9, <2>1, <2>2, <2>3
<1>10. ASSUME NEW t \in Slots, op'[t].pc \in HoldsPlaces
       PROVE  op'[t].at = claimed'[op'[t].room] /\ op'[t].at # NoLocators
  <2>1. CASE /\ op[t].pc \in HoldsPlaces /\ op'[t].room = op[t].room
             /\ op'[t].at = op[t].at
    <3>1. op[t].at = claimed[op[t].room] /\ op[t].at # NoLocators /\ op[t].room \in Rooms
      BY <1>1, <1>2, <1>3, <2>1
    <3> QED
      BY <1>4, <2>1, <3>1
  <2>2. CASE Finds(t)
    <3>1. op'[t].room \in Rooms /\ Stored(op'[t].room) /\ claimed' = claimed
          /\ op'[t].at = LocatorsOf(op'[t].room)
      BY <1>2, <1>10, <1>11, <2>2 DEF Finds, ghosts
    <3> QED
      BY <3>1 DEF DirInv, DocsFit
  <2>3. CASE /\ op'[t].room = op[t].room /\ StepClaim(t)
             /\ op'[t].at = claimed'[op[t].room]
    <3>4. StepClaim(t)
      BY <2>3
    <3>1. PICK c \in Codes, h \in Hashes :
            /\ op[t].room \in Rooms
            /\ claimed' = [claimed EXCEPT ![op[t].room] = [code |-> c, invite |-> h]]
      BY <3>4, ClaimTakes
    <3>2. claimed'[op[t].room] = [code |-> c, invite |-> h]
      BY <1>1, <3>1 DEF TypeOK
    <3>3. [code |-> c, invite |-> h] # NoLocators
      BY Unlike DEF Pair
    <3> QED
      BY <2>3, <3>2, <3>3
  <2> QED
    BY <1>7, <1>10, <2>1, <2>2, <2>3
<1> QED
  BY <1>8, <1>9, <1>10 DEF ClaimsFit

LEMMA DirInvInit ==
  ASSUME Init
  PROVE  DirInv
<1>1. TypeOK
  <2>1. \A c \in Codes : codeIndex[c] = Free
    BY DEF Init
  <2>2. Free \in Keys /\ NoDoc \in Docs /\ NoLocators \in Locators /\ RoomTtl \in Nat
    BY Unlike
  <2>3. Idle \in Handlers
    BY DEF Handlers
  <2>4. /\ codeIndex \in [Codes -> Keys] /\ inviteIndex \in [Hashes -> Keys]
        /\ doc \in [Rooms -> Docs] /\ op \in [Slots -> Handlers]
        /\ claimed \in [Rooms -> Locators] /\ inUse \in [Rooms -> 0..RoomTtl]
    BY <2>2, <2>3 DEF Init
  <2>5. /\ {active, moving, stranded, todo, opened, wrecked} \subseteq SUBSET Rooms
        /\ pepper \in Versions /\ mode \in {"up", "recovering"} /\ broke \in BOOLEAN
        /\ mishaps \in Nat
    BY DEF Init
  <2> QED
    BY <2>4, <2>5 DEF TypeOK
<1>2. ClaimsFit
  BY DEF Init, ClaimsFit, Idle, CreatePlaces, HoldsPlaces, UsePlaces
<1>3. Paired
  BY Unlike DEF Init, Paired
<1>4. DocsFit
  BY DEF Init, DocsFit, Stored
<1> QED
  BY <1>1, <1>2, <1>3, <1>4 DEF DirInv

LEMMA DirInvStep ==
  ASSUME DirInv, [Next]_vars
  PROVE  DirInv'
<1>1. TypeOK /\ StoreStep
  BY StoreSteps DEF DirInv
<1>2. Paired' /\ StoreTypes' /\ DocsFit'
  BY <1>1, StoreKept
<1>3. ClaimsFit'
  BY ClaimsKept
<1>4. op' \in [Slots -> Handlers]
  BY <1>1, OpKept
<1>5. active' \subseteq Rooms
  BY <1>2 DEF StoreTypes
<1>6. /\ {moving', stranded', todo', opened', wrecked'} \subseteq SUBSET Rooms
      /\ pepper' \in Versions /\ mode' \in {"up", "recovering"} /\ broke' \in BOOLEAN
      /\ mishaps' \in Nat
      /\ inUse' \in [Rooms -> 0..RoomTtl]
  BY <1>1, <1>5, RestTyped
<1>7. TypeOK'
  BY <1>2, <1>4, <1>5, <1>6 DEF TypeOK, StoreTypes
<1> QED
  BY <1>2, <1>3, <1>7 DEF DirInv

(* Every reachable state satisfies the invariant of the locators.          *)
THEOREM DirInvHolds == Spec => []DirInv
<1>1. Init => DirInv
  BY DirInvInit
<1>2. DirInv /\ [Next]_vars => DirInv'
  BY DirInvStep
<1> QED
  BY <1>1, <1>2, PTL DEF Spec

(* Every variable of the directory keeps its type.                         *)
THEOREM TypeCorrect == Spec => []TypeOK
<1>1. DirInv => TypeOK
  BY DEF DirInv
<1> QED
  BY <1>1, DirInvHolds, PTL

(* Whatever handlers interleave, whichever calls fail before or after they *)
(* took effect, and whenever the process is started again: a room owns its *)
(* code exactly as long as its invite.                                     *)
THEOREM LocatorsStayPaired == Spec => []LocatorsInPairs
<1>1. DirInv => LocatorsInPairs
  <2> SUFFICES ASSUME DirInv, NEW r \in Rooms
               PROVE  /\ \A c \in Codes : codeIndex[c].owner = r =>
                          \E h \in Hashes : inviteIndex[h] = codeIndex[c]
                      /\ \A h \in Hashes : inviteIndex[h].owner = r =>
                          \E c \in Codes : codeIndex[c] = inviteIndex[h]
    BY DEF LocatorsInPairs
  <2>1. claimed[r] # NoLocators => claimed[r].code \in Codes /\ claimed[r].invite \in Hashes
    BY DEF DirInv, Paired, Pair
  <2> QED
    BY <2>1 DEF DirInv, Paired
<1> QED
  BY <1>1, DirInvHolds, PTL

(* Whoever types a code or follows an invite gets the room that bears it,  *)
(* however many rooms had it before, and whichever pepper is active.       *)
THEOREM LocatorsLeadHome == Spec => []LocatorLeadsHome
<1>1. DirInv => LocatorLeadsHome
  <2> SUFFICES ASSUME DirInv
               PROVE  LocatorLeadsHome
    OBVIOUS
  <2>1. ASSUME NEW c \in Codes, FoundByCode(c) # None
        PROVE  doc[FoundByCode(c)].code = c
    <3>1. /\ FoundByCode(c) = codeIndex[c].owner /\ codeIndex[c].owner # None
          /\ Stored(codeIndex[c].owner)
      BY <2>1 DEF FoundByCode
    <3>2. codeIndex[c].owner \in Rooms \cup {None}
      BY DEF DirInv, TypeOK, Keys
    <3> DEFINE r == codeIndex[c].owner
    <3>3. r \in Rooms
      BY <3>1, <3>2
    <3>4. claimed[r].code = c /\ claimed[r] = LocatorsOf(r)
      BY <3>1, <3>3 DEF DirInv, Paired, DocsFit
    <3> QED
      BY <3>1, <3>4 DEF LocatorsOf
  <2>2. ASSUME NEW i \in InviteIds, NEW r \in FoundByInvite(i)
        PROVE  doc[r].invite[1] = i
    <3>1. PICK v \in Versions : r = inviteIndex[<<i, v>>].owner /\ r # None /\ Stored(r)
      BY <2>2 DEF FoundByInvite
    <3>2. <<i, v>> \in Hashes
      BY DEF Hashes
    <3>3. r \in Rooms
      BY <3>1, <3>2 DEF DirInv, TypeOK, Keys
    <3>4. claimed[r].invite = <<i, v>> /\ claimed[r] = LocatorsOf(r)
      BY <3>1, <3>2, <3>3 DEF DirInv, Paired, DocsFit
    <3>5. doc[r].invite = <<i, v>>
      BY <3>4 DEF LocatorsOf
    <3> QED
      BY <3>5
  <2> QED
    BY <2>1, <2>2 DEF LocatorLeadsHome
<1> QED
  BY <1>1, DirInvHolds, PTL

-----------------------------------------------------------------------------
(* What a step does to one room: to its locators and its document.         *)

Owns(r) == claimed[r] # NoLocators /\ codeIndex[claimed[r].code].owner = r
TtlOf(r) == codeIndex[claimed[r].code].ttl

SameLocators(r) ==
  /\ claimed'[r] = claimed[r]
  /\ Owns(r)' <=> Owns(r)
  /\ Owns(r) => TtlOf(r)' = TtlOf(r)

RoomClaims(r) ==
  /\ claimed[r] = NoLocators /\ Owns(r)' /\ TtlOf(r)' = RoomTtl
  /\ doc'[r] = doc[r]
  /\ \E s \in Slots : StepClaim(s) /\ op[s].room = r

RoomStays(r) ==
  /\ SameLocators(r)
  /\ Stored(r)' <=> Stored(r)
  /\ doc'[r].ttl \in {doc[r].ttl, RoomTtl}

RoomIsWritten(r) ==
  /\ SameLocators(r)
  /\ Stored(r)' /\ doc'[r].ttl = RoomTtl
  /\ Stored(r) \/ \E s \in Slots : StepWrite(s) /\ op[s].room = r

RoomDrops(r) ==
  /\ claimed'[r] = claimed[r] /\ ~Owns(r)' /\ doc'[r] = doc[r]
  /\ \E s \in Slots : StepDrop(s) /\ op[s].room = r

RoomRenews(r) ==
  /\ claimed'[r] = claimed[r] /\ Owns(r) /\ Owns(r)' /\ TtlOf(r)' = RoomTtl
  /\ Stored(r)' <=> Stored(r)
  /\ Stored(r) => doc'[r].ttl = RoomTtl

RoomAges(r) ==
  /\ StepAge
  /\ claimed'[r] = claimed[r]
  /\ Owns(r)' <=> Owns(r) /\ TtlOf(r) > 1
  /\ Owns(r)' => TtlOf(r)' = TtlOf(r) - 1
  /\ Stored(r)' <=> Stored(r) /\ doc[r].ttl > 1
  /\ Stored(r)' => doc'[r].ttl = doc[r].ttl - 1

RoomStep(r) ==
  \/ RoomClaims(r) \/ RoomStays(r) \/ RoomIsWritten(r) \/ RoomDrops(r) \/ RoomRenews(r)
  \/ RoomAges(r)

(* The locators a room claimed are keys of the index.                      *)
LEMMA ClaimedTyped ==
  ASSUME DirInv, NEW r \in Rooms, claimed[r] # NoLocators
  PROVE  claimed[r].code \in Codes /\ claimed[r].invite \in Hashes
BY DEF DirInv, Paired, Pair

LEMMA UntouchedRoom ==
  ASSUME DirInv, NEW r \in Rooms, UNCHANGED <<codeIndex, claimed>>
  PROVE  SameLocators(r)
BY DEF SameLocators, Owns, TtlOf

LEMMA ClaimRoomStep ==
  ASSUME DirInv, NEW s \in Slots, StepClaim(s), NEW r \in Rooms
  PROVE  RoomStep(r)
<1>1. PICK c \in Codes, h \in Hashes :
        LET q == op[s].room
        IN /\ q \in Rooms /\ claimed[q] = NoLocators
           /\ codeIndex[c].owner = None
           /\ codeIndex' = [codeIndex EXCEPT ![c] = Owned(q)]
           /\ claimed' = [claimed EXCEPT ![q] = [code |-> c, invite |-> h]]
           /\ UNCHANGED <<doc, active>>
  BY ClaimTakes
<1> DEFINE q == op[s].room
<1>2. /\ q \in Rooms /\ claimed[q] = NoLocators
      /\ codeIndex[c].owner = None
      /\ codeIndex' = [codeIndex EXCEPT ![c] = Owned(q)]
      /\ claimed' = [claimed EXCEPT ![q] = [code |-> c, invite |-> h]]
      /\ doc' = doc
  BY <1>1
<1>3. /\ codeIndex \in [Codes -> Keys] /\ claimed \in [Rooms -> Locators]
  BY DEF DirInv, TypeOK
<1>4. None \notin Rooms /\ Owned(q).owner = q /\ Owned(q).ttl = RoomTtl
  BY <1>2, Unlike
<1>5. CASE q = r
  <2>1. claimed'[r] = [code |-> c, invite |-> h] /\ codeIndex'[c] = Owned(q)
    BY <1>2, <1>3, <1>5
  <2>2. claimed'[r] # NoLocators
    BY <2>1, Unlike DEF Pair
  <2>3. RoomClaims(r)
    BY <1>2, <1>4, <1>5, <2>1, <2>2 DEF RoomClaims, Owns, TtlOf
  <2> QED
    BY <2>3 DEF RoomStep
<1>6. CASE q # r
  <2>1. claimed'[r] = claimed[r]
    BY <1>2, <1>3, <1>6
  <2>2. CASE claimed[r] = NoLocators
    <3>1. SameLocators(r)
      BY <2>1, <2>2 DEF SameLocators, Owns
    <3> QED
      BY <1>2, <3>1 DEF RoomStep, RoomStays, Stored
  <2>3. CASE claimed[r] # NoLocators /\ claimed[r].code = c
    <3>1. codeIndex'[c].owner = q /\ codeIndex[c].owner = None
      BY <1>2, <1>3, <1>4
    <3>2. SameLocators(r)
      BY <1>4, <1>6, <2>1, <2>3, <3>1 DEF SameLocators, Owns
    <3> QED
      BY <1>2, <3>2 DEF RoomStep, RoomStays, Stored
  <2>4. CASE claimed[r] # NoLocators /\ claimed[r].code # c
    <3>1. codeIndex'[claimed[r].code] = codeIndex[claimed[r].code]
      BY <1>2, <1>3, <2>4, ClaimedTyped
    <3>2. SameLocators(r)
      BY <2>1, <3>1 DEF SameLocators, Owns, TtlOf
    <3> QED
      BY <1>2, <3>2 DEF RoomStep, RoomStays, Stored
  <2> QED
    BY <2>2, <2>3, <2>4
<1> QED
  BY <1>5, <1>6

(* Setting or dropping the code of one room leaves the others theirs.      *)
LEMMA OthersKeep ==
  ASSUME DirInv, NEW q \in Rooms, NEW r \in Rooms, q # r, OwnsBoth(q, claimed[q]),
         NEW key, codeIndex' = [codeIndex EXCEPT ![claimed[q].code] = key],
         claimed' = claimed, key.owner \in {q, None}
  PROVE  SameLocators(r)
<1>1. /\ codeIndex \in [Codes -> Keys] /\ None \notin Rooms
      /\ claimed[q] # NoLocators /\ codeIndex[claimed[q].code].owner = q
  BY Unlike DEF DirInv, TypeOK, OwnsBoth
<1>2. claimed[q].code \in Codes
  BY <1>1, ClaimedTyped
<1>3. CASE claimed[r] = NoLocators
  BY <1>3 DEF SameLocators, Owns
<1>4. CASE claimed[r] # NoLocators /\ claimed[r].code = claimed[q].code
  <2>1. codeIndex'[claimed[r].code].owner # r /\ codeIndex[claimed[r].code].owner # r
    BY <1>1, <1>2, <1>4
  <2> QED
    BY <2>1 DEF SameLocators, Owns
<1>5. CASE claimed[r] # NoLocators /\ claimed[r].code # claimed[q].code
  <2>1. codeIndex'[claimed[r].code] = codeIndex[claimed[r].code]
    BY <1>1, <1>2, <1>5, ClaimedTyped
  <2> QED
    BY <2>1 DEF SameLocators, Owns, TtlOf
<1> QED
  BY <1>3, <1>4, <1>5

LEMMA RefreshedRoom ==
  ASSUME DirInv, NEW q \in Rooms, NEW r \in Rooms, doc' = Refreshed(q)
  PROVE  /\ Stored(r)' <=> Stored(r)
         /\ doc'[r].ttl \in {doc[r].ttl, RoomTtl}
         /\ q = r /\ Stored(r) => doc'[r].ttl = RoomTtl
<1>1. doc \in [Rooms -> Docs] /\ RoomTtl \in Nat /\ RoomTtl >= 1
  BY Unlike DEF DirInv, TypeOK
<1>2. CASE Stored(q) /\ q = r
  <2>1. doc' = [doc EXCEPT ![r].ttl = RoomTtl]
    BY <1>2 DEF Refreshed
  <2>2. doc[r] \in Docs
    BY <1>1
  <2>3. doc'[r] = [doc[r] EXCEPT !.ttl = RoomTtl]
    BY <1>1, <2>1
  <2>4. doc'[r].ttl = RoomTtl
    BY <2>2, <2>3 DEF Docs
  <2>5. doc'[r] # NoDoc
    BY <1>1, <2>4 DEF NoDoc
  <2> QED
    BY <1>2, <2>4, <2>5 DEF Stored
<1>3. CASE ~(Stored(q) /\ q = r)
  <2>1. doc'[r] = doc[r]
    BY <1>1, <1>3 DEF Refreshed
  <2> QED
    BY <1>3, <2>1 DEF Stored
<1> QED
  BY <1>2, <1>3

LEMMA WriteRoomStep ==
  ASSUME DirInv, NEW q \in Rooms, NEW l \in Pair, WriteRoom(q, l),
         UNCHANGED <<codeIndex, claimed>>, NEW r \in Rooms,
         Stored(q) \/ \E s \in Slots : StepWrite(s) /\ op[s].room = q
  PROVE  RoomStep(r)
<1>1. doc \in [Rooms -> Docs] /\ doc' = [doc EXCEPT ![q] = RoomDoc(l)]
  BY DEF DirInv, TypeOK, WriteRoom
<1>2. SameLocators(r)
  BY UntouchedRoom
<1>3. CASE q = r
  <2>1. doc'[r] = RoomDoc(l) /\ RoomDoc(l) # NoDoc /\ RoomDoc(l).ttl = RoomTtl
    BY <1>1, <1>3, Unlike DEF RoomDoc
  <2>2. RoomIsWritten(r)
    BY <1>2, <1>3, <2>1 DEF RoomIsWritten, Stored
  <2> QED
    BY <2>2 DEF RoomStep
<1>4. CASE q # r
  <2>1. doc'[r] = doc[r]
    BY <1>1, <1>4
  <2> QED
    BY <1>2, <2>1 DEF RoomStep, RoomStays, Stored
<1> QED
  BY <1>3, <1>4

LEMMA RenewRoomStep ==
  ASSUME DirInv, NEW q \in Rooms, OwnsBoth(q, claimed[q]), claimed' = claimed,
         codeIndex' = [codeIndex EXCEPT ![claimed[q].code] = Owned(q)],
         NEW r \in Rooms,
         Stored(r)' <=> Stored(r), doc'[r].ttl \in {doc[r].ttl, RoomTtl},
         q = r /\ Stored(r) => doc'[r].ttl = RoomTtl
  PROVE  RoomStep(r)
<1>1. codeIndex \in [Codes -> Keys] /\ Owned(q).owner = q /\ Owned(q).ttl = RoomTtl
  BY Unlike DEF DirInv, TypeOK
<1>2. claimed[q] # NoLocators /\ codeIndex[claimed[q].code].owner = q
  BY DEF OwnsBoth
<1>3. CASE q = r
  <2>1. codeIndex'[claimed[r].code] = Owned(q)
    BY <1>1, <1>2, <1>3, ClaimedTyped
  <2>2. RoomRenews(r)
    BY <1>1, <1>2, <1>3, <2>1 DEF RoomRenews, Owns, TtlOf
  <2> QED
    BY <2>2 DEF RoomStep
<1>4. CASE q # r
  <2>1. SameLocators(r)
    BY <1>1, <1>4, OthersKeep
  <2> QED
    BY <2>1 DEF RoomStep, RoomStays
<1> QED
  BY <1>3, <1>4

LEMMA AgeRoomStep ==
  ASSUME DirInv, StepAge, NEW r \in Rooms
  PROVE  RoomStep(r)
<1>1. /\ codeIndex \in [Codes -> Keys] /\ doc \in [Rooms -> Docs] /\ claimed' = claimed
      /\ doc'[r] = AgedDoc(doc[r])
  BY DEF DirInv, TypeOK, StepAge
<1>2. /\ Stored(r)' <=> Stored(r) /\ doc[r].ttl > 1
      /\ Stored(r)' => doc'[r].ttl = doc[r].ttl - 1
  <2>1. doc[r] \in Docs
    BY <1>1
  <2>2. /\ AgedDoc(doc[r]) # NoDoc => /\ doc[r] # NoDoc /\ doc[r].ttl > 1
                                      /\ AgedDoc(doc[r]).ttl = doc[r].ttl - 1
        /\ doc[r].ttl > 1 => AgedDoc(doc[r]) # NoDoc
    BY <2>1, AgedTyped
  <2> QED
    BY <1>1, <2>2 DEF Stored
<1>3. CASE claimed[r] = NoLocators
  BY <1>1, <1>2, <1>3 DEF RoomStep, RoomAges, Owns
<1>4. CASE claimed[r] # NoLocators
  <2> DEFINE c == claimed[r].code
  <2>1. c \in Codes /\ codeIndex[c] \in Keys /\ codeIndex'[c] = AgedKey(codeIndex[c])
    BY <1>1, <1>4, ClaimedTyped DEF StepAge
  <2>2. /\ AgedKey(codeIndex[c]).owner = r => /\ codeIndex[c].owner = r /\ codeIndex[c].ttl > 1
                                              /\ AgedKey(codeIndex[c]).ttl = codeIndex[c].ttl - 1
        /\ codeIndex[c].ttl > 1 => AgedKey(codeIndex[c]).owner = codeIndex[c].owner
    BY <2>1, AgedTyped
  <2>3. /\ Owns(r)' <=> Owns(r) /\ TtlOf(r) > 1
        /\ Owns(r)' => TtlOf(r)' = TtlOf(r) - 1
    BY <1>1, <1>4, <2>1, <2>2 DEF Owns, TtlOf
  <2> QED
    BY <1>1, <1>2, <2>3 DEF RoomStep, RoomAges
<1> QED
  BY <1>3, <1>4

(* Every step does one of these to each room.                              *)
LEMMA RoomSteps ==
  ASSUME DirInv, [Next]_vars, NEW r \in Rooms
  PROVE  RoomStep(r)
<1>1. StoreStep /\ doc \in [Rooms -> Docs] /\ TypeOK
  BY StoreSteps DEF DirInv, TypeOK
<1>2. ASSUME NEW s \in Slots, StepClaim(s)
      PROVE  RoomStep(r)
  BY <1>2, ClaimRoomStep
<1>3. ASSUME NEW s \in Slots, StepWrite(s)
      PROVE  RoomStep(r)
  <2>1. op[s].pc \in HoldsPlaces
    BY <1>3 DEF StepWrite, HoldsPlaces, CreatePlaces, UsePlaces
  <2>2. op[s].room \in Rooms /\ op[s].at \in Pair
    BY <2>1, HoldsItsLocators
  <2>3. WriteRoom(op[s].room, op[s].at) /\ UNCHANGED <<codeIndex, claimed>>
    BY <1>3 DEF StepWrite, index
  <2> QED
    BY <1>3, <2>2, <2>3, WriteRoomStep
<1>4. ASSUME NEW s \in Slots, StepDrop(s)
      PROVE  RoomStep(r)
  <2> DEFINE q == op[s].room
  <2>1. op[s].pc \in HoldsPlaces
    BY <1>4 DEF StepDrop, HoldsPlaces, CreatePlaces, UsePlaces
  <2>2. q \in Rooms /\ op[s].at = claimed[q] /\ op[s].at \in Pair
    BY <2>1, HoldsItsLocators
  <2>3. claimed' = claimed /\ doc' = doc
    BY <1>4 DEF StepDrop
  <2>4. CASE ~OwnsBoth(q, claimed[q])
    <3>1. SameLocators(r)
      BY <1>4, <2>2, <2>3, <2>4, UntouchedRoom DEF StepDrop, DropLocators, index
    <3> QED
      BY <2>3, <3>1 DEF RoomStep, RoomStays, Stored
  <2>5. CASE OwnsBoth(q, claimed[q]) /\ q # r
    <3>1. codeIndex' = [codeIndex EXCEPT ![claimed[q].code] = Free] /\ Free.owner = None
      BY <1>4, <2>2, <2>5, Unlike DEF StepDrop, DropLocators
    <3>2. SameLocators(r)
      BY <2>2, <2>3, <2>5, <3>1, OthersKeep
    <3> QED
      BY <2>3, <3>2 DEF RoomStep, RoomStays, Stored
  <2>6. CASE OwnsBoth(q, claimed[q]) /\ q = r
    <3>1. codeIndex' = [codeIndex EXCEPT ![claimed[r].code] = Free]
      BY <1>4, <2>2, <2>6 DEF StepDrop, DropLocators
    <3>2. claimed[r].code \in Codes /\ codeIndex \in [Codes -> Keys] /\ Free.owner = None
          /\ None \notin Rooms
      BY <2>2, <2>6, Unlike DEF Pair, DirInv, TypeOK
    <3>3. codeIndex'[claimed[r].code].owner # r
      BY <3>1, <3>2
    <3>4. RoomDrops(r)
      BY <1>4, <2>3, <2>6, <3>3 DEF RoomDrops, Owns
    <3> QED
      BY <3>4 DEF RoomStep
  <2> QED
    BY <2>4, <2>5, <2>6
<1>5. ASSUME NEW s \in Slots, StepRenew(s)
      PROVE  RoomStep(r)
  <2> DEFINE q == op[s].room
  <2>1. op[s].pc \in HoldsPlaces
    BY <1>5 DEF StepRenew, HoldsPlaces, CreatePlaces, UsePlaces
  <2>2. q \in Rooms /\ op[s].at = claimed[q]
    BY <2>1, HoldsItsLocators
  <2>3. /\ OwnsBoth(q, claimed[q]) /\ claimed' = claimed
        /\ codeIndex' = [codeIndex EXCEPT ![claimed[q].code] = Owned(q)]
        /\ doc' = Refreshed(q)
    BY <1>5, <2>2 DEF StepRenew, RefreshLocators, SetLocators
  <2>4. /\ Stored(r)' <=> Stored(r)
        /\ doc'[r].ttl \in {doc[r].ttl, RoomTtl}
        /\ q = r /\ Stored(r) => doc'[r].ttl = RoomTtl
    BY <2>2, <2>3, RefreshedRoom
  <2> QED
    BY <2>2, <2>3, <2>4, RenewRoomStep
<1>6. ASSUME NEW q \in Rooms, StepKeep(q)
      PROVE  RoomStep(r)
  <2>1. doc' = Refreshed(q) /\ UNCHANGED <<codeIndex, claimed>>
    BY <1>6 DEF StepKeep, index
  <2>2. /\ Stored(r)' <=> Stored(r)
        /\ doc'[r].ttl \in {doc[r].ttl, RoomTtl}
    BY <2>1, RefreshedRoom
  <2>3. SameLocators(r)
    BY <2>1, UntouchedRoom
  <2> QED
    BY <2>2, <2>3 DEF RoomStep, RoomStays
<1>7. ASSUME NEW q \in Rooms, StepRevive(q)
      PROVE  RoomStep(r)
  <2>1. claimed[q] \in Pair /\ LocatorsOf(q) = claimed[q] /\ claimed[q] # NoLocators
    BY <1>7 DEF StepRevive, DirInv, DocsFit, Paired
  <2>2. WriteRoom(q, claimed[q]) /\ claimed' = claimed /\ Stored(q)
    BY <1>7, <2>1 DEF StepRevive
  <2>3. CASE UNCHANGED index
    BY <2>1, <2>2, <2>3, WriteRoomStep DEF index
  <2>4. CASE OwnsBoth(q, LocatorsOf(q)) /\ SetLocators(q, doc[q].code, doc[q].invite)
    <3>1. doc[q].code = claimed[q].code
      BY <2>1 DEF LocatorsOf
    <3>2. /\ OwnsBoth(q, claimed[q])
          /\ codeIndex' = [codeIndex EXCEPT ![claimed[q].code] = Owned(q)]
      BY <2>1, <2>4, <3>1 DEF SetLocators
    <3>3. doc' = [doc EXCEPT ![q] = RoomDoc(claimed[q])]
      BY <2>2 DEF WriteRoom
    <3>4. CASE q = r
      <4>1. doc'[r] = RoomDoc(claimed[q]) /\ RoomDoc(claimed[q]) # NoDoc
            /\ RoomDoc(claimed[q]).ttl = RoomTtl
        BY <1>1, <2>1, <3>3, <3>4, Unlike DEF RoomDoc
      <4>2. Stored(r)' /\ Stored(r) /\ doc'[r].ttl = RoomTtl
        BY <2>2, <3>4, <4>1 DEF Stored
      <4> QED
        BY <2>2, <3>2, <4>2, RenewRoomStep
    <3>5. CASE q # r
      <4>1. doc'[r] = doc[r]
        BY <1>1, <3>3, <3>5
      <4>2. Stored(r)' <=> Stored(r)
        BY <4>1 DEF Stored
      <4> QED
        BY <2>2, <3>2, <3>5, <4>1, <4>2, RenewRoomStep
    <3> QED
      BY <3>4, <3>5
  <2> QED
    BY <1>7, <2>3, <2>4 DEF StepRevive
<1>8. CASE StepAge
  BY <1>8, AgeRoomStep
<1>9. CASE UNCHANGED <<index, doc, active, claimed>>
  <2>1. SameLocators(r)
    BY <1>9, UntouchedRoom DEF index
  <2> QED
    BY <1>9, <2>1 DEF RoomStep, RoomStays, Stored
<1> QED
  BY <1>1, <1>2, <1>3, <1>4, <1>5, <1>6, <1>7, <1>8, <1>9 DEF StoreStep

-----------------------------------------------------------------------------
(* A room that is open, and the room that its locators lead to.            *)

InviteOnce ==
  \A i \in InviteIds : \A v, w \in Versions :
    inviteIndex[<<i, v>>].owner # None /\ inviteIndex[<<i, w>>].owner # None => v = w

(* A room that owns its locators is stored exactly if it was opened, and   *)
(* then its document outlives them.                                        *)
OpenFits ==
  \A r \in Rooms :
    /\ r \in opened => claimed[r] # NoLocators
    /\ Owns(r) => (Stored(r) <=> r \in opened)
    /\ Owns(r) /\ Stored(r) => TtlOf(r) <= doc[r].ttl

(* Whoever uses a room that owns its locators uses one that was opened.    *)
UsesOpened ==
  \A s \in Slots :
    op[s].pc \in UsePlaces \cup {"finish"} /\ Owns(op[s].room) => op[s].room \in opened

LifeInv == InviteOnce /\ OpenFits /\ UsesOpened

(* What those who look a room up find: a stored room with its locators.    *)
FindIs == \A r \in Rooms : Findable(r) <=> Stored(r) /\ Owns(r)

LEMMA FindIsSo == DirInv /\ InviteOnce => FindIs
<1> SUFFICES ASSUME DirInv, InviteOnce, NEW r \in Rooms
             PROVE  Findable(r) <=> Stored(r) /\ Owns(r)
  BY DEF FindIs
<1>1. CASE ~Stored(r)
  BY <1>1 DEF Findable
<1>2. CASE Stored(r)
  <2>1. claimed[r] \in Pair /\ claimed[r] # NoLocators /\ LocatorsOf(r) = claimed[r]
    BY <1>2 DEF DirInv, DocsFit, Paired
  <2>2. doc[r].code = claimed[r].code /\ doc[r].invite = claimed[r].invite
    BY <2>1 DEF LocatorsOf
  <2>3. claimed[r].code \in Codes /\ claimed[r].invite \in Hashes
    BY <2>1 DEF Pair
  <2>4. None \notin Rooms
    BY Unlike
  <2>5. ASSUME Findable(r)
        PROVE  Owns(r)
    <3>1. FoundByCode(claimed[r].code) = r
      BY <2>2, <2>5 DEF Findable
    <3> QED
      BY <2>1, <2>4, <3>1 DEF FoundByCode, Owns
  <2>6. ASSUME Owns(r)
        PROVE  Findable(r)
    <3>1. codeIndex[claimed[r].code].owner = r
      BY <2>6 DEF Owns
    <3>2. FoundByCode(claimed[r].code) = r
      BY <1>2, <2>4, <3>1 DEF FoundByCode
    <3>3. inviteIndex[claimed[r].invite].owner = r
      BY <2>3, <3>1 DEF DirInv, Paired
    <3>4. PICK i \in InviteIds, v \in Versions : claimed[r].invite = <<i, v>>
      BY <2>3 DEF Hashes
    <3>5. \A w \in Versions : inviteIndex[<<i, w>>].owner # None => w = v
      BY <2>4, <3>3, <3>4 DEF InviteOnce
    <3>6. claimed[r].invite[1] = i
      BY <3>4
    <3>7. r \in FoundByInvite(i)
      BY <1>2, <2>4, <3>3, <3>4, <3>5 DEF FoundByInvite
    <3> QED
      BY <1>2, <2>2, <3>2, <3>6, <3>7 DEF Findable
  <2> QED
    BY <1>2, <2>5, <2>6
<1> QED
  BY <1>1, <1>2

LEMMA InvitesStay ==
  ASSUME DirInv, StoreStep, \A s \in Slots : ~StepClaim(s), NEW h \in Hashes,
         inviteIndex'[h].owner # None
  PROVE  inviteIndex[h].owner # None
<1>1. inviteIndex \in [Hashes -> Keys] /\ None \notin Rooms /\ Free.owner = None
      /\ \A r \in Rooms : Owned(r).owner = r
  BY Unlike DEF DirInv, TypeOK
<1>2. CASE UNCHANGED index
  BY <1>2 DEF index
<1>3. ASSUME NEW r \in Rooms, NEW l \in Pair, OwnsBoth(r, l),
             \/ inviteIndex' = [inviteIndex EXCEPT ![l.invite] = Free]
             \/ inviteIndex' = [inviteIndex EXCEPT ![l.invite] = Owned(r)]
      PROVE  inviteIndex[h].owner # None
  BY <1>1, <1>3 DEF OwnsBoth
<1>4. ASSUME NEW s \in Slots, StepDrop(s) \/ StepRenew(s)
      PROVE  inviteIndex[h].owner # None
  <2>1. op[s].pc \in HoldsPlaces
    BY <1>4 DEF StepDrop, StepRenew, HoldsPlaces, CreatePlaces, UsePlaces
  <2>2. op[s].room \in Rooms /\ op[s].at \in Pair
    BY <2>1, HoldsItsLocators
  <2>3. \/ UNCHANGED index
        \/ /\ OwnsBoth(op[s].room, op[s].at)
           /\ \/ inviteIndex' = [inviteIndex EXCEPT ![op[s].at.invite] = Free]
              \/ inviteIndex' = [inviteIndex EXCEPT ![op[s].at.invite] = Owned(op[s].room)]
    BY <1>4 DEF StepDrop, StepRenew, DropLocators, RefreshLocators, SetLocators
  <2> QED
    BY <1>2, <1>3, <2>2, <2>3
<1>5. ASSUME NEW r \in Rooms, StepRevive(r)
      PROVE  inviteIndex[h].owner # None
  <2>1. LocatorsOf(r) \in Pair
    BY <1>5 DEF StepRevive, DirInv, DocsFit, Paired
  <2>2. LocatorsOf(r).invite = doc[r].invite
    BY DEF LocatorsOf
  <2> QED
    BY <1>2, <1>3, <1>5, <2>1, <2>2 DEF StepRevive, SetLocators
<1>6. CASE StepAge
  <2>1. inviteIndex'[h] = AgedKey(inviteIndex[h]) /\ inviteIndex[h] \in Keys
    BY <1>1, <1>6 DEF StepAge
  <2>2. AgedKey(inviteIndex[h]) \in Keys
    BY <2>1, AgedTyped
  <2>3. AgedKey(inviteIndex[h]).owner \in Rooms
    BY <2>1, <2>2 DEF Keys
  <2> QED
    BY <1>1, <2>1, <2>3, AgedTyped
<1> QED
  BY <1>2, <1>4, <1>5, <1>6 DEF StoreStep, StepWrite, StepKeep

LEMMA InviteOnceStep ==
  ASSUME DirInv, InviteOnce, [Next]_vars
  PROVE  InviteOnce'
<1>1. StoreStep
  BY StoreSteps DEF DirInv
<1> SUFFICES ASSUME NEW i \in InviteIds, NEW v \in Versions, NEW w \in Versions,
                    inviteIndex'[<<i, v>>].owner # None, inviteIndex'[<<i, w>>].owner # None
             PROVE  v = w
  BY DEF InviteOnce
<1>2. <<i, v>> \in Hashes /\ <<i, w>> \in Hashes
  BY DEF Hashes
<1>3. CASE \A s \in Slots : ~StepClaim(s)
  <2>1. inviteIndex[<<i, v>>].owner # None /\ inviteIndex[<<i, w>>].owner # None
    BY <1>1, <1>2, <1>3, InvitesStay
  <2> QED
    BY <2>1 DEF InviteOnce
<1>4. ASSUME NEW s \in Slots, StepClaim(s)
      PROVE  v = w
  <2>1. PICK h \in Hashes :
          /\ inviteIndex' = [inviteIndex EXCEPT ![h] = Owned(op[s].room)]
          /\ h[1] \in Drawn /\ h[2] = pepper
    BY <1>4, ClaimTakes
  <2>2. PICK j \in InviteIds, u \in Versions : h = <<j, u>>
    BY DEF Hashes
  <2>3. j \in Drawn /\ u = pepper
    BY <2>1, <2>2
  <2>4. \A x \in Versions : x # pepper => inviteIndex[<<j, x>>].owner = None
    BY <2>3 DEF Drawn
  <2>5. inviteIndex \in [Hashes -> Keys]
    BY DEF DirInv, TypeOK
  <2>6. ASSUME NEW x \in Versions, inviteIndex'[<<i, x>>].owner # None
        PROVE  \/ i = j /\ x = pepper
               \/ i # j /\ inviteIndex[<<i, x>>].owner # None
    <3>1. <<i, x>> \in Hashes
      BY DEF Hashes
    <3>2. CASE <<i, x>> = h
      BY <2>2, <2>3, <3>2
    <3>3. CASE <<i, x>> # h
      <4>1. inviteIndex[<<i, x>>].owner # None
        BY <2>1, <2>5, <2>6, <3>1, <3>3
      <4> QED
        BY <2>2, <2>3, <2>4, <3>3, <4>1
    <3> QED
      BY <3>2, <3>3
  <2> QED
    BY <2>6 DEF InviteOnce
<1> QED
  BY <1>3, <1>4

(* Only a room that is found is noted as opened, and it stays so.          *)
LEMMA OpenedGrows ==
  ASSUME [Next]_vars
  PROVE  UNCHANGED opened \/ NoteOpened
<1>1. ASSUME NEW s \in Slots,
             \/ BeginCreate(s) \/ Claim(s) \/ Mark(s) \/ SaveNewRoom(s) \/ FinishCreate(s)
             \/ Release(s) \/ BeginUse(s) \/ Swap(s) \/ Touch(s) \/ Refresh(s) \/ Fail(s)
      PROVE  UNCHANGED opened \/ NoteOpened
  BY <1>1 DEF BeginCreate, Claim, Mark, SaveNewRoom, FinishCreate, Release, BeginUse, Swap,
              Touch, Refresh, Fail, ghosts
<1>2. CASE \/ \E r \in Rooms : WriteInRoom(r) \/ RecoverRoom(r)
           \/ Restart \/ RecoveryFails \/ RecoveryEnds \/ Tick \/ UNCHANGED vars
  BY <1>2 DEF WriteInRoom, RecoverRoom, Restart, RecoveryFails, RecoveryEnds, Tick, vars,
              ghosts
<1> QED
  BY <1>1, <1>2 DEF Next

(* A room that was not stored and now is was saved by the one who created  *)
(* it, or written again by a handler that had found it.                    *)
LEMMA Appears ==
  ASSUME DirInv, [Next]_vars, NEW r \in Rooms, Stored(r)', ~Stored(r)
  PROVE  NoteOpened \/ \E s \in Slots : op[s].pc \in UsePlaces /\ op[s].room = r
<1>1. doc \in [Rooms -> Docs] /\ TypeOK
  BY DEF DirInv, TypeOK
<1>2. doc' # doc /\ \A q \in Rooms : doc' # Refreshed(q)
  BY RefreshedRoom DEF Stored
<1>3. ASSUME NEW s \in Slots,
             \/ BeginCreate(s) \/ Claim(s) \/ Mark(s) \/ Release(s) \/ BeginUse(s)
      PROVE  FALSE
  BY <1>2, <1>3 DEF BeginCreate, Claim, Mark, Release, BeginUse
<1>4. ASSUME NEW s \in Slots, FinishCreate(s) \/ Swap(s) \/ Refresh(s)
      PROVE  FALSE
  <2>1. op[s].room \in Rooms
    BY <1>1, <1>4, OpTyped DEF FinishCreate, Swap, Refresh, At
  <2> QED
    BY <1>2, <1>4, <2>1 DEF FinishCreate, Swap, Refresh, MovePhase, RefreshLocators
<1>5. ASSUME NEW s \in Slots, Touch(s)
      PROVE  op[s].pc \in UsePlaces /\ op[s].room = r
  <2>1. op[s].pc \in UsePlaces /\ doc' = [doc EXCEPT ![op[s].room] = RoomDoc(op[s].at)]
    BY <1>5 DEF Touch, At, UsePlaces, WriteRoom
  <2>2. op[s].room # r => doc'[r] = doc[r]
    BY <1>1, <2>1
  <2> QED
    BY <2>1, <2>2 DEF Stored
<1>6. ASSUME NEW s \in Slots, SaveNewRoom(s) \/ Fail(s)
      PROVE  NoteOpened
  BY <1>6 DEF SaveNewRoom, Fail
<1>7. ASSUME NEW q \in Rooms, WriteInRoom(q)
      PROVE  FALSE
  BY <1>2, <1>7 DEF WriteInRoom
<1>8. ASSUME NEW q \in Rooms, RecoverRoom(q)
      PROVE  FALSE
  <2>1. Stored(q) /\ doc' = [doc EXCEPT ![q] = RoomDoc(LocatorsOf(q))]
    BY <1>2, <1>8 DEF RecoverRoom, WriteRoom, LocatorsOf
  <2>2. q # r => doc'[r] = doc[r]
    BY <1>1, <2>1
  <2> QED
    BY <2>1, <2>2 DEF Stored
<1>9. CASE Restart \/ RecoveryFails \/ RecoveryEnds \/ UNCHANGED vars
  BY <1>2, <1>9 DEF Restart, RecoveryFails, RecoveryEnds, vars
<1>10. CASE Tick
  <2>1. doc'[r] = AgedDoc(doc[r]) /\ doc[r] \in Docs
    BY <1>1, <1>10 DEF Tick
  <2> QED
    BY <2>1, AgedTyped DEF Stored
<1> QED
  BY <1>3, <1>4, <1>5, <1>6, <1>7, <1>8, <1>9, <1>10 DEF Next

(* Locators a room comes to own it has claimed just now.                   *)
LEMMA OwnsFrom ==
  ASSUME DirInv, [Next]_vars, NEW r \in Rooms, Owns(r)'
  PROVE  \/ Owns(r)
         \/ claimed[r] = NoLocators /\ ~Stored(r) /\ ~Stored(r)' /\ TtlOf(r)' = RoomTtl
<1>1. RoomStep(r)
  BY RoomSteps
<1>2. CASE RoomClaims(r)
  <2>1. claimed[r] = NoLocators /\ TtlOf(r)' = RoomTtl /\ doc'[r] = doc[r]
    BY <1>2 DEF RoomClaims
  <2>2. ~Stored(r)
    BY <2>1 DEF DirInv, DocsFit
  <2> QED
    BY <2>1, <2>2 DEF Stored
<1>3. CASE RoomStays(r) \/ RoomIsWritten(r) \/ RoomDrops(r) \/ RoomRenews(r) \/ RoomAges(r)
  BY <1>3 DEF RoomStays, RoomIsWritten, RoomDrops, RoomRenews, RoomAges, SameLocators
<1> QED
  BY <1>1, <1>2, <1>3 DEF RoomStep

LEMMA TtlTyped ==
  ASSUME DirInv, NEW r \in Rooms
  PROVE  /\ doc[r].ttl \in 0..RoomTtl /\ RoomTtl \in Nat
         /\ Owns(r) => TtlOf(r) \in 0..RoomTtl
<1>1. codeIndex \in [Codes -> Keys] /\ doc[r] \in Docs
  BY DEF DirInv, TypeOK
<1>2. Owns(r) => claimed[r].code \in Codes
  BY ClaimedTyped DEF Owns
<1> QED
  BY <1>1, <1>2, TtlAssumption DEF Docs, Keys, TtlOf

LEMMA FindIsNext ==
  ASSUME DirInv, InviteOnce, [Next]_vars
  PROVE  FindIs'
<1>1. (DirInv /\ InviteOnce)' => FindIs'
  BY FindIsSo, PTL
<1> QED
  BY <1>1, DirInvStep, InviteOnceStep

LEMMA OpenKept ==
  ASSUME DirInv, LifeInv, [Next]_vars
  PROVE  OpenFits' /\ opened \subseteq opened'
<1>1. FindIs' /\ DirInv'
  BY FindIsNext, DirInvStep DEF LifeInv
<1>2. UNCHANGED opened \/ NoteOpened
  BY OpenedGrows
<1>3. opened \subseteq opened'
  BY <1>2 DEF NoteOpened
<1>4. \A r \in Rooms : r \in opened' => r \in opened \/ (Stored(r)' /\ Owns(r)')
  BY <1>1, <1>2 DEF NoteOpened, FindIs
<1> SUFFICES ASSUME NEW r \in Rooms
             PROVE  /\ r \in opened' => claimed'[r] # NoLocators
                    /\ Owns(r)' => (Stored(r)' <=> r \in opened')
                    /\ Owns(r)' /\ Stored(r)' => TtlOf(r)' <= doc'[r].ttl
  BY <1>3 DEF OpenFits, Owns, TtlOf, Stored
<1>5. /\ r \in opened => claimed[r] # NoLocators
      /\ Owns(r) => (Stored(r) <=> r \in opened)
      /\ Owns(r) /\ Stored(r) => TtlOf(r) <= doc[r].ttl
  BY DEF LifeInv, OpenFits
<1>6. RoomStep(r)
  BY RoomSteps
<1>7. /\ doc[r].ttl \in 0..RoomTtl /\ RoomTtl \in Nat
      /\ Owns(r) => TtlOf(r) \in 0..RoomTtl
  BY TtlTyped
<1>8. r \in opened' => claimed'[r] # NoLocators
  BY <1>4, <1>5, ClaimedOnce DEF Owns
<1>9. CASE ~Owns(r)'
  BY <1>8, <1>9
<1>10. CASE Owns(r)' /\ ~Owns(r)
  <2>1. claimed[r] = NoLocators /\ ~Stored(r)'
    BY <1>10, OwnsFrom
  <2> QED
    BY <1>4, <1>5, <1>8, <2>1
<1>11. CASE Owns(r)' /\ Owns(r)
  <2>1. ASSUME Stored(r)'
        PROVE  r \in opened' /\ TtlOf(r)' <= doc'[r].ttl
    <3>1. CASE Stored(r)
      <4>1. CASE RoomStays(r)
        BY <1>3, <1>5, <1>7, <1>11, <3>1, <4>1 DEF RoomStays, SameLocators
      <4>2. CASE RoomIsWritten(r)
        BY <1>3, <1>5, <1>7, <1>11, <3>1, <4>2 DEF RoomIsWritten, SameLocators
      <4>3. CASE RoomRenews(r)
        BY <1>3, <1>5, <1>7, <1>11, <3>1, <4>3 DEF RoomRenews
      <4>4. CASE RoomAges(r)
        BY <1>3, <1>5, <1>7, <1>11, <2>1, <3>1, <4>4 DEF RoomAges
      <4>5. CASE RoomClaims(r) \/ RoomDrops(r)
        BY <1>11, <4>5 DEF RoomClaims, RoomDrops, Owns
      <4> QED
        BY <1>6, <4>1, <4>2, <4>3, <4>4, <4>5 DEF RoomStep
    <3>2. CASE ~Stored(r)
      <4>1. NoteOpened => r \in opened'
        BY <1>1, <1>11, <2>1 DEF NoteOpened, FindIs
      <4>2. (\E s \in Slots : op[s].pc \in UsePlaces /\ op[s].room = r) => r \in opened'
        BY <1>5, <1>11, <3>2 DEF LifeInv, UsesOpened
      <4>3. r \in opened'
        BY <2>1, <3>2, <4>1, <4>2, Appears
      <4>4. doc'[r].ttl = RoomTtl /\ TtlOf(r)' = TtlOf(r)
        BY <1>6, <1>11, <2>1, <3>2
           DEF RoomStep, RoomClaims, RoomStays, RoomIsWritten, RoomDrops, RoomRenews, RoomAges,
               SameLocators, Owns
      <4> QED
        BY <1>7, <1>11, <4>3, <4>4
    <3> QED
      BY <3>1, <3>2
  <2>2. ASSUME r \in opened'
        PROVE  Stored(r)'
    <3>1. CASE Stored(r)' /\ Owns(r)'
      BY <3>1
    <3>2. CASE r \in opened
      <4>1. Stored(r) /\ TtlOf(r) <= doc[r].ttl
        BY <1>5, <1>11, <3>2
      <4>2. CASE RoomAges(r)
        BY <1>7, <1>11, <4>1, <4>2 DEF RoomAges
      <4>3. CASE RoomClaims(r) \/ RoomDrops(r)
        BY <4>1, <4>3 DEF RoomClaims, RoomDrops, Stored
      <4>4. CASE RoomStays(r) \/ RoomIsWritten(r) \/ RoomRenews(r)
        BY <4>1, <4>4 DEF RoomStays, RoomIsWritten, RoomRenews
      <4> QED
        BY <1>6, <4>2, <4>3, <4>4 DEF RoomStep
    <3> QED
      BY <1>4, <2>2, <3>1, <3>2
  <2> QED
    BY <1>8, <2>1, <2>2
<1> QED
  BY <1>9, <1>10, <1>11

(* Where a handler that is under way comes from.                           *)
GrowsOld(t) ==
  /\ StepAge /\ op[t].pc # "idle"
  /\ op'[t].pc = op[t].pc /\ op'[t].room = op[t].room /\ op'[t].at = op[t].at
  /\ op'[t].age = op[t].age + 1

LEMMA OpFrom ==
  ASSUME TypeOK, [Next]_vars, NEW t \in Slots, op'[t].pc # "idle"
  PROVE  /\ op'[t].room \in Rooms
         /\ \/ op'[t] = op[t] /\ op[t].pc # "idle"
            \/ GrowsOld(t) \/ Creates(t) \/ Finds(t) \/ Goes(t)
<1>1. OpStep /\ Idle.pc = "idle"
  BY OpSteps DEF Idle
<1>2. op'[t].room \in Rooms
  <2>1. op'[t] \in Handlers /\ op'[t] # Idle
    BY <1>1, OpKept
  <2> QED
    BY <2>1 DEF Handlers
<1>3. ASSUME NEW s \in Slots, OthersStay(s), op'[s] = Idle \/ Creates(s) \/ Finds(s) \/ Goes(s)
      PROVE  op'[t] = op[t] \/ Creates(t) \/ Finds(t) \/ Goes(t)
  BY <1>1, <1>3 DEF OthersStay
<1>4. CASE StepAge
  <2>1. op[t].pc # "idle" /\ op'[t] = [op[t] EXCEPT !.age = @ + 1]
    BY <1>1, <1>4 DEF StepAge, Ages
  <2>2. op[t] \in [pc : CreatePlaces \cup UsePlaces, room : Rooms, at : Locators,
                   tries : 0..MaxAttempts - 1, age : 0..RequestTicks, moves : BOOLEAN]
    BY <2>1, OpTyped
  <2>3. GrowsOld(t)
    BY <1>4, <2>1, <2>2 DEF GrowsOld
  <2> QED
    BY <1>2, <2>3
<1> QED
  BY <1>1, <1>2, <1>3, <1>4 DEF OpStep

LEMMA UsesKept ==
  ASSUME DirInv, LifeInv, [Next]_vars
  PROVE  UsesOpened'
<1>1. /\ OpenFits' /\ opened \subseteq opened' /\ TypeOK
      /\ \A s \in Slots :
           op[s].pc \in UsePlaces \cup {"finish"} /\ Owns(op[s].room) => op[s].room \in opened
  BY OpenKept DEF LifeInv, UsesOpened, DirInv
<1>2. "idle" \notin UsePlaces \cup {"finish"} /\ UsePlaces \cup {"finish"} \subseteq HoldsPlaces
      /\ "claim" \notin UsePlaces \cup {"finish"} /\ "mark" \notin UsePlaces \cup {"finish"}
  BY DEF UsePlaces, HoldsPlaces, CreatePlaces
<1> SUFFICES ASSUME NEW t \in Slots, op'[t].pc \in UsePlaces \cup {"finish"},
                    NEW r, r = op'[t].room, Owns(r)'
             PROVE  r \in opened'
  BY DEF UsesOpened, Owns
<1>3. /\ r \in Rooms
      /\ \/ op'[t] = op[t] /\ op[t].pc # "idle"
         \/ GrowsOld(t) \/ Creates(t) \/ Finds(t) \/ Goes(t)
  BY <1>1, <1>2, OpFrom
<1>4. CASE op[t].pc \in UsePlaces \cup {"finish"} /\ op'[t].room = op[t].room
  <2>1. claimed[op[t].room] # NoLocators
    BY <1>2, <1>4 DEF DirInv, ClaimsFit
  <2>2. Owns(r) /\ r = op[t].room
    BY <1>3, <1>4, <2>1, OwnsFrom
  <2> QED
    BY <1>1, <1>4, <2>2
<1>5. CASE Stored(r)'
  BY <1>1, <1>3, <1>5 DEF OpenFits, Owns, Stored
<1>6. CASE op'[t] = op[t] \/ GrowsOld(t)
  BY <1>4, <1>6 DEF GrowsOld
<1>7. CASE Creates(t)
  BY <1>2, <1>7 DEF Creates
<1>8. CASE Finds(t)
  <2>1. Stored(r)'
    BY <1>8 DEF Finds, Stored
  <2> QED
    BY <1>5, <2>1
<1>9. CASE Goes(t)
  <2>1. op'[t].room = op[t].room /\ <<op[t].pc, op'[t].pc>> \in Ways
    BY <1>2, <1>9 DEF Goes, SameRoom
  <2>2. CASE op[t].pc \in UsePlaces \cup {"finish"}
    BY <1>4, <2>1, <2>2
  <2>3. CASE op'[t].pc = "finish" /\ op[t].pc = "saveRoom"
    <3>1. doc'[op[t].room] = RoomDoc(op[t].at)
      BY <1>2, <1>9, <2>3 DEF Goes
    <3>2. op[t].pc \in HoldsPlaces
      BY <2>3 DEF HoldsPlaces, CreatePlaces
    <3>3. op[t].at \in Pair
      BY <3>2, HoldsItsLocators
    <3>4. RoomDoc(op[t].at) # NoDoc
      BY <3>3, Unlike
    <3> QED
      BY <1>5, <2>1, <3>1, <3>4 DEF Stored
  <2> QED
    BY <2>1, <2>2, <2>3 DEF Ways, UsePlaces
<1> QED
  BY <1>3, <1>6, <1>7, <1>8, <1>9

(* The invariant of the rooms that were opened.                            *)
THEOREM LifeInvHolds == Spec => []LifeInv
<1>1. Init => LifeInv
  <2> SUFFICES ASSUME Init
               PROVE  LifeInv
    OBVIOUS
  <2>1. InviteOnce
    <3>1. \A i \in InviteIds, v \in Versions : <<i, v>> \in Hashes
      BY DEF Hashes
    <3> QED
      BY <3>1 DEF Init, InviteOnce, Free
  <2>2. OpenFits
    BY DEF Init, OpenFits, Owns
  <2>3. UsesOpened
    BY DEF Init, UsesOpened, Idle, UsePlaces
  <2> QED
    BY <2>1, <2>2, <2>3 DEF LifeInv
<1>2. DirInv /\ LifeInv /\ [Next]_vars => LifeInv'
  BY InviteOnceStep, OpenKept, UsesKept DEF LifeInv
<1> QED
  BY <1>1, <1>2, DirInvHolds, PTL DEF Spec

(* The locators of a room do not outlive it: as long as a code is taken by *)
(* a room that was opened, the room is stored, and for longer.             *)
THEOREM LocatorsExpire == Spec => []LocatorsExpireFirst
<1>1. DirInv /\ LifeInv => LocatorsExpireFirst
  <2> SUFFICES ASSUME DirInv, LifeInv, NEW c \in Codes, NEW r \in Rooms,
                      codeIndex[c].owner = r, r \in opened
               PROVE  Stored(r) /\ codeIndex[c].ttl <= doc[r].ttl
    BY DEF LocatorsExpireFirst
  <2>1. claimed[r] # NoLocators /\ claimed[r].code = c
    BY DEF DirInv, Paired
  <2>2. Owns(r) /\ TtlOf(r) = codeIndex[c].ttl
    BY <2>1 DEF Owns, TtlOf
  <2> QED
    BY <2>2 DEF LifeInv, OpenFits
<1> QED
  BY <1>1, DirInvHolds, LifeInvHolds, PTL

(* Locators come, stay and go in pairs, lead home and expire first.        *)
THEOREM LocatorsAlwaysHold == Spec => []LocatorsHold
  BY LocatorsStayPaired, LocatorsLeadHome, LocatorsExpire, PTL DEF LocatorsHold

-----------------------------------------------------------------------------
(* The directory implements RoomBoard.                                     *)

PlaceOf(r) ==
  IF Findable(r) THEN doc[r].code ELSE IF r \in opened THEN "closed" ELSE None
Places == [r \in Rooms |-> PlaceOf(r)]

LEMMA FoundHere ==
  DirInv /\ LifeInv =>
    \A r \in Rooms : /\ Findable(r) <=> Stored(r) /\ Owns(r)
                     /\ Findable(r) => /\ doc[r].code = claimed[r].code
                                       /\ claimed[r].code \in Codes
                                       /\ codeIndex[claimed[r].code].owner = r
                                       /\ r \in opened
<1> SUFFICES ASSUME DirInv, LifeInv, NEW r \in Rooms
             PROVE  /\ Findable(r) <=> Stored(r) /\ Owns(r)
                    /\ Findable(r) => /\ doc[r].code = claimed[r].code
                                      /\ claimed[r].code \in Codes
                                      /\ codeIndex[claimed[r].code].owner = r
                                      /\ r \in opened
  OBVIOUS
<1>1. Findable(r) <=> Stored(r) /\ Owns(r)
  BY FindIsSo DEF LifeInv, FindIs
<1>2. ASSUME Stored(r), Owns(r)
      PROVE  /\ doc[r].code = claimed[r].code /\ claimed[r].code \in Codes
             /\ codeIndex[claimed[r].code].owner = r /\ r \in opened
  <2>1. LocatorsOf(r) = claimed[r] /\ claimed[r] # NoLocators
    BY <1>2 DEF DirInv, DocsFit
  <2>2. doc[r].code = claimed[r].code /\ claimed[r].code \in Codes
    BY <2>1, ClaimedTyped DEF LocatorsOf
  <2> QED
    BY <1>2, <2>2 DEF Owns, LifeInv, OpenFits
<1> QED
  BY <1>1, <1>2

LEMMA BoardStep ==
  ASSUME DirInv, LifeInv, [Next]_vars
  PROVE  Board!Next
<1>1. DirInv' /\ LifeInv' /\ opened \subseteq opened'
  BY DirInvStep, InviteOnceStep, OpenKept, UsesKept DEF LifeInv
<1>2. (DirInv /\ LifeInv)' =>
        (\A r \in Rooms : /\ Findable(r) <=> Stored(r) /\ Owns(r)
                          /\ Findable(r) => /\ doc[r].code = claimed[r].code
                                            /\ claimed[r].code \in Codes
                                            /\ codeIndex[claimed[r].code].owner = r
                                            /\ r \in opened)'
  BY FoundHere, PTL
<1>3. \A r \in Rooms : /\ Findable(r)' <=> Stored(r)' /\ Owns(r)'
                       /\ Findable(r)' => /\ doc'[r].code = claimed'[r].code
                                          /\ claimed'[r].code \in Codes
                                          /\ codeIndex'[claimed'[r].code].owner = r
                                          /\ r \in opened'
  BY <1>1, <1>2
<1>4. \A r \in Rooms : /\ Findable(r) <=> Stored(r) /\ Owns(r)
                       /\ Findable(r) => /\ doc[r].code = claimed[r].code
                                         /\ claimed[r].code \in Codes
                                         /\ r \in opened
  BY FoundHere
<1>5. UNCHANGED opened \/ NoteOpened
  BY OpenedGrows
<1>6. "closed" \notin Codes /\ None \notin Codes /\ "closed" # None
  BY NoneAssumption
<1>7. ASSUME NEW r \in Rooms
      PROVE  \/ PlaceOf(r)' = PlaceOf(r)
             \/ PlaceOf(r) \in Codes /\ PlaceOf(r)' = "closed"
             \/ \E c \in Codes : /\ PlaceOf(r) = None /\ PlaceOf(r)' = c
                                 /\ \A q \in Rooms \ {r} : PlaceOf(q)' # c
  <2>1. CASE Findable(r) /\ Findable(r)'
    <3>1. claimed[r] # NoLocators
      BY <1>4, <2>1 DEF Owns
    <3>2. claimed'[r] = claimed[r]
      BY <3>1, ClaimedOnce
    <3>3. doc'[r].code = doc[r].code
      BY <1>3, <1>4, <2>1, <3>2
    <3> QED
      BY <2>1, <3>3 DEF PlaceOf
  <2>2. CASE Findable(r) /\ ~Findable(r)'
    <3>1. r \in opened' /\ doc[r].code \in Codes
      BY <1>1, <1>4, <2>2
    <3> QED
      BY <2>2, <3>1 DEF PlaceOf
  <2>3. CASE ~Findable(r) /\ Findable(r)'
    <3>1. r \notin opened
      <4>1. CASE Owns(r)
        BY <1>4, <2>3, <4>1 DEF LifeInv, OpenFits
      <4>2. CASE ~Owns(r)
        <5>1. claimed[r] = NoLocators
          BY <1>3, <2>3, <4>2, OwnsFrom
        <5> QED
          BY <5>1 DEF LifeInv, OpenFits
      <4> QED
        BY <4>1, <4>2
    <3>2. PlaceOf(r) = None /\ PlaceOf(r)' = doc'[r].code /\ doc'[r].code \in Codes
      BY <1>3, <2>3, <3>1 DEF PlaceOf
    <3>3. ASSUME NEW q \in Rooms \ {r}
          PROVE  PlaceOf(q)' # doc'[r].code
      <4>1. CASE Findable(q)'
        BY <1>3, <2>3, <3>3, <4>1 DEF PlaceOf
      <4>2. CASE ~Findable(q)'
        BY <1>6, <3>2, <4>2 DEF PlaceOf
      <4> QED
        BY <4>1, <4>2
    <3> QED
      BY <3>2, <3>3
  <2>4. CASE ~Findable(r) /\ ~Findable(r)'
    <3>1. r \in opened <=> r \in opened'
      BY <1>5, <2>4 DEF NoteOpened
    <3> QED
      BY <2>4, <3>1 DEF PlaceOf
  <2> QED
    BY <2>1, <2>2, <2>3, <2>4
<1>8. \A r \in Rooms : Places[r] = PlaceOf(r) /\ Places'[r] = PlaceOf(r)'
  BY DEF Places
<1>9. ASSUME NEW r \in Rooms
      PROVE  \/ Places'[r] = Places[r]
             \/ Places[r] \in Codes /\ Places'[r] = "closed"
             \/ \E c \in Codes : /\ Places[r] = None /\ Places'[r] = c
                                 /\ \A q \in Rooms \ {r} : Places'[q] # c
  BY <1>7, <1>8
<1> QED
  BY <1>9 DEF Board!Next, Board!Stays, Board!Closes, Board!OpensUnder, Places, PlaceOf

(* Refinement: seen by those who look rooms up, the directory with its     *)
(* expiring keys, claims, failing calls and restarts opens every room at   *)
(* most once, under a code no other open room has, which it keeps until    *)
(* the room is gone for good.                                              *)
THEOREM DirectoryIsBoard == Spec => OpensOnce
<1>1. Init => Board!Init
  <2> SUFFICES ASSUME Init
               PROVE  Board!Init
    OBVIOUS
  <2>1. \A r \in Rooms : ~Findable(r) /\ r \notin opened
    BY DEF Init, Findable, Stored
  <2> QED
    BY <2>1 DEF Board!Init
<1>2. DirInv /\ LifeInv /\ [Next]_vars => Board!Next
  BY BoardStep
<1>3. DirInv /\ LifeInv /\ [Next]_vars => [Board!Next]_Places
  BY <1>2
<1> QED
  BY <1>1, <1>3, DirInvHolds, LifeInvHolds, PTL DEF Spec, OpensOnce, Board!Spec, Places, PlaceOf

-----------------------------------------------------------------------------
(* A room in use.                                                          *)

(* The places from the claim of the locators to the end of the creation.   *)
FreshPlaces == {"mark", "saveRoom", "finish"}

(* A room in use has its locators for as long as it will be in use.        *)
InUseFits ==
  \A r \in Rooms : inUse[r] > 0 => Stored(r) /\ Owns(r) /\ inUse[r] <= TtlOf(r)

(* So has a room that is being created, until the host may have it.        *)
FreshFits ==
  \A s \in Slots :
    op[s].pc \in FreshPlaces /\ op[s].age < RoomTtl =>
      Owns(op[s].room) /\ TtlOf(op[s].room) >= RoomTtl - op[s].age

NotYetInUse == \A s \in Slots : op[s].pc \in CreatePlaces => inUse[op[s].room] = 0

UseInv == InUseFits /\ FreshFits /\ NotYetInUse

(* Why a room is in use after a step.                                      *)
StaysInUse(r) == inUse'[r] \in {inUse[r], Less(inUse[r])}
IsUsedAgain(r) == inUse[r] > 0 /\ Owns(r)' /\ TtlOf(r)' = RoomTtl /\ inUse'[r] = RoomTtl
IsHandedOver(r) ==
  \E s \in Slots :
    /\ op[s].pc = "finish" /\ op[s].room = r /\ op'[s] = Idle
    /\ inUse'[r] = RoomTtl - op[s].age
    /\ UNCHANGED <<codeIndex, claimed>>

LEMMA RenewsOwn ==
  ASSUME DirInv, NEW r \in Rooms, OwnsBoth(r, claimed[r]), claimed' = claimed,
         codeIndex' = [codeIndex EXCEPT ![claimed[r].code] = Owned(r)]
  PROVE  Owns(r)' /\ TtlOf(r)' = RoomTtl
<1>1. codeIndex \in [Codes -> Keys] /\ claimed[r] # NoLocators
  BY DEF DirInv, TypeOK, OwnsBoth
<1>2. codeIndex'[claimed[r].code] = Owned(r)
  BY <1>1, ClaimedTyped
<1> QED
  BY <1>1, <1>2, Unlike DEF Owns, TtlOf

LEMMA InUseFrom ==
  ASSUME DirInv, [Next]_vars, NEW r \in Rooms
  PROVE  StaysInUse(r) \/ IsUsedAgain(r) \/ IsHandedOver(r)
<1>1. /\ inUse \in [Rooms -> 0..RoomTtl] /\ op \in [Slots -> Handlers] /\ TypeOK
      /\ RoomTtl \in Nat
  BY TtlAssumption DEF DirInv, TypeOK
<1>2. CASE inUse' = inUse
  BY <1>2 DEF StaysInUse
<1>3. ASSUME NEW q \in Rooms, inUse' = Kept(q), OwnsBoth(q, claimed[q]), claimed' = claimed,
             codeIndex' = [codeIndex EXCEPT ![claimed[q].code] = Owned(q)]
      PROVE  StaysInUse(r) \/ IsUsedAgain(r)
  <2>1. inUse' = [inUse EXCEPT ![q] = IF inUse[q] > 0 THEN RoomTtl ELSE 0]
    BY <1>3 DEF Kept
  <2>2. Owns(q)' /\ TtlOf(q)' = RoomTtl
    BY <1>3, RenewsOwn
  <2>3. CASE q = r /\ inUse[q] > 0
    BY <1>1, <2>1, <2>2, <2>3 DEF IsUsedAgain
  <2>4. CASE ~(q = r /\ inUse[q] > 0)
    <3>1. inUse'[r] = inUse[r]
      BY <1>1, <2>1, <2>4
    <3> QED
      BY <3>1 DEF StaysInUse
  <2> QED
    BY <2>3, <2>4
<1>4. ASSUME NEW s \in Slots, FinishCreate(s)
      PROVE  StaysInUse(r) \/ IsHandedOver(r)
  <2>1. /\ op[s].pc = "finish" /\ op'[s] = Idle /\ UNCHANGED <<codeIndex, claimed>>
        /\ inUse' = [inUse EXCEPT ![op[s].room] = RoomTtl - op[s].age]
    BY <1>1, <1>4 DEF FinishCreate, At, Done, index
  <2>2. CASE op[s].room = r
    BY <1>1, <2>1, <2>2 DEF IsHandedOver
  <2>3. CASE op[s].room # r
    BY <1>1, <2>1, <2>3 DEF StaysInUse
  <2> QED
    BY <2>2, <2>3
<1>5. ASSUME NEW s \in Slots, Refresh(s)
      PROVE  StaysInUse(r) \/ IsUsedAgain(r)
  <2> DEFINE q == op[s].room
  <2>1. op[s].pc \in HoldsPlaces /\ claimed' = claimed
    BY <1>5 DEF Refresh, At, HoldsPlaces, UsePlaces
  <2>2. q \in Rooms /\ op[s].at = claimed[q]
    BY <2>1, HoldsItsLocators
  <2>3. \/ inUse' = inUse
        \/ /\ OwnsBoth(q, claimed[q]) /\ inUse' = Kept(q)
           /\ codeIndex' = [codeIndex EXCEPT ![claimed[q].code] = Owned(q)]
    BY <1>5, <2>2 DEF Refresh, RefreshLocators, SetLocators
  <2>4. CASE inUse' = inUse
    BY <2>4 DEF StaysInUse
  <2>5. CASE /\ OwnsBoth(q, claimed[q]) /\ inUse' = Kept(q)
             /\ codeIndex' = [codeIndex EXCEPT ![claimed[q].code] = Owned(q)]
    BY <1>3, <2>1, <2>2, <2>5
  <2> QED
    BY <2>3, <2>4, <2>5
<1>6. ASSUME NEW q \in Rooms, RecoverRoom(q)
      PROVE  StaysInUse(r) \/ IsUsedAgain(r)
  <2>1. \/ inUse' = inUse
        \/ /\ Stored(q) /\ OwnsBoth(q, LocatorsOf(q)) /\ inUse' = Kept(q) /\ claimed' = claimed
           /\ codeIndex' = [codeIndex EXCEPT ![doc[q].code] = Owned(q)]
    BY <1>6 DEF RecoverRoom, SetLocators, LocatorsOf
  <2>2. Stored(q) => LocatorsOf(q) = claimed[q] /\ doc[q].code = LocatorsOf(q).code
    BY DEF DirInv, DocsFit, LocatorsOf
  <2>3. \/ inUse' = inUse
        \/ /\ OwnsBoth(q, claimed[q]) /\ inUse' = Kept(q) /\ claimed' = claimed
           /\ codeIndex' = [codeIndex EXCEPT ![claimed[q].code] = Owned(q)]
    BY <2>1, <2>2
  <2>4. CASE inUse' = inUse
    BY <2>4 DEF StaysInUse
  <2>5. CASE /\ OwnsBoth(q, claimed[q]) /\ inUse' = Kept(q) /\ claimed' = claimed
             /\ codeIndex' = [codeIndex EXCEPT ![claimed[q].code] = Owned(q)]
    BY <1>3, <2>5
  <2> QED
    BY <2>3, <2>4, <2>5
<1>7. CASE Tick
  BY <1>7 DEF Tick, StaysInUse
<1>8. ASSUME NEW s \in Slots,
             \/ BeginCreate(s) \/ Claim(s) \/ Mark(s) \/ SaveNewRoom(s) \/ Release(s)
             \/ BeginUse(s) \/ Swap(s) \/ Touch(s) \/ Fail(s)
      PROVE  inUse' = inUse
  BY <1>8 DEF BeginCreate, Claim, Mark, SaveNewRoom, Release, BeginUse, Swap, Touch, Fail,
              ghosts
<1>9. CASE \/ \E q \in Rooms : WriteInRoom(q)
           \/ Restart \/ RecoveryFails \/ RecoveryEnds \/ UNCHANGED vars
  BY <1>2, <1>9 DEF WriteInRoom, Restart, RecoveryFails, RecoveryEnds, vars, ghosts
<1> QED
  BY <1>2, <1>4, <1>5, <1>6, <1>7, <1>8, <1>9 DEF Next

(* The locators a claim takes live for as long as they can.                *)
LEMMA ClaimLasts ==
  ASSUME DirInv, NEW s \in Slots, StepClaim(s)
  PROVE  \A r : r = op[s].room => Owns(r)' /\ TtlOf(r)' = RoomTtl
<1>1. PICK c \in Codes, h \in Hashes :
        LET q == op[s].room
        IN /\ q \in Rooms
           /\ codeIndex' = [codeIndex EXCEPT ![c] = Owned(q)]
           /\ claimed' = [claimed EXCEPT ![q] = [code |-> c, invite |-> h]]
  BY ClaimTakes
<1>2. /\ codeIndex \in [Codes -> Keys] /\ claimed \in [Rooms -> Locators]
  BY DEF DirInv, TypeOK
<1> SUFFICES ASSUME NEW r, r = op[s].room
             PROVE  Owns(r)' /\ TtlOf(r)' = RoomTtl
  OBVIOUS
<1>3. claimed'[r] = [code |-> c, invite |-> h] /\ codeIndex'[c] = Owned(r) /\ r \in Rooms
  BY <1>1, <1>2
<1>4. claimed'[r] # NoLocators
  BY <1>3, Unlike DEF Pair
<1> QED
  BY <1>3, <1>4, Unlike DEF Owns, TtlOf

(* Nobody releases the locators of a room in use.                          *)
LEMMA InUseKept ==
  ASSUME DirInv, LifeInv, UseInv, [Next]_vars
  PROVE  InUseFits'
<1>1. OpenFits' /\ opened \subseteq opened'
  BY OpenKept
<1> SUFFICES ASSUME NEW r \in Rooms, inUse'[r] > 0
             PROVE  Stored(r)' /\ Owns(r)' /\ inUse'[r] <= TtlOf(r)'
  BY DEF InUseFits, Owns, TtlOf, Stored
<1>2. /\ inUse[r] \in 0..RoomTtl /\ RoomTtl \in Nat /\ inUse'[r] \in 0..RoomTtl
      /\ Owns(r) => TtlOf(r) \in 0..RoomTtl
  BY TtlTyped, DirInvStep DEF DirInv, TypeOK
<1>3. inUse[r] > 0 => Stored(r) /\ Owns(r) /\ inUse[r] <= TtlOf(r) /\ claimed[r] # NoLocators
  BY DEF UseInv, InUseFits, Owns
<1>4. RoomStep(r)
  BY RoomSteps
<1>5. StaysInUse(r) \/ IsUsedAgain(r) \/ IsHandedOver(r)
  BY InUseFrom
<1>6. ASSUME Owns(r)', inUse'[r] <= TtlOf(r)', r \in opened
      PROVE  Stored(r)' /\ Owns(r)' /\ inUse'[r] <= TtlOf(r)'
  BY <1>1, <1>6 DEF OpenFits, Owns, TtlOf, Stored
<1>7. Stored(r) /\ Owns(r) => r \in opened
  BY DEF LifeInv, OpenFits
<1>8. CASE StaysInUse(r)
  <2>1. inUse[r] > 0 /\ inUse'[r] <= inUse[r]
    BY <1>2, <1>8 DEF StaysInUse, Less
  <2>2. Stored(r) /\ Owns(r) /\ inUse[r] <= TtlOf(r) /\ claimed[r] # NoLocators
    BY <1>3, <2>1
  <2>3. ~RoomDrops(r)
    <3>1. ASSUME NEW s \in Slots, StepDrop(s), op[s].room = r
          PROVE  FALSE
      <4>1. op[s].pc \in CreatePlaces
        BY <3>1 DEF StepDrop, CreatePlaces
      <4> QED
        BY <2>1, <3>1, <4>1 DEF UseInv, NotYetInUse
    <3> QED
      BY <3>1 DEF RoomDrops
  <2>4. CASE RoomStays(r) \/ RoomIsWritten(r)
    <3>1. Owns(r)' /\ TtlOf(r)' = TtlOf(r)
      BY <2>2, <2>4 DEF RoomStays, RoomIsWritten, SameLocators
    <3> QED
      BY <1>2, <1>6, <1>7, <2>1, <2>2, <3>1
  <2>5. CASE RoomRenews(r)
    <3>1. Owns(r)' /\ TtlOf(r)' = RoomTtl
      BY <2>5 DEF RoomRenews
    <3> QED
      BY <1>2, <1>6, <1>7, <2>1, <2>2, <3>1
  <2>6. CASE RoomAges(r)
    <3>1. inUse'[r] = Less(inUse[r])
      BY <2>6 DEF RoomAges, StepAge
    <3>2. inUse'[r] = inUse[r] - 1 /\ TtlOf(r) > 1
      BY <1>2, <2>1, <2>2, <3>1 DEF Less
    <3>3. Owns(r)' /\ TtlOf(r)' = TtlOf(r) - 1
      BY <2>2, <2>6, <3>2 DEF RoomAges
    <3> QED
      BY <1>2, <1>6, <1>7, <2>2, <3>2, <3>3
  <2> QED
    BY <1>4, <2>2, <2>3, <2>4, <2>5, <2>6 DEF RoomStep, RoomClaims
<1>9. CASE IsUsedAgain(r)
  <2>1. inUse[r] > 0 /\ Owns(r)' /\ TtlOf(r)' = RoomTtl /\ inUse'[r] = RoomTtl
    BY <1>9 DEF IsUsedAgain
  <2> QED
    BY <1>2, <1>3, <1>6, <1>7, <2>1
<1>10. CASE IsHandedOver(r)
  <2>1. PICK s \in Slots :
          /\ op[s].pc = "finish" /\ op[s].room = r
          /\ inUse'[r] = RoomTtl - op[s].age
          /\ UNCHANGED <<codeIndex, claimed>>
    BY <1>10 DEF IsHandedOver
  <2>2. op[s].age \in 0..RequestTicks /\ RequestTicks \in Nat
    BY <2>1, OpTyped, TtlAssumption DEF DirInv
  <2>3. op[s].age < RoomTtl
    BY <1>2, <2>1, <2>2
  <2>4. Owns(r) /\ TtlOf(r) >= RoomTtl - op[s].age
    BY <2>1, <2>3 DEF UseInv, FreshFits, FreshPlaces
  <2>5. r \in opened
    BY <2>1, <2>4 DEF LifeInv, UsesOpened
  <2>6. Owns(r)' /\ TtlOf(r)' = TtlOf(r)
    BY <2>1, <2>4, UntouchedRoom DEF SameLocators
  <2> QED
    BY <1>2, <1>6, <2>1, <2>2, <2>4, <2>5, <2>6
<1> QED
  BY <1>5, <1>8, <1>9, <1>10

(* A creation that is under way keeps what it claimed.                     *)
LEMMA FreshKept ==
  ASSUME DirInv, UseInv, [Next]_vars
  PROVE  FreshFits'
<1> SUFFICES ASSUME NEW t \in Slots, op'[t].pc \in FreshPlaces, op'[t].age < RoomTtl,
                    NEW r, r = op'[t].room
             PROVE  Owns(r)' /\ TtlOf(r)' >= RoomTtl - op'[t].age
  BY DEF FreshFits, Owns, TtlOf
<1>1. /\ "idle" \notin FreshPlaces /\ "claim" \notin FreshPlaces
      /\ FreshPlaces \subseteq CreatePlaces /\ FreshPlaces \subseteq HoldsPlaces
      /\ "release" \notin FreshPlaces /\ FreshPlaces \cap UsePlaces = {}
  BY DEF FreshPlaces, CreatePlaces, HoldsPlaces, UsePlaces
<1>2. /\ r \in Rooms
      /\ \/ op'[t] = op[t] /\ op[t].pc # "idle"
         \/ GrowsOld(t) \/ Creates(t) \/ Finds(t) \/ Goes(t)
  BY <1>1, OpFrom DEF DirInv
<1>3. op'[t].age \in 0..RequestTicks /\ RequestTicks \in Nat /\ RoomTtl \in Nat
  <2>1. op'[t] \in Handlers /\ op'[t] # Idle
    BY <1>1, OpKept DEF DirInv, Idle
  <2> QED
    BY <2>1, TtlAssumption DEF Handlers
<1>4. ASSUME op[t].pc \in FreshPlaces, op[t].room = r, op[t].age <= op'[t].age
      PROVE  Owns(r)' /\ TtlOf(r)' >= RoomTtl - op'[t].age
  <2>1. op[t].age \in 0..RequestTicks
    BY <1>1, <1>4, OpTyped DEF DirInv
  <2>2. Owns(r) /\ TtlOf(r) >= RoomTtl - op[t].age
    BY <1>3, <1>4, <2>1 DEF UseInv, FreshFits
  <2>3. TtlOf(r) \in 0..RoomTtl /\ claimed[r] # NoLocators
    BY <1>2, <2>2, TtlTyped DEF Owns
  <2>4. ~RoomDrops(r)
    <3>1. ASSUME NEW s \in Slots, StepDrop(s), op[s].room = r
          PROVE  FALSE
      <4>1. op[s].pc \in CreatePlaces /\ s # t
        BY <1>1, <1>4, <3>1 DEF StepDrop, CreatePlaces
      <4> QED
        BY <1>1, <1>4, <3>1, <4>1 DEF DirInv, ClaimsFit
    <3> QED
      BY <3>1 DEF RoomDrops
  <2>5. CASE RoomStays(r) \/ RoomIsWritten(r)
    <3>1. Owns(r)' /\ TtlOf(r)' = TtlOf(r)
      BY <2>2, <2>5 DEF RoomStays, RoomIsWritten, SameLocators
    <3> QED
      BY <1>3, <1>4, <2>1, <2>2, <2>3, <3>1
  <2>6. CASE RoomRenews(r)
    <3>1. Owns(r)' /\ TtlOf(r)' = RoomTtl
      BY <2>6 DEF RoomRenews
    <3> QED
      BY <1>3, <3>1
  <2>7. CASE RoomAges(r)
    <3>1. op'[t] = [op[t] EXCEPT !.age = @ + 1]
      BY <1>1, <1>4, <2>7 DEF RoomAges, StepAge, Ages
    <3>2. op[t] \in [pc : CreatePlaces \cup UsePlaces, room : Rooms, at : Locators,
                     tries : 0..MaxAttempts - 1, age : 0..RequestTicks, moves : BOOLEAN]
      BY <1>1, <1>4, OpTyped DEF DirInv
    <3>3. op'[t].age = op[t].age + 1
      BY <3>1, <3>2
    <3>4. TtlOf(r) > 1
      BY <1>3, <2>1, <2>2, <2>3, <3>3
    <3>5. Owns(r)' /\ TtlOf(r)' = TtlOf(r) - 1
      BY <2>2, <2>7, <3>4 DEF RoomAges
    <3> QED
      BY <1>3, <2>1, <2>2, <2>3, <3>3, <3>5
  <2> QED
    BY <1>2, <2>3, <2>4, <2>5, <2>6, <2>7, RoomSteps DEF RoomStep, RoomClaims
<1>5. CASE op'[t] = op[t] /\ op[t].pc # "idle"
  BY <1>3, <1>4, <1>5
<1>6. CASE GrowsOld(t)
  <2>1. op[t].age \in 0..RequestTicks
    BY <1>6, OpTyped DEF GrowsOld, DirInv
  <2> QED
    BY <1>3, <1>4, <1>6, <2>1 DEF GrowsOld
<1>7. CASE Creates(t) \/ Finds(t)
  BY <1>1, <1>7 DEF Creates, Finds, UsePlaces
<1>8. CASE Goes(t)
  <2>1. op'[t].room = op[t].room /\ op'[t].age = op[t].age
    BY <1>8 DEF Goes, SameRoom
  <2>2. CASE StepClaim(t)
    <3>1. Owns(r)' /\ TtlOf(r)' = RoomTtl
      BY <2>1, <2>2, ClaimLasts
    <3> QED
      BY <1>3, <3>1
  <2>3. CASE <<op[t].pc, op'[t].pc>> \in Ways
    <3>1. op[t].pc \in FreshPlaces
      BY <1>1, <2>3 DEF Ways, FreshPlaces
    <3> QED
      BY <1>3, <1>4, <2>1, <3>1
  <2> QED
    BY <1>1, <1>8, <2>2, <2>3 DEF Goes
<1> QED
  BY <1>2, <1>5, <1>6, <1>7, <1>8

LEMMA NotYetKept ==
  ASSUME DirInv, UseInv, [Next]_vars
  PROVE  NotYetInUse'
<1> SUFFICES ASSUME NEW t \in Slots, op'[t].pc \in CreatePlaces, NEW r, r = op'[t].room
             PROVE  inUse'[r] = 0
  BY DEF NotYetInUse
<1>1. "idle" \notin CreatePlaces /\ UsePlaces \cap CreatePlaces = {} /\ "finish" \in CreatePlaces
      /\ Idle.pc = "idle"
  BY DEF CreatePlaces, UsePlaces, Idle
<1>2. /\ r \in Rooms
      /\ \/ op'[t] = op[t] /\ op[t].pc # "idle"
         \/ GrowsOld(t) \/ Creates(t) \/ Finds(t) \/ Goes(t)
  BY <1>1, OpFrom DEF DirInv
<1>3. CASE Creates(t)
  <2>1. claimed[r] = NoLocators /\ inUse' = inUse
    BY <1>2, <1>3 DEF Creates, Known, ghosts
  <2>2. ~Owns(r)
    BY <2>1 DEF Owns
  <2>3. ~(inUse[r] > 0) /\ inUse[r] \in 0..RoomTtl
    BY <1>2, <2>2 DEF UseInv, InUseFits, DirInv, TypeOK
  <2> QED
    BY <2>1, <2>3, TtlAssumption
<1>4. CASE op[t].pc \in CreatePlaces /\ op[t].room = r
  <2>1. inUse[r] = 0
    BY <1>4 DEF UseInv, NotYetInUse
  <2>2. ~IsUsedAgain(r)
    BY <2>1 DEF IsUsedAgain
  <2>3. ~IsHandedOver(r)
    <3>1. ASSUME NEW s \in Slots, op[s].pc = "finish", op[s].room = r, op'[s] = Idle
          PROVE  FALSE
      <4>1. s # t
        BY <1>1, <3>1
      <4> QED
        BY <1>1, <1>4, <3>1, <4>1 DEF DirInv, ClaimsFit
    <3> QED
      BY <3>1 DEF IsHandedOver
  <2>4. StaysInUse(r)
    BY <1>2, <2>2, <2>3, InUseFrom
  <2> QED
    BY <2>1, <2>4 DEF StaysInUse, Less
<1>5. CASE op'[t] = op[t] \/ GrowsOld(t)
  BY <1>4, <1>5 DEF GrowsOld
<1>6. CASE Finds(t)
  BY <1>1, <1>6 DEF Finds, UsePlaces
<1>7. CASE Goes(t)
  <2>1. op'[t].room = op[t].room
    BY <1>7 DEF Goes, SameRoom
  <2>2. op[t].pc \in CreatePlaces
    BY <1>1, <1>7 DEF Goes, Ways, CreatePlaces
  <2> QED
    BY <1>4, <2>1, <2>2
<1> QED
  BY <1>2, <1>3, <1>5, <1>6, <1>7

(* The invariant of the rooms in use.                                      *)
THEOREM UseInvHolds == Spec => []UseInv
<1>1. Init => UseInv
  BY DEF Init, UseInv, InUseFits, FreshFits, NotYetInUse, Idle, FreshPlaces, CreatePlaces
<1>2. DirInv /\ LifeInv /\ UseInv /\ [Next]_vars => UseInv'
  BY InUseKept, FreshKept, NotYetKept DEF UseInv
<1> QED
  BY <1>1, <1>2, DirInvHolds, LifeInvHolds, PTL DEF Spec

(* Whatever other handlers do, and whatever fails: a room that its host    *)
(* has, and that is used again in time, is found by its code and invite.   *)
THEOREM InUseIsFound == Spec => []InUseIsFindable
<1>1. DirInv /\ LifeInv /\ UseInv => InUseIsFindable
  BY FindIsSo DEF LifeInv, FindIs, UseInv, InUseFits, InUseIsFindable
<1> QED
  BY <1>1, DirInvHolds, LifeInvHolds, UseInvHolds, PTL

-----------------------------------------------------------------------------
(* A code that is taken is taken care of.                                  *)

CarePlaces == {"mark", "saveRoom", "release"}
Cared(r) ==
  \/ Stored(r) \/ r \in wrecked
  \/ \E s \in Slots : op[s].pc \in CarePlaces /\ op[s].room = r
CareInv == \A r \in Rooms : Owns(r) => Cared(r)

LEMMA WreckedGrows ==
  ASSUME [Next]_vars
  PROVE  wrecked \subseteq wrecked'
<1>1. ASSUME NEW s \in Slots,
             \/ BeginCreate(s) \/ Claim(s) \/ Mark(s) \/ SaveNewRoom(s) \/ FinishCreate(s)
             \/ Release(s) \/ BeginUse(s) \/ Swap(s) \/ Touch(s) \/ Refresh(s) \/ Fail(s)
      PROVE  wrecked \subseteq wrecked'
  BY <1>1 DEF BeginCreate, Claim, Mark, SaveNewRoom, FinishCreate, Release, BeginUse, Swap,
              Touch, Refresh, Fail, ghosts
<1>2. CASE \/ \E r \in Rooms : WriteInRoom(r) \/ RecoverRoom(r)
           \/ Restart \/ RecoveryFails \/ RecoveryEnds \/ Tick \/ UNCHANGED vars
  BY <1>2 DEF WriteInRoom, RecoverRoom, Restart, RecoveryFails, RecoveryEnds, Tick, vars,
              ghosts
<1> QED
  BY <1>1, <1>2 DEF Next

(* A creation that ends before the room is saved releases the locators, or *)
(* leaves a wreck.                                                         *)
LEMMA CareEnds ==
  ASSUME TypeOK, [Next]_vars, NEW s \in Slots, op[s].pc \in CarePlaces, op'[s] = Idle
  PROVE  Release(s) \/ op[s].room \in wrecked'
<1>1. op[s].pc # "idle" /\ op[s] # Idle /\ op \in [Slots -> Handlers]
  BY DEF CarePlaces, Idle, TypeOK
<1>9. op[s] \in [pc : CreatePlaces \cup UsePlaces, room : Rooms, at : Locators,
                tries : 0..MaxAttempts - 1, age : 0..RequestTicks, moves : BOOLEAN]
  BY <1>1, OpTyped
<1>2. ASSUME NEW t \in Slots, t # s,
             \/ BeginCreate(t) \/ Claim(t) \/ Mark(t) \/ SaveNewRoom(t) \/ FinishCreate(t)
             \/ Release(t) \/ BeginUse(t) \/ Swap(t) \/ Touch(t) \/ Refresh(t) \/ Fail(t)
      PROVE  op'[s] = op[s]
  BY <1>1, <1>2 DEF BeginCreate, Claim, Mark, SaveNewRoom, FinishCreate, Release, BeginUse, Swap,
              Touch, Refresh, Fail, AfterFailure, Done, Goto
<1>3. CASE \/ BeginCreate(s) \/ Claim(s) \/ FinishCreate(s) \/ BeginUse(s) \/ Swap(s)
           \/ Touch(s) \/ Refresh(s)
  BY <1>3 DEF BeginCreate, Claim, FinishCreate, BeginUse, Swap, Touch, Refresh, At, CarePlaces
<1>4. CASE Mark(s) \/ SaveNewRoom(s)
  <2>1. op'[s].pc \in {"saveRoom", "finish"}
    BY <1>1, <1>4, <1>9 DEF Mark, SaveNewRoom, Goto
  <2> QED
    BY <2>1 DEF Idle
<1>5. CASE Fail(s)
  <2>1. CASE op[s].pc = "saveRoom"
    <3>1. op'[s].pc = "release"
      BY <1>1, <1>5, <1>9, <2>1 DEF Fail, AfterFailure, At, Goto
    <3> QED
      BY <3>1 DEF Idle
  <2>2. CASE op[s].pc \in {"mark", "release"}
    BY <1>5, <2>2 DEF Fail
  <2> QED
    BY <2>1, <2>2 DEF CarePlaces
<1>6. CASE Restart
  BY <1>6 DEF Restart, Wrecks, CarePlaces
<1>7. CASE Tick
  <2>1. op'[s] = [op[s] EXCEPT !.age = @ + 1]
    BY <1>1, <1>7 DEF Tick, At
  <2>2. op'[s].pc = op[s].pc
    BY <1>1, <2>1, OpTyped
  <2> QED
    BY <1>1, <2>2 DEF Idle
<1>8. CASE \/ \E r \in Rooms : WriteInRoom(r) \/ RecoverRoom(r)
           \/ RecoveryFails \/ RecoveryEnds \/ UNCHANGED vars
  BY <1>1, <1>8 DEF WriteInRoom, RecoverRoom, RecoveryFails, RecoveryEnds, vars
<1> QED
  BY <1>1, <1>2, <1>3, <1>4, <1>5, <1>6, <1>7, <1>8 DEF Next

(* Locators just claimed are in the hands of the creation that claimed     *)
(* them, or its failure has been noted.                                    *)
LEMMA ClaimCares ==
  ASSUME DirInv, [Next]_vars, NEW r \in Rooms, Owns(r)', ~Owns(r)
  PROVE  Cared(r)'
<1>1. claimed[r] = NoLocators /\ claimed'[r] # NoLocators
  BY OwnsFrom DEF Owns
<1>2. claimed' # claimed /\ op \in [Slots -> Handlers] /\ claimed \in [Rooms -> Locators]
  BY <1>1 DEF DirInv, TypeOK
<1>3. PICK s \in Slots : Claim(s) \/ Fail(s)
  BY <1>2 DEF Next, vars, ghosts, BeginCreate, Mark, SaveNewRoom, FinishCreate, Release,
              BeginUse, Swap, Touch, Refresh, WriteInRoom, RecoverRoom, Restart, RecoveryFails,
              RecoveryEnds, Tick
<1>4. CASE Claim(s)
  <2>1. PICK c \in Codes :
          \E i \in Drawn :
            LET q == op[s].room
                h == <<i, pepper>>
            IN IF ClaimConflict(q, c, h) = "none"
               THEN /\ Claims(s, c, h)
                    /\ op' = [op EXCEPT ![s].pc = "mark",
                                        ![s].at = [code |-> c, invite |-> h]]
               ELSE claimed' = claimed
    BY <1>4 DEF Claim
  <2>2. PICK i \in Drawn :
            LET q == op[s].room
                h == <<i, pepper>>
            IN IF ClaimConflict(q, c, h) = "none"
               THEN /\ Claims(s, c, h)
                    /\ op' = [op EXCEPT ![s].pc = "mark",
                                        ![s].at = [code |-> c, invite |-> h]]
               ELSE claimed' = claimed
    BY <2>1
  <2>3. /\ claimed' = [claimed EXCEPT ![op[s].room] = [code |-> c, invite |-> <<i, pepper>>]]
        /\ op' = [op EXCEPT ![s].pc = "mark", ![s].at = [code |-> c, invite |-> <<i, pepper>>]]
    BY <1>2, <2>2 DEF Claims
  <2>4. op[s].room = r
    BY <1>1, <1>2, <2>3
  <2>5. op[s].pc = "claim"
    BY <1>4 DEF Claim, At
  <2>6. op[s] \in [pc : CreatePlaces \cup UsePlaces, room : Rooms, at : Locators,
                   tries : 0..MaxAttempts - 1, age : 0..RequestTicks, moves : BOOLEAN]
    BY <2>5, OpTyped DEF DirInv
  <2>7. op'[s].pc = "mark" /\ op'[s].room = r
    BY <1>2, <2>3, <2>4, <2>6
  <2> QED
    BY <2>7 DEF Cared, CarePlaces
<1>5. CASE Fail(s)
  <2>1. op[s].pc = "claim" /\ \E l : claimed' = [claimed EXCEPT ![op[s].room] = l]
    BY <1>2, <1>5 DEF Fail, Effect, At, Claims
  <2>2. op[s].room = r
    BY <1>1, <1>2, <2>1
  <2>3. r \in wrecked'
    BY <1>5, <2>1, <2>2 DEF Fail
  <2> QED
    BY <2>3 DEF Cared
<1> QED
  BY <1>3, <1>4, <1>5

LEMMA CareKept ==
  ASSUME DirInv, LifeInv, CareInv, [Next]_vars
  PROVE  CareInv'
<1>1. OpenFits' /\ opened \subseteq opened' /\ wrecked \subseteq wrecked' /\ OpStep
  BY OpenKept, WreckedGrows, OpSteps DEF DirInv
<1> SUFFICES ASSUME NEW r \in Rooms, Owns(r)'
             PROVE  Cared(r)'
  BY DEF CareInv, Owns, Cared, Stored
<1>2. CASE ~Owns(r)
  BY <1>2, ClaimCares
<1>3. CASE Owns(r) /\ Stored(r)
  <2>1. r \in opened'
    BY <1>1, <1>3 DEF LifeInv, OpenFits
  <2>2. Stored(r)'
    BY <1>1, <2>1 DEF OpenFits, Owns, Stored
  <2> QED
    BY <2>2 DEF Cared
<1>4. CASE r \in wrecked
  BY <1>1, <1>4 DEF Cared
<1>5. ASSUME Owns(r), NEW s \in Slots, op[s].pc \in CarePlaces, op[s].room = r
      PROVE  Cared(r)'
  <2>1. op[s].pc # "idle" /\ op[s].pc \in HoldsPlaces /\ op[s].pc # "claim"
    BY <1>5 DEF CarePlaces, HoldsPlaces, CreatePlaces
  <2>2. op[s].at = claimed[r] /\ op[s].at \in Pair
    BY <1>5, <2>1, HoldsItsLocators
  <2>3. CASE op'[s] = Idle
    <3>1. ~Release(s)
      <4>1. ASSUME Release(s)
            PROVE  FALSE
        <5>1. DropLocators(r, claimed[r]) /\ claimed' = claimed
          BY <1>5, <2>2, <4>1 DEF Release, ghosts
        <5>2. /\ claimed[r] # NoLocators /\ codeIndex[claimed[r].code].owner = r
              /\ claimed[r].code \in Codes /\ codeIndex \in [Codes -> Keys]
          BY <1>5, ClaimedTyped DEF Owns, DirInv, TypeOK
        <5>3. inviteIndex[claimed[r].invite].owner = r
          BY <5>2 DEF DirInv, Paired
        <5>4. codeIndex' = [codeIndex EXCEPT ![claimed[r].code] = Free]
          BY <5>1, <5>2, <5>3 DEF DropLocators, OwnsBoth
        <5>5. codeIndex'[claimed[r].code].owner # r
          BY <5>2, <5>4, Unlike
        <5> QED
          BY <5>1, <5>5 DEF Owns
      <4> QED
        BY <4>1
    <3> QED
      BY <1>5, <2>3, <3>1, CareEnds DEF Cared, DirInv
  <2>4. ASSUME op'[s].pc \in CarePlaces, op'[s].room = r
        PROVE  Cared(r)'
    BY <2>4 DEF Cared
  <2>5. CASE op'[s] # Idle
    <3>1. op'[s].pc # "idle"
      <4>1. op'[s] \in Handlers
        BY OpKept DEF DirInv
      <4>2. "idle" \notin CreatePlaces \cup UsePlaces
        BY DEF CreatePlaces, UsePlaces
      <4> QED
        BY <2>5, <4>1, <4>2 DEF Handlers
    <3>2. \/ op'[s] = op[s] \/ GrowsOld(s) \/ Goes(s)
      BY <2>1, <3>1, OpFrom DEF DirInv, Creates, Finds
    <3>3. CASE op'[s] = op[s] \/ GrowsOld(s)
      BY <1>5, <2>4, <3>3 DEF GrowsOld
    <3>4. CASE Goes(s)
      <4>1. op'[s].room = r /\ <<op[s].pc, op'[s].pc>> \in Ways
        BY <1>5, <2>1, <3>4 DEF Goes, SameRoom
      <4>2. CASE op'[s].pc = "finish"
        <5>1. doc'[r] = RoomDoc(op[s].at)
          BY <1>5, <2>1, <3>4, <4>2 DEF Goes
        <5>2. Stored(r)'
          BY <2>2, <5>1, Unlike DEF Stored
        <5> QED
          BY <5>2 DEF Cared
      <4>3. CASE op'[s].pc # "finish"
        BY <1>5, <2>4, <4>1, <4>3 DEF Ways, CarePlaces
      <4> QED
        BY <4>2, <4>3
    <3> QED
      BY <3>2, <3>3, <3>4
  <2> QED
    BY <2>3, <2>5
<1>6. Owns(r) => Cared(r)
  BY DEF CareInv
<1> QED
  BY <1>2, <1>3, <1>4, <1>5, <1>6 DEF Cared

(* A creation that fails gives its code back at once: a code that is taken *)
(* leads to a room, to a creation under way, or to one that no one could   *)
(* clean up.                                                               *)
THEOREM CodesAreGivenBack == Spec => []NoBurnedCode
<1>1. Init => CareInv
  BY DEF Init, CareInv, Owns
<1>2. DirInv /\ LifeInv /\ CareInv /\ [Next]_vars => CareInv'
  BY CareKept
<1>3. DirInv /\ CareInv => NoBurnedCode
  <2> SUFFICES ASSUME DirInv, CareInv, NEW c \in Codes, NEW r \in Rooms, codeIndex[c].owner = r
               PROVE  Cared(r)
    BY DEF NoBurnedCode, Cared, CarePlaces
  <2>1. claimed[r] # NoLocators /\ claimed[r].code = c
    BY DEF DirInv, Paired
  <2> QED
    BY <2>1 DEF CareInv, Owns
<1> QED
  BY <1>1, <1>2, <1>3, DirInvHolds, LifeInvHolds, PTL DEF Spec

-----------------------------------------------------------------------------
(* The rooms that wait for the recovery.                                   *)

(* Only a room whose match moves can be stranded, and only a room that has *)
(* its locators moves.                                                     *)
MatchesFit == stranded \subseteq moving /\ \A r \in moving : claimed[r] # NoLocators

(* While the rooms are recovered no handler runs, and those that are still *)
(* stranded have their turn to come.                                       *)
RecoveringFits ==
  mode = "recovering" =>
    /\ \A s \in Slots : op[s] = Idle
    /\ \A r \in stranded : Stored(r) => r \in todo

(* Afterwards a stranded room is gone, and nobody will write it again.     *)
RecoveredFits ==
  mode = "up" /\ ~broke =>
    \A r \in stranded : ~Stored(r) /\ \A s \in Slots : op[s].pc # "idle" => op[s].room # r

WaitInv == MatchesFit /\ RecoveringFits /\ RecoveredFits

(* What a handler may do to the matches.                                   *)
HandlersMove ==
  /\ UNCHANGED boot /\ stranded' \subseteq stranded /\ stranded' \subseteq moving'
  /\ \A r \in moving' : r \in moving \/ Stored(r)

LEMMA WhoMoves ==
  ASSUME DirInv, WaitInv, [Next]_vars
  PROVE  \/ HandlersMove /\ (mode = "up" \/ UNCHANGED vars)
         \/ Restart \/ \E r \in Rooms : RecoverRoom(r)
         \/ RecoveryFails \/ RecoveryEnds
<1>1. stranded \subseteq moving /\ (mode = "recovering" => \A s \in Slots : op[s].pc = "idle")
      /\ mode \in {"up", "recovering"}
  BY DEF WaitInv, MatchesFit, RecoveringFits, Idle, DirInv, TypeOK
<1>2. ASSUME NEW s \in Slots,
             \/ BeginCreate(s) \/ Claim(s) \/ Mark(s) \/ SaveNewRoom(s) \/ FinishCreate(s)
             \/ Release(s) \/ BeginUse(s) \/ Touch(s) \/ Refresh(s)
      PROVE  HandlersMove /\ mode = "up"
  BY <1>1, <1>2 DEF BeginCreate, Claim, Mark, SaveNewRoom, FinishCreate, Release, BeginUse,
                    Touch, Refresh, At, HandlersMove, matches
<1>3. ASSUME NEW s \in Slots, Swap(s) \/ Fail(s)
      PROVE  HandlersMove /\ mode = "up"
  <2>1. op[s].pc # "idle" /\ UNCHANGED boot
    BY <1>3 DEF Swap, Fail, At
  <2>2. UNCHANGED matches \/ (Stored(op[s].room) /\ MovePhase(op[s].room, op[s].moves))
    BY <1>3 DEF Swap, Fail, Effect, matches
  <2> QED
    BY <1>1, <2>1, <2>2 DEF MovePhase, HandlersMove, matches
<1>4. CASE Tick \/ \E r \in Rooms : WriteInRoom(r)
  BY <1>1, <1>4 DEF Tick, WriteInRoom, HandlersMove, matches
<1>5. CASE UNCHANGED vars
  BY <1>1, <1>5 DEF vars, HandlersMove, matches
<1> QED
  BY <1>2, <1>3, <1>4, <1>5 DEF Next

LEMMA MatchesKept ==
  ASSUME DirInv, WaitInv, [Next]_vars
  PROVE  MatchesFit'
<1>1. /\ stranded \subseteq moving /\ moving \subseteq Rooms
      /\ \A r \in moving : claimed[r] # NoLocators
      /\ \A r \in Rooms : Stored(r) => claimed[r] # NoLocators
  BY DEF WaitInv, MatchesFit, DirInv, DocsFit, TypeOK
<1>2. moving' \subseteq Rooms
  BY DirInvStep DEF DirInv, TypeOK
<1>3. stranded' \subseteq moving' /\ \A r \in moving' : r \in moving \/ Stored(r)
  <2>1. CASE HandlersMove
    BY <2>1 DEF HandlersMove
  <2>2. CASE \E r \in Rooms : RecoverRoom(r)
    BY <1>1, <2>2 DEF RecoverRoom, matches
  <2>3. CASE Restart
    BY <1>1, <2>3 DEF Restart
  <2>4. CASE RecoveryFails \/ RecoveryEnds
    BY <1>1, <2>4 DEF RecoveryFails, RecoveryEnds, matches
  <2> QED
    BY <2>1, <2>2, <2>3, <2>4, WhoMoves
<1> QED
  BY <1>1, <1>2, <1>3, ClaimedOnce DEF MatchesFit

LEMMA RecoveringKept ==
  ASSUME DirInv, WaitInv, [Next]_vars
  PROVE  RecoveringFits'
<1>1. /\ mode = "recovering" => /\ \A s \in Slots : op[s] = Idle
                                /\ \A r \in stranded : Stored(r) => r \in todo
      /\ stranded \subseteq moving /\ stranded \subseteq Rooms /\ moving \subseteq Rooms
  BY DEF WaitInv, RecoveringFits, MatchesFit, DirInv, TypeOK
<1>2. CASE UNCHANGED vars
  BY <1>1, <1>2 DEF vars, RecoveringFits, matches, boot, Stored
<1>3. CASE HandlersMove /\ mode = "up"
  BY <1>3 DEF HandlersMove, boot, RecoveringFits
<1>4. CASE Restart
  <2>1. /\ \A s \in Slots : op'[s] = Idle
        /\ stranded' = stranded \cup moving /\ todo' = active /\ doc' = doc
    BY <1>4 DEF Restart
  <2>2. \A r \in Rooms : Stored(r) => r \in active
    BY DEF DirInv, DocsFit
  <2> QED
    BY <1>1, <2>1, <2>2 DEF RecoveringFits, Stored
<1>5. ASSUME NEW q \in Rooms, RecoverRoom(q)
      PROVE  RecoveringFits'
  <2>1. mode = "recovering" /\ op' = op
    BY <1>5 DEF RecoverRoom
  <2>2. CASE Stored(q) /\ q \in moving
    <3>1. /\ stranded' = stranded \ {q} /\ doc' = [doc EXCEPT ![q] = RoomDoc(LocatorsOf(q))]
          /\ mode' = "up" \/ todo' = todo \ {q}
      BY <1>5, <2>2 DEF RecoverRoom, PassOver, WriteRoom, LocatorsOf
    <3>2. \A r \in stranded' : Stored(r)' => Stored(r) /\ r # q
      BY <1>1, <3>1 DEF Stored, DirInv, TypeOK
    <3> QED
      BY <1>1, <2>1, <3>1, <3>2 DEF RecoveringFits
  <2>3. CASE ~(Stored(q) /\ q \in moving)
    <3>1. todo' = todo \ {q} /\ doc' = doc /\ stranded' = stranded
      BY <1>5, <2>3 DEF RecoverRoom, PassOver, matches
    <3> QED
      BY <1>1, <2>1, <2>3, <3>1 DEF RecoveringFits, Stored
  <2> QED
    BY <2>2, <2>3
<1>6. CASE RecoveryFails \/ RecoveryEnds
  BY <1>6 DEF RecoveryFails, RecoveryEnds, RecoveringFits
<1> QED
  BY <1>2, <1>3, <1>4, <1>5, <1>6, WhoMoves

LEMMA RecoveredKept ==
  ASSUME DirInv, WaitInv, [Next]_vars
  PROVE  RecoveredFits'
<1>1. /\ mode = "recovering" => /\ \A s \in Slots : op[s].pc = "idle"
                                /\ \A r \in stranded : Stored(r) => r \in todo
      /\ stranded \subseteq moving /\ stranded \subseteq Rooms
      /\ \A r \in moving : claimed[r] # NoLocators
  BY DEF WaitInv, RecoveringFits, MatchesFit, DirInv, TypeOK, Idle
<1>2. CASE HandlersMove
  <2> SUFFICES ASSUME mode' = "up", ~broke', NEW r \in stranded'
               PROVE  ~Stored(r)' /\ \A s \in Slots : op'[s].pc # "idle" => op'[s].room # r
    BY DEF RecoveredFits, Stored
  <2>1. /\ mode = "up" /\ ~broke /\ r \in stranded /\ r \in Rooms /\ claimed[r] # NoLocators
        /\ ~Stored(r) /\ \A s \in Slots : op[s].pc # "idle" => op[s].room # r
    BY <1>1, <1>2 DEF HandlersMove, boot, WaitInv, RecoveredFits
  <2>2. ~Stored(r)'
    <3>1. ~RoomIsWritten(r)
      BY <2>1 DEF RoomIsWritten, StepWrite
    <3>2. CASE RoomClaims(r) \/ RoomDrops(r)
      BY <2>1, <3>2 DEF RoomClaims, RoomDrops, Stored
    <3>3. CASE RoomStays(r) \/ RoomRenews(r) \/ RoomAges(r)
      BY <2>1, <3>3 DEF RoomStays, RoomRenews, RoomAges
    <3> QED
      BY <2>1, <3>1, <3>2, <3>3, RoomSteps DEF RoomStep
  <2>3. ASSUME NEW t \in Slots, op'[t].pc # "idle", op'[t].room = r
        PROVE  FALSE
    <3>1. \/ op'[t] = op[t] /\ op[t].pc # "idle"
          \/ GrowsOld(t) \/ Creates(t) \/ Finds(t) \/ Goes(t)
      BY <2>3, OpFrom DEF DirInv
    <3>2. CASE Creates(t)
      BY <2>1, <2>3, <3>2 DEF Creates, Known
    <3>3. CASE Finds(t)
      BY <2>1, <2>3, <3>3 DEF Finds
    <3>4. CASE op'[t] = op[t] \/ GrowsOld(t) \/ Goes(t)
      BY <2>1, <2>3, <3>4 DEF GrowsOld, Goes, SameRoom
    <3> QED
      BY <3>1, <3>2, <3>3, <3>4
  <2> QED
    BY <2>2, <2>3
<1>3. CASE RecoveryEnds
  <2>1. /\ mode = "recovering" /\ todo = {} /\ op' = op /\ doc' = doc /\ stranded' = stranded
    BY <1>3 DEF RecoveryEnds, matches
  <2> QED
    BY <1>1, <2>1 DEF RecoveredFits, Stored
<1>4. ASSUME NEW q \in Rooms, RecoverRoom(q)
      PROVE  RecoveredFits'
  <2>1. mode = "recovering" /\ (broke' = TRUE \/ mode' = mode)
    BY <1>4 DEF RecoverRoom, PassOver
  <2> QED
    BY <2>1 DEF RecoveredFits
<1>5. CASE Restart \/ RecoveryFails
  BY <1>5 DEF Restart, RecoveryFails, RecoveredFits
<1> QED
  BY <1>2, <1>3, <1>4, <1>5, WhoMoves

(* A recovery that met no error leaves no stored room in a phase whose     *)
(* timer died with the process.                                            *)
THEOREM RecoveryLeavesNone == Spec => []RecoveryReachesAll
<1>1. Init => WaitInv
  BY DEF Init, WaitInv, MatchesFit, RecoveringFits, RecoveredFits
<1>2. DirInv /\ WaitInv /\ [Next]_vars => WaitInv'
  BY MatchesKept, RecoveringKept, RecoveredKept DEF WaitInv
<1>3. WaitInv => RecoveryReachesAll
  BY DEF WaitInv, RecoveredFits, RecoveryReachesAll
<1> QED
  BY <1>1, <1>2, <1>3, DirInvHolds, PTL DEF Spec
=============================================================================
