---------------------------- MODULE RoomDirectory ----------------------------
(***************************************************************************)
(* The directory of rooms: the code and the invite of a room as keys of    *)
(* Redis, the room documents, what expires when, and the handlers that     *)
(* create a room, use it, and bring the matches back after a restart.      *)
(*                                                                         *)
(* A key lives for a number of ticks (hours) after it was last refreshed:  *)
(* a room and its locators RoomTtl ticks.  Every write in a room refreshes *)
(* the room's documents; its locators are refreshed by refreshRoomLocators *)
(* only.  An action is one store call with the local computation up to the *)
(* next await.  A call may fail, with its effect or without: the reply of  *)
(* Redis can be lost.  What markCodeSeen stores, the difference between    *)
(* the answers GAME_EXPIRED and GAME_NOT_FOUND, is left out.               *)
(***************************************************************************)
EXTENDS Integers, FiniteSets

CONSTANTS
    Rooms,          \* room ids; createId never gives one out twice
    Codes,          \* the game codes
    InviteIds,      \* the invite ids
    Versions,       \* versions of the pepper an invite id is hashed with
    Slots,          \* handlers under way at a time
    None,           \* no room, code or invite
    RoomTtl,        \* ticks a room and its locators live, ROOM_TTL_SECONDS
    MaxAttempts,    \* claims a creation tries
    RequestTicks,   \* bound: ticks that may fall within one request
    SlowRequests,   \* bound: requests under way while a tick falls
    MaxMishaps      \* bound: failing store calls and crashes of the process

ASSUME NoneAssumption ==
    /\ None \notin Rooms \cup Codes \cup (InviteIds \X Versions)
    /\ "closed" \notin Codes \cup {None}
ASSUME TtlAssumption ==
    /\ {RoomTtl, MaxAttempts} \subseteq Nat \ {0}
    /\ {RequestTicks, SlowRequests, MaxMishaps} \subseteq Nat
    /\ RequestTicks <= RoomTtl
ASSUME VersionsAssumption == Versions # {}

VARIABLES
    codeIndex,      \* room:code:{code}: the owner and the ticks left
    inviteIndex,    \* room:invite:{inviteHash}: the same
    doc,            \* the room documents, as far as they name the locators
    active,         \* rooms:active, which never expires
    moving,         \* rooms whose match is in a phase that a timer ends
    stranded,       \* rooms that lost that timer in a crash
    pepper,         \* the active version of the pepper
    op,             \* op[s]: the handler in slot s
    mode,           \* the process is up, or still recovers the rooms
    todo,           \* rooms the recovery has still to look at
    broke,          \* the last recovery ended in an error
    claimed,        \* history: the locators each room has claimed
    opened,         \* history: rooms that were ever found by their locators
    inUse,          \* history: ticks a room, in its host's hands, is in use
    wrecked,        \* history: rooms whose creation failed beyond repair
    mishaps

index == <<codeIndex, inviteIndex>>
boot == <<pepper, mode, todo, broke>>
ghosts == <<claimed, opened, inUse, wrecked>>
matches == <<moving, stranded>>
vars == <<index, doc, active, matches, boot, op, ghosts, mishaps>>

-----------------------------------------------------------------------------
(* Keys and documents *)

Hashes == InviteIds \X Versions         \* hashInviteId(inviteId, pepper)
Locators == [code : Codes \cup {None}, invite : Hashes \cup {None}]
NoLocators == [code |-> None, invite |-> None]

Free == [owner |-> None, ttl |-> 0]
Keys == [owner : Rooms \cup {None}, ttl : 0..RoomTtl]
Owned(r) == [owner |-> r, ttl |-> RoomTtl]

NoDoc == [code |-> None, invite |-> None, ttl |-> 0]
Docs == [code : Codes \cup {None}, invite : Hashes \cup {None}, ttl : 0..RoomTtl]
RoomDoc(l) == [code |-> l.code, invite |-> l.invite, ttl |-> RoomTtl]

Stored(r) == doc[r] # NoDoc

(* Mutant: a locator that is free may be taken again.                      *)
OwnsBothOrFree(r, l) ==
    /\ l # NoLocators
    /\ codeIndex[l.code].owner \in {r, None}
    /\ inviteIndex[l.invite].owner \in {r, None}

(* r owns the locators l: what release and refresh ask before they act.    *)
OwnsBoth(r, l) ==
    /\ l # NoLocators
    /\ codeIndex[l.code].owner = r
    /\ inviteIndex[l.invite].owner = r

(* What loadRoomByCode finds.                                              *)
FoundByCode(c) ==
    LET r == codeIndex[c].owner IN IF r # None /\ Stored(r) THEN r ELSE None

(* Mutant: an invite id is hashed with the active pepper only.             *)
FoundByActivePepper(i) ==
    LET r == inviteIndex[<<i, pepper>>].owner
    IN IF r # None /\ Stored(r) THEN {r} ELSE {}

(* What findRoomByInviteId may find: the active version of the pepper      *)
(* first, then the others in the order of the configuration.               *)
FoundByInvite(i) ==
    LET owner(v) == inviteIndex[<<i, v>>].owner
        hits == {v \in Versions : owner(v) # None /\ Stored(owner(v))}
    IN IF pepper \in hits THEN {owner(pepper)} ELSE {owner(v) : v \in hits}

Findable(r) ==
    /\ Stored(r)
    /\ FoundByCode(doc[r].code) = r
    /\ r \in FoundByInvite(doc[r].invite[1])

-----------------------------------------------------------------------------
(* Handlers *)

CreatePlaces == {"claim", "mark", "saveRoom", "finish", "release"}
UsePlaces == {"swap", "touch", "refresh"}

(* The places at which the locators in op[s] are those of the room.        *)
HoldsPlaces == (CreatePlaces \ {"claim"}) \cup UsePlaces

Idle == [pc |-> "idle"]
Handlers ==
    {Idle}
    \cup [pc : CreatePlaces \cup UsePlaces, room : Rooms, at : Locators,
          tries : 0..MaxAttempts - 1, age : 0..RequestTicks, moves : BOOLEAN]

At(s, place) == op[s].pc = place
Goto(s, place) == op' = [op EXCEPT ![s].pc = place]
Done(s) == op' = [op EXCEPT ![s] = Idle]

(* What a call does to the store.                                          *)

ClaimConflict(r, c, h) ==
    IF codeIndex[c].owner \notin {None, r} THEN "code"
    ELSE IF inviteIndex[h].owner \notin {None, r} THEN "inviteHash" ELSE "none"

(* claimRoomLocatorsAtomically without a conflict.                         *)
SetLocators(r, c, h) ==
    /\ codeIndex' = [codeIndex EXCEPT ![c] = Owned(r)]
    /\ inviteIndex' = [inviteIndex EXCEPT ![h] = Owned(r)]

(* Mutant: the invite of a released room stays taken.                      *)
DropCode(r, l) ==
    /\ UNCHANGED inviteIndex
    /\ IF OwnsBoth(r, l)
       THEN codeIndex' = [codeIndex EXCEPT ![l.code] = Free]
       ELSE UNCHANGED codeIndex

(* releaseRoomLocators: both or neither.                                   *)
DropLocators(r, l) ==
    IF OwnsBoth(r, l)
    THEN /\ codeIndex' = [codeIndex EXCEPT ![l.code] = Free]
         /\ inviteIndex' = [inviteIndex EXCEPT ![l.invite] = Free]
    ELSE UNCHANGED index

(* Every write in a room keeps the documents of the room alive.            *)
Refreshed(r) ==
    IF Stored(r) THEN [doc EXCEPT ![r].ttl = RoomTtl] ELSE doc

(* saveRoom writes the document whether or not there was one.              *)
WriteRoom(r, l) ==
    /\ doc' = [doc EXCEPT ![r] = RoomDoc(l)]
    /\ active' = active \cup {r}

(* setRoomAndMatchPhaseAtomically of a room that is there: into a phase    *)
(* that a timer ends, or out of one.                                       *)
MovePhase(r, moves) ==
    /\ moving' = IF moves THEN moving \cup {r} ELSE moving \ {r}
    /\ stranded' = stranded \ {r}
    /\ doc' = Refreshed(r)

(* Mutant: the locators only, the documents as touchRoom left them.        *)
RefreshLocatorsOnly(r, l) == SetLocators(r, l.code, l.invite) /\ UNCHANGED doc

(* refreshRoomLocators of a room that owns them.                           *)
RefreshLocators(r, l) == SetLocators(r, l.code, l.invite) /\ doc' = Refreshed(r)

-----------------------------------------------------------------------------
Init ==
    /\ codeIndex = [c \in Codes |-> Free]
    /\ inviteIndex = [h \in Hashes |-> Free]
    /\ doc = [r \in Rooms |-> NoDoc]
    /\ active = {} /\ moving = {} /\ stranded = {}
    /\ pepper \in Versions
    /\ op = [s \in Slots |-> Idle]
    /\ mode = "up" /\ todo = {} /\ broke = FALSE
    /\ opened = {} /\ wrecked = {}
    /\ claimed = [r \in Rooms |-> NoLocators]
    /\ inUse = [r \in Rooms |-> 0]
    /\ mishaps = 0

-----------------------------------------------------------------------------
(* createRoom *)

(* createId never gives an id out twice; one that was drawn and never      *)
(* claimed a locator left no trace, and stands for a new one.              *)
Known(r) ==
    claimed[r] # NoLocators \/ \E s \in Slots : ~At(s, "idle") /\ op[s].room = r

(* A request for a new room: createId, then claimLocators.                 *)
BeginCreate(s) ==
    /\ mode = "up" /\ At(s, "idle")
    /\ \E r \in {r \in Rooms : ~Known(r)} :
        op' = [op EXCEPT ![s] =
                [pc |-> "claim", room |-> r, at |-> NoLocators, tries |-> 0,
                 age |-> 0, moves |-> FALSE]]
    /\ UNCHANGED <<index, doc, active, matches, boot, ghosts, mishaps>>

(* The history of a claim: which locators are the room's from now on.      *)
Claims(s, c, h) ==
    claimed' = [claimed EXCEPT ![op[s].room] = [code |-> c, invite |-> h]]

(* What generateInviteId may draw.  The claim compares hashes: it would    *)
(* not see an invite id drawn twice under two peppers, but that takes the  *)
(* same 128 random bits and is left out.                                   *)
Drawn ==
    {i \in InviteIds :
        \A v \in Versions \ {pepper} : inviteIndex[<<i, v>>].owner = None}

(* Mutant: one attempt too many.                                           *)
TriedTooOften(s) == op[s].tries + 1 > MaxAttempts

(* No attempt is left after this one.                                      *)
Exhausted(s) == op[s].tries + 1 >= MaxAttempts

(* One attempt of claimLocators, with a new code and invite.               *)
Claim(s) ==
    /\ At(s, "claim")
    /\ \E c \in Codes, i \in Drawn :
        LET r == op[s].room
            h == <<i, pepper>>
        IN IF ClaimConflict(r, c, h) = "none"
           THEN /\ SetLocators(r, c, h)
                /\ Claims(s, c, h)
                /\ op' = [op EXCEPT ![s].pc = "mark",
                                    ![s].at = [code |-> c, invite |-> h]]
           ELSE /\ IF Exhausted(s)
                   THEN Done(s)
                   ELSE op' = [op EXCEPT ![s].tries = @ + 1]
                /\ UNCHANGED <<index, claimed>>
    /\ UNCHANGED <<doc, active, matches, boot, opened, inUse, wrecked, mishaps>>

(* markCodeSeen, still inside claimLocators.                               *)
Mark(s) ==
    /\ At(s, "mark")
    /\ Goto(s, "saveRoom")
    /\ UNCHANGED <<index, doc, active, matches, boot, ghosts, mishaps>>

(* The history of the rooms that were ever found.                          *)
NoteOpened == opened' = opened \cup {r \in Rooms : Findable(r)'}

(* saveRoom: from here on the room exists and keeps its locators.          *)
SaveNewRoom(s) ==
    /\ At(s, "saveRoom")
    /\ WriteRoom(op[s].room, op[s].at)
    /\ Goto(s, "finish")
    /\ UNCHANGED <<index, matches, boot, claimed, inUse, wrecked, mishaps>>
    /\ NoteOpened

(* The history of a room in the hands of its host: used again in time.     *)
Kept(r) == [inUse EXCEPT ![r] = IF @ > 0 THEN RoomTtl ELSE 0]

(* saveSession and savePlayer of the host; the host gets the code.         *)
FinishCreate(s) ==
    /\ At(s, "finish")
    /\ doc' = Refreshed(op[s].room)
    /\ inUse' = [inUse EXCEPT ![op[s].room] = RoomTtl - op[s].age]
    /\ Done(s)
    /\ UNCHANGED <<index, active, matches, boot, claimed, opened, wrecked, mishaps>>

(* releaseLocators, in the catch of createRoom.                            *)
Release(s) ==
    /\ At(s, "release")
    /\ DropLocators(op[s].room, op[s].at)
    /\ Done(s)
    /\ UNCHANGED <<doc, active, matches, boot, ghosts, mishaps>>

-----------------------------------------------------------------------------
(* The handlers that use a room *)

(* A handler finds a room, by its id (a socket's event, a timer) or by a   *)
(* locator (a join, a leave); it keeps the document it read.  A transition *)
(* goes through the phase swap first; all end in touchRoom.                *)
BeginUse(s) ==
    /\ mode = "up" /\ At(s, "idle")
    /\ \E r \in {r \in Rooms : Stored(r)}, place \in {"swap", "touch"},
          moves \in BOOLEAN :
        op' = [op EXCEPT ![s] =
                [pc |-> place, room |-> r,
                 at |-> [code |-> doc[r].code, invite |-> doc[r].invite],
                 tries |-> 0, age |-> 0, moves |-> moves /\ place = "swap"]]
    /\ UNCHANGED <<index, doc, active, matches, boot, ghosts, mishaps>>

(* The phase swap, refused when the room is gone.                          *)
Swap(s) ==
    LET r == op[s].room
    IN /\ At(s, "swap")
       /\ IF Stored(r)
          THEN MovePhase(r, op[s].moves) /\ Goto(s, "touch")
          ELSE Done(s) /\ UNCHANGED <<matches, doc>>
       /\ UNCHANGED <<index, active, boot, ghosts, mishaps>>

(* touchRoom writes the document it was given, gone from the store or not. *)
Touch(s) ==
    /\ At(s, "touch")
    /\ WriteRoom(op[s].room, op[s].at)
    /\ Goto(s, "refresh")
    /\ UNCHANGED <<index, matches, boot, ghosts, mishaps>>

(* refreshRoomLocators; without both locators it throws, and refreshes     *)
(* nothing.                                                                *)
Refresh(s) ==
    LET r == op[s].room
    IN /\ At(s, "refresh")
       /\ IF OwnsBoth(r, op[s].at)
          THEN RefreshLocators(r, op[s].at) /\ inUse' = Kept(r)
          ELSE UNCHANGED <<index, doc, inUse>>
       /\ Done(s)
       /\ UNCHANGED <<active, matches, boot, claimed, opened, wrecked, mishaps>>

(* Any other write in a room, an answer for one: the documents live on,    *)
(* the locators do not.                                                    *)
WriteInRoom(r) ==
    /\ mode = "up" /\ Stored(r)
    /\ doc' = Refreshed(r)
    /\ UNCHANGED <<index, active, matches, boot, op, ghosts, mishaps>>

-----------------------------------------------------------------------------
(* Failing calls, crashes, restarts and time *)

(* What the call at which op[s] waits does to the store.                   *)
Effect(s) ==
    LET r == op[s].room
        l == op[s].at
    IN \/ /\ At(s, "claim")
          /\ \E c \in Codes, i \in Drawn :
                LET h == <<i, pepper>>
                IN /\ ClaimConflict(r, c, h) = "none"
                   /\ SetLocators(r, c, h)
                   /\ Claims(s, c, h)
          /\ UNCHANGED <<doc, active, matches>>
       \/ /\ At(s, "saveRoom") \/ At(s, "touch")
          /\ WriteRoom(r, l)
          /\ UNCHANGED <<index, claimed, matches>>
       \/ /\ At(s, "finish")
          /\ doc' = Refreshed(r)
          /\ UNCHANGED <<index, claimed, active, matches>>
       \/ /\ At(s, "release")
          /\ DropLocators(r, l)
          /\ UNCHANGED <<claimed, doc, active, matches>>
       \/ /\ At(s, "swap") /\ Stored(r)
          /\ MovePhase(r, op[s].moves)
          /\ UNCHANGED <<index, claimed, active>>
       \/ /\ At(s, "refresh") /\ OwnsBoth(r, l)
          /\ RefreshLocators(r, l)
          /\ UNCHANGED <<claimed, active, matches>>

(* Creations that no one will clean up: the claim stays until it expires.  *)
Wrecks(places) ==
    {op[s].room : s \in {s \in Slots : op[s].pc \in places}}

(* Mutant: createRoom without its catch.                                   *)
AfterFailureEnds(s) == Done(s)

(* Mutant: a claim whose answer was lost is tried again.                   *)
AfterFailureRetries(s) ==
    IF At(s, "claim") THEN UNCHANGED op
    ELSE IF At(s, "saveRoom") THEN Goto(s, "release") ELSE Done(s)

(* The catch of createRoom releases the locators when saveRoom failed;     *)
(* claimLocators runs before that try, and every other handler just ends.  *)
AfterFailure(s) ==
    IF At(s, "saveRoom") THEN Goto(s, "release") ELSE Done(s)

(* A store call throws, after it took effect or instead of it.             *)
Fail(s) ==
    /\ ~At(s, "idle") /\ mishaps < MaxMishaps
    /\ Effect(s) \/ UNCHANGED <<index, claimed, doc, active, matches>>
    /\ AfterFailure(s)
    /\ wrecked' = IF op[s].pc \in {"claim", "mark", "release"}
                  THEN wrecked \cup {op[s].room} ELSE wrecked
    /\ mishaps' = mishaps + 1
    /\ UNCHANGED <<boot, inUse>>
    /\ NoteOpened

(* The process stops and is started again, perhaps with another active     *)
(* pepper: its handlers and timers are gone.  The recovery lists the rooms *)
(* (recoverActiveRooms) before any request is taken.                       *)
Restart ==
    /\ mishaps < MaxMishaps
    /\ pepper' \in Versions
    /\ mode' = "recovering" /\ todo' = active /\ broke' = FALSE
    /\ op' = [s \in Slots |-> Idle]
    /\ wrecked' = wrecked \cup Wrecks({"mark", "saveRoom", "release"})
    /\ stranded' = stranded \cup moving
    /\ mishaps' = mishaps + 1
    /\ UNCHANGED <<index, doc, active, moving, claimed, opened, inUse>>

(* Mutant: the loop ends at a room that has nothing to recover.            *)
PassNoMore(r) == todo' = {} /\ UNCHANGED <<mode, broke>>

(* On to the next room of the list.                                        *)
PassOver(r) == todo' = todo \ {r} /\ UNCHANGED <<mode, broke>>

(* recoverRoom for one of the rooms listed.  A room that has expired or    *)
(* waits for its host is passed over; the others are paused, and touched,  *)
(* which throws when the locators are lost.                                *)
RecoverRoom(r) ==
    /\ mode = "recovering" /\ r \in todo
    /\ IF Stored(r) /\ r \in moving
       THEN LET l == [code |-> doc[r].code, invite |-> doc[r].invite]
            IN /\ moving' = moving \ {r}
               /\ stranded' = stranded \ {r}
               /\ WriteRoom(r, l)
               /\ IF OwnsBoth(r, l)
                  THEN /\ SetLocators(r, l.code, l.invite)
                       /\ inUse' = Kept(r)
                       /\ PassOver(r)
                  ELSE /\ mode' = "up" /\ todo' = {} /\ broke' = TRUE
                       /\ UNCHANGED <<index, inUse>>
       ELSE PassOver(r) /\ UNCHANGED <<index, doc, active, matches, inUse>>
    /\ UNCHANGED <<pepper, op, claimed, opened, wrecked, mishaps>>

(* A store call of the recovery throws: the loop ends, and the server      *)
(* starts all the same.                                                    *)
RecoveryFails ==
    /\ mode = "recovering"
    /\ mode' = "up" /\ todo' = {} /\ broke' = TRUE
    /\ UNCHANGED <<index, doc, active, matches, pepper, op, ghosts, mishaps>>

RecoveryEnds ==
    /\ mode = "recovering" /\ todo = {}
    /\ mode' = "up"
    /\ UNCHANGED <<index, doc, active, matches, pepper, op, todo, broke,
                   ghosts, mishaps>>

Less(n) == IF n > 0 THEN n - 1 ELSE 0
AgedKey(k) == IF k.ttl > 1 THEN [k EXCEPT !.ttl = @ - 1] ELSE Free
AgedDoc(d) == IF d.ttl > 1 THEN [d EXCEPT !.ttl = @ - 1] ELSE NoDoc

(* An hour passes; keys that are not refreshed in time are gone.           *)
Tick ==
    /\ mode = "up"
    /\ \A s \in Slots : ~At(s, "idle") => op[s].age < RequestTicks
    /\ Cardinality({s \in Slots : ~At(s, "idle")}) <= SlowRequests
    /\ op' = [s \in Slots |->
                IF At(s, "idle") THEN Idle ELSE [op[s] EXCEPT !.age = @ + 1]]
    /\ codeIndex' = [c \in Codes |-> AgedKey(codeIndex[c])]
    /\ inviteIndex' = [h \in Hashes |-> AgedKey(inviteIndex[h])]
    /\ doc' = [r \in Rooms |-> AgedDoc(doc[r])]
    /\ inUse' = [r \in Rooms |-> Less(inUse[r])]
    /\ UNCHANGED <<active, matches, boot, claimed, opened, wrecked, mishaps>>

-----------------------------------------------------------------------------
Next ==
    \/ \E s \in Slots :
        \/ BeginCreate(s) \/ Claim(s) \/ Mark(s) \/ SaveNewRoom(s)
        \/ FinishCreate(s) \/ Release(s)
        \/ BeginUse(s) \/ Swap(s) \/ Touch(s) \/ Refresh(s)
        \/ Fail(s)
    \/ \E r \in Rooms : WriteInRoom(r) \/ RecoverRoom(r)
    \/ Restart \/ RecoveryFails \/ RecoveryEnds
    \/ Tick

Spec == Init /\ [][Next]_vars

-----------------------------------------------------------------------------
TypeOK ==
    /\ codeIndex \in [Codes -> Keys] /\ inviteIndex \in [Hashes -> Keys]
    /\ doc \in [Rooms -> Docs]
    /\ {active, moving, stranded, todo, opened, wrecked} \subseteq SUBSET Rooms
    /\ pepper \in Versions
    /\ op \in [Slots -> Handlers]
    /\ mode \in {"up", "recovering"} /\ broke \in BOOLEAN
    /\ claimed \in [Rooms -> Locators]
    /\ inUse \in [Rooms -> 0..RoomTtl]
    /\ mishaps \in Nat

(* A room owns its code exactly as long as its invite: claim, release,     *)
(* refresh and expiry act on both locators or on neither, whatever fails   *)
(* in between.                                                             *)
LocatorsInPairs ==
    \A r \in Rooms :
        /\ \A c \in Codes : codeIndex[c].owner = r =>
            \E h \in Hashes : inviteIndex[h] = codeIndex[c]
        /\ \A h \in Hashes : inviteIndex[h].owner = r =>
            \E c \in Codes : codeIndex[c] = inviteIndex[h]

(* Whoever types a code or follows an invite gets the room that bears it,  *)
(* also after other rooms came and went under the same code and the pepper *)
(* was rotated.                                                            *)
LocatorLeadsHome ==
    /\ \A c \in Codes : FoundByCode(c) # None => doc[FoundByCode(c)].code = c
    /\ \A i \in InviteIds : \A r \in FoundByInvite(i) : doc[r].invite[1] = i

(* The locators of a room do not outlive it: a code that is taken leads to *)
(* a room, unless the room was not yet, or never, saved.                   *)
LocatorsExpireFirst ==
    \A c \in Codes, r \in Rooms :
        codeIndex[c].owner = r /\ r \in opened =>
            Stored(r) /\ codeIndex[c].ttl <= doc[r].ttl

(* What a taken code or invite stands for: one room that is really there.  *)
LocatorsHold == LocatorsInPairs /\ LocatorLeadsHome /\ LocatorsExpireFirst

(* A room that its host has, and that was used again every time before its *)
(* locators' time was over, can be found by its code and by its invite.    *)
InUseIsFindable == \A r \in Rooms : inUse[r] > 0 => Findable(r)

(* A creation that fails gives its code back at once, except when the      *)
(* process died, or when marking the code or the release itself failed.    *)
NoBurnedCode ==
    \A c \in Codes, r \in Rooms :
        codeIndex[c].owner = r =>
            \/ Stored(r) \/ r \in wrecked
            \/ \E s \in Slots :
                op[s].pc \in {"mark", "saveRoom", "release"} /\ op[s].room = r

(* After a recovery that met no error no stored room is left in a phase    *)
(* whose timer died with the process, however many rooms have expired.     *)
RecoveryReachesAll ==
    mode = "up" /\ ~broke => \A r \in stranded : ~Stored(r)

(* The abstract specification: what those who look up a room are promised. *)
Board ==
    INSTANCE RoomBoard WITH
        Unopened <- None,
        Closed <- "closed",
        place <- [r \in Rooms |->
                    IF Findable(r) THEN doc[r].code
                    ELSE IF r \in opened THEN "closed" ELSE None]

OpensOnce == Board!Spec
=============================================================================
