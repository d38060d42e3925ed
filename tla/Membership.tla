----------------------------- MODULE Membership -----------------------------
(***************************************************************************)
(* Who is in one room: the handlers that join, kick, let go, rename and    *)
(* recolour players and that set what the host decides about the room, on  *)
(* the Player, Session and Room documents and the open sockets.            *)
(*                                                                         *)
(* An action is one call on the store, or one reply, with the local        *)
(* computation up to the next await; handlers in different slots           *)
(* interleave at every call, and each keeps the documents it read.  A      *)
(* handler may stop before any of its calls (a store error), and all of    *)
(* them may (a crash).  The socket handshake is one step: the reply of its *)
(* lookup is handled before that of any later store call.                  *)
(*                                                                         *)
(* raced records which handlers have overlapped.  The properties say which *)
(* overlaps the code does not survive, and what it keeps under all others. *)
(***************************************************************************)
EXTENDS Integers, FiniteSets

CONSTANTS
    Players,        \* the players that may come, with their sessions
    MaxPlayers,     \* config.maxPlayers
    Names,          \* names that can be typed or rendered
    Pairs,          \* identities: a country with a word
    Rendered,       \* Rendered[i]: the name that identity i is shown as
    Label,          \* the name the generator falls back to
    Slots,          \* handlers under way at a time
    MaxHandlers,    \* bound: handlers that begin altogether
    None            \* no name typed, no identity

ASSUME RoomAssumption == MaxPlayers \in Nat \ {0} /\ MaxHandlers \in Nat
ASSUME NamesAssumption ==
    /\ Rendered \in [Pairs -> Names] /\ Label \in Names
    /\ None \notin Names \cup Pairs
    /\ IsFiniteSet(Players) /\ IsFiniteSet(Slots)

VARIABLES
    room,           \* the Room document: phase and settings
    players,        \* the Player documents
    sessions,       \* sessions[p]: not stored, live or revoked
    sockets,        \* players with a socket in the room
    op,             \* op[s]: the handler in slot s
    members,        \* history: players whose client got its token
    removed,        \* history: players whose kick ran to its end
    raced,          \* history: the kinds of overlap that have happened
    begun           \* history: handlers that have begun

store == <<room, players, sessions>>
history == <<members, removed>>
overlaps == <<raced, begun>>
vars == <<store, sockets, op, history, overlaps>>

-----------------------------------------------------------------------------
(* Documents *)

Settings == [locked : BOOLEAN, allowLateJoin : BOOLEAN]
RoomDocs == [lobby : BOOLEAN, settings : Settings]

(* A name with its number: <<"Sanne", 2>> is shown as "Sanne 2".           *)
Texts == Names \X (Nat \ {0})

NoPlayer == [text |-> None]
PlayerDocs ==
    [text : Texts, chosen : BOOLEAN, identity : Pairs \cup {None},
     left : BOOLEAN, kicked : BOOLEAN]

Exists(p) == players[p] # NoPlayer
Gone(d) == d.left \/ d.kicked
Active == {p \in Players : Exists(p) /\ ~Gone(players[p])}

-----------------------------------------------------------------------------
(* Names *)

Taken(others) == {players[p].text : p \in others}

(* Mutant: a joining player's identity is drawn without a look at the room.*)
TakenPairsIgnored(others) == {}

TakenPairs(others) == {players[p].identity : p \in others} \ {None}

(* The name itself, or with the first number that is free.                 *)
MakeUniqueInRoom(name, taken) ==
    LET free == {n \in 1..(Cardinality(taken) + 1) : <<name, n>> \notin taken}
    IN <<name, CHOOSE n \in free : \A m \in free : n <= m>>

(* Mutant: no name when the draws are used up.                             *)
GivenUpEmpty(taken) == None

(* generateName, when pickIdentity drew too often.                         *)
GivenUp(taken) == MakeUniqueInRoom(Label, taken)

Newcomer(text, chosen, identity) ==
    [text |-> text, chosen |-> chosen, identity |-> identity,
     left |-> FALSE, kicked |-> FALSE]

(* What resolveNames may give a player who typed this name, or none, while *)
(* the others are in the room.  pickIdentity draws at random and gives up  *)
(* after a number of draws that were all taken.                            *)
ResolveNames(typed, others) ==
    IF typed # None
    THEN {Newcomer(MakeUniqueInRoom(typed, Taken(others)), TRUE, None)}
    ELSE {Newcomer(<<Rendered[i], 1>>, FALSE, i) : i \in Pairs \ TakenPairs(others)}
         \cup {Newcomer(GivenUp(Taken(others)), FALSE, None) :
                  i \in {i \in {None} : Pairs = {} \/ TakenPairs(others) # {}}}

-----------------------------------------------------------------------------
(* Handlers *)

PlayerKinds == {"join", "kick", "leave", "rename", "hostRename", "recolor"}
RoomKinds == {"lock", "config"}
ChangeTheRoom == RoomKinds \cup {"match"}
Places ==
    {"load", "list", "savePlayer", "saveSession", "revoke", "touch", "disconnect"}

Idle == [pc |-> "idle"]
Handlers ==
    {Idle}
    \cup [pc : Places, kind : PlayerKinds, who : Players, room : RoomDocs,
          doc : PlayerDocs \cup {NoPlayer}]
    \cup [pc : {"touch"}, kind : RoomKinds, room : RoomDocs]

At(s, place) == op[s].pc = place
Running == {s \in Slots : ~At(s, "idle")}
Goto(s, place) == op' = [op EXCEPT ![s].pc = place]
Done(s) == op' = [op EXCEPT ![s] = Idle]

(* The overlaps that begin with a handler of this kind for player p:       *)
(* two that list the players and then add a name, two that write back the  *)
(* document of the same player, one that changes the room with any other,  *)
(* and a kick of a player whose session is not stored yet.                 *)
Lists(kind) == kind \in {"join", "rename", "hostRename"}

Overlaps(kind, p) ==
    LET others == {op[s].kind : s \in Running}
        same == {s \in Running : op[s].kind \in PlayerKinds /\ op[s].who = p}
    IN {race \in {"lists", "docs", "room", "halfJoined"} :
          \/ race = "lists" /\ Lists(kind) /\ \E k \in others : Lists(k)
          \/ race = "docs" /\ kind \in PlayerKinds /\ same # {}
          \/ /\ race = "room" /\ others # {}
             /\ kind \in ChangeTheRoom \/ others \cap ChangeTheRoom # {}
          \/ race = "halfJoined" /\ kind = "kick" /\ sessions[p] = "none"}

Begins(kind, p) ==
    /\ begun < MaxHandlers /\ begun' = begun + 1
    /\ raced' = raced \cup Overlaps(kind, p)

(* A handler starts with the room it has just loaded.                      *)
Start(s, kind, p, place) ==
    /\ At(s, "idle")
    /\ op' = [op EXCEPT ![s] =
                [pc |-> place, kind |-> kind, who |-> p, room |-> room,
                 doc |-> NoPlayer]]
    /\ Begins(kind, p)
    /\ UNCHANGED <<store, sockets, history>>

-----------------------------------------------------------------------------
Init ==
    /\ room = [lobby |-> TRUE,
               settings |-> [locked |-> FALSE, allowLateJoin |-> TRUE]]
    /\ players = [p \in Players |-> NoPlayer]
    /\ sessions = [p \in Players |-> "none"]
    /\ sockets = {}
    /\ op = [s \in Slots |-> Idle]
    /\ members = {} /\ removed = {}
    /\ raced = {} /\ begun = 0

-----------------------------------------------------------------------------
(* joinRoom *)

MayEnter ==
    /\ ~room.settings.locked
    /\ room.lobby \/ room.settings.allowLateJoin

(* The room is found and open.  A player id is drawn for every join.       *)
BeginJoin(s, p) ==
    /\ ~Exists(p) /\ \A t \in Running : op[t].kind \in PlayerKinds => op[t].who # p
    /\ MayEnter
    /\ Start(s, "join", p, "list")

(* Mutant: the last place is given away twice.                             *)
FullTooLate(present) == Cardinality(present) > MaxPlayers

Full(present) == Cardinality(present) >= MaxPlayers

(* listPlayers: the room is full, or the newcomer gets a name.             *)
ListForJoin(s) ==
    /\ At(s, "list") /\ op[s].kind = "join"
    /\ IF Full(Active)
       THEN Done(s)
       ELSE \E typed \in Names \cup {None} : \E new \in ResolveNames(typed, Active) :
                op' = [op EXCEPT ![s].pc = "savePlayer", ![s].doc = new]
    /\ UNCHANGED <<store, sockets, history, overlaps>>

(* Where a handler goes from savePlayer.                                   *)
AfterSave(kind) ==
    CASE kind = "join" -> "saveSession" [] kind = "kick" -> "revoke" [] OTHER -> "touch"

(* savePlayer, by any handler: the whole document, as computed from the    *)
(* copy that was read.                                                     *)
SavePlayer(s) ==
    /\ At(s, "savePlayer")
    /\ players' = [players EXCEPT ![op[s].who] = op[s].doc]
    /\ Goto(s, AfterSave(op[s].kind))
    /\ UNCHANGED <<room, sessions, sockets, history, overlaps>>

SaveSession(s) ==
    /\ At(s, "saveSession")
    /\ sessions' = [sessions EXCEPT ![op[s].who] = "live"]
    /\ Goto(s, "touch")
    /\ UNCHANGED <<room, players, sockets, history, overlaps>>

-----------------------------------------------------------------------------
(* kickPlayer, leaveRoom, renamePlayer, recolorPlayer *)

(* The host names a player that is in the store.                           *)
BeginKick(s, p) == Exists(p) /\ Start(s, "kick", p, "load")

(* Over the socket, or over HTTP with a session that is not revoked.       *)
BeginLeave(s, p) ==
    /\ p \in sockets \/ (p \in members /\ sessions[p] = "live")
    /\ Start(s, "leave", p, "load")

(* player:rename of his own; the host may rename and both may recolour.    *)
BeginEdit(s, p, kind) ==
    /\ room.lobby
    /\ Exists(p) /\ (kind = "rename" => p \in sockets)
    /\ Start(s, kind, p, "load")

(* A player renames himself once; the host may always rename.              *)
MayEdit(kind, d) == ~Gone(d) /\ (kind = "rename" => ~d.chosen)

(* Mutant: a kick is stored as a departure.                                *)
RemovedAsLeft(kind, d) == [d EXCEPT !.left = TRUE]

Removed(kind, d) ==
    IF kind = "kick" THEN [d EXCEPT !.kicked = TRUE] ELSE [d EXCEPT !.left = TRUE]

(* loadPlayer, and what the handler will write back.                       *)
LoadPlayer(s) ==
    LET kind == op[s].kind
        d == players[op[s].who]
        goesOn(place, doc) == op' = [op EXCEPT ![s].pc = place, ![s].doc = doc]
    IN /\ At(s, "load")
       /\ \/ /\ kind = "kick" \/ (kind = "leave" /\ ~d.left)
             /\ goesOn("savePlayer", Removed(kind, d))
          \/ /\ kind = "leave" /\ d.left
             /\ Done(s)
          \/ /\ kind \in {"rename", "hostRename", "recolor"} /\ MayEdit(kind, d)
             /\ goesOn(IF kind = "recolor" THEN "savePlayer" ELSE "list", d)
          \/ /\ kind \in {"rename", "hostRename", "recolor"} /\ ~MayEdit(kind, d)
             /\ Done(s)
       /\ UNCHANGED <<store, sockets, history, overlaps>>

(* The names of the others, and the new name in the copy of the document.  *)
ListForRename(s) ==
    /\ At(s, "list") /\ Lists(op[s].kind) /\ op[s].kind # "join"
    /\ \E typed \in Names : \E new \in ResolveNames(typed, Active \ {op[s].who}) :
        op' = [op EXCEPT ![s].pc = "savePlayer",
                         ![s].doc = [@ EXCEPT !.text = new.text, !.chosen = TRUE,
                                              !.identity = None]]
    /\ UNCHANGED <<store, sockets, history, overlaps>>

(* Mutant: the session is left to expire.                                  *)
RevokedLater(p) == sessions

(* The session that a kick finds is revoked; there may be none yet.        *)
Revoked(p) ==
    IF sessions[p] = "none" THEN sessions ELSE [sessions EXCEPT ![p] = "revoked"]

(* loadSession and saveSession in one step: only the join that makes a     *)
(* session writes it beside a kick, and it writes it once.                 *)
RevokeSession(s) ==
    /\ At(s, "revoke")
    /\ sessions' = Revoked(op[s].who)
    /\ Goto(s, "touch")
    /\ UNCHANGED <<room, players, sockets, history, overlaps>>

-----------------------------------------------------------------------------
(* setRoomLocked, updateConfig, and touchRoom *)

(* Mutant: the room is written from its defaults.                          *)
ChangedFromDefault(r, kind, value) ==
    [r EXCEPT !.settings = [locked |-> kind = "lock" /\ value,
                            allowLateJoin |-> kind = "lock" \/ value]]

(* The room as read, with the setting that the host changed.               *)
Changed(r, kind, value) ==
    IF kind = "lock" THEN [r EXCEPT !.settings.locked = value]
    ELSE [r EXCEPT !.settings.allowLateJoin = value]

BeginSetting(s) ==
    /\ At(s, "idle")
    /\ \E kind \in RoomKinds, value \in BOOLEAN :
        /\ kind = "config" => room.lobby
        /\ op' = [op EXCEPT ![s] =
                    [pc |-> "touch", kind |-> kind, room |-> Changed(room, kind, value)]]
        /\ Begins(kind, None)
    /\ UNCHANGED <<store, sockets, history>>

Touches(s) == At(s, "touch")

(* touchRoom writes the whole room document that the handler read, and the *)
(* client, or the host, gets its answer.                                   *)
Touch(s) ==
    LET kind == op[s].kind
    IN /\ Touches(s)
       /\ room' = op[s].room
       /\ IF kind = "kick" THEN Goto(s, "disconnect") ELSE Done(s)
       /\ members' = IF kind = "join" THEN members \cup {op[s].who} ELSE members
       /\ UNCHANGED <<players, sessions, sockets, removed, overlaps>>

(* After the kick was acknowledged: the sockets of the session are closed. *)
Disconnect(s) ==
    /\ At(s, "disconnect")
    /\ sockets' = sockets \ {op[s].who}
    /\ removed' = removed \cup {op[s].who}
    /\ Done(s)
    /\ UNCHANGED <<store, members, overlaps>>

-----------------------------------------------------------------------------
(* Sockets, the match, and failures *)

(* Mutant: revocation is not asked.                                        *)
RecognisesAny(p) == sessions[p] # "none"

(* lookupSessionByToken *)
Recognises(p) == sessions[p] = "live"

Connect(p) ==
    /\ p \in members \ sockets
    /\ Recognises(p)
    /\ sockets' = sockets \cup {p}
    /\ UNCHANGED <<store, op, history, overlaps>>

DropSocket(p) ==
    /\ p \in sockets
    /\ sockets' = sockets \ {p}
    /\ UNCHANGED <<store, op, history, overlaps>>

(* The match leaves the lobby or comes back to it.                         *)
MatchMoves ==
    /\ Begins("match", None)
    /\ room' = [room EXCEPT !.lobby = ~@]
    /\ UNCHANGED <<players, sessions, sockets, op, history>>

(* A store call throws: the handler ends there.                            *)
Abort(s) ==
    /\ ~At(s, "idle")
    /\ Done(s)
    /\ UNCHANGED <<store, sockets, history, overlaps>>

(* The process stops; handlers and sockets are gone.                       *)
Crash ==
    /\ op' = [s \in Slots |-> Idle]
    /\ sockets' = {}
    /\ UNCHANGED <<store, history, overlaps>>

-----------------------------------------------------------------------------
Next ==
    \/ \E s \in Slots, p \in Players :
        \/ BeginJoin(s, p) \/ BeginKick(s, p) \/ BeginLeave(s, p)
        \/ \E kind \in {"rename", "hostRename", "recolor"} : BeginEdit(s, p, kind)
    \/ \E s \in Slots :
        \/ ListForJoin(s) \/ SavePlayer(s) \/ SaveSession(s)
        \/ LoadPlayer(s) \/ ListForRename(s) \/ RevokeSession(s)
        \/ BeginSetting(s) \/ Touch(s) \/ Disconnect(s) \/ Abort(s)
    \/ \E p \in Players : Connect(p) \/ DropSocket(p)
    \/ MatchMoves \/ Crash

Spec == Init /\ [][Next]_vars

-----------------------------------------------------------------------------
TypeOK ==
    /\ room \in RoomDocs
    /\ players \in [Players -> PlayerDocs \cup {NoPlayer}]
    /\ sessions \in [Players -> {"none", "live", "revoked"}]
    /\ {sockets, members, removed} \subseteq SUBSET Players
    /\ op \in [Slots -> Handlers]
    /\ raced \subseteq {"lists", "docs", "room", "halfJoined"}
    /\ begun \in 0..MaxHandlers

(* No more players than the host allows take part, unless two handlers     *)
(* listed the players at the same time, or a handler wrote back a player   *)
(* who left or was kicked meanwhile.                                       *)
CapacityHolds ==
    raced \cap {"lists", "docs"} = {} => Cardinality(Active) <= MaxPlayers

(* Two players who take part and who both typed a name bear different      *)
(* names, and two who were given an identity different identities, under   *)
(* the same exception.  A name that is typed is compared with the names    *)
(* shown by then, those of identities included; the name of an identity    *)
(* that is given out later is compared with no typed name, so a typed name *)
(* and the name of an identity may be the same.                            *)
NamesTellApart ==
    raced \cap {"lists", "docs"} = {} =>
        \A p, q \in Active : p # q =>
            /\ players[p].chosen /\ players[q].chosen =>
                players[p].text # players[q].text
            /\ players[p].identity # None => players[p].identity # players[q].identity

(* A handler changes nothing of the room but the setting it was asked to   *)
(* change: what the host has set and the phase the match has reached stay, *)
(* unless a change of the room overlapped a handler; every handler writes  *)
(* back the whole room as it read it.                                      *)
RoomHolds ==
    [][\A s \in Slots :
        Touch(s) /\ "room" \notin raced =>
            /\ room'.lobby = room.lobby
            /\ room'.settings.locked # room.settings.locked => op[s].kind = "lock"
            /\ room'.settings.allowLateJoin # room.settings.allowLateJoin =>
                op[s].kind = "config"]_vars

(* Whoever has a token has a session and a player behind it, wherever the  *)
(* handlers stop and however they overlap.                                 *)
TokenHasPlayer ==
    /\ \A p \in Players : sessions[p] # "none" => Exists(p)
    /\ \A p \in members : sessions[p] # "none"

(* A player whose session is revoked does not take part any more, unless   *)
(* another handler wrote him back.                                         *)
RevokedIsGone ==
    "docs" \notin raced =>
        \A p \in Players : sessions[p] = "revoked" => players[p].kicked

(* Sessions, tokens and players agree, in both ways.                       *)
SessionsFit == TokenHasPlayer /\ RevokedIsGone

(* Once a kick has run to its end the kicked player has no socket in the   *)
(* room and his token opens none, whatever overlapped, unless he was       *)
(* kicked before his session was stored.                                   *)
KickedIsOut ==
    "halfJoined" \notin raced =>
        \A p \in removed : sessions[p] = "revoked" /\ p \notin sockets
=============================================================================
