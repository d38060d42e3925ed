------------------------------ MODULE RoomBoard ------------------------------
(***************************************************************************)
(* What the directory of rooms promises to those who look a room up: a     *)
(* room opens once, under a code that no other open room has, keeps that   *)
(* code for as long as it is open, and never opens again.  Expiry, claims, *)
(* handlers and failures are details of RoomDirectory, which implements    *)
(* this specification.                                                     *)
(***************************************************************************)
CONSTANTS
    Rooms, Codes,
    Unopened, Closed    \* the places of a room that no code leads to

VARIABLE place          \* place[r]: the code under which room r is open

Stays(r) == place'[r] = place[r]

OpensUnder(r, c) ==
    /\ place[r] = Unopened
    /\ place'[r] = c
    /\ \A q \in Rooms \ {r} : place'[q] # c

Closes(r) == place[r] \in Codes /\ place'[r] = Closed

Init == place = [r \in Rooms |-> Unopened]

(* Several rooms may open or expire at the same time.                      *)
Next == \A r \in Rooms : Stays(r) \/ Closes(r) \/ \E c \in Codes : OpensUnder(r, c)

Spec == Init /\ [][Next]_place
=============================================================================
