--------------------------- MODULE MCRoomDirectory ---------------------------
(* Instances of RoomDirectory for TLC.  Codes, invite ids, rooms, slots and *)
(* pepper versions are interchangeable in every action and property, and no *)
(* liveness is checked, so symmetry is sound.                               *)
EXTENDS RoomDirectory, TLC

Symmetry ==
    Permutations(Rooms) \cup Permutations(Codes) \cup Permutations(InviteIds)
        \cup Permutations(Slots) \cup Permutations(Versions)
=============================================================================
