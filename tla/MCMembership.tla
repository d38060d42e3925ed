---------------------------- MODULE MCMembership ----------------------------
(* Instances of Membership for TLC.  There is one name: typed, rendered     *)
(* from the identity and given by the generator.  Players and slots are     *)
(* interchangeable in every action and property.                            *)
EXTENDS Membership, TLC

CONSTANTS sanne, cow

MCRendered == [i \in {cow} |-> sanne]

Symmetry == Permutations(Players) \cup Permutations(Slots)
=============================================================================
