SPECIFICATION Spec
CONSTANTS
    sanne = sanne
    cow = cow
    Players = {p1, p2, p3}
    MaxPlayers = 2
    Names = {sanne}
    Pairs = {cow}
    Rendered <- MCRendered
    Label = sanne
    Slots = {s1, s2}
    MaxHandlers = 4
    None = None
INVARIANTS
    TypeOK
    CapacityHolds
    NamesTellApart
    SessionsFit
    KickedIsOut
PROPERTIES
    RoomHolds
SYMMETRY Symmetry
