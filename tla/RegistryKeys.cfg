SPECIFICATION Spec
CONSTANTS
    blade = blade
    bio = bio
    card = card
    Null = Null
    MaxID = 3
    Pointer = {a1, a2, a3}
    Mode = {"HID", "SIM"}
    Name = {n1, n2}
    Peer = {}
    PeerProduct <- NoPeers
    MaxDevice = 2
SYMMETRY Interchangeable
INVARIANTS TypeOK OneHandlePerKey ListReports
PROPERTIES OnlyGoneKeysLoseHandles ImplementsHandleTable
