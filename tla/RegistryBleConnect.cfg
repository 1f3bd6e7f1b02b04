SPECIFICATION Spec
CONSTANTS
    blade = blade
    bio = bio
    card = card
    Null = Null
    MaxID = 3
    Pointer = {a1, a2, a3}
    Mode = {"BLE", "NFC", "SWI"}
    Name = {n1}
    Peer = {blade, bio, card}
    PeerProduct <- OneOfEach
    MaxDevice = 2
INVARIANTS ConnectReaches
