SPECIFICATION Spec
CONSTANTS
    d1 = d1
    d2 = d2
    Null = Null
    MaxID = 1
    Pointer = {a1}
    Device = {d1, d2}
    Kind <- BladeAndLite
    Coin = {"BTC", "LTC", "HC", "CKB", "ETH", "FIL", "XRP", "EOS", "TRX", "SOL", "DOT", "KSM"}
    Unit = {"mBTC", "uBTC"}
    DefaultUnit = "mBTC"
INVARIANT UndisturbedInProfile
