SPECIFICATION Spec
CONSTANTS
    d1 = d1
    d2 = d2
    Null = Null
    MaxID = 2
    Pointer = {a1}
    Device = {d1}
    Kind <- OneBlade
    Coin = {"BTC", "FIL"}
    Unit = {"mBTC", "uBTC"}
    DefaultUnit = "mBTC"
PROPERTIES CleanUpForcesActiveSelf
