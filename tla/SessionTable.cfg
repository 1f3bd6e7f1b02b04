SPECIFICATION Spec
CONSTANTS
    d1 = d1
    d2 = d2
    Null = Null
    MaxID = 2
    Pointer = {a1, a2, a3}
    Device = {d1}
    Kind <- OneBlade
    Coin = {"BTC", "FIL"}
    Unit = {"mBTC"}
    DefaultUnit = "mBTC"
INVARIANTS TypeOK Ownership CreatedHandleIsOwn
PROPERTIES ImplementsHandleTable
