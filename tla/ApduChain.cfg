SPECIFICATION Spec
CONSTANTS
    SendOnce = 2
    FirstPack = 1
    ReadOnce = 2
    Flows = {"BTC", "MultiSig", "ETH", "TRX", "XRP", "TypedData", "SOL", "SOLToken", "Single"}
    Payloads <- ManyPayloads
    OutLength = {3, 4}
    MaxCall = 3
    MaxLate = 2
INVARIANTS TypeOK
PROPERTIES OnlyWholeSigned OwnResult LateAnswersNoticed OwnTypes CallReturns
CHECK_DEADLOCK FALSE
