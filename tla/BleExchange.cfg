SPECIFICATION Spec
CONSTANTS
    MaxCommand = 3
    MaxKeepAlive = 1
    MaxDrop = 2
    AnswerLength = {1, 3}
INVARIANTS TypeOK WholeAnswer OwnAnswer SuccessSettles
PROPERTIES DropReported EveryCallReturns
CHECK_DEADLOCK FALSE
