SPECIFICATION Spec
CONSTANTS
    MaxCommand = 4
    MaxKeepAlive = 2
    MaxUnplug = 2
    AnswerLength = {1, 3}
INVARIANTS TypeOK
PROPERTIES OwnAnswer NeverTooSmall SuccessSettles
