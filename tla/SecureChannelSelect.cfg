SPECIFICATION Spec
CONSTANTS
    MaxSession = 1
    MaxCommand = 1
    MaxTry = 1
PROPERTIES SelectClearsSession
