SPECIFICATION Spec
CONSTANTS
    MaxSession = 3
    MaxCommand = 3
    MaxTry = 2
INVARIANTS TypeOK InSync
PROPERTIES FreshAfterSelect
