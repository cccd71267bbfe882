SPECIFICATION Spec
CONSTANTS
    Keys <- MCKeys
    MaxStruck = 2
    MaxUnread = 6
INVARIANTS
    TypeOK
    TypedAsStruck
    InStep
