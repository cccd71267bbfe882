SPECIFICATION Spec
CONSTANTS
    kbc = kbc
    tty = tty
    stsh = stsh
    Tasks = {kbc, tty, stsh}
    Size = 3
    ReadLengths = {1, 2, 4}
    WriteLengths = {1, 2, 3}
    Closers = {kbc, tty, stsh}
    MaxBytes = 5
SYMMETRY Symmetric
INVARIANTS
    TypeOK
    HoldsTheUnread
PROPERTY
    ImplementsChannel
