SPECIFICATION OrderlySpec
CONSTANTS
    Handle = {h1, h2, h3}
    NULL = NULL
    MaxPID = 3
    MaxFiles = 4
    vga = vga
    elf = elf
    tty = tty
    Paths = {vga, elf, tty}
    Screen = vga
    Program = elf
    Fifos = {tty}
    FileSize = 1
    Modes <- ReadWrite
    Redirected = {"stdin"}
SYMMETRY Symmetric
INVARIANTS
    TypeOK
    CountersExact
    ClosedOnce
CHECK_DEADLOCK FALSE
