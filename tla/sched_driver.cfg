SPECIFICATION HandlerSpec
CONSTANTS
    MaxPID = 5
    Irqs = {33}
    MaxCalls = 2
    Files = {"elf", "missing"}
    Calls <- DriverCalls
INVARIANTS
    ContextConsistent
    RunsInOwnPagedir
PROPERTIES
    PoppedByItsHandler
    RpcsComplete
