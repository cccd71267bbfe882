SPECIFICATION FairSpec
CONSTANTS
    MaxPID = 3
    Irqs = {33}
    MaxCalls = 2
    Files = {"elf", "missing", "corrupt"}
    Calls <- AnyCalls
INVARIANTS
    TypeOK
    TaskListIntact
    SubtaskAlive
    OneRpcAtATime
PROPERTIES
    NobodyPassedOver
    KeepsPromise
    RpcsInTurn
    ScanEnds
    NoStarvation
