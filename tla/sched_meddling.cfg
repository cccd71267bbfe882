SPECIFICATION Spec
CONSTANTS
    MaxPID = 3
    Irqs = {33}
    MaxCalls = 0
    Files = {"elf"}
    Calls <- MeddlingCalls
INVARIANT
    TerminatedDoesNotRun
