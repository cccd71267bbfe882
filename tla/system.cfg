SPECIFICATION SSpec
CONSTANTS
    NULL = NULL
    shell_task = shell_task
    tty_task = tty_task
    a = a
    d = d
    o = o
    nl = nl
    bs = bs
    clr = clr
    sp = sp
    qt = qt
    bsl = bsl
    gt = gt
    sh = shell_task
    tty = tty_task
    Tasks = {shell_task, tty_task}
    Size = 1
    ReadLengths = {1}
    WriteLengths = {1}
    Closers = {}
    MaxBytes = 300
    Columns = 4
    Rows = 3
    NL = nl
    BS = bs
    SETCLR = clr
    SP = sp
    QT = qt
    BSL = bsl
    GT = gt
    Letters = {a, sp, qt, gt}
    Glyphs = {a, d, o, sp, qt, bsl, gt}
    Prompt <- MCPrompt
    Outputs <- MCOutputs
    Archives <- MCArchives
    MaxStruck = 1
    MaxResends = 1
    MaxCalls = 2
    MaxKeys = 5
INVARIANTS
    CursorOnScreen
    EchoShowsLine
    ArgumentsAsTyped
    NoMutualBlock
    ShellHasServices
    KeyboardAlive
PROPERTY
    PromptAppears
CHECK_DEADLOCK FALSE
