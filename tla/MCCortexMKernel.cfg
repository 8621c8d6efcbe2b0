CONSTANTS
    Idle = idle
    Root = root
    a = a
    b = b
    NoTask = NoTask
    Task = {idle, root, a, b}
    MaxPriority = 2
    Priority <- TwoRealtime
    MaxTasks = 4
    TickMod = 6
    Delays = {1, 3}
    WindowInterrupts = FALSE
SPECIFICATION CmSpec
INVARIANTS CmOnePlace
