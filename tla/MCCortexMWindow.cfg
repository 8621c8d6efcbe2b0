CONSTANTS
    Idle = idle
    Root = root
    a = a
    b = b
    NoTask = NoTask
    Task = {idle, root, a, b}
    MaxPriority = 2
    Priority <- TwoRealtime
    MaxTasks = 4
    TickMod = 5
    Delays = {1}
    WindowInterrupts = TRUE
SPECIFICATION CmSpec
INVARIANT SelectedIsNext
