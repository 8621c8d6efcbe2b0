CONSTANTS
    Idle = idle
    Root = root
    a = a
    b = b
    NoTask = NoTask
    Task = {idle, root, a, b}
    MaxPriority = 2
    Priority <- OneRealtime
    MaxTasks = 4
    TickMod = 5
    Delays = {1}
SPECIFICATION Spec
PROPERTY RealtimePreempts
