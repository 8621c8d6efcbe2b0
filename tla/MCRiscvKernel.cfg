CONSTANTS
    Idle = idle
    Root = root
    a = a
    b = b
    NoTask = NoTask
    Task = {idle, root, a, b}
    MaxPriority = 2
    Priority <- TwoRealtime
    MaxTasks = 4
    TickMod = 5
    Delays = {0, 3}
SPECIFICATION LiveSpec
INVARIANTS OnePlace RunsOnlyRunning
PROPERTIES SleepsAsAsked TickRunsHighest SleepersWake TopLevelRuns
