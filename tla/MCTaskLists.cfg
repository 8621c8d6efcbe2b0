CONSTANTS
    a = a
    b = b
    c = c
    d = d
    Null = Null
    Task = {a, b, c, d}
    Priority <- TwoLevels
    MaxPriority = 2
    MaxTasks = 4
SPECIFICATION Spec
PROPERTIES ImplementsQueues
