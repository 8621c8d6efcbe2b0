CONSTANTS
    NoTask = NoTask
    Slots = 3
    Sleepers = {1, 3}
    MayEnd = {3}
    SleepTicks = 2
    TickMod = 7
    MaxLag = 2
SPECIFICATION LiveSpec
PROPERTIES FuturesResume
