CONSTANTS
    BufSize = 4
    FifoSize = 2
    Boards <- TwoReaders
    MaxBytes = 3
SPECIFICATION Spec
INVARIANT DeliveredOnce
