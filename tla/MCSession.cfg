CONSTANTS
    BufSize = 4
    FifoSize = 2
    Boards <- OneReader
    MaxBytes = 7
    LineCap = 3
    Commands <- TheCommands
    HereNames <- HereList
    BelowNames <- BelowList
    DirMax = 4
    NodeCap = 7
    PathCap = 3
    TargetCap = 2
    VolDepth = 2
    FileMax = 2
    Cuts <- TheCuts
    MountSlots = 2
    CountMax = 8
    Disks <- TheDisks
    DevFiles <- TheDevFiles
    PathArgs <- TheArgs
    TargetArgs <- TheTargets
    Texts <- TheTexts
    Slots = 4
    Width = 16
    UsizeMod = 32
    BufClusters = 8
    Media <- TheMedia
    Walks <- TheWalks
    Requests <- TheReads
    Tasks = {"t1", "t2"}
    FdCap = 2
    Places = 3
    RxCap = 1
    Prios = {1, 2}
    Budget = 6
SPECIFICATION SessionSpec
INVARIANTS EveryByteOnce BufferIsLine LastWriteRead PathsAgree CwdIsDirectory RequestsExact BuffersOwnedOnce HandleStillMine
PROPERTIES FailedChangesNothing RequestsEnd SocketCallsEnd
