CONSTANTS
    Words = 3
    Bits = 3
    None = None
    PtEntries = 2
    PtFrames = {0, 1, 2, 3, 4, 5}
    PtSpare = 3
    VPages = {0, 1, 2, 6, 8}
    PPages = {0, 2}
    NoPte = NoPte
    Plans <- BootPlans
    SlabN = 4
    IrqTasks = {s, t}
    Locks = {a, b}
    Handlers <- HandlerNames
    Boot = Boot
    Nobody = Nobody
    VmCap = 2
    VmNames = {"a", "b", "c"}
    BadNames = {"", "long"}
    Images <- TheImages
    MemWords = 2
    PcMod = 8
    IdMod = 16
    ServiceCap = 2
    ElfImages <- TheElfs
    Addresses <- TheAddresses
SPECIFICATION MemSpec
CHECK_DEADLOCK FALSE
INVARIANTS TranslatesAsTold MemoryIdentical FreeListExact NoSpinForEver MaskedOnlyInside MemoryIsImage ServicesAccounted MemoryIsSegments
PROPERTIES AllocLowest ImplementsPool
