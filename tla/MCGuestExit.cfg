CONSTANTS
    VmCap = 2
    VmNames = {"a", "b", "c"}
    BadNames = {"", "long"}
    Images <- TheImages
    MemWords = 2
    PcMod = 8
    IdMod = 16
SPECIFICATION HvSpec
INVARIANTS AdvancesPastEcall
CHECK_DEADLOCK FALSE
