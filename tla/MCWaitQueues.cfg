CONSTANTS
    Isr = Isr
    Task = {t1, t2, t3}
    Capacity = 2
    Permits = 1
    Counts = {1, 2}
    MaxReleased = 3
SPECIFICATION Spec
SYMMETRY TaskSymmetry
INVARIANTS NobodyForgotten SignalNotMissed PermitsConserved StrandedOnlyInGap
