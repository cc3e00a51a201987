CONSTANTS
    p1 = p1
    p2 = p2
    t1 = t1
    t2 = t2
    o1 = o1
    o2 = o2
    o3 = o3
    Outside = Outside
    Litter = Litter
    None = None
    Procs <- OneProc
    Tasks <- OneTask
    Ops <- ThreeOps
    MaxAttempts = 3
    MaxOutside = 1
    MayCrash = TRUE
    MayLitter = TRUE
    JournalErrors = {}
SPECIFICATION Spec
SYMMETRY ThreeOpNames
INVARIANTS
    PatchInTreeIsOpen
    CommittedIsNeverRedone
