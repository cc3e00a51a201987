SPECIFICATION FairSpec
CONSTANTS
    l1 = l1  l2 = l2
    Loops = {l1}
    Tasks = {1, 2, 3}
    DependsOn <- MCDependsOn
    Overlaps <- MCOverlaps
    Configs <- MCConfigs
    MaxOthers = 2
INVARIANTS
    ExitIsHonest
    BatchApart
PROPERTIES
    LoopsReturn
CHECK_DEADLOCK FALSE
