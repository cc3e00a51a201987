SPECIFICATION OperatorSpec
CONSTANTS
    home = home  away = away  a1 = a1  a2 = a2  p1 = p1  p2 = p2  base = base  above = above  o1 = o1  o2 = o2
    Litter = Litter  None = None
    Procs = {p1, p2}  Tasks = {base, above}  Ops = {o1, o2}  DependsOn <- MCDependsOn
    Callers = {a1, a2}  Nobody = None  Texts = {"plain", "separator"}  MaxTokens = 1  MaxPayloads = 4
    Names = {"codex", "r"}  Registered = {"r"}  Default <- MCDefault  MaxEdits = 3
    MaxChecks = 1  MaxChanges = 1
    Projects = {home, away}  NoProject = None  Here = home  Threads = 2  MaxClicks = 2  MaxDisturbances = 1
    MaxEntries = 3  MaxRuns = 3  MayCrash = TRUE  MayLitter = TRUE
INVARIANTS
    SettingsAreUsed
    EvidenceIsKept
    RevertedOnce
    RollbackAgrees
    HandoffIsEarned
PROPERTIES
    WindowActsForItsProject
SYMMETRY Symmetric
CHECK_DEADLOCK FALSE
