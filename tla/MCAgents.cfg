SPECIFICATION Spec
CONSTANTS
    c1 = c1  c2 = c2  g1 = g1  g2 = g2  r1 = r1  r2 = r2  None = None
    Commands = {1, 2}  Releases = {1, 2}  MaxStarts = 4
    Processes = {1, 2}  MaxTokens = 4  MaxLosses = 1
    \* A kind the policy may allow, and one the protocol does not know.
    KnownKinds = {"read", "other"}  ToolKinds = {"read", "weird"}
    Policies = {{}, {"read"}}  MaxSays = 1
    Clients = {r1, r2}  Mixes <- MCMixes  MaxEmits <- MCMaxEmits
    EventLimit = 2  TaskLimit = 1
    Talkers = {c1, c2}  Planners = {g1, g2}  MaxTurns = 2
    Plans <- MCPlans  KnownRoles = {"trio"}  NoRoles = "none"  NoPlan = "no plan"
    MaxRetries = 2
    Names <- MCNames  Spaced <- MCSpaced  Halves <- MCHalves  Decoy <- MCDecoy  Whole <- MCWhole
    Scopes <- MCScopes  Forbidden <- MCForbidden  EditLists <- MCEditLists
    First <- MCFirst  Configs <- MCConfigs
    MaxRuns = 2  MaxSetups = 2  MaxDocuments = 2  MaxExports = 2  MaxChanges = 1
INVARIANTS
    LaunchesAreWhole
    SignedInStays
    PlansAndTurnsAreWhole
    CallsAreClean
    LocalTurnsHold
    RemoteResultsHold
    PatchesAreInScope
    ReviewsAreOfTheRun
CHECK_DEADLOCK FALSE
