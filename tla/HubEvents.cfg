\* Engines that report everything, engines of different capabilities, and
\* sessions that compete.
CONSTANTS
    Scenes = {"engines", "events", "budget"}
    Session = {u1, u2, u3}
    r1 = r1
    r2 = r2
    r3 = r3
    Route = {r1, r2, r3}
    NoRoute = NoRoute
    Native = {n1, n2}
    OnlyNative = n1
    NoNative = NoNative
    Tool = {t1}
    NoTool = NoTool
    MaxRevision = 1
    MaxBranch = 2
    HandoffLimit = 1
    MaxTurn = 2
    MaxAttempt = 2
    Registered = {r1, r2, r3}
    Capable = {r2, r3}
    Resumable = {r1, r3}
    ToolControlled = {r1, r3}
    WaitCapable = {r1, r3}
    Caller = {}
    MaxActive = 2
    MaxTries = 8
    MaxRun = 2
    MaxFault = 1
SPECIFICATION MCSpec
SYMMETRY Symmetry
INVARIANTS
    OwnerAndStoreAgree
PROPERTIES
    ReportsAreJudgedOnce
CHECK_DEADLOCK FALSE
