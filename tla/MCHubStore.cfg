CONSTANTS
    Session = {s1}
    Route = {r1, r2, r3}
    NoRoute = NoRoute
    Native = {n1, n2}
    OnlyNative = n1
    NoNative = NoNative
    Tool = {}
    NoTool = NoTool
    MaxRevision = 1
    MaxBranch = 2
    HandoffLimit = 1
    MaxTurn = 3
    MaxAttempt = 4
SYMMETRY Symmetry
SPECIFICATION MCSpec
INVARIANTS
    TypeOK
    RowsAgree
    NoUnsafeReplay
    SuccessIsReal
    NoDeadEnd
    WatermarkCovered
PROPERTIES
    RoutesAreChosen
    NothingIsRewritten
CHECK_DEADLOCK FALSE
